------------------------------- MODULE Listing -------------------------------
(***************************************************************************)
(* Finite sets of numbers have a greatest member and can be listed in      *)
(* increasing order, so Selection selects what it says.                    *)
(*                                                                         *)
(* The argument is an induction over the finite subsets of a set, by the   *)
(* library's theorems that they are well-founded and that a well-founded   *)
(* relation has minimal elements.                                          *)
(***************************************************************************)
EXTENDS Selection, TLAPS, FiniteSetTheorems, SequenceTheorems, WellFoundedInduction

(* The numbers of a set above one of them.                                 *)
Above(I, x) == {y \in I : y > x}

(* Fewer numbers are above a greater one.                                  *)
LEMMA AboveLess ==
  ASSUME NEW I, I \subseteq Nat, NEW x \in I, NEW m \in I, x > m
  PROVE  <<Above(I, x), Above(I, m)>> \in StrictSubsetOrdering(I)
<1>1. x \in Above(I, m) /\ x \notin Above(I, x)
  BY DEF Above
<1>2. \A y \in Above(I, x) : y \in Above(I, m)
  BY DEF Above
<1>3. Above(I, x) \in SUBSET I /\ Above(I, m) \in SUBSET I
  BY DEF Above
<1>4. Above(I, x) # Above(I, m) /\ Above(I, x) \subseteq Above(I, m)
  BY <1>1, <1>2
<1>5. QED
  BY <1>3, <1>4 DEF StrictSubsetOrdering

(* A finite set of numbers has a greatest: of the sets of numbers above a  *)
(* member, a smallest is empty.                                            *)
LEMMA Greatest ==
  ASSUME NEW I, I \subseteq Nat, IsFiniteSet(I), I # {}
  PROVE  \E m \in I : \A x \in I : x <= m
<1> DEFINE R == StrictSubsetOrdering(I)
           T == {Above(I, x) : x \in I}
<1>1. IsWellFoundedOn(R, FiniteSubsetsOf(I)) /\ FiniteSubsetsOf(I) = SUBSET I
  BY FS_StrictSubsetOrderingWellFounded, FS_FiniteSubsetsOfFinite
<1>2. T \subseteq SUBSET I /\ T # {}
  <2>1. \A x \in I : Above(I, x) \in SUBSET I
    BY DEF Above
  <2>2. QED
    BY <2>1
<1>3. PICK X \in T : \A Y \in T : <<Y, X>> \notin R
  <2> HIDE DEF R, T
  <2>1. IsWellFoundedOn(R, SUBSET I)
    BY <1>1
  <2>2. QED
    BY <1>2, <2>1, WFMin
<1>4. PICK m \in I : X = Above(I, m)
  BY <1>3
<1>5. ASSUME NEW x \in I, ~(x <= m) PROVE FALSE
  <2> HIDE DEF R, T
  <2>1. x > m
    <3>1. x \in Nat /\ m \in Nat
      OBVIOUS
    <3>2. QED
      BY <1>5, <3>1
  <2>2. <<Above(I, x), Above(I, m)>> \in R /\ Above(I, x) \in T
    BY <2>1, AboveLess DEF R, T
  <2>3. QED
    BY <1>3, <1>4, <2>2
<1>6. QED
  BY <1>5

(* The places in their order: there is such a list.                        *)
Listed(I, q) == /\ q \in [1 .. Cardinality(I) -> I]
                /\ \A i, j \in 1 .. Cardinality(I) : i < j => q[i] < q[j]

(* Of the subsets that have no such list a smallest would lose its         *)
(* greatest member, be listed, and get it back at the end.                 *)
LEMMA CanBeListed ==
  ASSUME NEW I, I \subseteq Nat, IsFiniteSet(I)
  PROVE  \E q : Listed(I, q)
<1> DEFINE R == StrictSubsetOrdering(I)
           T == {J \in SUBSET I : ~ \E q : Listed(J, q)}
<1>1. IsWellFoundedOn(R, FiniteSubsetsOf(I)) /\ FiniteSubsetsOf(I) = SUBSET I
  BY FS_StrictSubsetOrderingWellFounded, FS_FiniteSubsetsOfFinite
<1>2. ASSUME T # {} PROVE FALSE
  <2>1. PICK J \in T : \A K \in T : <<K, J>> \notin R
    <3>1. T \subseteq FiniteSubsetsOf(I)
      BY <1>1
    <3> HIDE DEF R, T
    <3>2. QED
      BY <1>1, <1>2, <3>1, WFMin
  <2>2. IsFiniteSet(J) /\ J \subseteq I /\ J \subseteq Nat
    BY <2>1, FS_Subset
  <2>3. J # {}
    <3>1. Cardinality({}) = 0
      BY FS_EmptySet
    <3>2. Listed({}, [i \in {} |-> 0])
      BY <3>1 DEF Listed
    <3>3. QED
      BY <2>1, <3>2
  <2>4. PICK m \in J : \A x \in J : x <= m
    BY <2>2, <2>3, Greatest
  <2> DEFINE K == J \ {m}
             n == Cardinality(K)
  <2>5. <<K, J>> \in R
    BY <2>2, <2>4 DEF StrictSubsetOrdering
  <2>6. PICK q : Listed(K, q)
    BY <2>1, <2>2, <2>5
  <2>7. n \in Nat /\ Cardinality(J) = n + 1
    <3>1. IsFiniteSet(K) /\ Cardinality(K) = Cardinality(J) - 1
      BY <2>2, <2>4, FS_RemoveElement
    <3>2. Cardinality(J) \in Nat /\ Cardinality(K) \in Nat
      BY <2>2, <3>1, FS_CardinalityType
    <3>3. QED
      BY <3>1, <3>2
  <2> DEFINE p == [i \in 1 .. n + 1 |-> IF i = n + 1 THEN m ELSE q[i]]
  <2>8. q \in [1 .. n -> K] /\ \A i, j \in 1 .. n : i < j => q[i] < q[j]
    BY <2>6 DEF Listed
  <2> HIDE DEF n, T
  <2>9. p \in [1 .. n + 1 -> J]
    BY <2>7, <2>8
  <2>10. ASSUME NEW i \in 1 .. n + 1, NEW j \in 1 .. n + 1, i < j PROVE p[i] < p[j]
    <3>1. i \in 1 .. n
      BY <2>7, <2>10
    <3>2. q[i] < m
      <4>1. q[i] \in K
        BY <2>8, <3>1
      <4>2. q[i] \in J /\ q[i] # m /\ q[i] \in Nat /\ m \in Nat
        BY <2>2, <2>4, <4>1
      <4>3. q[i] <= m
        BY <2>4, <4>2
      <4>4. QED
        BY <4>2, <4>3
    <3>3. p[i] = q[i]
      BY <2>7, <3>1
    <3>4. CASE j = n + 1
      BY <2>7, <3>2, <3>3, <3>4
    <3>5. CASE j # n + 1
      BY <2>7, <2>8, <2>10, <3>1, <3>3, <3>5
    <3>6. QED
      BY <3>4, <3>5
  <2> HIDE DEF p, K
  <2>11. Listed(J, p)
    BY <2>7, <2>9, <2>10 DEF Listed
  <2>12. QED
    BY <2>1, <2>11 DEF T
<1>3. QED
  BY <1>2

-----------------------------------------------------------------------------
(* What is selected from a sequence, place by place.                       *)

(* InOrder is a list of the places.                                        *)
LEMMA InOrderListed ==
  ASSUME NEW I, I \subseteq Nat, IsFiniteSet(I)
  PROVE  Listed(I, InOrder(I))
<1>1. \E q \in [1 .. Cardinality(I) -> I] :
        \A i, j \in 1 .. Cardinality(I) : i < j => q[i] < q[j]
  BY CanBeListed DEF Listed
<1>2. QED
  BY <1>1 DEF Listed, InOrder

(* What is selected from a sequence was in it, each place once, in order.  *)
LEMMA Selected ==
  ASSUME NEW S, NEW s \in Seq(S), NEW I, I \subseteq DOMAIN s
  PROVE  LET t == Select(s, I)
             at == InOrder(I)
         IN /\ t \in Seq(S)
            /\ \A k \in DOMAIN t : at[k] \in I /\ t[k] = s[at[k]]
            /\ \A k, l \in DOMAIN t : at[k] = at[l] => k = l
            /\ \A k, l \in DOMAIN t : k < l => at[k] < at[l]
            /\ \A i \in I : \E k \in DOMAIN t : at[k] = i
<1> DEFINE n == Cardinality(I)
           at == InOrder(I)
           t == Select(s, I)
<1>1. /\ DOMAIN s = 1 .. Len(s) /\ Len(s) \in Nat /\ I \subseteq Nat
      /\ \A i \in DOMAIN s : s[i] \in S
  BY LenProperties, ElementOfSeq
<1>2. IsFiniteSet(I)
  <2>1. IsFiniteSet(1 .. Len(s))
    BY <1>1, FS_Interval
  <2>2. QED
    BY <1>1, <2>1, FS_Subset
<1>3. n \in Nat
  BY <1>2, FS_CardinalityType
<1>4. at \in [1 .. n -> I] /\ \A i, j \in 1 .. n : i < j => at[i] < at[j]
  BY <1>1, <1>2, InOrderListed DEF Listed
<1>5. t = [i \in 1 .. n |-> s[at[i]]]
  BY DEF Select
<1> HIDE DEF n, at, t
<1>6. \A i \in 1 .. n : at[i] \in I /\ at[i] \in DOMAIN s /\ s[at[i]] \in S
  BY <1>1, <1>4
<1>7. t \in [1 .. n -> S]
  BY <1>5, <1>6
<1>8. t \in Seq(S)
  BY <1>3, <1>7, SeqDef
<1>9. \A k, l \in 1 .. n : at[k] = at[l] => k = l
  <2> SUFFICES ASSUME NEW k \in 1 .. n, NEW l \in 1 .. n, at[k] = at[l], k # l PROVE FALSE
    OBVIOUS
  <2>1. at[k] \in Nat /\ at[l] \in Nat
    BY <1>1, <1>6
  <2>2. k < l \/ l < k
    BY <1>3
  <2>3. QED
    BY <1>4, <2>1, <2>2
<1>10. \A i \in I : \E k \in 1 .. n : at[k] = i
  <2>1. at \in Injection(1 .. n, I)
    BY <1>4, <1>9 DEF Injection, IsInjective
  <2>2. Cardinality(1 .. n) = n
    BY <1>3, FS_Interval
  <2>3. at \in Surjection(1 .. n, I)
    BY <1>2, <2>1, <2>2, FS_Injection DEF n
  <2>4. QED
    BY <2>3 DEF Surjection
<1>11. QED
  BY <1>4, <1>5, <1>6, <1>8, <1>9, <1>10 DEF n, at, t
=============================================================================
