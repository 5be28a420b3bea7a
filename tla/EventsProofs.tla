---------------------------- MODULE EventsProofs ----------------------------
(***************************************************************************)
(* Theorems about Events for any names of events, any number of calls and  *)
(* turns, whatever handlers leave on the stack.                            *)
(***************************************************************************)
EXTENDS Events, Listing

-----------------------------------------------------------------------------
(* Deques, element by element.                                             *)
LEMMA EmptyDeque ==
  ASSUME NEW S, NEW s \in Seq(S)
  PROVE  Len(s) \in Nat /\ (s = <<>> <=> Len(s) = 0) /\ DOMAIN s = 1 .. Len(s)
  BY EmptySeq, LenProperties

(* The two parts of a sequence.                                            *)
LEMMA TakeDrop ==
  ASSUME NEW S, NEW s \in Seq(S), NEW t \in Seq(S)
  PROVE  LET u == s \o t
             n == Len(u) - Len(t)
         IN SubSeq(u, 1, n) = s /\ SubSeq(u, n + 1, Len(u)) = t
<1> DEFINE u == s \o t
           n == Len(u) - Len(t)
<1>1. /\ u \in Seq(S) /\ Len(u) = Len(s) + Len(t)
      /\ \A i \in 1 .. Len(s) + Len(t) : u[i] = IF i <= Len(s) THEN s[i] ELSE t[i - Len(s)]
  BY ConcatProperties
<1>2. Len(s) \in Nat /\ Len(t) \in Nat
  BY LenProperties
<1>3. n = Len(s)
  BY <1>1, <1>2
<1> HIDE DEF u, n
<1>4. \A i \in 1 .. Len(u) : u[i] \in S
  BY <1>1, ElementOfSeq
<1>5. SubSeq(u, 1, n) = s
  <2>1. \A i \in 1 .. n : u[i] \in S
    BY <1>1, <1>2, <1>3, <1>4
  <2>2. /\ SubSeq(u, 1, n) \in Seq(S)
        /\ Len(SubSeq(u, 1, n)) = IF 1 <= n THEN n - 1 + 1 ELSE 0
        /\ \A i \in 1 .. n - 1 + 1 : SubSeq(u, 1, n)[i] = u[1 + i - 1]
    BY <1>2, <1>3, <2>1, SubSeqProperties
  <2>3. Len(SubSeq(u, 1, n)) = Len(s)
    BY <1>2, <1>3, <2>2
  <2>4. \A i \in 1 .. Len(s) : SubSeq(u, 1, n)[i] = s[i]
    BY <1>1, <1>2, <1>3, <2>2
  <2>5. QED
    BY <2>2, <2>3, <2>4, SeqEqual
<1>6. SubSeq(u, n + 1, Len(u)) = t
  <2>1. \A i \in n + 1 .. Len(u) : u[i] \in S
    BY <1>1, <1>2, <1>3, <1>4
  <2>2. /\ SubSeq(u, n + 1, Len(u)) \in Seq(S)
        /\ Len(SubSeq(u, n + 1, Len(u))) =
             IF n + 1 <= Len(u) THEN Len(u) - (n + 1) + 1 ELSE 0
        /\ \A i \in 1 .. Len(u) - (n + 1) + 1 :
             SubSeq(u, n + 1, Len(u))[i] = u[n + 1 + i - 1]
    BY <1>1, <1>2, <1>3, <2>1, SubSeqProperties
  <2>3. Len(SubSeq(u, n + 1, Len(u))) = Len(t)
    BY <1>1, <1>2, <1>3, <2>2
  <2>4. \A i \in 1 .. Len(t) : SubSeq(u, n + 1, Len(u))[i] = t[i]
    BY <1>1, <1>2, <1>3, <2>2
  <2>5. QED
    BY <2>2, <2>3, <2>4, SeqEqual
<1>7. QED
  BY <1>5, <1>6 DEF u, n

(* What all members of two sequences are, all of both together are.        *)
LEMMA ConcatModes ==
  ASSUME NEW S, NEW s \in Seq(S), NEW t \in Seq(S), NEW mode,
         \A i \in DOMAIN s : s[i].mode = mode,
         \A i \in DOMAIN t : t[i].mode = mode
  PROVE  \A i \in DOMAIN (s \o t) : (s \o t)[i].mode = mode
<1>1. /\ Len(s) \in Nat /\ Len(t) \in Nat
      /\ DOMAIN s = 1 .. Len(s) /\ DOMAIN t = 1 .. Len(t)
  BY LenProperties
<1>2. /\ s \o t \in Seq(S) /\ Len(s \o t) = Len(s) + Len(t)
      /\ \A i \in 1 .. Len(s) + Len(t) :
           (s \o t)[i] = IF i <= Len(s) THEN s[i] ELSE t[i - Len(s)]
  BY ConcatProperties
<1>3. DOMAIN (s \o t) = 1 .. Len(s) + Len(t)
  BY <1>2, LenProperties
<1>4. QED
  BY <1>1, <1>2, <1>3

(* What moves from the head of one sequence to the end of another.         *)
LEMMA HeadMoves ==
  ASSUME NEW S, NEW s \in Seq(S), NEW t \in Seq(S), t # <<>>
  PROVE  Append(s, Head(t)) \o Tail(t) = s \o t
<1>1. Head(t) \in S /\ Tail(t) \in Seq(S)
  BY HeadTailProperties
<1>2. Append(s, Head(t)) = s \o <<Head(t)>>
  BY <1>1, AppendIsConcat
<1>3. <<Head(t)>> \in Seq(S)
  BY <1>1
<1>4. <<Head(t)>> \o Tail(t) = t
  <2>1. Len(t) \in Nat /\ Len(t) # 0 /\ Head(t) = t[1]
    BY EmptyDeque
  <2>2. /\ <<Head(t)>> \o Tail(t) \in Seq(S)
        /\ Len(<<Head(t)>> \o Tail(t)) = 1 + Len(Tail(t))
        /\ \A i \in 1 .. 1 + Len(Tail(t)) :
             (<<Head(t)>> \o Tail(t))[i] = IF i <= 1 THEN Head(t) ELSE Tail(t)[i - 1]
    BY <1>1, <1>3, ConcatProperties
  <2>3. /\ Len(Tail(t)) = Len(t) - 1
        /\ \A i \in 1 .. Len(Tail(t)) : Tail(t)[i] = t[i + 1]
    BY HeadTailProperties
  <2>4. \A i \in 1 .. Len(t) : (<<Head(t)>> \o Tail(t))[i] = t[i]
    BY <2>1, <2>2, <2>3
  <2>5. QED
    BY <2>1, <2>2, <2>3, <2>4, SeqEqual
<1>5. QED
  BY <1>1, <1>2, <1>3, <1>4, ConcatAssociative

-----------------------------------------------------------------------------
(* The invariant.  Every id was handed out by a call; a registration that  *)
(* is there was not taken out, and has an id of its own.                   *)
IdsCounted == nextId <= calls
Fresh == /\ \A e \in Names : \A i \in DOMAIN subscribers[e] :
              subscribers[e][i].id <= nextId /\ subscribers[e][i].id \notin removed
         /\ \A id \in removed : id <= nextId
Unique == \A e, f \in Names : \A i \in DOMAIN subscribers[e] : \A j \in DOMAIN subscribers[f] :
            subscribers[e][i].id = subscribers[f][j].id => e = f /\ i = j

(* Only handlers of events wait for a poll, and only they are called while *)
(* the task is pending.                                                    *)
ModesApart ==
  /\ \A i \in DOMAIN timers : timers[i].mode = "event"
  /\ outcome = "pending" => \A i \in DOMAIN callbacks : callbacks[i].mode = "event"

(* What was reported is what the state says from then on.                  *)
ReportStays == \A i \in DOMAIN told : /\ told[i] # "finished"
                                      /\ told[i] \in {"done", "failed"} => taskState = told[i]

EventsInv == /\ TypeOK /\ IdsCounted /\ Fresh /\ Unique
             /\ ModesApart /\ StartedInOrder /\ ReportsAgree /\ ReportStays

LEMMA EventsInit == Init => EventsInv
<1> SUFFICES ASSUME Init PROVE EventsInv
  OBVIOUS
<1>1. /\ 0 \in 0 .. MaxCalls /\ 0 \in 0 .. MaxTicks /\ 0 \in Nat /\ 0 <= 0
  BY BoundsAssumption
<1>2. frames \in Seq(Frame)
  <2>1. Running(0) \in Frame
    BY DEF Running, Frame
  <2>2. QED
    BY <2>1 DEF Init
<1>3. DOMAIN <<>> = {}
  OBVIOUS
<1>4. \A e \in Names : subscribers[e] = <<>>
  BY DEF Init
<1>5. TypeOK
  <2>1. <<>> \in Seq(Registration) /\ <<>> \in Seq(Firing) /\ <<>> \in Seq(Modes)
    BY EmptySeq
  <2>2. subscribers \in [Names -> Seq(Registration)]
    BY <2>1 DEF Init
  <2>3. exiting \in BOOLEAN
    BY DEF Init
  <2>4. QED
    BY <1>1, <1>2, <2>1, <2>2, <2>3 DEF Init, TypeOK
<1>6. IdsCounted /\ Fresh /\ Unique
  BY <1>1, <1>3, <1>4 DEF Init, IdsCounted, Fresh, Unique
<1>7. StartedInOrder
  BY DEF Init, StartedInOrder
<1>8. QED
  BY <1>3, <1>5, <1>6, <1>7 DEF Init, EventsInv, ModesApart, ReportsAgree, ReportStays

-----------------------------------------------------------------------------
(* What the operators of the actions return.                               *)
LEMMA FiringsType ==
  ASSUME TypeOK, NEW e \in Names
  PROVE  /\ Firings(e) \in Seq(Firing)
         /\ DOMAIN Firings(e) = DOMAIN subscribers[e]
         /\ \A i \in DOMAIN Firings(e) : /\ Firings(e)[i].mode = "event"
                                         /\ Firings(e)[i].id = subscribers[e][i].id
<1>1. subscribers[e] \in Seq(Registration)
  BY DEF TypeOK
<1>2. /\ Len(subscribers[e]) \in Nat /\ DOMAIN subscribers[e] = 1 .. Len(subscribers[e])
      /\ \A i \in DOMAIN subscribers[e] : subscribers[e][i] \in Registration
  BY <1>1, LenProperties, ElementOfSeq
<1>3. \A i \in DOMAIN subscribers[e] :
        [id |-> subscribers[e][i].id, mode |-> "event"] \in Firing
  BY <1>2 DEF Registration, Firing
<1>4. Firings(e) \in [1 .. Len(subscribers[e]) -> Firing]
  BY <1>2, <1>3 DEF Firings
<1>5. QED
  BY <1>2, <1>4, SeqDef DEF Firings

LEMMA TopType ==
  ASSUME TypeOK, frames # <<>>
  PROVE  Len(frames) \in 1 .. Len(frames) /\ Top \in Frame
<1>1. frames \in Seq(Frame)
  BY DEF TypeOK
<1>2. Len(frames) \in 1 .. Len(frames)
  BY <1>1, EmptyDeque
<1>3. QED
  BY <1>1, <1>2, ElementOfSeq DEF Top

LEMMA EnterType ==
  ASSUME TypeOK, frames # <<>>, NEW at \in {"running", "waiting", "polling"}, Enter(at)
  PROVE  frames' \in Seq(Frame)
<1>1. frames \in Seq(Frame) /\ Len(frames) \in 1 .. Len(frames) /\ Top \in Frame
  BY TopType DEF TypeOK
<1>2. [Top EXCEPT !.at = at] \in Frame
  BY <1>1 DEF Frame
<1>3. frames' = [frames EXCEPT ![Len(frames)] = [Top EXCEPT !.at = at]]
  BY DEF Enter, Top
<1>4. QED
  BY <1>1, <1>2, <1>3, ExceptSeq

(* callSoon: behind the callbacks that are queued, before the handlers     *)
(* that are not.                                                           *)
LEMMA CalledSoon ==
  ASSUME TypeOK, StartedInOrder, NEW new \in Seq(Firing), CallSoon(new)
  PROVE  /\ callbacks' = callbacks \o new
         /\ callbacks' \in Seq(Firing) /\ scheduled' \in Seq(Firing)
         /\ scheduled' = started \o callbacks' \o timers
<1>1. started \in Seq(Firing) /\ callbacks \in Seq(Firing) /\ timers \in Seq(Firing)
  BY DEF TypeOK
<1>2. started \o callbacks \in Seq(Firing) /\ callbacks \o new \in Seq(Firing)
  BY <1>1, ConcatProperties
<1>3. scheduled = (started \o callbacks) \o timers
  BY DEF StartedInOrder
<1>4. scheduled' = ((started \o callbacks) \o new) \o timers
  <2> DEFINE n == Len(scheduled) - Len(timers)
  <2>1. /\ SubSeq(scheduled, 1, n) = started \o callbacks
        /\ SubSeq(scheduled, n + 1, Len(scheduled)) = timers
    BY <1>1, <1>2, <1>3, TakeDrop
  <2>2. scheduled' = SubSeq(scheduled, 1, n) \o new
                       \o SubSeq(scheduled, n + 1, Len(scheduled))
    BY DEF CallSoon
  <2> HIDE DEF n
  <2>3. QED
    BY <2>1, <2>2
<1>5. (started \o callbacks) \o new = started \o (callbacks \o new)
  BY <1>1, ConcatAssociative
<1>6. (started \o (callbacks \o new)) \o timers \in Seq(Firing)
  BY <1>1, <1>2, ConcatProperties
<1>7. callbacks' = callbacks \o new
  BY DEF CallSoon
<1>8. QED
  BY <1>2, <1>4, <1>5, <1>6, <1>7
-----------------------------------------------------------------------------
(* The registry.  A list is thinned out when what is left of it was there, *)
(* in places of their own.                                                 *)
Thinned(s, t) == \E at \in [DOMAIN t -> DOMAIN s] :
                   /\ \A k \in DOMAIN t : t[k] = s[at[k]]
                   /\ \A k, l \in DOMAIN t : at[k] = at[l] => k = l

LEMMA SelectThins ==
  ASSUME NEW S, NEW s \in Seq(S), NEW I, I \subseteq DOMAIN s
  PROVE  /\ Select(s, I) \in Seq(S) /\ Thinned(s, Select(s, I))
         /\ \A k \in DOMAIN Select(s, I) : \E i \in I : Select(s, I)[k] = s[i]
<1> DEFINE t == Select(s, I)
           at == [k \in DOMAIN t |-> InOrder(I)[k]]
<1>1. /\ t \in Seq(S)
      /\ \A k \in DOMAIN t : InOrder(I)[k] \in I /\ t[k] = s[InOrder(I)[k]]
      /\ \A k, l \in DOMAIN t : InOrder(I)[k] = InOrder(I)[l] => k = l
  BY Selected
<1> HIDE DEF t
<1>2. at \in [DOMAIN t -> DOMAIN s]
  BY <1>1
<1>3. \A k \in DOMAIN t : t[k] = s[at[k]]
  BY <1>1
<1>4. \A k, l \in DOMAIN t : at[k] = at[l] => k = l
  BY <1>1
<1>5. Thinned(s, t)
  <2> HIDE DEF at
  <2>1. QED
    BY <1>2, <1>3, <1>4 DEF Thinned
<1>6. QED
  BY <1>1, <1>5 DEF t

LEMMA ThinnedReflexive ==
  ASSUME NEW s
  PROVE  Thinned(s, s) /\ Thinned(s, <<>>)
<1>1. Thinned(s, s)
  <2>1. [k \in DOMAIN s |-> k] \in [DOMAIN s -> DOMAIN s]
    OBVIOUS
  <2>2. QED
    BY <2>1 DEF Thinned
<1>2. Thinned(s, <<>>)
  <2>1. [k \in {} |-> k] \in [{} -> DOMAIN s] /\ DOMAIN <<>> = {}
    OBVIOUS
  <2>2. QED
    BY <2>1 DEF Thinned
<1>3. QED
  BY <1>1, <1>2

(* Nothing that is left has got another's id.                              *)
LEMMA ThinnedUnique ==
  ASSUME Unique, \A e \in Names : Thinned(subscribers[e], subscribers'[e])
  PROVE  Unique'
<1> SUFFICES ASSUME NEW e \in Names, NEW f \in Names,
                    NEW i \in DOMAIN subscribers'[e], NEW j \in DOMAIN subscribers'[f],
                    subscribers'[e][i].id = subscribers'[f][j].id
             PROVE  e = f /\ i = j
  BY DEF Unique
<1>1. PICK at \in [DOMAIN subscribers'[e] -> DOMAIN subscribers[e]] :
        /\ \A k \in DOMAIN subscribers'[e] : subscribers'[e][k] = subscribers[e][at[k]]
        /\ \A k, l \in DOMAIN subscribers'[e] : at[k] = at[l] => k = l
  BY DEF Thinned
<1>2. CASE e = f
  <2>1. at[i] \in DOMAIN subscribers[e] /\ at[j] \in DOMAIN subscribers[e]
    BY <1>1, <1>2
  <2>2. subscribers[e][at[i]].id = subscribers[e][at[j]].id
    BY <1>1, <1>2
  <2>3. at[i] = at[j]
    BY <2>1, <2>2 DEF Unique
  <2>4. QED
    BY <1>1, <1>2, <2>3
<1>3. CASE e # f
  <2>1. \E k \in DOMAIN subscribers[f] : subscribers[f][k] = subscribers'[f][j]
    BY DEF Thinned
  <2>2. at[i] \in DOMAIN subscribers[e] /\ subscribers[e][at[i]] = subscribers'[e][i]
    BY <1>1
  <2>3. QED
    BY <1>3, <2>1, <2>2 DEF Unique
<1>4. QED
  BY <1>2, <1>3

(* on: the id is new.                                                      *)
LEMMA OnRegistry ==
  ASSUME EventsInv, NEW e \in Names, NEW once \in BOOLEAN, On(e, once)
  PROVE  /\ subscribers' \in [Names -> Seq(Registration)] /\ nextId' \in 0 .. MaxCalls
         /\ Fresh' /\ Unique'
<1> DEFINE r == [id |-> nextId + 1, once |-> once]
<1>1. /\ subscribers' = [subscribers EXCEPT ![e] = Append(@, r)]
      /\ removed' = removed /\ nextId' = nextId + 1
  BY DEF On
<1>2. nextId + 1 \in Ids /\ nextId \in Nat /\ nextId' \in 0 .. MaxCalls
  BY BoundsAssumption DEF EventsInv, TypeOK, IdsCounted, On, Acts, Ids
<1>3. r \in Registration /\ r.id = nextId + 1
  BY <1>2 DEF Registration
<1>4. \A f \in Names : /\ subscribers[f] \in Seq(Registration)
                       /\ DOMAIN subscribers[f] = 1 .. Len(subscribers[f])
                       /\ Len(subscribers[f]) \in Nat
                       /\ \A i \in DOMAIN subscribers[f] : subscribers[f][i].id \in Nat
  <2>1. subscribers \in [Names -> Seq(Registration)]
    BY DEF EventsInv, TypeOK
  <2>2. \A x \in Registration : x.id \in Nat
    BY DEF Registration, Ids
  <2>3. QED
    BY <2>1, <2>2, LenProperties, ElementOfSeq
<1> HIDE DEF r
<1>5. /\ \A f \in Names \ {e} : subscribers'[f] = subscribers[f]
      /\ subscribers'[e] = Append(subscribers[e], r)
      /\ subscribers' \in [Names -> Seq(Registration)]
  <2>1. Append(subscribers[e], r) \in Seq(Registration)
    BY <1>3, <1>4, AppendProperties
  <2>2. subscribers \in [Names -> Seq(Registration)]
    BY DEF EventsInv, TypeOK
  <2>3. QED
    BY <1>1, <2>1, <2>2
<1>6. /\ DOMAIN subscribers'[e] = 1 .. Len(subscribers[e]) + 1
      /\ \A i \in 1 .. Len(subscribers[e]) : subscribers'[e][i] = subscribers[e][i]
      /\ subscribers'[e][Len(subscribers[e]) + 1] = r
  BY <1>3, <1>4, <1>5, AppendProperties, LenProperties
<1>10. ASSUME NEW h \in Names, NEW k \in DOMAIN subscribers'[h]
       PROVE  \/ k \in DOMAIN subscribers[h] /\ subscribers'[h][k] = subscribers[h][k]
              \/ h = e /\ k = Len(subscribers[e]) + 1 /\ subscribers'[h][k] = r
  <2>1. CASE h # e
    BY <1>5, <1>10, <2>1
  <2>2. CASE h = e
    <3> DEFINE n == Len(subscribers[e])
    <3>1. n \in Nat /\ k \in 1 .. n + 1 /\ DOMAIN subscribers[e] = 1 .. n
      BY <1>4, <1>6, <1>10, <2>2
    <3> HIDE DEF n
    <3>2. k \in 1 .. n \/ k = n + 1
      BY <3>1
    <3>3. QED
      BY <1>6, <2>2, <3>1, <3>2 DEF n
  <2>3. QED
    BY <2>1, <2>2
<1>7. /\ \A f \in Names : \A i \in DOMAIN subscribers[f] :
           subscribers[f][i].id <= nextId /\ subscribers[f][i].id \notin removed
      /\ \A id \in removed : id <= nextId /\ id \in Nat
  <2>1. removed \subseteq Nat
    BY DEF EventsInv, TypeOK, Ids
  <2>2. QED
    BY <2>1 DEF EventsInv, Fresh
<1>8. Fresh'
  <2>1. \A f \in Names : \A i \in DOMAIN subscribers'[f] :
          \/ i \in DOMAIN subscribers[f] /\ subscribers'[f][i] = subscribers[f][i]
          \/ subscribers'[f][i] = r
    BY <1>10
  <2>2. nextId + 1 \notin removed
    BY <1>2, <1>7
  <2>3. QED
    BY <1>1, <1>2, <1>3, <1>4, <1>7, <2>1, <2>2 DEF Fresh
<1>9. Unique'
  <2> SUFFICES ASSUME NEW f \in Names, NEW g \in Names,
                      NEW i \in DOMAIN subscribers'[f], NEW j \in DOMAIN subscribers'[g],
                      subscribers'[f][i].id = subscribers'[g][j].id
               PROVE  f = g /\ i = j
    BY DEF Unique
  <2>1. \A h \in Names : \A k \in DOMAIN subscribers'[h] :
          \/ k \in DOMAIN subscribers[h] /\ subscribers'[h][k] = subscribers[h][k]
          \/ h = e /\ k = Len(subscribers[e]) + 1 /\ subscribers'[h][k] = r
    BY <1>10
  <2>2. \A h \in Names : \A k \in DOMAIN subscribers[h] : subscribers[h][k].id # r.id
    BY <1>2, <1>3, <1>4, <1>7
  <2>3. CASE i \in DOMAIN subscribers[f] /\ subscribers'[f][i] = subscribers[f][i]
    <3>1. j \in DOMAIN subscribers[g] /\ subscribers'[g][j] = subscribers[g][j]
      BY <2>1, <2>2, <2>3
    <3>2. QED
      BY <2>3, <3>1 DEF EventsInv, Unique
  <2>4. CASE f = e /\ i = Len(subscribers[e]) + 1 /\ subscribers'[f][i] = r
    BY <2>1, <2>2, <2>4
  <2>5. QED
    BY <2>1, <2>3, <2>4
<1>11. QED
  BY <1>2, <1>5, <1>8, <1>9

(* What takes registrations out: an emit takes the once-handlers of the    *)
(* event, `off` those of an event or the one with an id.  In every case    *)
(* what it takes is not among what it leaves.                              *)
LEMMA RemovalRegistry ==
  ASSUME EventsInv, UNCHANGED nextId,
         \A e \in Names : /\ subscribers'[e] \in Seq(Registration)
                          /\ Thinned(subscribers[e], subscribers'[e]),
         \A id \in removed' :
           \/ id \in removed
           \/ /\ \E e \in Names : \E i \in DOMAIN subscribers[e] : subscribers[e][i].id = id
              /\ \A e \in Names : \A i \in DOMAIN subscribers'[e] : subscribers'[e][i].id # id
  PROVE  Fresh' /\ Unique' /\ removed' \subseteq Ids
<1>1. Unique'
  BY ThinnedUnique DEF EventsInv
<1>2. \A e \in Names : \A i \in DOMAIN subscribers'[e] :
        \E j \in DOMAIN subscribers[e] : subscribers'[e][i] = subscribers[e][j]
  BY DEF Thinned
<1>3. Fresh'
  BY <1>2 DEF EventsInv, Fresh
<1>4. \A e \in Names : \A i \in DOMAIN subscribers[e] : subscribers[e][i].id \in Ids
  <2>1. \A e \in Names : /\ subscribers[e] \in Seq(Registration)
                         /\ DOMAIN subscribers[e] = 1 .. Len(subscribers[e])
    BY LenProperties DEF EventsInv, TypeOK
  <2>2. \A e \in Names : \A i \in DOMAIN subscribers[e] : subscribers[e][i] \in Registration
    BY <2>1, ElementOfSeq
  <2>3. QED
    BY <2>2 DEF Registration
<1>5. removed' \subseteq Ids
  BY <1>4 DEF EventsInv, TypeOK
<1>6. QED
  BY <1>1, <1>3, <1>5
LEMMA DispatchRegistry ==
  ASSUME EventsInv, NEW e \in Names, Dispatch(e)
  PROVE  /\ subscribers' \in [Names -> Seq(Registration)] /\ nextId' = nextId
         /\ Fresh' /\ Unique' /\ removed' \subseteq Ids
<1> DEFINE I == {i \in DOMAIN subscribers[e] : ~subscribers[e][i].once}
<1>1. subscribers \in [Names -> Seq(Registration)] /\ subscribers[e] \in Seq(Registration)
  BY DEF EventsInv, TypeOK
<1>2. subscribers' = [subscribers EXCEPT ![e] = Select(subscribers[e], I)]
  BY DEF Dispatch, Kept
<1>3. I \subseteq DOMAIN subscribers[e]
      /\ \A i \in I : ~subscribers[e][i].once
  OBVIOUS
<1> HIDE DEF I
<1>4. /\ subscribers'[e] = Select(subscribers[e], I)
      /\ subscribers'[e] \in Seq(Registration)
      /\ Thinned(subscribers[e], subscribers'[e])
      /\ \A k \in DOMAIN subscribers'[e] : \E i \in I : subscribers'[e][k] = subscribers[e][i]
  BY <1>1, <1>2, <1>3, SelectThins
<1>5. \A f \in Names \ {e} : subscribers'[f] = subscribers[f]
  BY <1>1, <1>2
<1>6. \A f \in Names : /\ subscribers'[f] \in Seq(Registration)
                       /\ Thinned(subscribers[f], subscribers'[f])
  BY <1>1, <1>4, <1>5, ThinnedReflexive
<1>7. ASSUME NEW id \in removed', id \notin removed
      PROVE  /\ \E f \in Names : \E i \in DOMAIN subscribers[f] : subscribers[f][i].id = id
             /\ \A f \in Names : \A i \in DOMAIN subscribers'[f] : subscribers'[f][i].id # id
  <2>1. PICK i \in DOMAIN subscribers[e] : subscribers[e][i].id = id /\ subscribers[e][i].once
    BY <1>7 DEF Dispatch
  <2>2. i \notin I
    BY <1>3, <2>1
  <2>3. \A f \in Names : \A j \in DOMAIN subscribers[f] :
          subscribers[f][j].id = id => f = e /\ j = i
    BY <2>1 DEF EventsInv, Unique
  <2>4. \A j \in DOMAIN subscribers'[e] : subscribers'[e][j].id # id
    BY <1>3, <1>4, <2>2, <2>3
  <2>5. \A f \in Names \ {e} : \A j \in DOMAIN subscribers'[f] : subscribers'[f][j].id # id
    BY <1>5, <2>3
  <2>6. QED
    BY <2>1, <2>4, <2>5
<1>8. subscribers' \in [Names -> Seq(Registration)]
  BY <1>1, <1>2, <1>4
<1>9. nextId' = nextId
  BY DEF Dispatch
<1>10. QED
  BY <1>6, <1>7, <1>8, <1>9, RemovalRegistry

LEMMA OffRegistry ==
  ASSUME EventsInv, NEW e \in Names, Off(e)
  PROVE  /\ subscribers' \in [Names -> Seq(Registration)] /\ nextId' = nextId
         /\ Fresh' /\ Unique' /\ removed' \subseteq Ids
<1>1. subscribers \in [Names -> Seq(Registration)] /\ <<>> \in Seq(Registration)
  BY EmptySeq DEF EventsInv, TypeOK
<1>2. /\ subscribers' = [subscribers EXCEPT ![e] = <<>>]
      /\ removed' = removed \cup IdsOf(subscribers[e]) /\ nextId' = nextId
  BY DEF Off
<1>3. subscribers'[e] = <<>> /\ \A f \in Names \ {e} : subscribers'[f] = subscribers[f]
  BY <1>1, <1>2
<1>4. \A f \in Names : /\ subscribers'[f] \in Seq(Registration)
                       /\ Thinned(subscribers[f], subscribers'[f])
  BY <1>1, <1>3, ThinnedReflexive
<1>5. ASSUME NEW id \in removed', id \notin removed
      PROVE  /\ \E f \in Names : \E i \in DOMAIN subscribers[f] : subscribers[f][i].id = id
             /\ \A f \in Names : \A i \in DOMAIN subscribers'[f] : subscribers'[f][i].id # id
  <2>1. PICK i \in DOMAIN subscribers[e] : subscribers[e][i].id = id
    BY <1>2, <1>5 DEF IdsOf
  <2>2. \A f \in Names : \A j \in DOMAIN subscribers[f] : subscribers[f][j].id = id => f = e
    BY <2>1 DEF EventsInv, Unique
  <2>3. DOMAIN subscribers'[e] = {}
    BY <1>3
  <2>4. QED
    BY <1>3, <2>1, <2>2, <2>3
<1>6. subscribers' \in [Names -> Seq(Registration)]
  BY <1>1, <1>2
<1>7. QED
  BY <1>2, <1>4, <1>5, <1>6, RemovalRegistry

LEMMA OffIdRegistry ==
  ASSUME EventsInv, NEW id \in Ids, OffId(id)
  PROVE  /\ subscribers' \in [Names -> Seq(Registration)] /\ nextId' = nextId
         /\ Fresh' /\ Unique' /\ removed' \subseteq Ids
<1>1. /\ subscribers' = [e \in Names |-> Without(subscribers[e], id)]
      /\ removed' = removed \cup {id} /\ nextId' = nextId
      /\ \E e \in Names : id \in IdsOf(subscribers[e])
  BY DEF OffId
<1>2. ASSUME NEW e \in Names
      PROVE  /\ subscribers'[e] \in Seq(Registration)
             /\ Thinned(subscribers[e], subscribers'[e])
             /\ \A k \in DOMAIN subscribers'[e] : subscribers'[e][k].id # id
  <2> DEFINE I == {i \in DOMAIN subscribers[e] : subscribers[e][i].id # id}
  <2>1. subscribers[e] \in Seq(Registration)
    BY DEF EventsInv, TypeOK
  <2>2. subscribers'[e] = Select(subscribers[e], I)
    BY <1>1 DEF Without
  <2>3. I \subseteq DOMAIN subscribers[e] /\ \A i \in I : subscribers[e][i].id # id
    OBVIOUS
  <2> HIDE DEF I
  <2>4. QED
    BY <2>1, <2>2, <2>3, SelectThins
<1>3. subscribers' \in [Names -> Seq(Registration)]
  <2>1. \A e \in Names : Without(subscribers[e], id) \in Seq(Registration)
    BY <1>1, <1>2
  <2>2. QED
    BY <1>1, <2>1
<1>4. \E e \in Names : \E i \in DOMAIN subscribers[e] : subscribers[e][i].id = id
  BY <1>1 DEF IdsOf
<1>5. \A x \in removed' : x \in removed \/ x = id
  BY <1>1
<1>6. QED
  BY <1>1, <1>2, <1>3, <1>4, <1>5, RemovalRegistry

-----------------------------------------------------------------------------
(* The steps, by what they do to the queues: handlers of an event are      *)
(* scheduled behind all that is.                                           *)
LEMMA DispatchKeeps ==
  ASSUME EventsInv, NEW e \in Names, Dispatch(e), UNCHANGED <<started, outcome>>
  PROVE  /\ timers' \in Seq(Firing) /\ scheduled' \in Seq(Firing)
         /\ StartedInOrder' /\ ModesApart'
<1>1. /\ timers \in Seq(Firing) /\ scheduled \in Seq(Firing) /\ Firings(e) \in Seq(Firing)
      /\ started \in Seq(Firing) /\ callbacks \in Seq(Firing)
      /\ started \o callbacks \in Seq(Firing)
  BY FiringsType, ConcatProperties DEF EventsInv, TypeOK
<1>2. /\ timers' = timers \o Firings(e) /\ scheduled' = scheduled \o Firings(e)
      /\ callbacks' = callbacks
  BY DEF Dispatch
<1>3. timers' \in Seq(Firing) /\ scheduled' \in Seq(Firing)
  BY <1>1, <1>2, ConcatProperties
<1>4. StartedInOrder'
  <2>1. scheduled = (started \o callbacks) \o timers
    BY DEF EventsInv, StartedInOrder
  <2>2. ((started \o callbacks) \o timers) \o Firings(e)
          = (started \o callbacks) \o (timers \o Firings(e))
    BY <1>1, ConcatAssociative
  <2>3. QED
    BY <1>2, <2>1, <2>2 DEF StartedInOrder
<1>5. \A i \in DOMAIN timers' : timers'[i].mode = "event"
  BY <1>1, <1>2, ConcatModes, FiringsType DEF EventsInv, ModesApart
<1>6. QED
  BY <1>2, <1>3, <1>4, <1>5 DEF EventsInv, ModesApart
-----------------------------------------------------------------------------
(* The invariant in the parts that the groups of variables have.           *)
RegistryInv == /\ subscribers \in [Names -> Seq(Registration)]
               /\ nextId \in 0 .. MaxCalls /\ removed \subseteq Ids
               /\ Fresh /\ Unique
TaskInv == /\ watchers \in Seq(Firing) /\ told \in Seq(Modes)
           /\ taskState \in {"pending", "done", "failed", "cancelled"}
           /\ outcome \in {"pending", "value", "error"}
           /\ ReportsAgree /\ ReportStays
QueuesInv == /\ timers \in Seq(Firing) /\ callbacks \in Seq(Firing)
             /\ scheduled \in Seq(Firing) /\ started \in Seq(Firing)
             /\ StartedInOrder /\ ModesApart
MainInv == /\ frames \in Seq(Frame) /\ sp \in Nat /\ exiting \in BOOLEAN
           /\ ticks \in 0 .. MaxTicks /\ calls \in 0 .. MaxCalls
           /\ IdsCounted

LEMMA Parts == EventsInv <=> RegistryInv /\ TaskInv /\ QueuesInv /\ MainInv
  BY Zenon DEF EventsInv, TypeOK, RegistryInv, TaskInv, QueuesInv, MainInv

LEMMA Together == RegistryInv' /\ TaskInv' /\ QueuesInv' /\ MainInv' => EventsInv'
  BY Zenon DEF EventsInv, TypeOK, RegistryInv, TaskInv, QueuesInv, MainInv

LEMMA RegistrySame == RegistryInv /\ UNCHANGED registry => RegistryInv'
  BY DEF RegistryInv, registry, Fresh, Unique

LEMMA TaskSame == TaskInv /\ UNCHANGED <<task, told>> => TaskInv'
  BY DEF TaskInv, task, ReportsAgree, ReportStays

LEMMA QueuesSame == QueuesInv /\ UNCHANGED <<queues, started, outcome>> => QueuesInv'
  BY DEF QueuesInv, queues, StartedInOrder, ModesApart

(* A call is counted, and hands out one id at most.                        *)
LEMMA CountedCalls ==
  ASSUME EventsInv, Acts, nextId' = nextId \/ nextId' = nextId + 1
  PROVE  calls' \in 0 .. MaxCalls /\ IdsCounted' /\ nextId' \in 0 .. MaxCalls
<1>1. /\ calls' = calls + 1 /\ calls < MaxCalls /\ nextId <= calls
      /\ calls \in Nat /\ nextId \in Nat /\ MaxCalls \in Nat
  BY BoundsAssumption DEF Acts, EventsInv, TypeOK, IdsCounted
<1>2. QED
  BY <1>1 DEF IdsCounted

LEMMA CountedCall ==
  ASSUME EventsInv, Acts, UNCHANGED main, nextId' = nextId \/ nextId' = nextId + 1
  PROVE  MainInv'
  BY CountedCalls, Parts DEF MainInv, main

(* Main's stack.                                                           *)
LEMMA MainSame == MainInv /\ UNCHANGED <<sp, exiting, calls, nextId>>
                    /\ ticks' \in 0 .. MaxTicks /\ frames' \in Seq(Frame) => MainInv'
  BY DEF MainInv, IdsCounted

LEMMA RegistrationIds ==
  ASSUME TypeOK
  PROVE  \A f \in Names : \A i \in DOMAIN subscribers[f] : subscribers[f][i].id \in Nat
<1>1. subscribers \in [Names -> Seq(Registration)]
  BY DEF TypeOK
<1>2. \A x \in Registration : x.id \in Nat
  BY DEF Registration, Ids
<1>3. QED
  BY <1>1, <1>2, LenProperties, ElementOfSeq

(* Callbacks of the task are called only when it has settled.              *)
LEMMA SoonKeeps ==
  ASSUME EventsInv, NEW new \in Seq(Firing), CallSoon(new), outcome' # "pending",
         UNCHANGED started
  PROVE  QueuesInv'
<1>1. timers' = timers
  BY DEF CallSoon
<1>2. /\ callbacks' \in Seq(Firing) /\ scheduled' \in Seq(Firing)
      /\ scheduled' = started \o callbacks' \o timers
  BY CalledSoon DEF EventsInv
<1>3. StartedInOrder'
  BY <1>1, <1>2 DEF StartedInOrder
<1>4. ModesApart'
  BY <1>1 DEF EventsInv, ModesApart
<1>5. QED
  BY <1>1, <1>2, <1>3, <1>4 DEF QueuesInv, EventsInv, TypeOK

-----------------------------------------------------------------------------
(* The calls.                                                              *)
LEMMA OnKeeps ==
  ASSUME EventsInv, NEW e \in Names, NEW once \in BOOLEAN, On(e, once)
  PROVE  EventsInv'
<1>1. RegistryInv'
  BY OnRegistry DEF On, EventsInv, TypeOK, RegistryInv
<1>2. TaskInv' /\ QueuesInv'
  BY Parts, TaskSame, QueuesSame DEF On, task
<1>3. MainInv'
  BY CountedCall DEF On
<1>4. QED
  BY <1>1, <1>2, <1>3, Together

LEMMA OnTaskKeeps ==
  ASSUME EventsInv, NEW mode \in Modes, OnTask(mode)
  PROVE  EventsInv'
<1> DEFINE w == [id |-> nextId + 1, mode |-> mode]
<1>1. w \in Firing /\ nextId' \in 0 .. MaxCalls /\ nextId \in Nat /\ nextId' = nextId + 1
  BY BoundsAssumption DEF EventsInv, TypeOK, IdsCounted, OnTask, Acts, Firing, Ids
<1>2. RegistryInv'
  <2>1. Fresh'
    <3>1. \A f \in Names : \A i \in DOMAIN subscribers[f] : subscribers[f][i].id \in Nat
      BY RegistrationIds DEF EventsInv
    <3>2. \A id \in removed : id \in Nat
      BY DEF EventsInv, TypeOK, Ids
    <3>3. UNCHANGED <<subscribers, removed>>
      BY DEF OnTask
    <3>4. QED
      BY <1>1, <3>1, <3>2, <3>3 DEF EventsInv, Fresh
  <2>2. QED
    BY <1>1, <2>1 DEF OnTask, EventsInv, TypeOK, RegistryInv, Unique
<1>3. MainInv'
  BY CountedCall DEF OnTask
<1> HIDE DEF w
<1>4. CASE outcome = "pending"
  <2>1. UNCHANGED <<queues, started, outcome, taskState, told>> /\ watchers' = Append(watchers, w)
    BY <1>4 DEF OnTask, w
  <2>2. QueuesInv'
    BY <2>1, Parts, QueuesSame
  <2>3. watchers' \in Seq(Firing)
    BY <1>1, <2>1, AppendProperties DEF EventsInv, TypeOK
  <2>4. TaskInv'
    BY <2>1, <2>3, Parts DEF TaskInv, ReportsAgree, ReportStays
  <2>5. QED
    BY <1>2, <1>3, <2>2, <2>4, Together
<1>5. CASE outcome # "pending"
  <2>1. CallSoon(<<w>>) /\ UNCHANGED <<task, told, started>> /\ UNCHANGED outcome
    BY <1>5 DEF OnTask, w, task
  <2>2. TaskInv'
    BY <2>1, Parts, TaskSame
  <2>3. <<w>> \in Seq(Firing)
    BY <1>1
  <2>4. QueuesInv'
    BY <1>5, <2>1, <2>3, SoonKeeps
  <2>5. QED
    BY <1>2, <1>3, <2>2, <2>4, Together
<1>6. QED
  BY <1>4, <1>5

LEMMA EmitKeeps ==
  ASSUME EventsInv, NEW e \in Names, Emit(e)
  PROVE  EventsInv'
<1>1. Dispatch(e) /\ UNCHANGED <<task, main, started, told>> /\ UNCHANGED outcome
  BY DEF Emit, task
<1>2. RegistryInv'
  BY <1>1, DispatchRegistry DEF EventsInv, TypeOK, RegistryInv
<1>3. TaskInv'
  BY <1>1, Parts, TaskSame
<1>4. QueuesInv'
  BY <1>1, DispatchKeeps DEF Dispatch, EventsInv, TypeOK, QueuesInv
<1>5. MainInv'
  BY <1>1, CountedCall DEF Emit, Dispatch
<1>6. QED
  BY <1>2, <1>3, <1>4, <1>5, Together

LEMMA OffKeeps ==
  ASSUME EventsInv, (\E e \in Names : Off(e)) \/ (\E id \in Ids : OffId(id))
  PROVE  EventsInv'
<1>1. RegistryInv'
  <2>1. ASSUME NEW e \in Names, Off(e) PROVE RegistryInv'
    BY <2>1, OffRegistry DEF EventsInv, TypeOK, RegistryInv
  <2>2. ASSUME NEW id \in Ids, OffId(id) PROVE RegistryInv'
    BY <2>2, OffIdRegistry DEF EventsInv, TypeOK, RegistryInv
  <2>3. QED
    BY <2>1, <2>2
<1>2. Acts /\ UNCHANGED <<nextId, task, queues, main, started, told>>
  BY DEF Off, OffId
<1>3. TaskInv' /\ QueuesInv' /\ MainInv'
  BY <1>2, Parts, TaskSame, QueuesSame, CountedCall DEF task
<1>4. QED
  BY <1>1, <1>3, Together

LEMMA CancelKeeps == EventsInv /\ Cancel => EventsInv'
<1> SUFFICES ASSUME EventsInv, Cancel PROVE EventsInv'
  OBVIOUS
<1>1. /\ Acts /\ taskState = "pending" /\ taskState' = "cancelled"
      /\ UNCHANGED <<registry, watchers, outcome, queues, main, started, told>>
  BY DEF Cancel
<1>2. \A i \in DOMAIN told : told[i] \notin {"done", "failed"}
  BY <1>1 DEF EventsInv, ReportStays
<1>3. TaskInv'
  BY <1>1, <1>2, Parts DEF TaskInv, ReportsAgree, ReportStays
<1>4. RegistryInv' /\ QueuesInv' /\ MainInv'
  BY <1>1, Parts, RegistrySame, QueuesSame, CountedCall DEF registry
<1>5. QED
  BY <1>3, <1>4, Together

LEMMA WaitStartKeeps ==
  ASSUME EventsInv, NEW future \in {"task", "other"}, WaitStart(future)
  PROVE  EventsInv'
<1> DEFINE f == [at |-> "waiting", for |-> future, sp |-> sp]
<1>1. /\ Acts /\ frames' = [frames EXCEPT ![Len(frames)] = f]
      /\ UNCHANGED <<registry, task, queues, sp, exiting, ticks, started, told>>
  BY DEF WaitStart
<1>2. f \in Frame
  BY DEF EventsInv, TypeOK, Frame
<1> HIDE DEF f
<1>3. frames' \in Seq(Frame)
  <2>1. frames # <<>> /\ frames \in Seq(Frame) /\ Len(frames) \in 1 .. Len(frames)
    BY <1>1, TopType DEF Acts, EventsInv, TypeOK
  <2>2. QED
    BY <1>1, <1>2, <2>1, ExceptSeq
<1>4. calls' \in 0 .. MaxCalls /\ IdsCounted'
  BY <1>1, CountedCalls DEF registry
<1>5. MainInv'
  BY <1>1, <1>3, <1>4, Parts DEF MainInv, registry
<1>6. RegistryInv' /\ TaskInv' /\ QueuesInv'
  BY <1>1, Parts, RegistrySame, TaskSame, QueuesSame DEF task
<1>7. QED
  BY <1>5, <1>6, Together
-----------------------------------------------------------------------------
(* The dispatcher, and the ends of waits and handlers.                     *)
LEMMA PollStartKeeps == EventsInv /\ PollStart => EventsInv'
<1> SUFFICES ASSUME EventsInv, PollStart PROVE EventsInv'
  OBVIOUS
<1>1. /\ frames # <<>> /\ callbacks' = callbacks \o timers /\ timers' = <<>>
      /\ Enter("polling")
      /\ UNCHANGED <<registry, task, scheduled, sp, exiting, calls, started, told>>
  BY DEF PollStart, Waits, Queued
<1>2. ticks' \in 0 .. MaxTicks
  <2>1. ticks \in 0 .. MaxTicks /\ MaxTicks \in Nat
    BY BoundsAssumption DEF EventsInv, TypeOK
  <2>2. ticks' = ticks \/ (ticks' = ticks + 1 /\ ticks < MaxTicks)
    BY DEF PollStart, MayTurn
  <2>3. QED
    BY <2>1, <2>2
<1>3. RegistryInv' /\ TaskInv'
  BY <1>1, Parts, RegistrySame, TaskSame
<1>4. MainInv'
  BY <1>1, <1>2, Parts, EnterType, MainSame DEF EventsInv, registry
<1>5. /\ timers \in Seq(Firing) /\ callbacks \in Seq(Firing) /\ started \in Seq(Firing)
      /\ scheduled \in Seq(Firing) /\ scheduled = (started \o callbacks) \o timers
  BY DEF EventsInv, TypeOK, StartedInOrder
<1>6. callbacks' \in Seq(Firing) /\ timers' \in Seq(Firing)
  BY <1>1, <1>5, ConcatProperties, EmptySeq
<1>7. StartedInOrder'
  <2>1. (started \o callbacks) \o timers = started \o (callbacks \o timers)
    BY <1>5, ConcatAssociative
  <2>2. started \o (callbacks \o timers) \in Seq(Firing)
    BY <1>5, ConcatProperties
  <2>3. (started \o (callbacks \o timers)) \o <<>> = started \o (callbacks \o timers)
    BY <2>2, ConcatEmptySeq
  <2>4. QED
    BY <1>1, <1>5, <2>1, <2>3 DEF StartedInOrder
<1>8. ModesApart'
  <2>1. \A i \in DOMAIN timers : timers[i].mode = "event"
    BY DEF EventsInv, ModesApart
  <2>2. outcome = "pending" => \A i \in DOMAIN callbacks' : callbacks'[i].mode = "event"
    BY <1>1, <1>5, <2>1, ConcatModes DEF EventsInv, ModesApart
  <2>3. DOMAIN timers' = {} /\ outcome' = outcome
    BY <1>1 DEF task
  <2>4. QED
    BY <2>2, <2>3 DEF ModesApart
<1>9. QueuesInv'
  BY <1>1, <1>5, <1>6, <1>7, <1>8 DEF QueuesInv
<1>10. QED
  BY <1>3, <1>4, <1>9, Together

(* A callback of the task tells what the future says, and state and        *)
(* earlier reports say nothing else.                                       *)
LEMMA RunCallbackKeeps == EventsInv /\ RunCallback => EventsInv'
<1> SUFFICES ASSUME EventsInv, RunCallback PROVE EventsInv'
  OBVIOUS
<1> DEFINE mode == Head(callbacks).mode
<1>1. /\ frames # <<>> /\ callbacks # <<>>
      /\ callbacks' = Tail(callbacks) /\ started' = Append(started, Head(callbacks))
      /\ UNCHANGED <<registry, watchers, outcome, timers, scheduled, sp, exiting, ticks, calls>>
      /\ frames' = frames \/ frames' = Append(frames, Running(sp))
      /\ IF mode = "event" THEN UNCHANGED <<taskState, told>>
         ELSE told' = Append(told, Told) /\ taskState' = Written(Told)
  BY DEF RunCallback
<1>2. /\ timers \in Seq(Firing) /\ callbacks \in Seq(Firing) /\ started \in Seq(Firing)
      /\ scheduled \in Seq(Firing) /\ scheduled = (started \o callbacks) \o timers
  BY DEF EventsInv, TypeOK, StartedInOrder
<1>3. /\ Head(callbacks) \in Firing /\ Head(callbacks) = callbacks[1]
      /\ Tail(callbacks) \in Seq(Firing)
      /\ DOMAIN callbacks = 1 .. Len(callbacks) /\ Len(callbacks) \in Nat /\ Len(callbacks) # 0
      /\ Len(Tail(callbacks)) = Len(callbacks) - 1
      /\ \A i \in 1 .. Len(Tail(callbacks)) : Tail(callbacks)[i] = callbacks[i + 1]
  BY <1>1, <1>2, EmptyDeque, HeadTailProperties
<1>4. QueuesInv'
  <2>1. started' \in Seq(Firing)
    BY <1>1, <1>2, <1>3, AppendProperties
  <2>2. StartedInOrder'
    BY <1>1, <1>2, HeadMoves DEF StartedInOrder
  <2>3. \A i \in DOMAIN Tail(callbacks) : i + 1 \in DOMAIN callbacks
                                          /\ Tail(callbacks)[i] = callbacks[i + 1]
    BY <1>3, LenProperties
  <2>4. ModesApart'
    BY <1>1, <2>3 DEF EventsInv, ModesApart
  <2>5. QED
    BY <1>1, <1>2, <1>3, <2>1, <2>2, <2>4 DEF QueuesInv
<1>5. RegistryInv'
  BY <1>1, Parts, RegistrySame
<1>6. MainInv'
  <2>1. Running(sp) \in Frame /\ frames \in Seq(Frame) /\ ticks \in 0 .. MaxTicks
    BY DEF Running, Frame, EventsInv, TypeOK
  <2>2. frames' \in Seq(Frame)
    BY <1>1, <2>1, AppendProperties
  <2>3. QED
    BY <1>1, <2>1, <2>2, Parts, MainSame DEF registry
<1>7. TaskInv'
  <2>1. CASE mode = "event"
    BY <1>1, <2>1, Parts, TaskSame DEF task
  <2>2. CASE mode # "event"
    <3>1. outcome \in {"value", "error"}
      <4>1. 1 \in DOMAIN callbacks
        BY <1>3
      <4>2. outcome # "pending"
        BY <1>3, <2>2, <4>1 DEF EventsInv, ModesApart
      <4>3. QED
        BY <4>2 DEF EventsInv, TypeOK
    <3>2. /\ taskState \in {"pending", "done", "failed", "cancelled"}
          /\ taskState = "done" => outcome = "value"
          /\ taskState = "failed" => outcome = "error"
      BY DEF EventsInv, TypeOK, ReportsAgree
    <3>3. /\ Told \in {"done", "failed", "cancelled"}
          /\ Told = "cancelled" <=> taskState = "cancelled"
          /\ Told = "done" => outcome = "value"
          /\ Told = "failed" => outcome = "error"
      BY <3>1, <3>2 DEF Told
    <3>4. taskState' = Told
      BY <1>1, <2>2, <3>1, <3>2, <3>3 DEF Written, Told
    <3>5. /\ told \in Seq(Modes) /\ Told \in Modes
          /\ told' = Append(told, Told) /\ outcome' = outcome /\ watchers' = watchers
      BY <1>1, <2>2, <3>3 DEF EventsInv, TypeOK, Modes
    <3>6. /\ told' \in Seq(Modes) /\ Len(told) \in Nat
          /\ DOMAIN told = 1 .. Len(told) /\ DOMAIN told' = 1 .. Len(told) + 1
          /\ \A i \in 1 .. Len(told) : told'[i] = told[i]
          /\ told'[Len(told) + 1] = Told
      BY <3>5, AppendProperties, LenProperties
    <3>7. \A i \in DOMAIN told : told[i] \in {"cancelled", Told}
      <4>1. \A i \in DOMAIN told : told[i] \in Modes
        BY <3>5, ElementOfSeq, LenProperties
      <4>2. \A i \in DOMAIN told : /\ told[i] # "finished"
                                   /\ told[i] = "done" => taskState = "done"
                                   /\ told[i] = "failed" => taskState = "failed"
        BY DEF EventsInv, ReportStays
      <4>3. taskState = "done" \/ taskState = "failed" => Told = taskState
        BY <3>1, <3>2 DEF Told
      <4>4. QED
        BY <4>1, <4>2, <4>3 DEF Modes
    <3>8. \A i \in DOMAIN told' : \/ i = Len(told) + 1 /\ told'[i] = Told
                                  \/ i \in DOMAIN told /\ told'[i] = told[i]
      BY <3>6
    <3>9. \A i \in DOMAIN told' : told'[i] \in {"cancelled", Told}
      BY <3>7, <3>8
    <3>10. ReportsAgree'
      <4>1. /\ taskState' = "done" \/ (\E i \in DOMAIN told' : told'[i] = "done")
                 => outcome' = "value"
            /\ taskState' = "failed" \/ (\E i \in DOMAIN told' : told'[i] = "failed")
                 => outcome' = "error"
        BY <3>3, <3>4, <3>5, <3>9
      <4>2. \A i, j \in DOMAIN told' : i < j /\ told'[i] # told'[j] => told'[i] = "cancelled"
        <5>1. CASE Told = "cancelled"
          BY <3>9, <5>1
        <5>2. CASE Told # "cancelled"
          <6>1. SUFFICES ASSUME NEW i \in DOMAIN told', NEW j \in DOMAIN told', i < j,
                                told'[i] # told'[j], told'[i] # "cancelled"
                         PROVE  FALSE
            OBVIOUS
          <6>2. told'[i] = Told /\ told'[j] = "cancelled" /\ i \in Nat /\ j \in Nat
            BY <3>6, <3>9, <6>1
          <6>3. j \in DOMAIN told /\ told[j] = told'[j]
            BY <3>8, <5>2, <6>2
          <6>4. i \in DOMAIN told /\ told[i] = told'[i]
            BY <3>6, <6>1, <6>2, <6>3
          <6>5. told[i] # told[j] /\ told[i] # "cancelled"
            BY <5>2, <6>1, <6>2, <6>3, <6>4
          <6>6. \A k, l \in DOMAIN told : k < l /\ told[k] # told[l] => told[k] = "cancelled"
            BY DEF EventsInv, ReportsAgree
          <6>7. QED
            BY <6>1, <6>3, <6>4, <6>5, <6>6
        <5>3. QED
          BY <5>1, <5>2
      <4>3. QED
        BY <4>1, <4>2 DEF ReportsAgree
    <3>11. ReportStays'
      BY <3>3, <3>4, <3>9 DEF ReportStays
    <3>12. taskState' \in {"pending", "done", "failed", "cancelled"}
      BY <3>3, <3>4
    <3>13. QED
      BY <3>1, <3>5, <3>6, <3>10, <3>11, <3>12 DEF TaskInv, EventsInv, TypeOK
  <2>3. QED
    BY <2>1, <2>2
<1>8. QED
  BY <1>4, <1>5, <1>6, <1>7, Together
(* Only main's stack changes.                                              *)
LEMMA StackKeeps ==
  ASSUME EventsInv, PollEnd \/ HandlerEnds \/ Gone
  PROVE  EventsInv'
<1>1. UNCHANGED <<registry, task, queues, exiting, ticks, calls, started, told>>
  BY DEF PollEnd, HandlerEnds, Gone
<1>2. frames' \in Seq(Frame)
  <2>1. CASE PollEnd
    BY <2>1, EnterType DEF PollEnd, EventsInv
  <2>2. CASE HandlerEnds
    <3>1. frames \in Seq(Frame) /\ Len(frames) \in Nat /\ Len(frames) > 1
      BY <2>2, LenProperties DEF HandlerEnds, EventsInv, TypeOK
    <3>2. \A i \in 1 .. Len(frames) - 1 : frames[i] \in Frame
      BY <3>1, ElementOfSeq
    <3>3. SubSeq(frames, 1, Len(frames) - 1) \in Seq(Frame)
      BY <3>1, <3>2, SubSeqProperties
    <3>4. QED
      BY <2>2, <3>3 DEF HandlerEnds
  <2>3. CASE Gone
    BY <2>3, EmptySeq DEF Gone
  <2>4. QED
    BY <2>1, <2>2, <2>3
<1>3. sp' \in Nat
  <2>1. sp \in Nat
    BY DEF EventsInv, TypeOK
  <2>2. sp' = sp \/ \E n \in Nat : sp' = sp + n
    BY LeavesAssumption DEF PollEnd, HandlerEnds, Gone
  <2>3. QED
    BY <2>1, <2>2
<1>4. MainInv'
  BY <1>1, <1>2, <1>3, Parts DEF MainInv, IdsCounted, registry
<1>5. RegistryInv' /\ TaskInv' /\ QueuesInv'
  BY <1>1, Parts, RegistrySame, TaskSame, QueuesSame DEF task
<1>6. QED
  BY <1>4, <1>5, Together

(* wait writes the state the future has, whatever was written before.      *)
LEMMA WaitEndKeeps == EventsInv /\ WaitEnd => EventsInv'
<1> SUFFICES ASSUME EventsInv, WaitEnd PROVE EventsInv'
  OBVIOUS
<1>1. /\ frames # <<>> /\ Enter("running")
      /\ UNCHANGED <<registry, watchers, outcome, queues, sp, exiting, ticks, calls, started, told>>
      /\ \/ UNCHANGED taskState
         \/ /\ outcome # "pending"
            /\ taskState' = IF outcome = "value" THEN "done"
                            ELSE IF taskState = "cancelled" THEN "cancelled" ELSE "failed"
  BY DEF WaitEnd, Waits
<1>2. MainInv'
  <2>1. ticks \in 0 .. MaxTicks
    BY DEF EventsInv, TypeOK
  <2>2. QED
    BY <1>1, <2>1, Parts, EnterType, MainSame DEF EventsInv, registry
<1>3. RegistryInv' /\ QueuesInv'
  BY <1>1, Parts, RegistrySame, QueuesSame
<1>4. TaskInv'
  <2>1. CASE UNCHANGED taskState
    BY <1>1, <2>1, Parts, TaskSame DEF task
  <2>2. CASE taskState' # taskState
    <3>1. /\ outcome = "value" => taskState' = "done"
          /\ outcome = "error" => taskState' = "failed" /\ taskState # "failed"
          /\ outcome \in {"value", "error"}
      BY <1>1, <2>2 DEF EventsInv, TypeOK
    <3>2. \A i \in DOMAIN told : told[i] \in {"done", "failed"} =>
            told[i] = taskState' /\ told[i] # "finished"
      BY <3>1 DEF EventsInv, ReportsAgree, ReportStays
    <3>3. taskState' \in {"pending", "done", "failed", "cancelled"}
      BY <3>1
    <3>4. ReportsAgree'
      BY <1>1, <3>1 DEF EventsInv, ReportsAgree
    <3>5. ReportStays'
      BY <1>1, <3>2 DEF EventsInv, ReportStays
    <3>6. QED
      BY <1>1, <3>3, <3>4, <3>5, Parts DEF TaskInv
  <2>3. QED
    BY <2>1, <2>2
<1>5. QED
  BY <1>2, <1>3, <1>4, Together

(* The future settles: nothing was said of it yet.                         *)
LEMMA TaskSettlesKeeps == EventsInv /\ TaskSettles => EventsInv'
<1> SUFFICES ASSUME EventsInv, TaskSettles PROVE EventsInv'
  OBVIOUS
<1>1. /\ outcome = "pending" /\ outcome' \in {"value", "error"}
      /\ CallSoon(watchers) /\ watchers' = <<>>
      /\ UNCHANGED <<registry, taskState, main, calls, started, told>>
  BY DEF TaskSettles
<1>2. QueuesInv'
  <2>1. watchers \in Seq(Firing) /\ outcome' # "pending" /\ UNCHANGED started
    BY <1>1 DEF EventsInv, TypeOK
  <2>2. QED
    BY <1>1, <2>1, SoonKeeps
<1>3. TaskInv'
  <2>1. /\ taskState \notin {"done", "failed"}
        /\ \A i \in DOMAIN told : told[i] \notin {"done", "failed"}
    BY <1>1 DEF EventsInv, ReportsAgree
  <2>2. <<>> \in Seq(Firing)
    BY EmptySeq
  <2>3. QED
    BY <1>1, <2>1, <2>2, Parts DEF TaskInv, ReportsAgree, ReportStays
<1>4. RegistryInv'
  BY <1>1, Parts, RegistrySame
<1>5. MainInv'
  <2>1. ticks \in 0 .. MaxTicks /\ frames \in Seq(Frame)
    BY DEF EventsInv, TypeOK
  <2>2. QED
    BY <1>1, <2>1, Parts, MainSame DEF main, registry
<1>6. QED
  BY <1>2, <1>3, <1>4, <1>5, Together

(* The exit hook: an emit, and a wait for what it scheduled.               *)
LEMMA ExitKeeps == EventsInv /\ Exit => EventsInv'
<1> SUFFICES ASSUME EventsInv, Exit PROVE EventsInv'
  OBVIOUS
<1> DEFINE f == [Running(sp) EXCEPT !.at = "waiting"]
<1>1. /\ BeforeExit \in Names /\ Dispatch(BeforeExit) /\ exiting' = TRUE /\ frames' = <<f>>
      /\ UNCHANGED <<task, sp, ticks, calls, started, told>>
  BY NamesAssumption DEF Exit
<1>2. f \in Frame
  BY DEF Running, Frame, EventsInv, TypeOK
<1> HIDE DEF f
<1>3. frames' \in Seq(Frame)
  BY <1>1, <1>2
<1>4. RegistryInv'
  BY <1>1, DispatchRegistry DEF EventsInv, TypeOK, RegistryInv
<1>5. TaskInv'
  BY <1>1, Parts, TaskSame
<1>6. QueuesInv'
  <2>1. UNCHANGED <<started, outcome>>
    BY <1>1 DEF task
  <2>2. QED
    BY <1>1, <2>1, DispatchKeeps DEF Dispatch, EventsInv, TypeOK, QueuesInv
<1>7. MainInv'
  <2>1. nextId' = nextId /\ exiting' \in BOOLEAN
    BY <1>1 DEF Dispatch
  <2>2. QED
    BY <1>1, <1>3, <2>1, Parts DEF MainInv, IdsCounted
<1>8. QED
  BY <1>4, <1>5, <1>6, <1>7, Together

LEMMA EventsStuttering == EventsInv /\ UNCHANGED vars => EventsInv'
<1>1. UNCHANGED vars => UNCHANGED <<registry, task, told, queues, started, main, calls>>
  BY DEF vars, registry, task, queues, main
<1>2. EventsInv /\ UNCHANGED vars => RegistryInv' /\ TaskInv' /\ QueuesInv'
  BY <1>1, Parts, RegistrySame, TaskSame, QueuesSame DEF task
<1>3. EventsInv /\ UNCHANGED vars => MainInv'
  BY Parts DEF vars, MainInv, IdsCounted
<1>4. QED
  BY <1>2, <1>3, Together

LEMMA EventsStep == EventsInv /\ [Next]_vars => EventsInv'
<1> SUFFICES ASSUME EventsInv, Next PROVE EventsInv'
  BY EventsStuttering
<1>1. CASE \E e \in Names, once \in BOOLEAN : On(e, once)
  BY <1>1, OnKeeps
<1>2. CASE \E mode \in Modes : OnTask(mode)
  BY <1>2, OnTaskKeeps
<1>3. CASE \E e \in Names : Emit(e)
  BY <1>3, EmitKeeps
<1>4. CASE (\E e \in Names : Off(e)) \/ (\E id \in Ids : OffId(id))
  BY <1>4, OffKeeps
<1>5. CASE Cancel
  BY <1>5, CancelKeeps
<1>6. CASE \E future \in {"task", "other"} : WaitStart(future)
  BY <1>6, WaitStartKeeps
<1>7. CASE PollEnd \/ HandlerEnds \/ Gone
  BY <1>7, StackKeeps
<1>8. CASE Exit
  BY <1>8, ExitKeeps
<1>9. CASE PollStart
  BY <1>9, PollStartKeeps
<1>10. CASE RunCallback
  BY <1>10, RunCallbackKeeps
<1>11. CASE WaitEnd
  BY <1>11, WaitEndKeeps
<1>12. CASE TaskSettles
  BY <1>12, TaskSettlesKeeps
<1>13. QED
  BY <1>1, <1>2, <1>3, <1>4, <1>5, <1>6, <1>7, <1>8, <1>9, <1>10, <1>11, <1>12
  DEF Next, Program, Dispatcher

LEMMA EventsInvariant == Spec => []EventsInv
  BY EventsInit, EventsStep, PTL DEF Spec

-----------------------------------------------------------------------------
(* Every variable keeps its type: ids in particular, which the code never  *)
(* bounds, never outnumber the calls.                                      *)
THEOREM TypeCorrect == Spec => []TypeOK
<1>1. EventsInv => TypeOK
  BY DEF EventsInv
<1>2. QED
  BY <1>1, EventsInvariant, PTL

(* Every handler an emit found and every callback of the task is started   *)
(* once, in the order in which dispatchEvent and the future scheduled      *)
(* them, however deep the polls that start them are nested.                *)
THEOREM StartedInOrderCorrect == Spec => []StartedInOrder
<1>1. EventsInv => StartedInOrder
  BY DEF EventsInv
<1>2. QED
  BY <1>1, EventsInvariant, PTL

(* What `cancel`, `wait` and the callbacks of a task write and report      *)
(* agrees with its future, in whatever order they come.                    *)
THEOREM ReportsAgreeCorrect == Spec => []ReportsAgree
<1>1. EventsInv => ReportsAgree
  BY DEF EventsInv
<1>2. QED
  BY <1>1, EventsInvariant, PTL

(* dispatchEvent schedules only registrations that are there, and none of  *)
(* those was taken out, by `off` or by its first fire.                     *)
LEMMA OffIsFinalStep ==
  EventsInv /\ [Next]_vars =>
    [\A i \in DOMAIN timers' \ DOMAIN timers : timers'[i].id \notin removed]_vars
<1> SUFFICES ASSUME EventsInv, Next, NEW i \in DOMAIN timers' \ DOMAIN timers
             PROVE  timers'[i].id \notin removed
  OBVIOUS
<1>1. CASE \E e \in Names : Dispatch(e)
  <2>1. PICK e \in Names : Dispatch(e)
    BY <1>1
  <2>2. /\ timers \in Seq(Firing) /\ Firings(e) \in Seq(Firing)
        /\ timers' = timers \o Firings(e)
        /\ \A j \in DOMAIN Firings(e) : /\ j \in DOMAIN subscribers[e]
                                        /\ Firings(e)[j].id = subscribers[e][j].id
    BY <2>1, FiringsType DEF EventsInv, TypeOK, Dispatch
  <2>3. /\ DOMAIN timers = 1 .. Len(timers) /\ Len(timers) \in Nat
        /\ DOMAIN Firings(e) = 1 .. Len(Firings(e)) /\ Len(Firings(e)) \in Nat
        /\ timers' \in Seq(Firing) /\ Len(timers') = Len(timers) + Len(Firings(e))
        /\ DOMAIN timers' = 1 .. Len(timers')
        /\ \A k \in 1 .. Len(timers) + Len(Firings(e)) :
             timers'[k] = IF k <= Len(timers) THEN timers[k] ELSE Firings(e)[k - Len(timers)]
    BY <2>2, ConcatProperties, LenProperties
  <2>4. i - Len(timers) \in DOMAIN Firings(e) /\ timers'[i] = Firings(e)[i - Len(timers)]
    BY <2>3
  <2>5. \A j \in DOMAIN subscribers[e] : subscribers[e][j].id \notin removed
    BY DEF EventsInv, Fresh
  <2>6. QED
    BY <2>2, <2>4, <2>5
<1>2. CASE timers' = timers \/ timers' = <<>>
  <2>1. DOMAIN <<>> = {}
    OBVIOUS
  <2>2. QED
    BY <1>2, <2>1
<1>3. QED
  BY <1>1, <1>2, NamesAssumption
  DEF Next, Program, Dispatcher, On, OnTask, CallSoon, Emit, Off, OffId, Cancel, WaitStart,
      HandlerEnds, Exit, PollStart, RunCallback, PollEnd, Gone, WaitEnd, TaskSettles, queues

(* A once-handler is started once, however many emits come before the next *)
(* tick, and nothing that `off` took out is scheduled again.               *)
THEOREM OffIsFinalCorrect == Spec => OffIsFinal
  BY EventsInvariant, OffIsFinalStep, PTL DEF Spec, OffIsFinal
=============================================================================
