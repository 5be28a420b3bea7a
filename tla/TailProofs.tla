----------------------------- MODULE TailProofs -----------------------------
(***************************************************************************)
(* Theorems about TailFile for any number of lines and of records.         *)
(***************************************************************************)
EXTENDS TailFile, TLAPS, SequenceTheorems, WellFoundedInduction

-----------------------------------------------------------------------------
(* What the writer writes.                                                 *)
LEMMA Numbers ==
  /\ Lines \in Nat /\ Payload \in Nat /\ 1 <= Payload /\ Payload <= Lines
  /\ Records \in Nat /\ Newlines \subseteq Nat
  BY LinesAssumption, RecordsAssumption, NewlinesAssumption

LEMMA BetweenType ==
  ASSUME NEW r \in 1 .. Records, NEW first \in Nat \ {0}, NEW last \in Nat,
         last - first + 1 \in Nat
  PROVE  /\ Between(r, first, last) \in Seq(Fragment)
         /\ Len(Between(r, first, last)) = last - first + 1
<1> DEFINE m == last - first + 1
<1>1. m \in Nat
  OBVIOUS
<1>2. \A l \in 1 .. m : <<r, first + l - 1, "whole">> \in Fragment
  BY DEF Fragment
<1>3. Between(r, first, last) = [l \in 1 .. m |-> <<r, first + l - 1, "whole">>]
  BY DEF Between
<1>4. Between(r, first, last) \in [1 .. m -> Fragment]
  BY <1>2, <1>3
<1>5. Between(r, first, last) \in Seq(Fragment)
  BY <1>1, <1>4, SeqDef
<1>6. QED
  BY <1>1, <1>4, <1>5

LEMMA FrontType ==
  ASSUME NEW r \in 1 .. Records
  PROVE  /\ Front(r) \in Seq(Fragment) /\ Len(Front(r)) = Payload
         /\ \A l \in 1 .. Payload : Front(r)[l] =
              <<r, l, IF l = Payload THEN "front" ELSE "whole">>
<1>1. \A l \in 1 .. Payload : <<r, l, "front">> \in Fragment /\ <<r, l, "whole">> \in Fragment
  BY Numbers DEF Fragment
<1>2. Front(r) \in [1 .. Payload -> Fragment]
  BY <1>1 DEF Front
<1>3. Front(r) \in Seq(Fragment)
  BY <1>2, Numbers, SeqDef
<1>4. QED
  BY <1>2, <1>3, Numbers DEF Front

LEMMA BackType ==
  ASSUME NEW r \in 1 .. Records, NEW n \in Nat
  PROVE  /\ Back(r, n) \in Seq(Fragment) /\ Len(Back(r, n)) = n + 1
         /\ Back(r, n)[1] = <<r, Payload, "back">>
<1>1. <<r, Payload, "back">> \in Fragment
  BY Numbers DEF Fragment
<1>2. Between(r, Payload + 1, Payload + n) \in Seq(Fragment)
      /\ Len(Between(r, Payload + 1, Payload + n)) = n
  <2>1. /\ Payload + 1 \in Nat \ {0} /\ Payload + n \in Nat
        /\ (Payload + n) - (Payload + 1) + 1 = n
    BY Numbers
  <2>2. QED
    BY <2>1, BetweenType
<1>3. <<<<r, Payload, "back">>>> \in Seq(Fragment)
  BY <1>1
<1>4. /\ Len(<<<<r, Payload, "back">>>>) = 1 /\ n \in Nat
      /\ <<<<r, Payload, "back">>>>[1] = <<r, Payload, "back">>
  OBVIOUS
<1> DEFINE s == <<<<r, Payload, "back">>>>
           t == Between(r, Payload + 1, Payload + n)
<1>5. Back(r, n) = s \o t
  BY DEF Back
<1> HIDE DEF s, t
<1>6. /\ s \in Seq(Fragment) /\ t \in Seq(Fragment) /\ Len(s) = 1 /\ Len(t) = n
      /\ s[1] = <<r, Payload, "back">>
  BY <1>2, <1>3, <1>4 DEF s, t
<1>7. QED
  BY <1>4, <1>5, <1>6, ConcatProperties

LEMMA AfterType ==
  ASSUME NEW r \in 1 .. Records, NEW n \in Nat
  PROVE  /\ After(r, n) \in Seq(Fragment) /\ Len(After(r, n)) = Lines - Payload
         /\ \A l \in 1 .. Lines - Payload : After(r, n)[l] = <<r, Payload + n + l, "whole">>
<1> DEFINE f == Payload + n + 1
           m == Lines - Payload
           t == Lines + n
<1>1. /\ f \in Nat \ {0} /\ m \in Nat /\ t \in Nat /\ t - f + 1 = m
      /\ \A l \in 1 .. m : f + l - 1 = Payload + n + l
  BY Numbers
<1>2. After(r, n) = Between(r, f, t)
  BY DEF After
<1> HIDE DEF f, m, t
<1>3. Between(r, f, t) \in Seq(Fragment) /\ Len(Between(r, f, t)) = m
  BY <1>1, BetweenType
<1>4. \A l \in 1 .. m : Between(r, f, t)[l] = <<r, f + l - 1, "whole">>
  BY <1>1 DEF Between
<1>5. QED
  BY <1>1, <1>2, <1>3, <1>4 DEF m

LEMMA WholeType ==
  ASSUME NEW r \in 1 .. Records, NEW n \in Nat
  PROVE  /\ Whole(r, n) \in Seq(Fragment) /\ Len(Whole(r, n)) = Lines + n
         /\ \A l \in 1 .. Lines + n : Whole(r, n)[l] = <<r, l, "whole">>
<1>1. /\ 1 \in Nat \ {0} /\ Lines + n \in Nat /\ (Lines + n) - 1 + 1 = Lines + n
      /\ \A l \in 1 .. Lines + n : 1 + l - 1 = l
  BY Numbers
<1>2. Whole(r, n) = Between(r, 1, Lines + n)
  BY DEF Whole
<1>3. Between(r, 1, Lines + n) = [l \in 1 .. Lines + n |-> <<r, 1 + l - 1, "whole">>]
  BY <1>1 DEF Between
<1>4. QED
  BY <1>1, <1>2, <1>3, BetweenType

(* What a step of the writer adds to the file.                             *)
LEMMA Written ==
  ASSUME TypeOK, WriteRecord
  PROVE  /\ next \in 1 .. Records /\ next' \in 1 .. Records + 1
         /\ torn' \in {"none", "front", "payload"} /\ UNCHANGED <<running, reader>>
         /\ \E u \in Seq(Fragment) : file' = file \o u
<1>1. ASSUME NEW u, NEW left \in {"none", "front", "payload"}, Writes(u, left)
      PROVE  /\ next \in 1 .. Records /\ next' \in 1 .. Records + 1
             /\ torn' \in {"none", "front", "payload"} /\ UNCHANGED <<running, reader>>
             /\ file' = file \o u
  BY <1>1, Numbers DEF Writes, TypeOK
<1>2. \E u, left : Writes(u, left)
  BY DEF WriteRecord
<1>3. next \in 1 .. Records
  BY <1>2, Numbers DEF Writes, TypeOK
<1>4. CASE \E n \in Newlines : Writes(Whole(next, n), "none")
  BY <1>1, <1>3, <1>4, WholeType, Numbers
<1>5. CASE Writes(Front(next), "front")
  BY <1>1, <1>3, <1>5, FrontType
<1>6. CASE \E n \in Newlines : Writes(Back(next, n) \o After(next, n), "none")
  <2>1. PICK n \in Newlines : Writes(Back(next, n) \o After(next, n), "none")
    BY <1>6
  <2>2. Back(next, n) \o After(next, n) \in Seq(Fragment)
    BY <1>3, BackType, AfterType, Numbers, ConcatProperties
  <2>3. QED
    BY <1>1, <2>1, <2>2
<1>7. CASE Writes(Back(next, 0), "payload")
  BY <1>1, <1>3, <1>7, BackType
<1>8. CASE Writes(After(next, 0), "none")
  BY <1>1, <1>3, <1>8, AfterType
<1>9. QED
  BY <1>4, <1>5, <1>6, <1>7, <1>8 DEF WriteRecord

(* What was in the file stays there.                                       *)
LEMMA FileGrows ==
  ASSUME TypeOK, WriteRecord
  PROVE  /\ file' \in Seq(Fragment) /\ Len(file) \in Nat /\ Len(file') \in Nat
         /\ Len(file) <= Len(file')
         /\ \A j \in 1 .. Len(file) : file'[j] = file[j]
<1>1. PICK u \in Seq(Fragment) : file' = file \o u
  BY Written
<1>2. file \in Seq(Fragment) /\ Len(file) \in Nat /\ Len(u) \in Nat
  BY LenProperties DEF TypeOK
<1>3. QED
  BY <1>1, <1>2, ConcatProperties

-----------------------------------------------------------------------------
(* A set of numbers has a least.                                           *)
LEMMA Least ==
  ASSUME NEW S, S \subseteq Nat, S # {}
  PROVE  \E m \in S : \A k \in S : m <= k
<1>1. PICK m \in S : \A k \in S : <<k, m>> \notin OpToRel(<, Nat)
  BY NatLessThanWellFounded, WFMin
<1>2. \A k \in S : ~(k < m)
  BY <1>1 DEF OpToRel
<1>3. \A k \in S : k \in Nat /\ m \in Nat
  OBVIOUS
<1>4. QED
  BY <1>2, <1>3

(* The end of the line at the cursor.                                      *)
LEMMA LineEndBounds ==
  ASSUME TypeOK, cursor < Len(file)
  PROVE  /\ LineEnd \in cursor + 1 .. Len(file)
         /\ LineEnds # {} => LineEnd \in LineEnds /\ \A k \in LineEnds : LineEnd <= k
<1>1. /\ file \in Seq(Fragment) /\ Len(file) \in Nat /\ cursor \in Nat
      /\ Len(file) \in cursor + 1 .. Len(file)
  BY LenProperties DEF TypeOK
<1>2. LineEnds \subseteq cursor + 1 .. Len(file)
  BY DEF LineEnds
<1>3. CASE LineEnds = {}
  BY <1>1, <1>3 DEF LineEnd
<1>4. CASE LineEnds # {}
  <2>1. \E j \in LineEnds : \A k \in LineEnds : j <= k
    <3>1. LineEnds \subseteq Nat
      BY <1>1, <1>2
    <3>2. QED
      BY <1>4, <3>1, Least
  <2>2. QED
    BY <1>2, <1>4, <2>1 DEF LineEnd
<1>5. QED
  BY <1>3, <1>4
-----------------------------------------------------------------------------
(* Types.                                                                  *)
LEMMA TypeInit == Init => TypeOK
<1> SUFFICES ASSUME Init PROVE TypeOK
  OBVIOUS
<1>1. <<>> \in Seq(Fragment) /\ <<>> \in Seq(Seq(Fragment)) /\ <<>> \in Seq(Seq(Seq(Fragment)))
      /\ Len(file) = 0
  BY EmptySeq DEF Init
<1>2. next \in 1 .. Records + 1 /\ pos \in 0 .. cursor /\ cursor \in 0 .. Len(file)
  BY <1>1, Numbers DEF Init
<1>3. running \in BOOLEAN /\ eof \in BOOLEAN
  BY DEF Init
<1>4. QED
  BY <1>1, <1>2, <1>3 DEF Init, TypeOK

LEMMA ReadLineType == TypeOK /\ ReadLine => TypeOK'
<1> SUFFICES ASSUME TypeOK, ReadLine PROVE TypeOK'
  OBVIOUS
<1> DEFINE line == SubSeq(file, cursor + 1, LineEnd)
           record == Append(lines, line)
<1>1. /\ file \in Seq(Fragment) /\ Len(file) \in Nat /\ cursor \in 0 .. Len(file)
      /\ cursor < Len(file) /\ LineEnd \in cursor + 1 .. Len(file)
  BY LineEndBounds, LenProperties DEF TypeOK, ReadLine
<1>2. line \in Seq(Fragment)
  <2>1. \A i \in cursor + 1 .. LineEnd : file[i] \in Fragment
    BY <1>1, ElementOfSeq
  <2>2. cursor + 1 \in Int /\ LineEnd \in Int
    BY <1>1
  <2>3. QED
    BY <2>1, <2>2, SubSeqProperties
<1> HIDE DEF line
<1>3. record \in Seq(Seq(Fragment))
  BY <1>2, AppendProperties DEF TypeOK
<1> HIDE DEF record
<1>4. /\ lines' \in {<<>>, record} /\ delivered' \in {delivered, Append(delivered, record)}
      /\ cursor' = LineEnd /\ pos' \in {cursor', pos}
      /\ UNCHANGED <<writer, phase>>
  BY DEF ReadLine, Commit, record, line
<1>5. lines' \in Seq(Seq(Fragment)) /\ delivered' \in Seq(Seq(Seq(Fragment)))
  <2>1. <<>> \in Seq(Seq(Fragment))
    BY EmptySeq
  <2>2. delivered \in Seq(Seq(Seq(Fragment)))
    BY DEF TypeOK
  <2>3. Append(delivered, record) \in Seq(Seq(Seq(Fragment)))
    BY <1>3, <2>2, AppendProperties
  <2>4. QED
    BY <1>3, <1>4, <2>1, <2>2, <2>3
<1>6. pos' \in 0 .. cursor' /\ cursor' \in 0 .. Len(file)
  <2>1. pos \in 0 .. cursor
    BY DEF TypeOK
  <2>2. QED
    BY <1>1, <1>4, <2>1
<1>7. eof' \in BOOLEAN
  BY DEF ReadLine, Sticky, TypeOK
<1>8. QED
  BY <1>4, <1>5, <1>6, <1>7 DEF TypeOK, writer

LEMMA TypeStep == TypeOK /\ [Next]_vars => TypeOK'
<1> SUFFICES ASSUME TypeOK, Next PROVE TypeOK'
  BY DEF vars, TypeOK
<1>1. CASE WriteRecord
  <2>1. /\ next' \in 1 .. Records + 1 /\ torn' \in {"none", "front", "payload"}
        /\ UNCHANGED <<running, phase, pos, cursor, eof, lines, delivered>>
    BY <1>1, Written DEF reader
  <2>2. file' \in Seq(Fragment) /\ cursor \in 0 .. Len(file')
    <3>1. cursor \in 0 .. Len(file)
      BY DEF TypeOK
    <3>2. QED
      BY <1>1, <3>1, FileGrows
  <2>3. QED
    BY <2>1, <2>2 DEF TypeOK
<1>2. CASE Exit
  BY <1>2 DEF Exit, reader, TypeOK
<1>3. CASE OpenPass
  <2>1. <<>> \in Seq(Seq(Fragment))
    BY EmptySeq
  <2>2. /\ cursor' = pos /\ lines' = <<>> /\ eof' = FALSE /\ phase' = "reading"
        /\ UNCHANGED <<writer, pos, delivered>>
    BY <1>3 DEF OpenPass, SeekPos, Reopened
  <2>3. pos' \in 0 .. cursor' /\ cursor' \in 0 .. Len(file')
    <3>1. pos \in 0 .. cursor /\ cursor \in 0 .. Len(file) /\ Len(file) \in Nat
      BY LenProperties DEF TypeOK
    <3>2. QED
      BY <2>2, <3>1 DEF writer
  <2>4. QED
    BY <2>1, <2>2, <2>3 DEF writer, TypeOK
<1>4. CASE ReadLine
  BY <1>4, ReadLineType
<1>5. CASE EndPass \/ CheckAlive
  BY <1>5 DEF EndPass, CheckAlive, writer, TypeOK
<1>6. QED
  BY <1>1, <1>2, <1>3, <1>4, <1>5 DEF Next, Reader

(* The tail never reads past what was written, and pos never past what the *)
(* tail has read, with payloads of any number of lines.                    *)
THEOREM TypeCorrect == Spec => []TypeOK
  BY TypeInit, TypeStep, PTL DEF Spec

-----------------------------------------------------------------------------
(* The order of the fragments in the file: the lines of a record one after *)
(* the other, the records one after the other, and a line in two pieces at *)
(* the payload only.                                                       *)
Starts(x, r, l) == x = <<r, l, "whole">> \/ (l = Payload /\ x = <<r, l, "front">>)
Ends(x, r, l) == x = <<r, l, "whole">> \/ (l = Payload /\ x = <<r, l, "back">>)

Follows(x, y) ==
  IF EndsLine(x)
  THEN IF x[2] = Lines THEN Starts(y, x[1] + 1, 1) ELSE Starts(y, x[1], x[2] + 1)
  ELSE y = <<x[1], x[2], "back">>

Chained(s) == \A j \in 1 .. Len(s) - 1 : Follows(s[j], s[j + 1])

(* Where the writer is tells what the file ends with.                      *)
EndTells(x, left, r) ==
  /\ left = "none" => Ends(x, r - 1, Lines)
  /\ left = "front" => x = <<r, Payload, "front">>
  /\ left = "payload" => x = <<r, Payload, "back">>

FileInOrder ==
  /\ Chained(file)
  /\ file # <<>> => Starts(file[1], 1, 1) /\ EndTells(file[Len(file)], torn, next)
  /\ file = <<>> => next = 1 /\ torn = "none"

(* Between two lines of the file: behind d records and n more lines.       *)
Place(p, d, n) ==
  IF d = 0 /\ n = 0 THEN p = 0
  ELSE p > 0 /\ (IF n = 0 THEN Ends(file[p], d, Lines) ELSE Ends(file[p], d + 1, n))

ReaderInOrder ==
  /\ Place(pos, Len(delivered), 0)
  /\ phase = "reading" /\ ~eof =>
       /\ Place(cursor, Len(delivered), Len(lines))
       /\ Len(lines) < Lines
       /\ \A l \in DOMAIN lines : Intact(lines[l], Len(delivered) + 1, l)

TailInv == TypeOK /\ FileInOrder /\ ReaderInOrder /\ RecordsIntact

(* Payloads that codify to one line, which is not the last of the record.  *)
OneLinePayload == Newlines = {0} /\ Payload < Lines

LEMMA TailInit == OneLinePayload /\ Init => TailInv
<1> SUFFICES ASSUME OneLinePayload, Init PROVE TailInv
  OBVIOUS
<1>1. Len(<<>>) = 0 /\ DOMAIN <<>> = {}
  OBVIOUS
<1>2. FileInOrder
  BY <1>1 DEF Init, FileInOrder, Chained
<1>3. ReaderInOrder /\ RecordsIntact
  BY <1>1 DEF Init, ReaderInOrder, Place, RecordsIntact
<1>4. QED
  BY <1>2, <1>3, TypeInit DEF TailInv

LEMMA ChainGrows ==
  ASSUME NEW s \in Seq(Fragment), NEW u \in Seq(Fragment), u # <<>>, Chained(s), Chained(u),
         s # <<>> => Follows(s[Len(s)], u[1])
  PROVE  /\ Chained(s \o u) /\ s \o u # <<>>
         /\ (s \o u)[Len(s \o u)] = u[Len(u)]
         /\ (s \o u)[1] = IF s = <<>> THEN u[1] ELSE s[1]
<1>1. /\ s \o u \in Seq(Fragment) /\ Len(s \o u) = Len(s) + Len(u)
      /\ \A i \in 1 .. Len(s) + Len(u) : (s \o u)[i] = IF i <= Len(s) THEN s[i] ELSE u[i - Len(s)]
  BY ConcatProperties
<1>2. /\ Len(s) \in Nat /\ Len(u) \in Nat /\ Len(u) # 0
      /\ (s = <<>> <=> Len(s) = 0)
  BY EmptySeq, LenProperties
<1>3. ASSUME NEW j \in 1 .. Len(s) + Len(u) - 1
      PROVE  Follows((s \o u)[j], (s \o u)[j + 1])
  <2>1. CASE j < Len(s)
    <3>1. (s \o u)[j] = s[j] /\ (s \o u)[j + 1] = s[j + 1] /\ j \in 1 .. Len(s) - 1
      BY <1>1, <1>2, <2>1
    <3>2. QED
      BY <3>1 DEF Chained
  <2>2. CASE j = Len(s)
    <3>1. (s \o u)[j] = s[j] /\ (s \o u)[j + 1] = u[1] /\ s # <<>>
      BY <1>1, <1>2, <2>2
    <3>2. QED
      BY <2>2, <3>1
  <2>3. CASE j > Len(s)
    <3>1. /\ (s \o u)[j] = u[j - Len(s)] /\ (s \o u)[j + 1] = u[j - Len(s) + 1]
          /\ j - Len(s) \in 1 .. Len(u) - 1
      BY <1>1, <1>2, <2>3
    <3>2. QED
      BY <3>1 DEF Chained
  <2>4. QED
    BY <1>2, <2>1, <2>2, <2>3
<1>4. Chained(s \o u)
  BY <1>1, <1>3 DEF Chained
<1>5. Len(s \o u) # 0
  BY <1>1, <1>2
<1>6. QED
  BY <1>1, <1>2, <1>4, <1>5
(* What a write of a one-line payload adds continues the file.             *)
LEMMA WriteContinues ==
  ASSUME TailInv, OneLinePayload, WriteRecord
  PROVE  \E u \in Seq(Fragment) :
           /\ file' = file \o u /\ u # <<>> /\ Chained(u)
           /\ file = <<>> => Starts(u[1], 1, 1)
           /\ file # <<>> => Follows(file[Len(file)], u[1])
           /\ EndTells(u[Len(u)], torn', next')
<1>1. /\ next \in 1 .. Records /\ next \in Nat /\ next >= 1 /\ 0 \in Nat
      /\ Newlines = {0} /\ Payload < Lines
  BY Written, Numbers DEF TailInv, OneLinePayload
<1>2. /\ Lines \in Nat /\ Payload \in Nat /\ 1 <= Payload
  BY Numbers
<1>3. /\ file = <<>> => next = 1 /\ torn = "none"
      /\ file # <<>> => EndTells(file[Len(file)], torn, next)
  BY DEF TailInv, FileInOrder
<1>4. torn = "none" => /\ file = <<>> => next = 1
                       /\ file # <<>> => \A y : Starts(y, next, 1) => Follows(file[Len(file)], y)
  <2>1. SUFFICES ASSUME torn = "none", file # <<>>, NEW y, Starts(y, next, 1)
                 PROVE  Follows(file[Len(file)], y)
    BY <1>3
  <2>2. Ends(file[Len(file)], next - 1, Lines)
    BY <1>3, <2>1 DEF EndTells
  <2>3. next - 1 + 1 = next
    BY <1>1
  <2>4. QED
    BY <2>1, <2>2, <2>3 DEF Ends, Follows, EndsLine
<1>5. CASE torn = "none" /\ Writes(Whole(next, 0), "none")
  <2> DEFINE u == Whole(next, 0)
  <2>1. /\ u \in Seq(Fragment) /\ Len(u) = Lines
        /\ \A l \in 1 .. Lines : u[l] = <<next, l, "whole">>
    <3>1. Lines + 0 = Lines
      BY <1>2
    <3>2. QED
      BY <1>1, <3>1, WholeType
  <2>2. /\ file' = file \o u /\ torn' = "none" /\ next' = next + 1
    BY <1>5 DEF Writes
  <2> HIDE DEF u
  <2>3. ASSUME NEW j \in 1 .. Lines - 1 PROVE Follows(u[j], u[j + 1])
    <3>1. j \in 1 .. Lines /\ j + 1 \in 1 .. Lines /\ j # Lines
      BY <1>2
    <3>2. QED
      BY <2>1, <3>1 DEF Follows, EndsLine, Starts
  <2>4. Chained(u)
    BY <2>1, <2>3 DEF Chained
  <2>5. 1 \in 1 .. Lines /\ Lines \in 1 .. Lines /\ next' - 1 = next /\ u # <<>>
    <3>1. Len(<<>>) = 0 /\ Lines # 0
      BY <1>2, <1>1
    <3>2. QED
      BY <1>1, <1>2, <2>1, <2>2, <3>1
  <2>6. Starts(u[1], next, 1)
    BY <2>1, <2>5 DEF Starts
  <2>7. EndTells(u[Len(u)], torn', next')
    BY <2>1, <2>2, <2>5 DEF EndTells, Ends
  <2>8. QED
    BY <1>4, <1>5, <2>1, <2>2, <2>4, <2>5, <2>6, <2>7
<1>6. CASE torn = "none" /\ Writes(Front(next), "front")
  <2> DEFINE u == Front(next)
  <2>1. /\ u \in Seq(Fragment) /\ Len(u) = Payload
        /\ \A l \in 1 .. Payload : u[l] = <<next, l, IF l = Payload THEN "front" ELSE "whole">>
    BY <1>1, FrontType
  <2>2. /\ file' = file \o u /\ torn' = "front" /\ next' = next
    BY <1>6 DEF Writes
  <2> HIDE DEF u
  <2>3. ASSUME NEW j \in 1 .. Payload - 1 PROVE Follows(u[j], u[j + 1])
    <3>1. /\ j \in 1 .. Payload /\ j + 1 \in 1 .. Payload /\ j # Payload /\ j # Lines
      BY <1>1, <1>2
    <3>2. u[j] = <<next, j, "whole">> /\ Starts(u[j + 1], next, j + 1)
      BY <2>1, <3>1 DEF Starts
    <3>3. QED
      BY <3>1, <3>2 DEF Follows, EndsLine
  <2>4. Chained(u)
    BY <2>1, <2>3 DEF Chained
  <2>5. 1 \in 1 .. Payload /\ Payload \in 1 .. Payload /\ u # <<>>
    <3>1. Len(<<>>) = 0 /\ Payload # 0
      BY <1>2
    <3>2. QED
      BY <1>2, <2>1, <3>1
  <2>6. Starts(u[1], next, 1)
    BY <2>1, <2>5 DEF Starts
  <2>7. EndTells(u[Len(u)], torn', next')
    BY <2>1, <2>2, <2>5 DEF EndTells
  <2>8. QED
    BY <1>4, <1>6, <2>1, <2>2, <2>4, <2>5, <2>6, <2>7
<1>7. CASE torn = "front" /\ Writes(Back(next, 0) \o After(next, 0), "none")
  <2> DEFINE b == Back(next, 0)
             a == After(next, 0)
             u == b \o a
             m == Lines - Payload
  <2>1. /\ b \in Seq(Fragment) /\ Len(b) = 1 /\ b[1] = <<next, Payload, "back">>
    <3>1. 0 + 1 = 1
      OBVIOUS
    <3>2. QED
      BY <1>1, <3>1, BackType
  <2>2. /\ a \in Seq(Fragment) /\ Len(a) = m
        /\ \A l \in 1 .. m : a[l] = <<next, Payload + l, "whole">>
    <3>1. \A l \in 1 .. m : Payload + 0 + l = Payload + l
      BY <1>2
    <3>2. QED
      BY <1>1, <3>1, AfterType
  <2>3. /\ file' = file \o u /\ torn' = "none" /\ next' = next + 1
    BY <1>7 DEF Writes
  <2>4. m \in Nat /\ m >= 1 /\ Payload + m = Lines
    BY <1>1, <1>2
  <2> HIDE DEF a, b, m
  <2>5. /\ u \in Seq(Fragment) /\ Len(u) = 1 + m
        /\ \A i \in 1 .. 1 + m : u[i] = IF i <= 1 THEN b[i] ELSE a[i - 1]
    <3>1. /\ u \in Seq(Fragment) /\ Len(u) = Len(b) + Len(a)
          /\ \A i \in 1 .. Len(b) + Len(a) : u[i] = IF i <= Len(b) THEN b[i] ELSE a[i - Len(b)]
      BY <2>1, <2>2, ConcatProperties
    <3> HIDE DEF u
    <3>2. QED
      BY <2>1, <2>2, <2>4, <3>1
  <2> HIDE DEF u
  <2>6. u[1] = <<next, Payload, "back">>
    BY <2>1, <2>4, <2>5
  <2>7. \A i \in 2 .. 1 + m : u[i] = <<next, Payload + (i - 1), "whole">>
    BY <2>2, <2>4, <2>5
  <2>8. ASSUME NEW j \in 1 .. m PROVE Follows(u[j], u[j + 1])
    <3>1. CASE j = 1
      <4>1. u[2] = <<next, Payload + 1, "whole">> /\ Payload # Lines
        BY <1>1, <1>2, <2>4, <2>7
      <4>2. QED
        BY <2>6, <3>1, <4>1 DEF Follows, EndsLine, Starts
    <3>2. CASE j # 1
      <4>1. j \in 2 .. 1 + m /\ j + 1 \in 2 .. 1 + m
        BY <2>4, <3>2
      <4>2. u[j] = <<next, Payload + (j - 1), "whole">>
        BY <2>7, <4>1
      <4>3. u[j + 1] = <<next, Payload + (j - 1) + 1, "whole">>
        <5>1. Payload + ((j + 1) - 1) = Payload + (j - 1) + 1
          BY <1>2, <4>1
        <5>2. QED
          BY <2>7, <4>1, <5>1
      <4>4. Payload + (j - 1) # Lines
        BY <1>2, <2>4, <4>1
      <4>5. QED
        BY <4>2, <4>3, <4>4 DEF Follows, EndsLine, Starts
    <3>3. QED
      BY <3>1, <3>2
  <2>9. Len(u) - 1 = m /\ Len(u) # 0
    BY <2>4, <2>5
  <2>10. Chained(u) /\ u # <<>>
    <3>1. Len(<<>>) = 0
      OBVIOUS
    <3>2. QED
      BY <2>8, <2>9, <3>1 DEF Chained
  <2>11. file # <<>> /\ Follows(file[Len(file)], u[1])
    BY <1>3, <1>7, <2>6 DEF EndTells, Follows, EndsLine
  <2>12. EndTells(u[Len(u)], torn', next')
    <3>1. 1 + m \in 2 .. 1 + m /\ Payload + ((1 + m) - 1) = Lines /\ next' - 1 = next
      BY <1>1, <1>2, <2>3, <2>4
    <3>2. u[Len(u)] = <<next' - 1, Lines, "whole">>
      BY <2>5, <2>7, <3>1
    <3>3. QED
      BY <2>3, <3>2 DEF EndTells, Ends
  <2>13. QED
    BY <2>3, <2>5, <2>10, <2>11, <2>12
<1>8. CASE torn = "front" /\ Writes(Back(next, 0), "payload")
  <2> DEFINE u == Back(next, 0)
  <2>1. /\ u \in Seq(Fragment) /\ Len(u) = 1 /\ u[1] = <<next, Payload, "back">>
    <3>1. 0 + 1 = 1
      OBVIOUS
    <3>2. QED
      BY <1>1, <3>1, BackType
  <2>2. /\ file' = file \o u /\ torn' = "payload" /\ next' = next
    BY <1>8 DEF Writes
  <2> HIDE DEF u
  <2>3. Chained(u) /\ u # <<>>
    <3>1. Len(u) # 0
      BY <2>1
    <3>2. \A j \in 1 .. Len(u) - 1 : FALSE
      BY <2>1
    <3>3. u # <<>>
      BY <2>1, <3>1, EmptySeq
    <3>4. QED
      BY <3>2, <3>3 DEF Chained
  <2>4. file # <<>> /\ Follows(file[Len(file)], u[1])
    BY <1>3, <1>8, <2>1 DEF EndTells, Follows, EndsLine
  <2>5. EndTells(u[Len(u)], torn', next')
    BY <2>1, <2>2 DEF EndTells
  <2>6. QED
    BY <2>1, <2>2, <2>3, <2>4, <2>5
<1>9. CASE torn = "payload" /\ Writes(After(next, 0), "none")
  <2> DEFINE u == After(next, 0)
             m == Lines - Payload
  <2>1. /\ u \in Seq(Fragment) /\ Len(u) = m
        /\ \A l \in 1 .. m : u[l] = <<next, Payload + l, "whole">>
    <3>1. \A l \in 1 .. m : Payload + 0 + l = Payload + l
      BY <1>2
    <3>2. QED
      BY <1>1, <3>1, AfterType
  <2>2. /\ file' = file \o u /\ torn' = "none" /\ next' = next + 1
    BY <1>9 DEF Writes
  <2>3. m \in Nat /\ m >= 1 /\ Payload + m = Lines
    BY <1>1, <1>2
  <2> HIDE DEF u, m
  <2>4. ASSUME NEW j \in 1 .. m - 1 PROVE Follows(u[j], u[j + 1])
    <3>1. /\ j \in 1 .. m /\ j + 1 \in 1 .. m /\ Payload + j # Lines
          /\ Payload + (j + 1) = (Payload + j) + 1
      BY <1>2, <2>3
    <3>2. u[j] = <<next, Payload + j, "whole">> /\ u[j + 1] = <<next, (Payload + j) + 1, "whole">>
      BY <2>1, <3>1
    <3>3. QED
      BY <3>1, <3>2 DEF Follows, EndsLine, Starts
  <2>5. Chained(u) /\ u # <<>>
    <3>1. Len(<<>>) = 0 /\ Len(u) # 0
      BY <2>1, <2>3
    <3>2. QED
      BY <2>1, <2>4, <3>1 DEF Chained
  <2>6. file # <<>> /\ Follows(file[Len(file)], u[1])
    <3>1. 1 \in 1 .. m /\ Payload # Lines
      BY <1>1, <1>2, <2>3
    <3>2. u[1] = <<next, Payload + 1, "whole">>
      BY <2>1, <3>1
    <3>3. QED
      BY <1>3, <1>9, <3>1, <3>2 DEF EndTells, Follows, EndsLine, Starts
  <2>7. EndTells(u[Len(u)], torn', next')
    <3>1. m \in 1 .. m /\ next' - 1 = next
      BY <1>1, <2>2, <2>3
    <3>2. u[Len(u)] = <<next' - 1, Lines, "whole">>
      BY <2>1, <2>3, <3>1
    <3>3. QED
      BY <2>2, <3>2 DEF EndTells, Ends
  <2>8. QED
    BY <2>1, <2>2, <2>5, <2>6, <2>7
<1>10. QED
  BY <1>1, <1>5, <1>6, <1>7, <1>8, <1>9 DEF WriteRecord
(* Places in the file stay what they are while it grows.                   *)
LEMMA PlaceStays ==
  ASSUME TypeOK, WriteRecord, NEW p \in 0 .. Len(file), NEW d, NEW n, Place(p, d, n)
  PROVE  Place(p, d, n)'
<1>1. CASE d = 0 /\ n = 0
  BY <1>1 DEF Place
<1>2. CASE ~(d = 0 /\ n = 0)
  <2>1. p > 0 /\ p \in 1 .. Len(file)
    BY <1>2, LenProperties DEF Place, TypeOK
  <2>2. file'[p] = file[p]
    BY <2>1, FileGrows
  <2>3. QED
    BY <1>2, <2>1, <2>2 DEF Place, Ends
<1>3. QED
  BY <1>1, <1>2

LEMMA WriteKeeps == OneLinePayload /\ TailInv /\ WriteRecord => TailInv'
<1> SUFFICES ASSUME OneLinePayload, TailInv, WriteRecord PROVE TailInv'
  OBVIOUS
<1>1. TypeOK' /\ TypeOK /\ file \in Seq(Fragment)
  BY TypeStep DEF Next, TailInv, TypeOK
<1>2. FileInOrder'
  <2>1. PICK u \in Seq(Fragment) :
          /\ file' = file \o u /\ u # <<>> /\ Chained(u)
          /\ file = <<>> => Starts(u[1], 1, 1)
          /\ file # <<>> => Follows(file[Len(file)], u[1])
          /\ EndTells(u[Len(u)], torn', next')
    BY WriteContinues
  <2>2. /\ Chained(file') /\ file' # <<>> /\ file'[Len(file')] = u[Len(u)]
        /\ file'[1] = IF file = <<>> THEN u[1] ELSE file[1]
    BY <1>1, <2>1, ChainGrows DEF TailInv, FileInOrder
  <2>3. Chained(file)'
    BY <2>2 DEF Chained, Follows, Starts, EndsLine
  <2>4. Starts(file'[1], 1, 1)
    BY <2>1, <2>2 DEF TailInv, FileInOrder
  <2>5. QED
    BY <2>1, <2>2, <2>3, <2>4 DEF FileInOrder
<1>3. UNCHANGED <<phase, pos, cursor, eof, lines, delivered>>
  BY <1>1, Written DEF reader
<1>4. pos \in 0 .. Len(file) /\ cursor \in 0 .. Len(file)
  BY <1>1, LenProperties DEF TypeOK
<1>5. ReaderInOrder'
  <2>1. Place(pos, Len(delivered), 0) => Place(pos, Len(delivered), 0)'
    BY <1>1, <1>3, <1>4, PlaceStays
  <2>2. Place(cursor, Len(delivered), Len(lines)) => Place(cursor, Len(delivered), Len(lines))'
    BY <1>1, <1>3, <1>4, PlaceStays
  <2>3. QED
    BY <1>3, <2>1, <2>2 DEF TailInv, ReaderInOrder
<1>6. RecordsIntact'
  BY <1>3 DEF TailInv, RecordsIntact
<1>7. QED
  BY <1>1, <1>2, <1>5, <1>6 DEF TailInv

(* A sequence of length 1 or 2 is the tuple of its elements.               *)
LEMMA OneFragment ==
  ASSUME NEW u \in Seq(Fragment), NEW x \in Fragment, Len(u) = 1, u[1] = x
  PROVE  u = <<x>>
<1> DEFINE t == <<x>>
<1>1. t \in Seq(Fragment) /\ Len(t) = 1 /\ t[1] = x
  OBVIOUS
<1> HIDE DEF t
<1>2. \A i \in 1 .. Len(u) : u[i] = t[i]
  BY <1>1
<1>3. u = t
  BY <1>1, <1>2, SeqEqual
<1>4. QED
  BY <1>3 DEF t

LEMMA TwoFragments ==
  ASSUME NEW u \in Seq(Fragment), NEW x \in Fragment, NEW z \in Fragment,
         Len(u) = 2, u[1] = x, u[2] = z
  PROVE  u = <<x, z>>
<1> DEFINE t == <<x, z>>
<1>1. t \in Seq(Fragment) /\ Len(t) = 2 /\ t[1] = x /\ t[2] = z
  OBVIOUS
<1> HIDE DEF t
<1>2. \A i \in 1 .. Len(u) : u[i] = t[i]
  BY <1>1
<1>3. u = t
  BY <1>1, <1>2, SeqEqual
<1>4. QED
  BY <1>3 DEF t

(* From between two lines the reader gets the next one, whole unless the   *)
(* file ends within it.                                                    *)
LEMMA NextLine ==
  ASSUME OneLinePayload, TailInv, ReadLine
  PROVE  LET d == Len(delivered)
             n == Len(lines)
             line == SubSeq(file, cursor + 1, LineEnd)
         IN /\ LineEnds = {} => n + 1 # Lines
            /\ LineEnds # {} => Intact(line, d + 1, n + 1) /\ Ends(file[LineEnd], d + 1, n + 1)
<1> DEFINE d == Len(delivered)
           n == Len(lines)
           c == cursor + 1
           line == SubSeq(file, cursor + 1, LineEnd)
           y == file[c]
<1>1. /\ file \in Seq(Fragment) /\ Len(file) \in Nat /\ cursor \in Nat /\ c \in 1 .. Len(file)
      /\ c \in Nat /\ d \in Nat /\ n \in Nat /\ n < Lines /\ Lines \in Nat /\ Payload < Lines
      /\ Place(cursor, d, n)
  BY Numbers, LenProperties DEF TailInv, TypeOK, ReadLine, ReaderInOrder, OneLinePayload
<1>2. Starts(y, d + 1, n + 1)
  <2>1. CASE d = 0 /\ n = 0
    <3>1. cursor = 0 /\ file # <<>>
      <4>1. Len(<<>>) = 0
        OBVIOUS
      <4>2. QED
        BY <1>1, <2>1, <4>1 DEF Place
    <3>2. QED
      BY <2>1, <3>1 DEF TailInv, FileInOrder
  <2>2. CASE ~(d = 0 /\ n = 0)
    <3>1. cursor \in 1 .. Len(file) - 1
      BY <1>1, <2>2 DEF Place
    <3>2. Follows(file[cursor], y)
      BY <3>1 DEF TailInv, FileInOrder, Chained
    <3>3. CASE n = 0
      <4>1. Ends(file[cursor], d, Lines)
        BY <1>1, <2>2, <3>3 DEF Place
      <4>2. QED
        BY <1>1, <3>2, <3>3, <4>1 DEF Follows, EndsLine, Ends
    <3>4. CASE n # 0
      <4>1. Ends(file[cursor], d + 1, n)
        BY <1>1, <2>2, <3>4 DEF Place
      <4>2. n # Lines
        BY <1>1
      <4>3. QED
        BY <3>2, <4>1, <4>2 DEF Follows, EndsLine, Ends
    <3>5. QED
      BY <3>3, <3>4
  <2>3. QED
    BY <2>1, <2>2
<1>3. LineEnds # {} => LineEnd \in LineEnds /\ \A k \in LineEnds : LineEnd <= k
  BY <1>1, LineEndBounds DEF TailInv, ReadLine
<1>4. LineEnds = {j \in c .. Len(file) : EndsLine(file[j])}
  BY DEF LineEnds
<1>5. /\ line \in Seq(Fragment)
      /\ Len(line) = IF c <= LineEnd THEN LineEnd - c + 1 ELSE 0
      /\ \A i \in 1 .. LineEnd - c + 1 : line[i] = file[c + i - 1]
      /\ LineEnd \in c .. Len(file)
  <2>1. LineEnd \in c .. Len(file)
    BY LineEndBounds DEF TailInv, ReadLine
  <2>2. \A i \in c .. LineEnd : file[i] \in Fragment
    BY <1>1, <2>1, ElementOfSeq
  <2>3. c \in Int /\ LineEnd \in Int
    BY <1>1, <2>1
  <2>4. QED
    BY <2>1, <2>2, <2>3, SubSeqProperties
<1> HIDE DEF d, n, c, line, y
<1>6. CASE y = <<d + 1, n + 1, "whole">>
  <2>1. c \in LineEnds
    BY <1>1, <1>4, <1>6 DEF EndsLine, y
  <2>2. LineEnd = c
    BY <1>1, <1>3, <1>4, <2>1
  <2>3. line = <<y>>
    <3>1. Len(line) = 1 /\ line[1] = y
      BY <1>1, <1>5, <2>2 DEF y
    <3>2. y \in Fragment
      BY <1>1, ElementOfSeq DEF y
    <3>3. QED
      BY <1>5, <3>1, <3>2, OneFragment
  <2>4. QED
    BY <1>6, <2>1, <2>2, <2>3 DEF Intact, Ends, d, n, c, line, y
<1>7. CASE n + 1 = Payload /\ y = <<d + 1, n + 1, "front">>
  <2>1. c \notin LineEnds
    BY <1>4, <1>7 DEF EndsLine, y
  <2>2. CASE LineEnds = {}
    BY <1>1, <1>7, <2>2 DEF n
  <2>3. CASE LineEnds # {}
    <3>1. LineEnd \in c + 1 .. Len(file)
      BY <1>1, <1>3, <1>4, <2>1, <2>3
    <3>2. c \in 1 .. Len(file) - 1 /\ c + 1 \in c .. Len(file)
      BY <1>1, <3>1
    <3>3. Follows(y, file[c + 1])
      BY <3>2 DEF TailInv, FileInOrder, Chained, y
    <3>4. file[c + 1] = <<d + 1, n + 1, "back">>
      BY <1>7, <3>3 DEF Follows, EndsLine
    <3>5. c + 1 \in LineEnds
      BY <1>4, <3>2, <3>4 DEF EndsLine
    <3>6. LineEnd = c + 1
      BY <1>1, <1>3, <2>3, <3>1, <3>5
    <3>7. line = <<y, file[c + 1]>>
      <4> DEFINE z == file[c + 1]
      <4>1. Len(line) = 2 /\ line[1] = y /\ line[2] = z
        BY <1>1, <1>5, <3>6 DEF y
      <4>2. y \in Fragment /\ z \in Fragment
        BY <1>1, <3>2, ElementOfSeq DEF y
      <4> HIDE DEF z
      <4>3. line = <<y, z>>
        BY <1>5, <4>1, <4>2, TwoFragments
      <4>4. QED
        BY <4>3 DEF z
    <3>8. QED
      BY <1>7, <2>3, <3>4, <3>6, <3>7 DEF Intact, Ends, d, n, line
  <2>4. QED
    BY <2>2, <2>3
<1>8. QED
  BY <1>2, <1>6, <1>7 DEF Starts

LEMMA ReadLineKeeps == OneLinePayload /\ TailInv /\ ReadLine => TailInv'
<1> SUFFICES ASSUME OneLinePayload, TailInv, ReadLine PROVE TailInv'
  OBVIOUS
<1> DEFINE d == Len(delivered)
           n == Len(lines)
           line == SubSeq(file, cursor + 1, LineEnd)
           record == Append(lines, line)
<1>1. /\ TypeOK /\ TypeOK'
      /\ lines \in Seq(Seq(Fragment)) /\ delivered \in Seq(Seq(Seq(Fragment)))
      /\ n \in Nat /\ d \in Nat /\ Lines \in Nat /\ n < Lines
      /\ DOMAIN lines = 1 .. n /\ DOMAIN delivered = 1 .. d
      /\ \A l \in 1 .. n : Intact(lines[l], d + 1, l)
  BY ReadLineType, Numbers, LenProperties DEF TailInv, TypeOK, ReaderInOrder, ReadLine
<1>2. /\ LineEnds = {} => n + 1 # Lines
      /\ LineEnds # {} => Intact(line, d + 1, n + 1) /\ Ends(file[LineEnd], d + 1, n + 1)
  BY NextLine
<1>3. line \in Seq(Fragment) /\ LineEnd \in Nat /\ LineEnd > 0
  <2>1. /\ file \in Seq(Fragment) /\ Len(file) \in Nat /\ cursor \in Nat
        /\ LineEnd \in cursor + 1 .. Len(file)
    BY LineEndBounds, LenProperties DEF TypeOK, TailInv, ReadLine
  <2>2. \A i \in cursor + 1 .. LineEnd : file[i] \in Fragment
    BY <2>1, ElementOfSeq
  <2>3. cursor + 1 \in Int /\ LineEnd \in Int
    BY <2>1
  <2>4. QED
    BY <2>1, <2>2, <2>3, SubSeqProperties
<1>4. /\ phase = "reading" /\ ~eof /\ cursor' = LineEnd /\ eof' = (LineEnds = {})
      /\ lines' = IF Len(record) = Lines THEN <<>> ELSE record
      /\ delivered' = IF Len(record) = Lines THEN Append(delivered, record) ELSE delivered
      /\ pos' = IF Len(record) = Lines THEN cursor' ELSE pos
      /\ UNCHANGED <<writer, phase>>
  BY DEF ReadLine, Sticky, Commit
<1>5. FileInOrder'
  BY <1>4 DEF writer, TailInv, FileInOrder, Chained, Follows, Starts, EndsLine, EndTells, Ends
<1> HIDE DEF line
<1>6. /\ record \in Seq(Seq(Fragment)) /\ Len(record) = n + 1
      /\ \A l \in 1 .. n : record[l] = lines[l]
      /\ record[n + 1] = line /\ DOMAIN record = 1 .. n + 1
  BY <1>1, <1>3, AppendProperties, LenProperties
<1> HIDE DEF record, n, d
<1>7. LineEnds # {} => \A l \in 1 .. n + 1 : Intact(record[l], d + 1, l)
  <2>1. \A l \in 1 .. n + 1 : l \in 1 .. n \/ l = n + 1
    BY <1>1
  <2>2. QED
    BY <1>1, <1>2, <1>6, <2>1
<1>8. file' = file
  BY <1>4 DEF writer
<1>9. CASE n + 1 = Lines
  <2>1. /\ LineEnds # {} /\ lines' = <<>> /\ delivered' = Append(delivered, record)
        /\ pos' = LineEnd /\ cursor' = LineEnd
    BY <1>2, <1>4, <1>6, <1>9
  <2>2. /\ Len(delivered') = d + 1 /\ DOMAIN delivered' = 1 .. d + 1
        /\ \A i \in 1 .. d : delivered'[i] = delivered[i]
        /\ delivered'[d + 1] = record
    BY <1>1, <1>6, <2>1, AppendProperties, LenProperties DEF d
  <2>3. Len(lines') = 0 /\ DOMAIN lines' = {}
    BY <2>1
  <2>4. Place(pos, Len(delivered), 0)' /\ Place(cursor, Len(delivered), Len(lines))'
    <3>1. Ends(file[LineEnd], d + 1, Lines) /\ d + 1 # 0
      BY <1>1, <1>2, <1>9, <2>1
    <3>2. QED
      BY <1>3, <1>8, <2>1, <2>2, <2>3, <3>1 DEF Place, Ends
  <2>5. 0 < Lines
    BY <1>1
  <2>6. ReaderInOrder'
    BY <2>3, <2>4, <2>5 DEF ReaderInOrder
  <2>7. RecordsIntact'
    <3>1. \A i \in 1 .. d + 1 : i \in 1 .. d \/ i = d + 1
      BY <1>1
    <3>2. \A l \in 1 .. Lines : Intact(record[l], d + 1, l)
      BY <1>7, <1>9, <2>1
    <3>3. \A i \in 1 .. d : \A l \in 1 .. Lines : Intact(delivered[i][l], i, l)
      BY <1>1 DEF TailInv, RecordsIntact
    <3>4. \A i \in DOMAIN delivered' : \A l \in 1 .. Lines : Intact(delivered'[i][l], i, l)
      BY <2>2, <3>1, <3>2, <3>3
    <3>5. QED
      BY <3>4 DEF RecordsIntact, Intact
  <2>8. QED
    BY <1>1, <1>5, <2>6, <2>7 DEF TailInv
<1>10. CASE n + 1 # Lines
  <2>1. /\ lines' = record /\ delivered' = delivered /\ pos' = pos /\ cursor' = LineEnd
    BY <1>4, <1>6, <1>10
  <2>2. Place(pos, Len(delivered), 0)'
    BY <1>8, <2>1 DEF TailInv, ReaderInOrder, Place, Ends
  <2>3. ~eof' => LineEnds # {}
    BY <1>4
  <2>4. LineEnds # {} => Place(cursor, Len(delivered), Len(lines))'
    <3>1. n + 1 # 0 /\ Len(lines') = n + 1 /\ Len(delivered') = d
      BY <1>1, <1>6, <2>1 DEF d
    <3>2. QED
      BY <1>2, <1>3, <1>8, <2>1, <3>1 DEF Place, Ends
  <2>5. n + 1 < Lines
    BY <1>1, <1>10
  <2>6. ReaderInOrder'
    <3>1. LineEnds # {} => \A l \in DOMAIN lines' : Intact(lines'[l], Len(delivered') + 1, l)
      BY <1>6, <1>7, <2>1 DEF d
    <3>2. QED
      BY <1>6, <2>1, <2>2, <2>3, <2>4, <2>5, <3>1 DEF ReaderInOrder, Intact
  <2>7. RecordsIntact'
    BY <2>1 DEF TailInv, RecordsIntact, Intact
  <2>8. QED
    BY <1>1, <1>5, <2>6, <2>7 DEF TailInv
<1>11. QED
  BY <1>9, <1>10

LEMMA TailStep == OneLinePayload /\ TailInv /\ [Next]_vars => TailInv'
<1> SUFFICES ASSUME OneLinePayload, TailInv, [Next]_vars PROVE TailInv'
  OBVIOUS
<1>1. TypeOK'
  BY TypeStep DEF TailInv
<1>2. CASE WriteRecord
  BY <1>2, WriteKeeps
<1>3. CASE ReadLine
  BY <1>3, ReadLineKeeps
<1>4. CASE UNCHANGED <<file, next, torn, pos, delivered>>
  <2>1. FileInOrder'
    BY <1>4 DEF TailInv, FileInOrder, Chained, Follows, Starts, EndsLine, EndTells, Ends
  <2>2. RecordsIntact'
    BY <1>4 DEF TailInv, RecordsIntact, Intact
  <2>3. Place(pos, Len(delivered), 0) /\ Place(pos, Len(delivered), 0)'
    BY <1>4 DEF TailInv, ReaderInOrder, Place, Ends
  <2>4. CASE OpenPass
    <3>1. /\ cursor' = pos /\ pos' = pos /\ Len(lines') = 0 /\ DOMAIN lines' = {}
      BY <2>4 DEF OpenPass, SeekPos
    <3>2. 0 < Lines
      BY Numbers
    <3>3. Place(cursor, Len(delivered), Len(lines))'
      BY <1>4, <2>3, <3>1 DEF Place, Ends
    <3>4. ReaderInOrder'
      BY <2>3, <3>1, <3>2, <3>3 DEF ReaderInOrder
    <3>5. QED
      BY <1>1, <2>1, <2>2, <3>4 DEF TailInv
  <2>5. CASE UNCHANGED <<cursor, eof, lines>> /\ phase' \in {phase, "asleep", "checking", "done"}
    <3>1. Place(cursor, Len(delivered), Len(lines)) => Place(cursor, Len(delivered), Len(lines))'
      BY <1>4, <2>5 DEF Place, Ends
    <3>2. ReaderInOrder'
      BY <1>4, <2>3, <2>5, <3>1 DEF TailInv, ReaderInOrder, Intact
    <3>3. QED
      BY <1>1, <2>1, <2>2, <3>2 DEF TailInv
  <2>6. CASE ReadLine \/ WriteRecord
    BY <1>2, <1>3, <2>6
  <2>7. QED
    BY <2>4, <2>5, <2>6 DEF Next, Reader, Exit, EndPass, CheckAlive, writer, reader, vars
<1>5. QED
  BY <1>2, <1>3, <1>4 DEF Next, Reader, Exit, OpenPass, EndPass, CheckAlive, writer, reader, vars

(* What the dispatcher is given are the records as written, each once and  *)
(* in order, wherever a record is torn and however the reads of            *)
(* tailChannelFile fall between: if no payload takes more than one line,   *)
(* and the payload is not the last line of the record.                     *)
THEOREM RecordsIntactCorrect ==
  ASSUME OneLinePayload PROVE Spec => []RecordsIntact
<1>1. Init => TailInv
  BY TailInit
<1>2. TailInv /\ [Next]_vars => TailInv'
  BY TailStep
<1>3. TailInv => RecordsIntact
  BY DEF TailInv
<1>4. QED
  BY <1>1, <1>2, <1>3, PTL DEF Spec
=============================================================================
