--------------------------- MODULE ChannelProofs ---------------------------
(***************************************************************************)
(* Theorems about Channel for any callers, capacities and number of sends. *)
(***************************************************************************)
EXTENDS Channel, TLAPS, SequenceTheorems

-----------------------------------------------------------------------------
(* Types.                                                                  *)

(* Waking callers keeps every future one of the states a future can be in. *)
LEMMA SettleType ==
  ASSUME NEW st \in [Everyone -> {"idle", "pending"} \cup Settled],
         NEW S1, NEW S2, NEW S3, NEW S4
  PROVE  Settle(st, S1, S2, S3, S4)
           \in [Everyone -> {"idle", "pending"} \cup Settled]
  BY DEF Settle, Settled

(* A strand that parks keeps the futures well-typed.                       *)
LEMMA ParkType ==
  ASSUME TypeOK, NEW c
  PROVE  Park(c) \in [Everyone -> {"idle", "pending"} \cup Settled]
  BY DEF TypeOK, Park, Settled

(* The records the deques and the history hold.                            *)
LEMMA PartsType ==
  /\ \A p \in ParkedSend : p.v \in Values /\ p.f \in Callers \cup {Inbound}
  /\ \A v \in Values, c \in Callers \cup {Inbound} : [v |-> v, f |-> c] \in ParkedSend
  /\ \A v \in Values, c \in Everyone : [v |-> v, to |-> c] \in Delivery
  BY DEF ParkedSend, Delivery

(* The number of the next accepted send is a value within the bound.       *)
LEMMA OfferType ==
  ASSUME TypeOK, offered < MaxOffers
  PROVE  offered + 1 \in Values /\ offered + 1 \in 0 .. MaxOffers
  BY OffersAssumption DEF TypeOK, Values

(* What a receive takes and leaves behind has the types of the deques.     *)
LEMMA TakeType ==
  ASSUME TypeOK, Available, TakeNext
  PROVE  /\ NextValue \in Values
         /\ buffer' \in Seq(Values)
         /\ senders' \in Seq(ParkedSend)
<1>1. buffer \in Seq(Values) /\ senders \in Seq(ParkedSend)
  BY DEF TypeOK
<1>2. senders # <<>> => Head(senders) \in ParkedSend /\ Tail(senders) \in Seq(ParkedSend)
  BY <1>1, HeadTailProperties
<1>3. buffer # <<>> => Head(buffer) \in Values /\ Tail(buffer) \in Seq(Values)
  BY <1>1, HeadTailProperties
<1>4. senders # <<>> => Head(senders).v \in Values
  BY <1>2, PartsType
<1>5. NextValue \in Values
  BY <1>3, <1>4 DEF NextValue, Available
<1>6. buffer # <<>> => Refilled \in Seq(Values)
  BY <1>3, <1>4, AppendProperties DEF Refilled
<1>7. QED
  BY <1>1, <1>2, <1>5, <1>6 DEF TakeNext, Unparked

(* The values of the parked senders form a sequence of values.             *)
LEMMA ParkedValuesType ==
  ASSUME TypeOK
  PROVE  [i \in DOMAIN senders |-> senders[i].v] \in Seq(Values)
<1>1. senders \in Seq(ParkedSend)
  BY DEF TypeOK
<1>2. DOMAIN senders = 1 .. Len(senders) /\ Len(senders) \in Nat
  BY <1>1
<1>3. \A i \in 1 .. Len(senders) : senders[i].v \in Values
  BY <1>1, ElementOfSeq, PartsType
<1>4. [i \in 1 .. Len(senders) |-> senders[i].v] \in [1 .. Len(senders) -> Values]
  BY <1>3
<1>5. QED
  BY <1>2, <1>4, SeqDef

(* A channel starts well-typed.                                            *)
LEMMA TypeInit == Init => TypeOK
<1>1. \A S : <<>> \in Seq(S)
  BY EmptySeq
<1>2. 0 \in 0 .. MaxOffers
  BY OffersAssumption
<1>3. [c \in Everyone |-> "idle"] \in [Everyone -> {"idle", "pending"} \cup Settled]
  OBVIOUS
<1>4. QED
  BY <1>1, <1>2, <1>3 DEF Init, TypeOK

(* No operation of the channel breaks its types.                           *)
LEMMA TypeStep == TypeOK /\ [Next]_vars => TypeOK'
<1> SUFFICES ASSUME TypeOK, [Next]_vars PROVE TypeOK'
  OBVIOUS
<1>1. ASSUME NEW c \in Callers \cup {Inbound}, Send(c) PROVE TypeOK'
  <2>1. CASE SendClosed(c)
    BY <2>1, SettleType DEF SendClosed, TypeOK
  <2>2. CASE SendToReceiver(c)
    BY <2>2, SettleType, HeadTailProperties, AppendProperties, PartsType, OfferType DEF SendToReceiver, Accepting, HandOver, TypeOK, Everyone
  <2>3. CASE SendToRemote(c)
    BY <2>3, SettleType, HeadTailProperties, AppendProperties, PartsType, OfferType DEF SendToRemote, Accepting, HandOver, TypeOK, Everyone
  <2>4. CASE SendBuffered(c)
    BY <2>4, SettleType, AppendProperties, OfferType DEF SendBuffered, Accepting, TypeOK
  <2>5. CASE SendParked(c)
    BY <2>5, ParkType, AppendProperties, PartsType, OfferType DEF SendParked, Accepting, TypeOK
  <2>6. QED
    BY <1>1, <2>1, <2>2, <2>3, <2>4, <2>5 DEF Send
<1>2. ASSUME NEW c \in Callers, Receive(c) PROVE TypeOK'
  <2>1. CASE ReceiveValue(c)
    BY <1>2, <2>1, SettleType, TakeType, AppendProperties, PartsType DEF Receive, ReceiveValue, HandOver, TypeOK, Everyone
  <2>2. CASE ReceiveNull(c)
    BY <1>2, <2>2, SettleType DEF Receive, ReceiveNull, TypeOK
  <2>3. CASE ReceiveParked(c)
    BY <1>2, <2>3, ParkType, AppendProperties DEF Receive, ReceiveParked, TypeOK
  <2>4. QED
    BY <1>2, <2>1, <2>2, <2>3 DEF Receive
<1>3. ASSUME NEW c \in Callers, Resume(c) PROVE TypeOK'
  BY <1>3 DEF Resume, TypeOK
<1>4. ASSUME NEW u \in Uids, ForwardReceive(u) PROVE TypeOK'
  <2> DEFINE q == Append(remoteReceivers, u)
  <2>1. /\ q \in Seq(Uids) /\ q # <<>>
        /\ Head(q) \in Everyone /\ Tail(q) \in Seq(Uids)
    <3>1. remoteReceivers \in Seq(Uids)
      BY DEF TypeOK
    <3>2. q \in Seq(Uids) /\ q # <<>>
      BY <3>1, AppendProperties
    <3>3. Head(q) \in Uids /\ Tail(q) \in Seq(Uids)
      BY <3>2, HeadTailProperties
    <3>4. QED
      BY <3>2, <3>3 DEF Everyone
  <2> HIDE DEF q
  <2>2. CASE ForwardValue(u, q)
    BY <1>4, <2>1, <2>2, SettleType, ParkType, TakeType, AppendProperties, PartsType
    DEF ForwardReceive, ForwardValue, HandOver, TypeOK
  <2>3. CASE ForwardNull(u, q)
    BY <1>4, <2>1, <2>3, SettleType, ParkType DEF ForwardReceive, ForwardNull, TypeOK
  <2>4. CASE ForwardParked(u, q)
    BY <1>4, <2>1, <2>4, ParkType DEF ForwardReceive, ForwardParked, TypeOK
  <2>5. QED
    BY <1>4, <2>2, <2>3, <2>4 DEF ForwardReceive, q
<1>5. ASSUME NEW c \in Everyone, Abandon(c) PROVE TypeOK'
  BY <1>5 DEF Abandon, TypeOK
<1>6. CASE Close
  BY <1>6, SettleType, ParkedValuesType, ConcatProperties, EmptySeq DEF Close, RemotesAfterClose, TypeOK
<1>7. CASE UNCHANGED vars
  BY <1>7 DEF vars, TypeOK
<1>8. QED
  BY <1>1, <1>2, <1>3, <1>4, <1>5, <1>6, <1>7 DEF Next

(* Every variable stays in its type, for every value of the constants.     *)
THEOREM TypeCorrect == Spec => []TypeOK
  BY TypeInit, TypeStep, PTL DEF Spec

-----------------------------------------------------------------------------
(* Order, and who is parked beside what.                                   *)

(* Deques, element by element.                                             *)
LEMMA EmptyDeque ==
  ASSUME NEW S, NEW s \in Seq(S)
  PROVE  Len(s) \in Nat /\ (s = <<>> <=> Len(s) = 0) /\ DOMAIN s = 1 .. Len(s)
  BY EmptySeq, LenProperties

(* addLast on a deque, element by element.                                 *)
LEMMA Pushed ==
  ASSUME NEW S, NEW s \in Seq(S), NEW e \in S
  PROVE  /\ Append(s, e) \in Seq(S)
         /\ Len(Append(s, e)) = Len(s) + 1
         /\ \A i \in 1 .. Len(s) : Append(s, e)[i] = s[i]
         /\ Append(s, e)[Len(s) + 1] = e
  BY AppendProperties

(* popFirst on a deque, element by element.                                *)
LEMMA Popped ==
  ASSUME NEW S, NEW s \in Seq(S), s # <<>>
  PROVE  /\ Head(s) \in S /\ Head(s) = s[1]
         /\ Tail(s) \in Seq(S)
         /\ Len(Tail(s)) = Len(s) - 1
         /\ \A i \in 1 .. Len(s) - 1 : Tail(s)[i] = s[i + 1]
<1>1. Head(s) = s[1]
  BY EmptyDeque
<1>2. QED
  BY <1>1, HeadTailProperties

(* The part of the invariant that carries itself: without NoMissedMatch a  *)
(* direct hand-over or a buffered send could overtake a parked one.        *)
OrderInv == TypeOK /\ NoMissedMatch /\ ClosedLeavesNobodyParked /\ Fifo

(* Taking a value moves one value from the waiting line to its receiver:   *)
(* the next in order, with the same place refilled behind it.              *)
LEMMA TakeOrder ==
  ASSUME OrderInv, TypeOK', Available, TakeNext, NEW c \in Everyone,
         HandOver(NextValue, c), UNCHANGED <<offered, dropped, closed>>
  PROVE  /\ Fifo'
         /\ Len(senders) > 0 => Len(senders') = Len(senders) - 1
         /\ Len(senders) > 0 => Len(buffer') = Len(buffer)
         /\ Len(senders) = 0 => senders' = <<>> /\ Len(buffer') = Len(buffer) - 1
<1> DEFINE n == Len(got)
<1>a. /\ TypeOK /\ Fifo
      /\ dropped # <<>> => senders = <<>>
  BY DEF OrderInv, Fifo, ClosedLeavesNobodyParked
<1>b. n \in Nat /\ Len(buffer) \in Nat /\ Len(senders) \in Nat /\ Len(dropped) \in Nat
  BY <1>a, EmptyDeque DEF TypeOK
<1>c. /\ buffer = <<>> <=> Len(buffer) = 0
      /\ senders = <<>> <=> Len(senders) = 0
      /\ dropped = <<>> <=> Len(dropped) = 0
  BY <1>a, EmptyDeque DEF TypeOK
<1>d. /\ DOMAIN buffer = 1 .. Len(buffer) /\ DOMAIN buffer' = 1 .. Len(buffer')
      /\ DOMAIN senders = 1 .. Len(senders) /\ DOMAIN senders' = 1 .. Len(senders')
      /\ DOMAIN got = 1 .. n /\ DOMAIN got' = 1 .. Len(got')
      /\ DOMAIN dropped = 1 .. Len(dropped)
  BY <1>a, EmptyDeque DEF TypeOK
<1>e. \A i \in 1 .. n : got[i].v = i
  BY <1>a, <1>d DEF Fifo
<1>f. \A i \in 1 .. Len(buffer) : buffer[i] = n + i
  BY <1>a, <1>d DEF Fifo
<1>g. \A i \in 1 .. Len(senders) : senders[i].v = n + Len(buffer) + i
  BY <1>a, <1>d DEF Fifo
<1>h. \A i \in 1 .. Len(dropped) : dropped[i] = n + Len(buffer) + i
  BY <1>a, <1>d DEF Fifo
<1>i. n + Len(buffer) + Len(senders) + Len(dropped) = offered
  BY <1>a DEF Fifo
<1>1. NextValue = n + 1 /\ NextValue \in Values
  <2>1. NextValue \in Values
    BY <1>a, TakeType
  <2>2. CASE buffer # <<>>
    <3>1. Head(buffer) = buffer[1]
      BY <1>a, <2>2, Popped DEF TypeOK
    <3>2. Len(buffer) > 0
      BY <1>b, <1>c, <2>2
    <3>3. QED
      BY <1>b, <1>f, <2>1, <2>2, <3>1, <3>2 DEF NextValue
  <2>3. CASE buffer = <<>>
    <3>1. Head(senders) = senders[1]
      BY <1>a, <2>3, Popped DEF Available, TypeOK
    <3>2. Len(senders) > 0 /\ Len(buffer) = 0
      BY <1>b, <1>c, <2>3 DEF Available
    <3>3. QED
      BY <1>b, <1>g, <2>1, <2>3, <3>1, <3>2 DEF NextValue
  <2>4. QED
    BY <2>2, <2>3
<1>2. /\ Len(got') = n + 1 /\ got'[n + 1].v = n + 1
      /\ \A i \in 1 .. n : got'[i] = got[i]
  <2>1. [v |-> NextValue, to |-> c] \in Delivery
    BY <1>1, PartsType
  <2>2. QED
    BY <1>1, <1>a, <2>1, Pushed DEF HandOver, TypeOK
<1>3. ASSUME senders # <<>>
      PROVE  /\ Len(senders') = Len(senders) - 1
             /\ \A i \in 1 .. Len(senders) - 1 : senders'[i] = senders[i + 1]
  BY <1>3, <1>a, Popped DEF TakeNext, Unparked, TypeOK
<1>4. ASSUME senders # <<>>, buffer # <<>>
      PROVE  /\ Len(buffer') = Len(buffer)
             /\ \A i \in 1 .. Len(buffer) - 1 : buffer'[i] = buffer[i + 1]
             /\ buffer'[Len(buffer)] = senders[1].v
  <2>1. Head(senders).v \in Values /\ Head(senders) = senders[1]
    BY <1>4, <1>a, Popped, PartsType DEF TypeOK
  <2>2. /\ Tail(buffer) \in Seq(Values) /\ Len(Tail(buffer)) = Len(buffer) - 1
        /\ \A i \in 1 .. Len(buffer) - 1 : Tail(buffer)[i] = buffer[i + 1]
    BY <1>4, <1>a, Popped DEF TypeOK
  <2>3. buffer' = Append(Tail(buffer), senders[1].v)
    BY <1>4, <2>1 DEF TakeNext, Refilled
  <2>4. QED
    BY <2>1, <2>2, <2>3, Pushed
<1>5. ASSUME senders # <<>>, buffer = <<>>
      PROVE  buffer' = <<>>
  BY <1>5 DEF TakeNext
<1>6. ASSUME senders = <<>>
      PROVE  /\ senders' = <<>> /\ Len(buffer') = Len(buffer) - 1
             /\ \A i \in 1 .. Len(buffer) - 1 : buffer'[i] = buffer[i + 1]
  BY <1>6, <1>a, Popped DEF TakeNext, Unparked, Refilled, Available, TypeOK
<1>7. \A i \in 1 .. n + 1 : got'[i].v = i
  BY <1>2, <1>b, <1>e
<1>8. CASE senders # <<>> /\ buffer # <<>>
  <2>1. Len(senders') = Len(senders) - 1 /\ Len(buffer') = Len(buffer) /\ Len(senders) > 0
    BY <1>3, <1>4, <1>8, <1>b, <1>c
  <2>2. \A i \in 1 .. Len(buffer) : buffer'[i] = n + 1 + i
    <3>1. \A i \in 1 .. Len(buffer) - 1 : buffer'[i] = buffer[i + 1]
      BY <1>4, <1>8
    <3>2. buffer'[Len(buffer)] = n + Len(buffer) + 1
      BY <1>4, <1>8, <1>b, <1>g, <2>1
    <3>3. ASSUME NEW i \in 1 .. Len(buffer), i # Len(buffer)
          PROVE  buffer'[i] = n + 1 + i
      <4>1. i \in 1 .. Len(buffer) - 1 /\ i + 1 \in 1 .. Len(buffer)
        BY <1>b, <3>3
      <4>2. QED
        BY <1>b, <1>f, <3>1, <4>1
    <3>4. QED
      BY <1>b, <3>2, <3>3
  <2>3. \A i \in 1 .. Len(senders) - 1 : senders'[i].v = n + 1 + Len(buffer) + i
    <3>1. ASSUME NEW i \in 1 .. Len(senders) - 1
          PROVE  i + 1 \in 1 .. Len(senders) /\ senders'[i].v = senders[i + 1].v
      BY <1>3, <1>8, <1>b
    <3>2. QED
      BY <1>b, <1>g, <3>1
  <2>4. dropped = <<>> /\ Len(dropped) = 0
    BY <1>8, <1>a, <1>c
  <2>5. n + 1 + Len(buffer') + Len(senders') + Len(dropped) = offered
    BY <1>b, <1>i, <2>1
  <2>6. Fifo'
    <3>1. \A i \in DOMAIN got' : got'[i].v = i
      BY <1>2, <1>7, <1>d
    <3>2. \A i \in DOMAIN buffer' : buffer'[i] = Len(got') + i
      BY <1>2, <1>b, <1>d, <2>1, <2>2
    <3>3. \A i \in DOMAIN senders' : senders'[i].v = Len(got') + Len(buffer') + i
      BY <1>2, <1>b, <1>d, <2>1, <2>3
    <3>4. /\ \A i \in DOMAIN dropped' : dropped'[i] = Len(got') + Len(buffer') + i
          /\ dropped' # <<>> => closed'
      BY <1>2, <1>b, <1>d, <2>4
    <3>5. Len(got') + Len(buffer') + Len(senders') + Len(dropped') = offered'
      BY <1>2, <2>5
    <3>6. QED
      BY <3>1, <3>2, <3>3, <3>4, <3>5 DEF Fifo
  <2>7. QED
    BY <1>b, <1>c, <2>1, <2>6
<1>9. CASE senders # <<>> /\ buffer = <<>>
  <2>1. Len(senders') = Len(senders) - 1 /\ buffer' = <<>> /\ Len(senders) > 0
    BY <1>3, <1>5, <1>9, <1>b, <1>c
  <2>2. Len(buffer) = 0 /\ Len(buffer') = 0
    BY <1>9, <1>c, <2>1
  <2>3. \A i \in 1 .. Len(senders) - 1 : senders'[i].v = n + 1 + i
    BY <1>3, <1>9, <1>b, <1>g, <2>2
  <2>4. dropped = <<>> /\ Len(dropped) = 0
    BY <1>9, <1>a, <1>c
  <2>5. n + 1 + Len(buffer') + Len(senders') + Len(dropped) = offered
    BY <1>b, <1>i, <2>1, <2>2
  <2>6. Fifo'
    <3>1. \A i \in DOMAIN got' : got'[i].v = i
      BY <1>2, <1>7, <1>d
    <3>2. \A i \in DOMAIN buffer' : buffer'[i] = Len(got') + i
      BY <1>2, <1>b, <1>d, <2>2
    <3>3. \A i \in DOMAIN senders' : senders'[i].v = Len(got') + Len(buffer') + i
      BY <1>2, <1>b, <1>d, <2>1, <2>2, <2>3
    <3>4. /\ \A i \in DOMAIN dropped' : dropped'[i] = Len(got') + Len(buffer') + i
          /\ dropped' # <<>> => closed'
      BY <1>2, <1>b, <1>d, <2>4
    <3>5. Len(got') + Len(buffer') + Len(senders') + Len(dropped') = offered'
      BY <1>2, <2>5
    <3>6. QED
      BY <3>1, <3>2, <3>3, <3>4, <3>5 DEF Fifo
  <2>7. QED
    BY <1>b, <1>c, <2>1, <2>2, <2>6
<1>10. CASE senders = <<>>
  <2>1. /\ Len(buffer) > 0 /\ Len(senders) = 0
        /\ senders' = <<>> /\ Len(senders') = 0 /\ Len(buffer') = Len(buffer) - 1
    BY <1>6, <1>10, <1>b, <1>c DEF Available
  <2>2. \A i \in 1 .. Len(buffer) - 1 : buffer'[i] = n + 1 + i
    BY <1>6, <1>10, <1>b, <1>f
  <2>3. \A i \in 1 .. Len(dropped) : dropped[i] = n + 1 + Len(buffer') + i
    BY <1>b, <1>h, <2>1
  <2>4. n + 1 + Len(buffer') + Len(senders') + Len(dropped) = offered
    BY <1>b, <1>i, <2>1
  <2>5. dropped' # <<>> => closed'
    BY <1>a DEF Fifo
  <2>6. Fifo'
    <3>1. \A i \in DOMAIN got' : got'[i].v = i
      BY <1>2, <1>7, <1>d
    <3>2. \A i \in DOMAIN buffer' : buffer'[i] = Len(got') + i
      BY <1>2, <1>b, <1>d, <2>1, <2>2
    <3>3. \A i \in DOMAIN senders' : senders'[i].v = Len(got') + Len(buffer') + i
      BY <1>2, <1>b, <1>d, <2>1
    <3>4. /\ \A i \in DOMAIN dropped' : dropped'[i] = Len(got') + Len(buffer') + i
          /\ dropped' # <<>> => closed'
      BY <1>2, <1>b, <1>d, <2>3, <2>5
    <3>5. Len(got') + Len(buffer') + Len(senders') + Len(dropped') = offered'
      BY <1>2, <2>4
    <3>6. QED
      BY <3>1, <3>2, <3>3, <3>4, <3>5 DEF Fifo
  <2>7. QED
    BY <1>b, <1>c, <2>1, <2>6
<1>11. QED
  BY <1>8, <1>9, <1>10

(* Steps that touch no value keep the order.                               *)
LEMMA SameOrder ==
  ASSUME Fifo, UNCHANGED <<buffer, senders, got, offered, dropped>>,
         closed => closed'
  PROVE  Fifo'
  BY DEF Fifo

(* The order in an open channel, by index.                                 *)
LEMMA OpenOrder ==
  ASSUME OrderInv, ~closed
  PROVE  /\ dropped = <<>> /\ Len(dropped) = 0
         /\ Len(buffer) \in Nat /\ Len(senders) \in Nat /\ Len(got) \in Nat
         /\ Len(got) + Len(buffer) + Len(senders) = offered
<1>1. dropped = <<>> /\ TypeOK
  BY DEF OrderInv, Fifo
<1>2. Len(buffer) \in Nat /\ Len(senders) \in Nat /\ Len(got) \in Nat /\ Len(dropped) = 0
  BY <1>1, EmptyDeque DEF TypeOK
<1>3. QED
  BY <1>1, <1>2 DEF OrderInv, Fifo

(* A send is accepted behind everything that waits.                        *)
LEMMA HandOverOrder ==
  ASSUME OrderInv, ~closed, buffer = <<>>, senders = <<>>, NEW c \in Everyone,
         offered < MaxOffers, offered' = offered + 1, HandOver(offered + 1, c),
         UNCHANGED <<buffer, senders, dropped, closed>>
  PROVE  Fifo'
<1>1. /\ dropped = <<>> /\ Len(dropped) = 0 /\ Len(buffer) = 0 /\ Len(senders) = 0
      /\ Len(got) \in Nat /\ Len(got) = offered
  <2>1. Len(<<>>) = 0
    BY EmptySeq
  <2>2. QED
    BY <2>1, OpenOrder
<1>2. got \in Seq(Delivery) /\ [v |-> offered + 1, to |-> c] \in Delivery
  BY PartsType, OfferType DEF OrderInv, TypeOK
<1>3. /\ got' \in Seq(Delivery) /\ Len(got') = Len(got) + 1
      /\ \A i \in 1 .. Len(got) : got'[i] = got[i]
      /\ got'[Len(got) + 1] = [v |-> offered + 1, to |-> c]
  BY <1>2, Pushed DEF HandOver
<1>4. DOMAIN got = 1 .. Len(got) /\ DOMAIN got' = 1 .. Len(got) + 1
  BY <1>2, <1>3, LenProperties
<1>5. \A i \in 1 .. Len(got) : got[i].v = i
  BY <1>4 DEF OrderInv, Fifo
<1>6. got'[Len(got) + 1].v = Len(got) + 1
  BY <1>1, <1>3
<1>7. \A i \in 1 .. Len(got) + 1 : got'[i].v = i
  BY <1>1, <1>3, <1>5, <1>6
<1>8. Len(got') + Len(buffer') + Len(senders') + Len(dropped') = offered'
  BY <1>1, <1>3
<1>9. DOMAIN buffer' = {} /\ DOMAIN senders' = {} /\ DOMAIN dropped' = {}
  BY <1>1
<1>10. QED
  BY <1>1, <1>4, <1>7, <1>8, <1>9 DEF Fifo

(* A buffered send goes behind everything that waits.                      *)
LEMMA BufferOrder ==
  ASSUME OrderInv, ~closed, senders = <<>>, offered < MaxOffers,
         offered' = offered + 1, buffer' = Append(buffer, offered + 1),
         UNCHANGED <<got, senders, dropped, closed>>
  PROVE  Fifo'
<1>1. /\ dropped = <<>> /\ Len(dropped) = 0 /\ Len(senders) = 0
      /\ Len(got) \in Nat /\ Len(buffer) \in Nat /\ Len(got) + Len(buffer) = offered
  <2>1. Len(<<>>) = 0
    BY EmptySeq
  <2>2. QED
    BY <2>1, OpenOrder
<1>2. buffer \in Seq(Values) /\ offered + 1 \in Values
  BY OfferType DEF OrderInv, TypeOK
<1>3. /\ buffer' \in Seq(Values) /\ Len(buffer') = Len(buffer) + 1
      /\ \A i \in 1 .. Len(buffer) : buffer'[i] = buffer[i]
      /\ buffer'[Len(buffer) + 1] = offered + 1
  BY <1>2, Pushed
<1>4. DOMAIN buffer = 1 .. Len(buffer) /\ DOMAIN buffer' = 1 .. Len(buffer) + 1
  BY <1>2, <1>3, LenProperties
<1>5. \A i \in 1 .. Len(buffer) : buffer[i] = Len(got) + i
  BY <1>4 DEF OrderInv, Fifo
<1>6. \A i \in 1 .. Len(buffer) + 1 : buffer'[i] = Len(got) + i
  <2>1. buffer'[Len(buffer) + 1] = Len(got) + (Len(buffer) + 1)
    BY <1>1, <1>3
  <2>2. \A i \in 1 .. Len(buffer) : buffer'[i] = Len(got) + i
    BY <1>3, <1>5
  <2>3. \A i \in 1 .. Len(buffer) + 1 : i = Len(buffer) + 1 \/ i \in 1 .. Len(buffer)
    BY <1>1
  <2>4. QED
    BY <2>1, <2>2, <2>3
<1>7. Len(got') + Len(buffer') + Len(senders') + Len(dropped') = offered'
  BY <1>1, <1>3
<1>8. DOMAIN senders' = {} /\ DOMAIN dropped' = {}
  BY <1>1
<1>9. \A i \in DOMAIN got' : got'[i].v = i
  BY DEF OrderInv, Fifo
<1>10. QED
  BY <1>1, <1>4, <1>6, <1>7, <1>8, <1>9 DEF Fifo

(* A parked send goes behind everything that waits.                        *)
LEMMA ParkOrder ==
  ASSUME OrderInv, ~closed, offered < MaxOffers, NEW c \in Callers \cup {Inbound},
         offered' = offered + 1, senders' = Append(senders, [v |-> offered + 1, f |-> c]),
         UNCHANGED <<got, buffer, dropped, closed>>
  PROVE  Fifo'
<1>1. /\ dropped = <<>> /\ Len(dropped) = 0
      /\ Len(got) \in Nat /\ Len(buffer) \in Nat /\ Len(senders) \in Nat
      /\ Len(got) + Len(buffer) + Len(senders) = offered
  BY OpenOrder
<1>2. senders \in Seq(ParkedSend) /\ [v |-> offered + 1, f |-> c] \in ParkedSend
  BY PartsType, OfferType DEF OrderInv, TypeOK
<1>3. /\ senders' \in Seq(ParkedSend) /\ Len(senders') = Len(senders) + 1
      /\ \A i \in 1 .. Len(senders) : senders'[i] = senders[i]
      /\ senders'[Len(senders) + 1] = [v |-> offered + 1, f |-> c]
  BY <1>2, Pushed
<1>4. DOMAIN senders = 1 .. Len(senders) /\ DOMAIN senders' = 1 .. Len(senders) + 1
  BY <1>2, <1>3, LenProperties
<1>5. \A i \in 1 .. Len(senders) : senders[i].v = Len(got) + Len(buffer) + i
  BY <1>4 DEF OrderInv, Fifo
<1>6. senders'[Len(senders) + 1].v = Len(got) + Len(buffer) + Len(senders) + 1
  BY <1>1, <1>3
<1>7. \A i \in 1 .. Len(senders) + 1 : senders'[i].v = Len(got) + Len(buffer) + i
  <2>1. senders'[Len(senders) + 1].v = Len(got) + Len(buffer) + (Len(senders) + 1)
    BY <1>1, <1>6
  <2>2. \A i \in 1 .. Len(senders) : senders'[i].v = Len(got) + Len(buffer) + i
    BY <1>3, <1>5
  <2>3. \A i \in 1 .. Len(senders) + 1 : i = Len(senders) + 1 \/ i \in 1 .. Len(senders)
    BY <1>1
  <2>4. QED
    BY <2>1, <2>2, <2>3
<1>8. Len(got') + Len(buffer') + Len(senders') + Len(dropped') = offered'
  BY <1>1, <1>3
<1>9. DOMAIN dropped' = {}
  BY <1>1
<1>10. /\ \A i \in DOMAIN got' : got'[i].v = i
       /\ \A i \in DOMAIN buffer' : buffer'[i] = Len(got') + i
  BY DEF OrderInv, Fifo
<1>11. QED
  BY <1>1, <1>4, <1>7, <1>8, <1>9, <1>10 DEF Fifo

(* unplug turns away exactly the end of the line.                          *)
LEMMA CloseOrder ==
  ASSUME OrderInv, Close
  PROVE  Fifo'
<1> DEFINE w == [i \in DOMAIN senders |-> senders[i].v]
<1>1. /\ dropped = <<>> /\ ~closed
      /\ Len(got) \in Nat /\ Len(buffer) \in Nat /\ Len(senders) \in Nat
      /\ Len(got) + Len(buffer) + Len(senders) = offered
  BY OpenOrder DEF Close
<1>2. senders \in Seq(ParkedSend) /\ w \in Seq(Values)
  BY ParkedValuesType DEF OrderInv, TypeOK
<1>3. DOMAIN senders = 1 .. Len(senders) /\ DOMAIN w = 1 .. Len(w)
  BY <1>2, LenProperties
<1>4. Len(w) = Len(senders)
  BY <1>1, <1>2, <1>3, LenProperties
<1>5. dropped' = w
  BY <1>1, <1>2, ConcatEmptySeq DEF Close
<1>6. \A i \in DOMAIN senders : w[i] = Len(got) + Len(buffer) + i
  BY DEF OrderInv, Fifo
<1>7. UNCHANGED <<got, buffer, offered>> /\ senders' = <<>> /\ closed'
  BY DEF Close
<1>8. Len(senders') = 0 /\ DOMAIN senders' = {}
  BY <1>7
<1>9. Len(got') + Len(buffer') + Len(senders') + Len(dropped') = offered'
  BY <1>1, <1>4, <1>5, <1>7, <1>8
<1>10. \A i \in DOMAIN dropped' : dropped'[i] = Len(got') + Len(buffer') + i
  BY <1>5, <1>6, <1>7
<1>11. /\ \A i \in DOMAIN got' : got'[i].v = i
       /\ \A i \in DOMAIN buffer' : buffer'[i] = Len(got') + i
  BY <1>7 DEF OrderInv, Fifo
<1>12. QED
  BY <1>7, <1>8, <1>9, <1>10, <1>11 DEF Fifo

(* Whoever receives, the value moves as TakeOrder says, and the two other  *)
(* parts of the invariant follow from where it leaves the deques.          *)
LEMMA TakeInv ==
  ASSUME OrderInv, TypeOK', Available, TakeNext, NEW c \in Everyone,
         HandOver(NextValue, c),
         UNCHANGED <<offered, dropped, closed, capacity>>,
         receivers' = <<>>, remoteReceivers' = <<>>
  PROVE  OrderInv'
<1>1. /\ Fifo'
      /\ Len(senders) > 0 => Len(senders') = Len(senders) - 1
      /\ Len(senders) > 0 => Len(buffer') = Len(buffer)
      /\ Len(senders) = 0 => senders' = <<>> /\ Len(buffer') = Len(buffer) - 1
  BY TakeOrder
<1>2. /\ Len(buffer) \in Nat /\ Len(senders) \in Nat
      /\ Len(buffer') \in Nat /\ capacity \in Int
      /\ buffer' = <<>> <=> Len(buffer') = 0
      /\ buffer = <<>> <=> Len(buffer) = 0
      /\ senders = <<>> <=> Len(senders) = 0
  BY EmptyDeque, CapacityAssumption DEF OrderInv, TypeOK
<1>3. NoMissedMatch'
  <2>1. /\ senders # <<>> => capacity # -1 /\ (capacity > 0 => Len(buffer) >= capacity)
        /\ capacity > 0 => Len(buffer) <= capacity
        /\ capacity = 0 => buffer = <<>>
    BY DEF OrderInv, NoMissedMatch
  <2>2. CASE senders # <<>>
    <3>1. Len(buffer') = Len(buffer)
      BY <1>1, <1>2, <2>2
    <3>2. QED
      BY <1>2, <2>1, <2>2, <3>1 DEF NoMissedMatch
  <2>3. CASE senders = <<>>
    <3>1. senders' = <<>> /\ Len(buffer') = Len(buffer) - 1 /\ buffer # <<>>
      BY <1>1, <1>2, <2>3 DEF Available
    <3>2. capacity > 0 => Len(buffer') <= capacity
      BY <1>2, <2>1, <3>1
    <3>3. QED
      BY <2>1, <3>1, <3>2 DEF NoMissedMatch
  <2>4. QED
    BY <2>2, <2>3
<1>4. ClosedLeavesNobodyParked'
  <2>1. SUFFICES ASSUME closed' PROVE senders' = <<>>
    BY DEF ClosedLeavesNobodyParked
  <2>2. senders = <<>>
    BY <2>1 DEF OrderInv, ClosedLeavesNobodyParked
  <2>3. QED
    BY <1>1, <1>2, <2>2
<1>5. QED
  BY <1>1, <1>3, <1>4 DEF OrderInv

(* An empty channel is in order.                                           *)
LEMMA OrderInit == Init => OrderInv
<1> SUFFICES ASSUME Init PROVE OrderInv
  OBVIOUS
<1>1. TypeOK
  BY TypeInit
<1>2. Len(<<>>) = 0 /\ DOMAIN <<>> = {}
  BY EmptySeq
<1>3. Fifo
  BY <1>2 DEF Init, Fifo
<1>4. capacity \in Int
  BY CapacityAssumption DEF Init
<1>5. NoMissedMatch
  BY <1>2, <1>4 DEF Init, NoMissedMatch
<1>6. QED
  BY <1>1, <1>3, <1>5 DEF OrderInv, Init, ClosedLeavesNobodyParked

(* Every operation of the channel keeps the order.                         *)
LEMMA OrderStep == OrderInv /\ [Next]_vars => OrderInv'
<1> SUFFICES ASSUME OrderInv, [Next]_vars PROVE OrderInv'
  OBVIOUS
<1>t. TypeOK /\ TypeOK'
  BY TypeStep DEF OrderInv
<1>n. capacity \in Int /\ Len(buffer) \in Nat /\ (buffer = <<>> <=> Len(buffer) = 0)
  BY <1>t, EmptyDeque, CapacityAssumption DEF TypeOK
<1>1. ASSUME NEW c \in Callers \cup {Inbound}, Send(c) PROVE OrderInv'
  <2>1. CASE SendClosed(c)
    BY <2>1, <1>t, SameOrder
    DEF SendClosed, OrderInv, NoMissedMatch, ClosedLeavesNobodyParked
  <2>2. CASE SendToReceiver(c)
    <3>1. /\ buffer = <<>> /\ senders = <<>> /\ ~closed
          /\ Head(receivers) \in Everyone
      BY <1>t, <2>2, Popped DEF SendToReceiver, Accepting, OrderInv, NoMissedMatch, TypeOK, Everyone
    <3>2. Fifo'
      BY <2>2, <3>1, HandOverOrder DEF SendToReceiver, Accepting
    <3>3. QED
      BY <1>t, <2>2, <3>1, <3>2
      DEF SendToReceiver, Accepting, OrderInv, NoMissedMatch, ClosedLeavesNobodyParked
  <2>3. CASE SendToRemote(c)
    <3>1. /\ buffer = <<>> /\ senders = <<>> /\ ~closed
          /\ Head(remoteReceivers) \in Everyone
      BY <1>t, <2>3, Popped DEF SendToRemote, Accepting, OrderInv, NoMissedMatch, TypeOK, Everyone
    <3>2. Fifo'
      BY <2>3, <3>1, HandOverOrder DEF SendToRemote, Accepting
    <3>3. QED
      BY <1>t, <2>3, <3>1, <3>2
      DEF SendToRemote, Accepting, OrderInv, NoMissedMatch, ClosedLeavesNobodyParked
  <2>4. CASE SendBuffered(c)
    <3>1. capacity = -1 \/ (capacity > 0 /\ Len(buffer) < capacity)
      BY <2>4 DEF SendBuffered, HasRoom
    <3>2. senders = <<>> /\ ~closed
      BY <1>n, <2>4, <3>1 DEF SendBuffered, Accepting, OrderInv, NoMissedMatch
    <3>3. Fifo'
      BY <2>4, <3>2, BufferOrder DEF SendBuffered, Accepting
    <3>4. Len(buffer') = Len(buffer) + 1
      BY <1>t, <2>4, OfferType, Pushed DEF SendBuffered, Accepting, TypeOK
    <3>5. NoMissedMatch'
      BY <1>n, <2>4, <3>1, <3>2, <3>4 DEF SendBuffered, NoMissedMatch
    <3>6. QED
      BY <1>t, <2>4, <3>2, <3>3, <3>5
      DEF SendBuffered, OrderInv, ClosedLeavesNobodyParked
  <2>5. CASE SendParked(c)
    <3>1. ~closed
      BY <2>5 DEF SendParked, Accepting
    <3>2. Fifo'
      BY <2>5, <3>1, ParkOrder DEF SendParked, Accepting
    <3>3. capacity # -1 /\ (capacity > 0 => Len(buffer) >= capacity)
      BY <1>n, <2>5 DEF SendParked, HasRoom
    <3>4. NoMissedMatch'
      BY <2>5, <3>3 DEF SendParked, OrderInv, NoMissedMatch
    <3>5. QED
      BY <1>t, <2>5, <3>1, <3>2, <3>4 DEF SendParked, OrderInv, ClosedLeavesNobodyParked
  <2>6. QED
    BY <1>1, <2>1, <2>2, <2>3, <2>4, <2>5 DEF Send
<1>2. ASSUME NEW c \in Callers, Receive(c) PROVE OrderInv'
  <2>1. CASE ReceiveValue(c)
    <3>1. receivers = <<>> /\ remoteReceivers = <<>>
      BY <2>1 DEF ReceiveValue, Available, OrderInv, NoMissedMatch
    <3>2. /\ Available /\ TakeNext /\ HandOver(NextValue, c)
          /\ UNCHANGED <<offered, dropped, closed, capacity, receivers, remoteReceivers>>
      BY <1>2, <2>1 DEF Receive, ReceiveValue
    <3>3. QED
      BY <1>t, <3>1, <3>2, TakeInv DEF Everyone
  <2>2. CASE ReceiveNull(c)
    BY <1>2, <1>t, <2>2, SameOrder
    DEF Receive, ReceiveNull, OrderInv, NoMissedMatch, ClosedLeavesNobodyParked
  <2>3. CASE ReceiveParked(c)
    <3>1. Fifo'
      BY <1>2, <2>3, SameOrder DEF Receive, ReceiveParked, OrderInv
    <3>2. NoMissedMatch'
      BY <1>2, <2>3 DEF Receive, ReceiveParked, Available, OrderInv, NoMissedMatch
    <3>3. QED
      BY <1>2, <1>t, <2>3, <3>1, <3>2
      DEF Receive, ReceiveParked, OrderInv, ClosedLeavesNobodyParked
  <2>4. QED
    BY <1>2, <2>1, <2>2, <2>3 DEF Receive
<1>3. ASSUME NEW c \in Callers, Resume(c) PROVE OrderInv'
  BY <1>3, <1>t, SameOrder
  DEF Resume, OrderInv, NoMissedMatch, ClosedLeavesNobodyParked
<1>4. ASSUME NEW u \in Uids, ForwardReceive(u) PROVE OrderInv'
  <2> DEFINE q == Append(remoteReceivers, u)
  <2>1. CASE ForwardValue(u, q)
    <3>1. receivers = <<>> /\ remoteReceivers = <<>>
      BY <2>1 DEF ForwardValue, Available, OrderInv, NoMissedMatch
    <3>2. q = <<u>> /\ Head(q) = u /\ Tail(q) = <<>>
      BY <3>1
    <3>3. /\ Available /\ TakeNext /\ HandOver(NextValue, u)
          /\ UNCHANGED <<offered, dropped, closed, capacity, receivers>>
          /\ remoteReceivers' = <<>>
      BY <1>4, <2>1, <3>2 DEF ForwardReceive, ForwardValue
    <3>4. QED
      BY <1>t, <3>1, <3>3, TakeInv DEF Everyone
  <2>2. CASE ForwardNull(u, q)
    <3>1. remoteReceivers = <<>>
      BY <2>2 DEF ForwardNull, OrderInv, ClosedLeavesNobodyParked
    <3>2. Tail(q) = <<>>
      BY <3>1
    <3>3. Fifo'
      BY <1>4, <2>2, SameOrder DEF ForwardReceive, ForwardNull, OrderInv
    <3>4. QED
      BY <1>4, <1>t, <2>2, <3>1, <3>2, <3>3
      DEF ForwardReceive, ForwardNull, OrderInv, NoMissedMatch, ClosedLeavesNobodyParked
  <2>3. CASE ForwardParked(u, q)
    <3>1. Fifo'
      BY <1>4, <2>3, SameOrder DEF ForwardReceive, ForwardParked, OrderInv
    <3>2. NoMissedMatch'
      BY <1>4, <2>3 DEF ForwardReceive, ForwardParked, Available, OrderInv, NoMissedMatch
    <3>3. QED
      BY <1>4, <1>t, <2>3, <3>1, <3>2
      DEF ForwardReceive, ForwardParked, OrderInv, ClosedLeavesNobodyParked
  <2>4. QED
    BY <1>4, <2>1, <2>2, <2>3 DEF ForwardReceive
<1>5. ASSUME NEW c \in Everyone, Abandon(c) PROVE OrderInv'
  BY <1>5, <1>t, SameOrder
  DEF Abandon, OrderInv, NoMissedMatch, ClosedLeavesNobodyParked
<1>6. CASE Close
  <2>1. Fifo'
    BY <1>6, CloseOrder
  <2>2. receivers' = <<>> /\ senders' = <<>> /\ remoteReceivers' = <<>>
    BY <1>6 DEF Close, RemotesAfterClose, OrderInv, NoMissedMatch
  <2>3. QED
    BY <1>6, <1>t, <2>1, <2>2
    DEF Close, OrderInv, NoMissedMatch, ClosedLeavesNobodyParked
<1>7. CASE UNCHANGED vars
  BY <1>7, <1>t, SameOrder
  DEF vars, OrderInv, NoMissedMatch, ClosedLeavesNobodyParked
<1>8. QED
  BY <1>1, <1>2, <1>3, <1>4, <1>5, <1>6, <1>7 DEF Next

(* The inductive invariant holds in every reachable state.                 *)
LEMMA OrderCorrect == Spec => []OrderInv
  BY OrderInit, OrderStep, PTL DEF Spec

(* Values leave in the order they came, each once, however the sends,      *)
(* receives, parks and refills of any number of callers interleave.        *)
THEOREM FifoCorrect == Spec => []Fifo
<1>1. OrderInv => Fifo
  BY DEF OrderInv
<1>2. QED
  BY <1>1, OrderCorrect, PTL

(* Nobody is parked who could be served, and no buffer exceeds its         *)
(* capacity.                                                               *)
THEOREM NoMissedMatchCorrect == Spec => []NoMissedMatch
<1>1. OrderInv => NoMissedMatch
  BY DEF OrderInv
<1>2. QED
  BY <1>1, OrderCorrect, PTL

(* Nobody stays parked in a channel that has been unplugged.               *)
THEOREM ClosedCorrect == Spec => []ClosedLeavesNobodyParked
<1>1. OrderInv => ClosedLeavesNobodyParked
  BY DEF OrderInv
<1>2. QED
  BY <1>1, OrderCorrect, PTL

-----------------------------------------------------------------------------
(* For any callers, uids and capacities: a future that nobody has settled  *)
(* is in one deque of the channel, once, and so is never settled twice.    *)

(* A deque as a set that holds each member once.                           *)
Held(q) == {q[i] : i \in DOMAIN q}
Once(q) == \A i, j \in DOMAIN q : q[i] = q[j] => i = j

(* addLast.                                                                *)
LEMMA HeldPushed ==
  ASSUME NEW S, NEW q \in Seq(S), NEW e \in S
  PROVE  /\ Held(Append(q, e)) = Held(q) \cup {e}
         /\ Once(q) /\ e \notin Held(q) => Once(Append(q, e))
<1> DEFINE a == Append(q, e)
<1>1. /\ Len(q) \in Nat /\ DOMAIN q = 1 .. Len(q) /\ DOMAIN a = 1 .. Len(q) + 1
      /\ \A i \in 1 .. Len(q) : a[i] = q[i]
      /\ a[Len(q) + 1] = e
  <2>1. a \in Seq(S) /\ Len(a) = Len(q) + 1
    BY Pushed
  <2>2. DOMAIN a = 1 .. Len(a)
    BY <2>1, LenProperties
  <2>3. QED
    BY <2>1, <2>2, Pushed, LenProperties
<1> HIDE DEF a
<1>2. Held(a) = Held(q) \cup {e}
  <2>1. \A x \in Held(a) : x \in Held(q) \cup {e}
    BY <1>1 DEF Held
  <2>2. \A x \in Held(q) : x \in Held(a)
    BY <1>1 DEF Held
  <2>3. e \in Held(a)
    BY <1>1 DEF Held
  <2>4. QED
    BY <2>1, <2>2, <2>3
<1>3. ASSUME Once(q), e \notin Held(q) PROVE Once(a)
  BY <1>1, <1>3 DEF Once, Held
<1>4. QED
  BY <1>2, <1>3 DEF a

(* popFirst.                                                               *)
LEMMA HeldPopped ==
  ASSUME NEW S, NEW q \in Seq(S), q # <<>>, Once(q)
  PROVE  /\ Held(Tail(q)) = Held(q) \ {Head(q)}
         /\ Once(Tail(q)) /\ Head(q) \in Held(q)
<1> DEFINE t == Tail(q)
<1>1. /\ Len(q) \in Nat /\ Len(q) > 0 /\ DOMAIN q = 1 .. Len(q)
      /\ DOMAIN t = 1 .. Len(q) - 1
      /\ \A i \in 1 .. Len(q) - 1 : t[i] = q[i + 1]
      /\ Head(q) = q[1]
  <2>1. t \in Seq(S) /\ Len(t) = Len(q) - 1
    BY Popped
  <2>2. DOMAIN t = 1 .. Len(t)
    BY <2>1, LenProperties
  <2>3. Len(q) \in Nat /\ Len(q) > 0 /\ DOMAIN q = 1 .. Len(q)
    BY EmptyDeque
  <2>4. QED
    BY <2>1, <2>2, <2>3, Popped
<1> HIDE DEF t
<1>2. Head(q) \in Held(q) /\ Once(t)
  BY <1>1 DEF Once, Held
<1>3. \A x \in Held(t) : x \in Held(q) \ {Head(q)}
  BY <1>1 DEF Once, Held
<1>4. ASSUME NEW x \in Held(q) \ {Head(q)} PROVE x \in Held(t)
  <2>1. PICK i \in 1 .. Len(q) : q[i] = x
    BY <1>1 DEF Held
  <2>2. i # 1
    BY <1>1, <2>1
  <2>3. i - 1 \in 1 .. Len(q) - 1 /\ t[i - 1] = x
    BY <1>1, <2>1, <2>2
  <2>4. QED
    BY <1>1, <2>3 DEF Held
<1>5. QED
  BY <1>2, <1>3, <1>4 DEF t

-----------------------------------------------------------------------------
(* The senders: the futures of the parked sends, of which Inbound, dropped *)
(* by its maker, may be there many times.                                  *)
OnceSent == \A i, j \in DOMAIN senders :
              senders[i].f = senders[j].f /\ senders[i].f # Inbound => i = j

(* A send that parks.                                                      *)
LEMMA SenderParks ==
  ASSUME TypeOK, NEW c \in Callers \cup {Inbound}, NEW v \in Values,
         senders' = Append(senders, [v |-> v, f |-> c]), OnceSent,
         c = Inbound \/ c \notin ParkedSenders
  PROVE  ParkedSenders' = ParkedSenders \cup {c} /\ OnceSent'
<1>1. senders \in Seq(ParkedSend) /\ [v |-> v, f |-> c] \in ParkedSend
  BY PartsType DEF TypeOK
<1>2. /\ Len(senders) \in Nat /\ DOMAIN senders = 1 .. Len(senders)
      /\ senders' \in Seq(ParkedSend) /\ Len(senders') = Len(senders) + 1
      /\ \A i \in 1 .. Len(senders) : senders'[i] = senders[i]
      /\ senders'[Len(senders) + 1].f = c
  BY <1>1, Pushed, EmptyDeque
<1>3. DOMAIN senders' = 1 .. Len(senders) + 1
  BY <1>2, LenProperties
<1>4. \A x \in ParkedSenders' : x \in ParkedSenders \cup {c}
  BY <1>2, <1>3 DEF ParkedSenders
<1>5. \A x \in ParkedSenders : x \in ParkedSenders'
  BY <1>2, <1>3 DEF ParkedSenders
<1>6. c \in ParkedSenders'
  BY <1>2, <1>3 DEF ParkedSenders
<1>7. OnceSent'
  BY <1>2, <1>3 DEF OnceSent, ParkedSenders
<1>8. QED
  BY <1>4, <1>5, <1>6, <1>7

(* A sender that is let in.                                                *)
LEMMA SenderLeaves ==
  ASSUME TypeOK, senders # <<>>, senders' = Tail(senders), OnceSent
  PROVE  /\ ParkedSenders \ {Inbound} =
              (ParkedSenders' \ {Inbound}) \cup ({Head(senders).f} \ {Inbound})
         /\ Head(senders).f # Inbound => Head(senders).f \notin ParkedSenders'
         /\ OnceSent' /\ Head(senders).f \in ParkedSenders
         /\ ParkedSenders' \subseteq ParkedSenders
<1>1. senders \in Seq(ParkedSend)
  BY DEF TypeOK
<1>2. /\ Len(senders) \in Nat /\ Len(senders) > 0 /\ DOMAIN senders = 1 .. Len(senders)
      /\ senders' \in Seq(ParkedSend) /\ Len(senders') = Len(senders) - 1
      /\ \A i \in 1 .. Len(senders) - 1 : senders'[i] = senders[i + 1]
      /\ Head(senders) = senders[1] /\ Head(senders) \in ParkedSend
  BY <1>1, Popped, EmptyDeque
<1>3. DOMAIN senders' = 1 .. Len(senders) - 1
  BY <1>2, LenProperties
<1>4. \A x \in ParkedSenders' : x \in ParkedSenders
  BY <1>2, <1>3 DEF ParkedSenders
<1>5. Head(senders).f \in ParkedSenders
  BY <1>2 DEF ParkedSenders
<1>6. ASSUME NEW x \in ParkedSenders, x # Head(senders).f PROVE x \in ParkedSenders'
  <2>1. PICK i \in 1 .. Len(senders) : senders[i].f = x
    BY <1>2 DEF ParkedSenders
  <2>2. i # 1
    BY <1>2, <1>6, <2>1
  <2>3. i - 1 \in 1 .. Len(senders) - 1 /\ senders'[i - 1].f = x
    BY <1>2, <2>1, <2>2
  <2>4. QED
    BY <1>3, <2>3 DEF ParkedSenders
<1>7. OnceSent'
  BY <1>2, <1>3 DEF OnceSent
<1>8. ASSUME Head(senders).f # Inbound PROVE Head(senders).f \notin ParkedSenders'
  BY <1>2, <1>3, <1>8 DEF OnceSent, ParkedSenders
<1>9. QED
  BY <1>4, <1>5, <1>6, <1>7, <1>8

-----------------------------------------------------------------------------
(* The invariant, with the deques as sets.                                 *)
OnlyParkedWait ==
  /\ \A c \in Callers : status[c] = "pending" <=> c \in ParkedSenders \cup Held(receivers)
  /\ \A u \in Uids : status[u] = "pending" <=> u \in Held(remoteReceivers)
  /\ ParkedSenders \cap Held(receivers) = {}

ParkedOnce == OnlyParkedWait /\ Once(receivers) /\ Once(remoteReceivers) /\ OnceSent
ParkedInv == OrderInv /\ ParkedOnce

(* It says what the property says.                                         *)
LEMMA ParkedMeans == ParkedInv => EveryWaitIsParked
  BY DEF ParkedInv, ParkedOnce, OnlyParkedWait, EveryWaitIsParked, Once, OnceSent, Held,
         ParkedReceivers, ParkedRemotes

(* What the deques hold.                                                   *)
LEMMA ParkedTypes ==
  ASSUME TypeOK
  PROVE  /\ ParkedSenders \subseteq Callers \cup {Inbound}
         /\ Held(receivers) \subseteq Callers /\ Held(remoteReceivers) \subseteq Uids
         /\ receivers = <<>> => Held(receivers) = {}
         /\ remoteReceivers = <<>> => Held(remoteReceivers) = {}
         /\ senders = <<>> => ParkedSenders = {}
<1>1. \A i \in DOMAIN senders : senders[i].f \in Callers \cup {Inbound}
  <2>1. senders \in Seq(ParkedSend) /\ DOMAIN senders = 1 .. Len(senders)
    BY EmptyDeque DEF TypeOK
  <2>2. QED
    BY <2>1, ElementOfSeq, PartsType
<1>2. \A i \in DOMAIN receivers : receivers[i] \in Callers
  BY EmptyDeque, ElementOfSeq DEF TypeOK
<1>3. \A i \in DOMAIN remoteReceivers : remoteReceivers[i] \in Uids
  BY EmptyDeque, ElementOfSeq DEF TypeOK
<1>4. \A q : q = <<>> => DOMAIN q = {}
  BY EmptySeq
<1>5. QED
  BY <1>1, <1>2, <1>3, <1>4 DEF Held, ParkedSenders

(* Nobody is parked in a channel that is new.                              *)
LEMMA ParkedInit == Init => ParkedInv
<1> SUFFICES ASSUME Init PROVE ParkedInv
  OBVIOUS
<1>1. OrderInv /\ TypeOK
  BY OrderInit, TypeInit
<1>2. Held(receivers) = {} /\ Held(remoteReceivers) = {} /\ ParkedSenders = {}
  BY <1>1, ParkedTypes DEF Init
<1>3. DOMAIN <<>> = {}
  BY EmptySeq
<1>4. QED
  BY <1>1, <1>2, <1>3 DEF Init, ParkedInv, ParkedOnce, OnlyParkedWait, Once, OnceSent, Everyone

-----------------------------------------------------------------------------
(* The steps.  A settled future changes only by being read.                *)
SettledStay ==
  \A c \in Everyone : status[c] \in Settled /\ status'[c] # status[c] => status'[c] = "idle"

(* Whoever is free is parked nowhere.                                      *)
LEMMA FreeIsNotParked ==
  ASSUME ParkedInv, NEW c \in Callers, status[c] = "idle"
  PROVE  c \notin ParkedSenders /\ c \notin Held(receivers) /\ c \in Everyone
  BY DEF ParkedInv, ParkedOnce, OnlyParkedWait, Everyone

(* TakeNext takes one sender out of its deque and settles its future.      *)
LEMMA SenderTaken ==
  ASSUME ParkedInv, TakeNext
  PROVE  /\ \A c \in Callers : c \in ParkedSenders' <=> c \in ParkedSenders \ UnparkedFuture
         /\ UnparkedFuture \subseteq ParkedSenders /\ OnceSent'
         /\ ParkedSenders' \subseteq ParkedSenders
<1>0. TypeOK /\ OnceSent
  BY DEF ParkedInv, ParkedOnce, OrderInv
<1>1. CASE senders = <<>>
  <2>1. senders' = senders /\ UnparkedFuture = {}
    BY <1>1 DEF TakeNext, Unparked, UnparkedFuture
  <2>2. ParkedSenders' = ParkedSenders /\ OnceSent'
    BY <1>0, <2>1 DEF ParkedSenders, OnceSent
  <2>3. QED
    BY <2>1, <2>2
<1>2. CASE senders # <<>>
  <2>1. senders' = Tail(senders) /\ UnparkedFuture = {Head(senders).f}
    BY <1>2 DEF TakeNext, Unparked, UnparkedFuture
  <2>2. /\ ParkedSenders \ {Inbound} =
             (ParkedSenders' \ {Inbound}) \cup ({Head(senders).f} \ {Inbound})
        /\ Head(senders).f # Inbound => Head(senders).f \notin ParkedSenders'
        /\ OnceSent' /\ Head(senders).f \in ParkedSenders
        /\ ParkedSenders' \subseteq ParkedSenders
    BY <1>0, <1>2, <2>1, SenderLeaves
  <2>3. Inbound \notin Callers
    BY DistinctAssumption DEF Everyone
  <2>4. QED
    BY <2>1, <2>2, <2>3
<1>3. QED
  BY <1>1, <1>2

(* chanSend.                                                               *)
LEMMA SendKeeps ==
  ASSUME ParkedInv, NEW c \in Callers \cup {Inbound}, Send(c)
  PROVE  ParkedOnce' /\ SettledStay
<1>0. TypeOK /\ OrderInv /\ ParkedOnce /\ OnlyParkedWait /\ Once(receivers)
      /\ Once(remoteReceivers) /\ OnceSent
  BY DEF ParkedInv, ParkedOnce, OrderInv
<1>1. /\ Inbound \notin Everyone /\ Callers \cap Uids = {}
      /\ c \in Callers => status[c] = "idle" /\ c \notin ParkedSenders
                          /\ c \notin Held(receivers) /\ c \in Everyone
  <2>1. Free(c)
    BY DEF Send, SendClosed, SendToReceiver, SendToRemote, SendBuffered, SendParked, Accepting
  <2>2. c \in Callers => status[c] = "idle"
    BY <2>1, DistinctAssumption DEF Free, Everyone
  <2>3. QED
    BY <2>2, FreeIsNotParked, DistinctAssumption
<1>2. CASE SendClosed(c)
  <2>1. UNCHANGED <<senders, receivers, remoteReceivers>>
        /\ \A e \in Everyone : status'[e] = IF e = c THEN "failed" ELSE status[e]
    BY <1>2 DEF SendClosed, Settle
  <2>2. QED
    BY <1>0, <1>1, <2>1
    DEF ParkedOnce, OnlyParkedWait, OnceSent, ParkedSenders, SettledStay, Settled, Everyone
<1>3. CASE SendToReceiver(c)
  <2>1. /\ UNCHANGED <<senders, remoteReceivers>> /\ receivers # <<>>
        /\ receivers' = Tail(receivers)
        /\ \A e \in Everyone : status'[e] = IF e = Head(receivers) THEN "value"
                                            ELSE IF e = c THEN "sent" ELSE status[e]
    BY <1>3 DEF SendToReceiver, Settle
  <2>2. /\ Held(receivers') = Held(receivers) \ {Head(receivers)}
        /\ Once(receivers') /\ Head(receivers) \in Held(receivers)
    BY <1>0, <2>1, HeldPopped DEF TypeOK
  <2>3. Head(receivers) \in Callers /\ status[Head(receivers)] = "pending"
    BY <1>0, <2>2, ParkedTypes DEF OnlyParkedWait
  <2>4. ParkedSenders' = ParkedSenders /\ OnceSent' /\ Once(remoteReceivers')
    BY <1>0, <2>1 DEF OnceSent, ParkedSenders
  <2>5. OnlyParkedWait'
    BY <1>0, <1>1, <2>1, <2>2, <2>3, <2>4 DEF OnlyParkedWait, Everyone
  <2>6. QED
    BY <1>1, <2>1, <2>2, <2>3, <2>4, <2>5 DEF ParkedOnce, SettledStay, Settled
<1>4. CASE SendToRemote(c)
  <2>1. /\ UNCHANGED <<senders, receivers>> /\ remoteReceivers # <<>>
        /\ remoteReceivers' = Tail(remoteReceivers)
        /\ \A e \in Everyone : status'[e] = IF e = Head(remoteReceivers) THEN "value"
                                            ELSE IF e = c THEN "sent" ELSE status[e]
    BY <1>4 DEF SendToRemote, Settle
  <2>2. /\ Held(remoteReceivers') = Held(remoteReceivers) \ {Head(remoteReceivers)}
        /\ Once(remoteReceivers') /\ Head(remoteReceivers) \in Held(remoteReceivers)
    BY <1>0, <2>1, HeldPopped DEF TypeOK
  <2>3. Head(remoteReceivers) \in Uids /\ status[Head(remoteReceivers)] = "pending"
    BY <1>0, <2>2, ParkedTypes DEF OnlyParkedWait
  <2>4. ParkedSenders' = ParkedSenders /\ OnceSent' /\ Once(receivers')
    BY <1>0, <2>1 DEF OnceSent, ParkedSenders
  <2>5. OnlyParkedWait'
    BY <1>0, <1>1, <2>1, <2>2, <2>3, <2>4 DEF OnlyParkedWait, Everyone
  <2>6. QED
    BY <1>1, <2>1, <2>2, <2>3, <2>4, <2>5 DEF ParkedOnce, SettledStay, Settled
<1>5. CASE SendBuffered(c)
  <2>1. UNCHANGED <<senders, receivers, remoteReceivers>>
        /\ \A e \in Everyone : status'[e] = IF e = c THEN "sent" ELSE status[e]
    BY <1>5 DEF SendBuffered, Settle
  <2>2. QED
    BY <1>0, <1>1, <2>1
    DEF ParkedOnce, OnlyParkedWait, OnceSent, ParkedSenders, SettledStay, Settled, Everyone
<1>6. CASE SendParked(c)
  <2>1. /\ UNCHANGED <<receivers, remoteReceivers>>
        /\ senders' = Append(senders, [v |-> offered + 1, f |-> c])
        /\ \A e \in Everyone : status'[e] = IF e = c THEN "pending" ELSE status[e]
    BY <1>6 DEF SendParked, Park
  <2>2. offered + 1 \in Values
    BY <1>0, <1>6, OfferType DEF SendParked, Accepting
  <2>3. ParkedSenders' = ParkedSenders \cup {c} /\ OnceSent'
    BY <1>0, <1>1, <2>1, <2>2, SenderParks
  <2>4. Inbound \notin Held(receivers)
    BY <1>0, <1>1, ParkedTypes DEF Everyone
  <2>5. OnlyParkedWait'
    BY <1>0, <1>1, <2>1, <2>3, <2>4 DEF OnlyParkedWait, Everyone
  <2>6. QED
    BY <1>0, <1>1, <2>1, <2>3, <2>5 DEF ParkedOnce, SettledStay, Settled
<1>7. QED
  BY <1>2, <1>3, <1>4, <1>5, <1>6 DEF Send

(* chanReceive.                                                            *)
LEMMA ReceiveKeeps ==
  ASSUME ParkedInv, NEW c \in Callers, Receive(c)
  PROVE  ParkedOnce' /\ SettledStay
<1>0. TypeOK /\ OrderInv /\ ParkedOnce /\ OnlyParkedWait /\ Once(receivers)
      /\ Once(remoteReceivers) /\ OnceSent
  BY DEF ParkedInv, ParkedOnce, OrderInv
<1>1. /\ Inbound \notin Everyone /\ Callers \cap Uids = {}
      /\ status[c] = "idle" /\ c \notin ParkedSenders
      /\ c \notin Held(receivers) /\ c \in Everyone
  BY FreeIsNotParked, DistinctAssumption DEF Receive, Free, Everyone
<1>2. remoteReceivers' = remoteReceivers
  BY DEF Receive
<1>3. CASE ReceiveValue(c)
  <2>1. /\ receivers' = receivers /\ TakeNext
        /\ \A e \in Everyone : status'[e] = IF e = c THEN "value"
                                            ELSE IF e \in UnparkedFuture THEN "sent" ELSE status[e]
    BY <1>3 DEF ReceiveValue, Settle
  <2>2. /\ \A e \in Callers : e \in ParkedSenders' <=> e \in ParkedSenders \ UnparkedFuture
        /\ UnparkedFuture \subseteq ParkedSenders /\ OnceSent'
        /\ ParkedSenders' \subseteq ParkedSenders
    BY <2>1, SenderTaken
  <2>3. \A e \in Everyone : e \in UnparkedFuture => status[e] = "pending" /\ e \in Callers
    BY <1>0, <1>1, <2>2, ParkedTypes DEF OnlyParkedWait, Everyone
  <2>4. OnlyParkedWait'
    <3>1. ASSUME NEW e \in Callers
          PROVE  status'[e] = "pending" <=> e \in ParkedSenders' \cup Held(receivers')
      <4>1. e \in Everyone
        BY DEF Everyone
      <4>2. e \in UnparkedFuture => e \notin Held(receivers)
        BY <1>0, <2>2 DEF OnlyParkedWait
      <4>3. QED
        BY <1>0, <1>1, <2>1, <2>2, <4>1, <4>2 DEF OnlyParkedWait
    <3>2. ASSUME NEW u \in Uids
          PROVE  status'[u] = "pending" <=> u \in Held(remoteReceivers')
      BY <1>0, <1>1, <1>2, <2>1, <2>3 DEF OnlyParkedWait, Everyone
    <3>3. ParkedSenders' \cap Held(receivers') = {}
      BY <1>0, <2>1, <2>2 DEF OnlyParkedWait
    <3>4. QED
      BY <3>1, <3>2, <3>3 DEF OnlyParkedWait
  <2>5. SettledStay
    BY <1>1, <2>1, <2>3 DEF SettledStay, Settled
  <2>6. QED
    BY <1>0, <1>2, <2>1, <2>2, <2>4, <2>5 DEF ParkedOnce
<1>4. CASE ReceiveNull(c)
  <2>1. UNCHANGED <<senders, receivers>>
        /\ \A e \in Everyone : status'[e] = IF e = c THEN "null" ELSE status[e]
    BY <1>4 DEF ReceiveNull, Settle
  <2>2. QED
    BY <1>0, <1>1, <1>2, <2>1
    DEF ParkedOnce, OnlyParkedWait, OnceSent, ParkedSenders, SettledStay, Settled, Everyone
<1>5. CASE ReceiveParked(c)
  <2>1. /\ senders' = senders /\ receivers' = Append(receivers, c)
        /\ \A e \in Everyone : status'[e] = IF e = c THEN "pending" ELSE status[e]
    BY <1>5 DEF ReceiveParked, Park
  <2>2. Held(receivers') = Held(receivers) \cup {c} /\ Once(receivers')
    BY <1>0, <1>1, <2>1, HeldPushed DEF TypeOK
  <2>3. ParkedSenders' = ParkedSenders /\ OnceSent'
    BY <1>0, <2>1 DEF ParkedSenders, OnceSent
  <2>4. OnlyParkedWait'
    BY <1>0, <1>1, <1>2, <2>1, <2>2, <2>3 DEF OnlyParkedWait, Everyone
  <2>5. QED
    BY <1>0, <1>1, <1>2, <2>1, <2>2, <2>3, <2>4 DEF ParkedOnce, SettledStay, Settled
<1>6. QED
  BY <1>3, <1>4, <1>5 DEF Receive

(* A receive of a child.                                                   *)
LEMMA ForwardKeeps ==
  ASSUME ParkedInv, NEW u \in Uids, ForwardReceive(u)
  PROVE  ParkedOnce' /\ SettledStay
<1> DEFINE q == Append(remoteReceivers, u)
<1>0. TypeOK /\ OrderInv /\ ParkedOnce /\ OnlyParkedWait /\ Once(receivers)
      /\ Once(remoteReceivers) /\ OnceSent
  BY DEF ParkedInv, ParkedOnce, OrderInv
<1>1. /\ Inbound \notin Everyone /\ Callers \cap Uids = {} /\ u \in Everyone
      /\ status[u] = "idle" /\ u \notin Held(remoteReceivers)
      /\ receivers' = receivers
  BY <1>0, DistinctAssumption DEF ForwardReceive, OnlyParkedWait, Everyone
<1>2. /\ q \in Seq(Uids) /\ q # <<>> /\ Once(q)
      /\ Held(q) = Held(remoteReceivers) \cup {u}
  BY <1>0, <1>1, AppendProperties, HeldPushed DEF TypeOK
<1>3. ForwardValue(u, q) \/ ForwardNull(u, q) \/ ForwardParked(u, q)
  BY DEF ForwardReceive
<1> HIDE DEF q
<1>4. /\ Held(Tail(q)) = Held(q) \ {Head(q)} /\ Once(Tail(q))
      /\ Head(q) \in Held(q) /\ Head(q) \in Uids
  BY <1>2, HeldPopped, HeadTailProperties
<1>5. \A e \in Uids : e \in Held(q) => status[e] \in {"idle", "pending"}
  BY <1>0, <1>1, <1>2 DEF OnlyParkedWait
<1>6. CASE ForwardValue(u, q)
  <2>1. /\ TakeNext /\ remoteReceivers' = Tail(q)
        /\ \A e \in Everyone : status'[e] = IF e = Head(q) THEN "value"
                                            ELSE IF e \in UnparkedFuture THEN "sent"
                                            ELSE IF e = u THEN "pending" ELSE status[e]
    BY <1>6 DEF ForwardValue, Settle, Park
  <2>2. /\ \A e \in Callers : e \in ParkedSenders' <=> e \in ParkedSenders \ UnparkedFuture
        /\ UnparkedFuture \subseteq ParkedSenders /\ OnceSent'
        /\ ParkedSenders' \subseteq ParkedSenders
    BY <2>1, SenderTaken
  <2>3. \A e \in Everyone : e \in UnparkedFuture => status[e] = "pending" /\ e \in Callers
    BY <1>0, <1>1, <2>2, ParkedTypes DEF OnlyParkedWait, Everyone
  <2>4. OnlyParkedWait'
    <3>1. ASSUME NEW e \in Callers
          PROVE  status'[e] = "pending" <=> e \in ParkedSenders' \cup Held(receivers')
      <4>1. e \in Everyone /\ e # u /\ e # Head(q)
        BY <1>1, <1>4 DEF Everyone
      <4>2. e \in UnparkedFuture => e \notin Held(receivers)
        BY <1>0, <2>2 DEF OnlyParkedWait
      <4>3. QED
        BY <1>0, <1>1, <2>1, <2>2, <4>1, <4>2 DEF OnlyParkedWait
    <3>2. ASSUME NEW e \in Uids
          PROVE  status'[e] = "pending" <=> e \in Held(remoteReceivers')
      <4>1. e \in Everyone /\ e \notin UnparkedFuture
        BY <1>1, <2>3 DEF Everyone
      <4>2. QED
        BY <1>0, <1>1, <1>2, <1>4, <2>1, <4>1 DEF OnlyParkedWait
    <3>3. ParkedSenders' \cap Held(receivers') = {}
      BY <1>0, <1>1, <2>2 DEF OnlyParkedWait
    <3>4. QED
      BY <3>1, <3>2, <3>3 DEF OnlyParkedWait
  <2>5. SettledStay
    BY <1>1, <1>4, <1>5, <2>1, <2>3 DEF SettledStay, Settled
  <2>6. QED
    BY <1>0, <1>1, <1>4, <2>1, <2>2, <2>4, <2>5 DEF ParkedOnce
<1>7. ASSUME senders' = senders, NEW st \in {"null", "pending"},
             \A e \in Everyone : status'[e] = IF st = "null" /\ e = Head(q) THEN st
                                              ELSE IF e = u THEN "pending" ELSE status[e],
             remoteReceivers' = IF st = "null" THEN Tail(q) ELSE q
      PROVE  ParkedOnce' /\ SettledStay
  <2>1. ParkedSenders' = ParkedSenders /\ OnceSent'
    BY <1>0, <1>7 DEF ParkedSenders, OnceSent
  <2>2. Once(remoteReceivers') /\ Once(receivers')
    BY <1>0, <1>1, <1>2, <1>4, <1>7
  <2>3. OnlyParkedWait'
    <3>1. ASSUME NEW e \in Callers
          PROVE  status'[e] = "pending" <=> e \in ParkedSenders' \cup Held(receivers')
      <4>1. e \in Everyone /\ e # u /\ e # Head(q)
        BY <1>1, <1>4 DEF Everyone
      <4>2. QED
        BY <1>0, <1>1, <1>7, <2>1, <4>1 DEF OnlyParkedWait
    <3>2. ASSUME NEW e \in Uids
          PROVE  status'[e] = "pending" <=> e \in Held(remoteReceivers')
      <4>1. e \in Everyone
        BY DEF Everyone
      <4>2. QED
        BY <1>0, <1>1, <1>2, <1>4, <1>7, <4>1 DEF OnlyParkedWait
    <3>3. QED
      BY <1>0, <1>1, <2>1, <3>1, <3>2 DEF OnlyParkedWait
  <2>4. SettledStay
    BY <1>1, <1>4, <1>5, <1>7 DEF SettledStay, Settled
  <2>5. QED
    BY <2>1, <2>2, <2>3, <2>4 DEF ParkedOnce
<1>8. CASE ForwardNull(u, q)
  <2>1. /\ senders' = senders /\ remoteReceivers' = Tail(q)
        /\ \A e \in Everyone : status'[e] = IF e = Head(q) THEN "null"
                                            ELSE IF e = u THEN "pending" ELSE status[e]
    BY <1>8 DEF ForwardNull, Settle, Park
  <2>2. QED
    BY <1>7, <2>1
<1>9. CASE ForwardParked(u, q)
  <2>1. /\ senders' = senders /\ remoteReceivers' = q
        /\ \A e \in Everyone : status'[e] = IF e = u THEN "pending" ELSE status[e]
    BY <1>9 DEF ForwardParked, Park
  <2>2. QED
    BY <1>7, <2>1
<1>10. QED
  BY <1>3, <1>6, <1>8, <1>9

(* unplug empties the three deques and answers everybody in them.          *)
LEMMA CloseKeeps ==
  ASSUME ParkedInv, Close
  PROVE  ParkedOnce' /\ SettledStay
<1>0. TypeOK /\ OrderInv /\ ParkedOnce /\ OnlyParkedWait
  BY DEF ParkedInv, ParkedOnce, OrderInv
<1>1. receivers # <<>> => buffer = <<>>
  BY <1>0 DEF OrderInv, NoMissedMatch
<1>2. receivers' = <<>> /\ senders' = <<>> /\ remoteReceivers' = <<>>
  BY <1>1 DEF Close, RemotesAfterClose
<1>3. FailedSends = ParkedSenders /\ NulledReceives = Held(receivers)
      /\ NulledRemotes = Held(remoteReceivers)
  BY DEF FailedSends, ParkedSenders, NulledReceives, NulledRemotes, Held
<1>4. receivers = <<>> => Held(receivers) = {}
  BY <1>0, ParkedTypes
<1>5. \A e \in Everyone :
        status'[e] = IF e \in Held(remoteReceivers) \cup Held(receivers) THEN "null"
                     ELSE IF e \in ParkedSenders THEN "failed" ELSE status[e]
  <2>1. Held(receivers) = IF buffer = <<>> THEN NulledReceives ELSE {}
    BY <1>1, <1>3, <1>4
  <2>2. QED
    BY <1>3, <2>1 DEF Close, Settle
<1>6. \A e \in Everyone :
        e \in Held(remoteReceivers) \cup Held(receivers) \cup ParkedSenders
          <=> status[e] = "pending"
  <2>1. /\ Held(receivers) \subseteq Callers /\ Held(remoteReceivers) \subseteq Uids
        /\ ParkedSenders \subseteq Callers \cup {Inbound}
    BY <1>0, ParkedTypes
  <2>2. QED
    BY <1>0, <2>1, DistinctAssumption DEF OnlyParkedWait, Everyone
<1>7. \A e \in Everyone : status'[e] # "pending"
  BY <1>5, <1>6
<1>8. DOMAIN <<>> = {}
  BY EmptySeq
<1>9. /\ Held(receivers') = {} /\ Held(remoteReceivers') = {} /\ ParkedSenders' = {}
      /\ Once(receivers') /\ Once(remoteReceivers') /\ OnceSent'
  BY <1>2, <1>8 DEF Held, ParkedSenders, Once, OnceSent
<1>10. OnlyParkedWait'
  BY <1>7, <1>9 DEF OnlyParkedWait, Everyone
<1>11. SettledStay
  BY <1>5, <1>6 DEF SettledStay, Settled
<1>12. QED
  BY <1>9, <1>10, <1>11 DEF ParkedOnce

(* Every operation keeps the parked futures in their places.               *)
LEMMA ParkedStep == ParkedInv /\ [Next]_vars => ParkedInv' /\ SettledStay
<1> SUFFICES ASSUME ParkedInv, [Next]_vars PROVE ParkedInv' /\ SettledStay
  OBVIOUS
<1>0. OrderInv' /\ OrderInv /\ ParkedOnce
  BY OrderStep DEF ParkedInv
<1>1. ASSUME NEW c \in Callers \cup {Inbound}, Send(c) PROVE ParkedOnce' /\ SettledStay
  BY <1>1, SendKeeps
<1>2. ASSUME NEW c \in Callers, Receive(c) PROVE ParkedOnce' /\ SettledStay
  BY <1>2, ReceiveKeeps
<1>3. ASSUME NEW u \in Uids, ForwardReceive(u) PROVE ParkedOnce' /\ SettledStay
  BY <1>3, ForwardKeeps
<1>4. CASE Close
  BY <1>0, <1>4, CloseKeeps DEF ParkedInv
<1>5. ASSUME NEW c \in Callers, Resume(c) PROVE ParkedOnce' /\ SettledStay
  <2>1. /\ UNCHANGED <<senders, receivers, remoteReceivers>> /\ status[c] \in Settled
        /\ c \in Everyone /\ c \notin Uids
        /\ \A e \in Everyone : status'[e] = IF e = c THEN "idle" ELSE status[e]
    BY <1>0, <1>5, DistinctAssumption DEF Resume, OrderInv, TypeOK, Everyone
  <2>2. status[c] # "pending"
    BY <2>1 DEF Settled
  <2>3. QED
    BY <1>0, <2>1, <2>2
    DEF ParkedOnce, OnlyParkedWait, OnceSent, ParkedSenders, SettledStay, Everyone
<1>6. ASSUME UNCHANGED <<senders, receivers, remoteReceivers, status>>
      PROVE  ParkedOnce' /\ SettledStay
  BY <1>0, <1>6 DEF ParkedOnce, OnlyParkedWait, OnceSent, ParkedSenders, SettledStay
<1>7. ASSUME NEW c \in Everyone, Abandon(c) PROVE ParkedOnce' /\ SettledStay
  BY <1>6, <1>7 DEF Abandon
<1>8. CASE UNCHANGED vars
  BY <1>0, <1>6, <1>8 DEF vars, ParkedInv
<1>9. QED
  BY <1>0, <1>1, <1>2, <1>3, <1>4, <1>5, <1>7, <1>8 DEF Next, ParkedInv

(* So it holds in every state.                                             *)
LEMMA ParkedCorrect == Spec => []ParkedInv
  BY ParkedInit, ParkedStep, PTL DEF Spec

(* Every wait can still be answered: a future nobody has settled is in one *)
(* deque, once, whoever gave up, closed or was let in before.              *)
THEOREM EveryWaitIsParkedCorrect == Spec => []EveryWaitIsParked
  BY ParkedMeans, ParkedCorrect, PTL

(* No send, receive or unplug settles a future that is settled.            *)
THEOREM NoFutureCompletedTwiceCorrect == Spec => NoFutureCompletedTwice
<1>1. ParkedInv /\ [Next]_vars => [SettledStay]_vars
  BY ParkedStep
<1>2. QED
  BY <1>1, ParkedCorrect, PTL DEF Spec, NoFutureCompletedTwice, SettledStay

-----------------------------------------------------------------------------
(* Channel implements ChannelSpec.  By Fifo the values are numbers in a    *)
(* row: those handed over, then those that wait.  So a state of the        *)
(* abstract queue is known from how many there are of each, and a step of  *)
(* the channel is followed by counting.                                    *)

(* n numbers in a row, from a + 1.                                         *)
Row(a, n) == [i \in 1 .. n |-> a + i]

(* Its length, its numbers, and when it is empty.                          *)
LEMMA RowType ==
  ASSUME NEW a \in Nat, NEW n \in Nat
  PROVE  /\ Row(a, n) \in Seq(Nat) /\ Len(Row(a, n)) = n
         /\ \A i \in 1 .. n : Row(a, n)[i] = a + i
         /\ n = 0 <=> Row(a, n) = <<>>
<1>1. Row(a, n) \in [1 .. n -> Nat]
  BY DEF Row
<1>2. Row(a, n) \in Seq(Nat)
  BY <1>1, SeqDef
<1>3. DOMAIN Row(a, n) = 1 .. n
  BY DEF Row
<1>4. Len(Row(a, n)) = n
  BY <1>2, <1>3, LenProperties
<1>5. QED
  BY <1>2, <1>4, EmptySeq DEF Row

(* A row of as many numbers is that row.                                   *)
LEMMA RowIs ==
  ASSUME NEW a \in Nat, NEW n \in Nat, NEW s \in Seq(Nat), Len(s) = n,
         \A i \in 1 .. n : s[i] = a + i
  PROVE  s = Row(a, n)
<1>1. /\ Row(a, n) \in Seq(Nat) /\ Len(Row(a, n)) = n
      /\ \A i \in 1 .. n : Row(a, n)[i] = a + i
  BY RowType
<1>2. \A i \in 1 .. Len(s) : s[i] = Row(a, n)[i]
  BY <1>1
<1> HIDE DEF Row
<1>3. QED
  BY <1>1, <1>2, SeqEqual

(* A row and its next number are a row.                                    *)
LEMMA RowGrows ==
  ASSUME NEW a \in Nat, NEW n \in Nat
  PROVE  Append(Row(a, n), a + n + 1) = Row(a, n + 1)
<1> DEFINE R == Row(a, n)
           A == Append(R, a + n + 1)
<1>1. R \in Seq(Nat) /\ Len(R) = n /\ \A i \in 1 .. n : R[i] = a + i
  BY RowType
<1>2. a + n + 1 \in Nat /\ n + 1 \in Nat
  OBVIOUS
<1> HIDE DEF R
<1>3. A \in Seq(Nat) /\ Len(A) = n + 1 /\ A[n + 1] = a + n + 1
      /\ \A i \in 1 .. n : A[i] = R[i]
  BY <1>1, <1>2, Pushed
<1>4. \A i \in 1 .. n + 1 : A[i] = a + i
  BY <1>1, <1>3
<1> HIDE DEF A
<1>5. A = Row(a, n + 1)
  BY <1>2, <1>3, <1>4, RowIs
<1>6. QED
  BY <1>5 DEF A, R

(* A row without its first number is a row.                                *)
LEMMA RowShrinks ==
  ASSUME NEW a \in Nat, NEW n \in Nat, n > 0
  PROVE  Head(Row(a, n)) = a + 1 /\ Tail(Row(a, n)) = Row(a + 1, n - 1)
<1> DEFINE R == Row(a, n)
           T == Tail(R)
<1>1. R \in Seq(Nat) /\ R # <<>> /\ Len(R) = n /\ \A i \in 1 .. n : R[i] = a + i
  BY RowType
<1>2. a + 1 \in Nat /\ n - 1 \in Nat
  OBVIOUS
<1> HIDE DEF R
<1>3. /\ Head(R) = R[1] /\ T \in Seq(Nat) /\ Len(T) = n - 1
      /\ \A i \in 1 .. n - 1 : T[i] = R[i + 1]
  BY <1>1, Popped
<1>4. Head(R) = a + 1 /\ \A i \in 1 .. n - 1 : T[i] = a + 1 + i
  BY <1>1, <1>3
<1> HIDE DEF T
<1>5. T = Row(a + 1, n - 1)
  BY <1>2, <1>3, <1>4, RowIs
<1>6. QED
  BY <1>4, <1>5 DEF T, R

(* The front of a row is a row.                                            *)
LEMMA RowFront ==
  ASSUME NEW a \in Nat, NEW n \in Nat, NEW k \in 0 .. n
  PROVE  SubSeq(Row(a, n), 1, k) = Row(a, k)
<1> DEFINE R == Row(a, n)
           F == SubSeq(R, 1, k)
<1>1. R \in Seq(Nat) /\ Len(R) = n /\ \A i \in 1 .. n : R[i] = a + i
  BY RowType
<1> HIDE DEF R
<1>2. \A i \in 1 .. k : R[i] \in Nat
  BY <1>1
<1>3. /\ F \in Seq(Nat)
      /\ Len(F) = IF 1 <= k THEN k - 1 + 1 ELSE 0
      /\ \A i \in 1 .. k - 1 + 1 : F[i] = R[1 + i - 1]
  BY <1>2, SubSeqProperties
<1> HIDE DEF F
<1>4. k \in Nat /\ Len(F) = k /\ \A i \in 1 .. k : F[i] = a + i
  BY <1>1, <1>3
<1>5. F = Row(a, k)
  BY <1>3, <1>4, RowIs
<1>6. QED
  BY <1>5 DEF F, R

-----------------------------------------------------------------------------
(* The abstract queue by numbers.                                          *)
Out == [i \in DOMAIN got |-> got[i].v]
Waits == Len(buffer) + Len(senders)

ByNumbers ==
  /\ Len(got) \in Nat /\ Waits \in Nat /\ Len(buffer) \in Nat /\ Len(senders) \in Nat
  /\ Out = Row(0, Len(got))
  /\ Waiting = Row(Len(got), Waits)
  /\ closed \/ Len(got) + Waits = offered

(* What waits is a row that goes on where what was handed over ends.       *)
LEMMA Numbered == OrderInv => ByNumbers
<1> SUFFICES ASSUME OrderInv PROVE ByNumbers
  OBVIOUS
<1>0. TypeOK /\ Fifo
  BY DEF OrderInv
<1> DEFINE V == [i \in DOMAIN senders |-> senders[i].v]
<1>1. /\ Len(got) \in Nat /\ Len(buffer) \in Nat /\ Len(senders) \in Nat
      /\ DOMAIN got = 1 .. Len(got) /\ DOMAIN buffer = 1 .. Len(buffer)
      /\ DOMAIN senders = 1 .. Len(senders)
  BY <1>0, LenProperties DEF TypeOK
<1>2. Out = Row(0, Len(got))
  BY <1>0, <1>1 DEF Fifo, Out, Row
<1>3. V \in Seq(Values) /\ buffer \in Seq(Values)
  BY <1>0, ParkedValuesType DEF TypeOK
<1>4. Len(V) = Len(senders) /\ \A i \in 1 .. Len(senders) : V[i] = Len(got) + Len(buffer) + i
  BY <1>0, <1>1, <1>3, LenProperties DEF Fifo
<1> HIDE DEF V
<1>5. /\ Waiting \in Seq(Values) /\ Len(Waiting) = Waits
      /\ \A i \in 1 .. Waits : Waiting[i] = IF i <= Len(buffer) THEN buffer[i]
                                           ELSE V[i - Len(buffer)]
    <2>1. Waiting = buffer \o V
      BY DEF Waiting, V
    <2>2. /\ buffer \o V \in Seq(Values) /\ Len(buffer \o V) = Len(buffer) + Len(V)
          /\ \A i \in 1 .. Len(buffer) + Len(V) :
               (buffer \o V)[i] = IF i <= Len(buffer) THEN buffer[i] ELSE V[i - Len(buffer)]
      BY <1>3, ConcatProperties
    <2>3. QED
      BY <1>4, <2>1, <2>2 DEF Waits
<1>6. \A i \in 1 .. Waits : Waiting[i] = Len(got) + i
  <2> SUFFICES ASSUME NEW i \in 1 .. Waits PROVE Waiting[i] = Len(got) + i
    OBVIOUS
  <2>1. CASE i <= Len(buffer)
    BY <1>0, <1>1, <1>5, <2>1 DEF Fifo, Waits
  <2>2. CASE ~(i <= Len(buffer))
    <3>1. i - Len(buffer) \in 1 .. Len(senders)
      BY <1>1, <2>2 DEF Waits
    <3>2. V[i - Len(buffer)] = Len(got) + Len(buffer) + (i - Len(buffer))
      BY <1>4, <3>1
    <3>3. QED
      BY <1>1, <1>5, <2>2, <3>2 DEF Waits
  <2>3. QED
    BY <2>1, <2>2
<1>7. Waiting \in Seq(Nat) /\ Waits \in Nat
  BY <1>1, <1>5, SeqMonotonic, OffersAssumption DEF Values, Waits
<1>8. Waiting = Row(Len(got), Waits)
  BY <1>1, <1>5, <1>6, <1>7, RowIs
<1>9. closed \/ Len(got) + Waits = offered
  <2>1. ~closed => Len(dropped) = 0
    BY <1>0, EmptySeq DEF Fifo
  <2>2. QED
    BY <1>0, <1>1, <2>1 DEF Fifo, Waits
<1>10. QED
  BY <1>1, <1>2, <1>7, <1>8, <1>9 DEF ByNumbers

(* The same one step later.                                                *)
LEMMA NumberedNext == OrderInv' => ByNumbers'
  BY Numbered, PTL

-----------------------------------------------------------------------------
(* The steps, by numbers.  ChannelSpec speaks of Out and Waiting.          *)

(* A step that moves no value is no step of the queue.                     *)
LEMMA Stutters ==
  ASSUME UNCHANGED <<buffer, senders, got, closed>>
  PROVE  UNCHANGED Promise!vars
  BY DEF Promise!vars, Waiting

(* An accepted value that nobody takes waits behind all others.            *)
LEMMA AcceptsOne ==
  ASSUME OrderInv, OrderInv', ~closed, offered < MaxOffers, offered' = offered + 1,
         closed' = closed, got' = got, Waits' = Waits + 1
  PROVE  \E v \in Values : Promise!Accept(v)
<1>1. /\ Len(got) \in Nat /\ Waits \in Nat
      /\ Waiting = Row(Len(got), Waits) /\ Len(got) + Waits = offered
  BY Numbered DEF ByNumbers
<1>2. Waiting' = Row(Len(got), Waits + 1)
  <2>1. Waiting' = Row(Len(got'), Waits')
    BY NumberedNext DEF ByNumbers
  <2>2. QED
    BY <2>1
<1>3. Waiting' = Append(Waiting, Len(got) + Waits + 1)
  BY <1>1, <1>2, RowGrows
<1>4. offered + 1 \in Values
  BY OfferType DEF OrderInv
<1>5. QED
  BY <1>1, <1>3, <1>4 DEF Promise!Accept

(* A value that meets a receiver passes an empty queue.                    *)
LEMMA PassesOne ==
  ASSUME OrderInv, OrderInv', ~closed, offered < MaxOffers, offered' = offered + 1,
         closed' = closed, Waits = 0, Waits' = 0, Len(got') = Len(got) + 1
  PROVE  \E v \in Values : Promise!Pass(v)
<1>1. /\ Len(got) \in Nat /\ Out = Row(0, Len(got)) /\ Waiting = Row(Len(got), 0)
      /\ Len(got) = offered
  BY Numbered DEF ByNumbers
<1>2. Out' = Row(0, Len(got) + 1) /\ Waiting' = Row(Len(got) + 1, 0)
  <2>1. Out' = Row(0, Len(got')) /\ Waiting' = Row(Len(got'), Waits')
    BY NumberedNext DEF ByNumbers
  <2>2. QED
    BY <2>1
<1>3. Waiting = <<>> /\ Waiting' = <<>>
  BY <1>1, <1>2, RowType
<1>4. Append(Row(0, Len(got)), 0 + Len(got) + 1) = Row(0, Len(got) + 1)
  BY <1>1, RowGrows
<1>5. Out' = Append(Out, offered + 1)
  BY <1>1, <1>2, <1>4
<1>6. offered + 1 \in Values
  BY OfferType DEF OrderInv
<1>7. QED
  BY <1>3, <1>5, <1>6 DEF Promise!Pass, Out

(* A value that is taken was the first of those that waited.               *)
LEMMA TakesOne ==
  ASSUME OrderInv, OrderInv', closed' = closed, Waits > 0, Waits' = Waits - 1,
         Len(got') = Len(got) + 1
  PROVE  Promise!Take
<1>1. /\ Len(got) \in Nat /\ Waits \in Nat
      /\ Out = Row(0, Len(got)) /\ Waiting = Row(Len(got), Waits)
  BY Numbered DEF ByNumbers
<1>2. Out' = Row(0, Len(got) + 1) /\ Waiting' = Row(Len(got) + 1, Waits - 1)
  <2>1. Out' = Row(0, Len(got')) /\ Waiting' = Row(Len(got'), Waits')
    BY NumberedNext DEF ByNumbers
  <2>2. QED
    BY <2>1
<1>3. /\ Head(Waiting) = Len(got) + 1 /\ Waiting' = Tail(Waiting)
      /\ Waiting # <<>>
  <2>1. Waiting # <<>>
    BY <1>1, RowType
  <2>2. Head(Waiting) = Len(got) + 1 /\ Tail(Waiting) = Row(Len(got) + 1, Waits - 1)
    BY <1>1, RowShrinks
  <2>3. QED
    BY <1>2, <2>1, <2>2
<1>4. Append(Row(0, Len(got)), 0 + Len(got) + 1) = Row(0, Len(got) + 1)
  BY <1>1, RowGrows
<1>5. Out' = Append(Out, Head(Waiting))
  BY <1>1, <1>2, <1>3, <1>4
<1>6. QED
  BY <1>3, <1>5 DEF Promise!Take, Out

(* unplug turns away those that are parked, the newest.                    *)
LEMMA Closes ==
  ASSUME OrderInv, OrderInv', Close
  PROVE  Promise!Close
<1>1. /\ Len(got) \in Nat /\ Waits \in Nat /\ Len(buffer) \in Nat /\ Len(senders) \in Nat
      /\ Waiting = Row(Len(got), Waits)
  BY Numbered DEF ByNumbers
<1>2. Waiting' = Row(Len(got'), Waits')
  BY NumberedNext DEF ByNumbers
<1>3. got' = got /\ buffer' = buffer /\ senders' = <<>> /\ ~closed /\ closed'
  BY DEF Close
<1>4. Len(<<>>) = 0
  BY EmptySeq
<1>5. Len(got') = Len(got) /\ Waits' = Len(buffer) /\ Len(buffer) \in 0 .. Waits
  BY <1>1, <1>3, <1>4 DEF Waits
<1>6. Waiting' = SubSeq(Waiting, 1, Len(buffer))
  <2>1. SubSeq(Row(Len(got), Waits), 1, Len(buffer)) = Row(Len(got), Len(buffer))
    BY <1>1, <1>5, RowFront
  <2>2. Waiting' = Row(Len(got), Len(buffer))
    BY <1>2, <1>5
  <2>3. QED
    BY <1>1, <2>1, <2>2
<1>7. Len(Waiting) = Waits
  BY <1>1, RowType
<1>8. \E k \in 0 .. Len(Waiting) : Waiting' = SubSeq(Waiting, 1, k)
  BY <1>5, <1>6, <1>7
<1>9. QED
  BY <1>3, <1>8 DEF Promise!Close

-----------------------------------------------------------------------------
(* What the operations do to the numbers.                                  *)

(* Handing a value over makes one more.                                    *)
LEMMA HandedOver ==
  ASSUME TypeOK, NEW v \in Values, NEW c \in Everyone, HandOver(v, c)
  PROVE  Len(got') = Len(got) + 1
<1>1. got \in Seq(Delivery) /\ [v |-> v, to |-> c] \in Delivery
  BY PartsType DEF TypeOK
<1>2. QED
  BY <1>1, Pushed DEF HandOver

(* TakeNext leaves one less.                                               *)
LEMMA TakenNext ==
  ASSUME OrderInv, OrderInv', Available, TakeNext, NEW c \in Everyone,
         HandOver(NextValue, c), UNCHANGED <<offered, dropped, closed>>
  PROVE  Promise!Take
<1>1. /\ Len(senders) > 0 => Len(senders') = Len(senders) - 1
      /\ Len(senders) > 0 => Len(buffer') = Len(buffer)
      /\ Len(senders) = 0 => senders' = <<>> /\ Len(buffer') = Len(buffer) - 1
  BY TakeOrder DEF OrderInv
<1>2. /\ Len(buffer) \in Nat /\ Len(senders) \in Nat
      /\ buffer = <<>> <=> Len(buffer) = 0
      /\ senders = <<>> <=> Len(senders) = 0
  BY EmptyDeque DEF OrderInv, TypeOK
<1>3. Len(<<>>) = 0
  BY EmptySeq
<1>4. Waits > 0 /\ Waits' = Waits - 1
  BY <1>1, <1>2, <1>3 DEF Waits, Available
<1>5. NextValue \in Values
  BY TakeType DEF OrderInv
<1>6. Len(got') = Len(got) + 1
  BY <1>5, HandedOver DEF OrderInv
<1>7. QED
  BY <1>4, <1>6, TakesOne

(* A send adds one to those that wait or to those handed over.             *)
LEMMA SendMaps ==
  ASSUME OrderInv, OrderInv', NEW c \in Callers \cup {Inbound}, Send(c)
  PROVE  Promise!Next \/ UNCHANGED Promise!vars
<1>1. CASE SendClosed(c)
  BY <1>1, Stutters DEF SendClosed
<1>2. ASSUME Accepting(c), NEW e \in Everyone, HandOver(offered + 1, e),
             buffer = <<>>, senders = <<>>, UNCHANGED <<buffer, senders, closed>>
      PROVE  Promise!Next
  <2>1. ~closed /\ offered < MaxOffers /\ offered' = offered + 1
    BY <1>2 DEF Accepting
  <2>2. Len(<<>>) = 0
    BY EmptySeq
  <2>3. Waits = 0 /\ Waits' = 0
    BY <1>2, <2>2 DEF Waits
  <2>4. Len(got') = Len(got) + 1
    BY <1>2, <2>1, OfferType, HandedOver DEF OrderInv
  <2>5. \E v \in Values : Promise!Pass(v)
    BY <1>2, <2>1, <2>3, <2>4, PassesOne
  <2>6. QED
    BY <2>5 DEF Promise!Next
<1>3. CASE SendToReceiver(c)
  <2>1. buffer = <<>> /\ senders = <<>>
    BY <1>3 DEF SendToReceiver, OrderInv, NoMissedMatch
  <2>2. Head(receivers) \in Everyone
    BY <1>3, HeadTailProperties DEF SendToReceiver, OrderInv, TypeOK, Everyone
  <2>3. QED
    BY <1>2, <1>3, <2>1, <2>2 DEF SendToReceiver, Accepting
<1>4. CASE SendToRemote(c)
  <2>1. buffer = <<>> /\ senders = <<>>
    BY <1>4 DEF SendToRemote, OrderInv, NoMissedMatch
  <2>2. Head(remoteReceivers) \in Everyone
    BY <1>4, HeadTailProperties DEF SendToRemote, OrderInv, TypeOK, Everyone
  <2>3. QED
    BY <1>2, <1>4, <2>1, <2>2 DEF SendToRemote, Accepting
<1>5. ASSUME Accepting(c), got' = got, closed' = closed, Waits' = Waits + 1
      PROVE  Promise!Next
  <2>1. \E v \in Values : Promise!Accept(v)
    BY <1>5, AcceptsOne DEF Accepting
  <2>2. QED
    BY <2>1 DEF Promise!Next
<1>6. CASE SendBuffered(c)
  <2>1. buffer \in Seq(Values) /\ offered + 1 \in Values /\ Len(senders) \in Nat
    BY <1>6, OfferType, EmptyDeque DEF SendBuffered, Accepting, OrderInv, TypeOK
  <2>2. Len(buffer') = Len(buffer) + 1 /\ Len(buffer) \in Nat /\ senders' = senders
    BY <1>6, <2>1, Pushed, EmptyDeque DEF SendBuffered
  <2>3. Waits' = Waits + 1
    BY <2>1, <2>2 DEF Waits
  <2>4. QED
    BY <1>5, <1>6, <2>3 DEF SendBuffered, Accepting
<1>7. CASE SendParked(c)
  <2>1. senders \in Seq(ParkedSend) /\ [v |-> offered + 1, f |-> c] \in ParkedSend
    BY <1>7, OfferType, PartsType DEF SendParked, Accepting, OrderInv, TypeOK
  <2>2. Len(senders') = Len(senders) + 1 /\ Len(senders) \in Nat /\ buffer' = buffer
    BY <1>7, <2>1, Pushed, EmptyDeque DEF SendParked
  <2>3. Len(buffer) \in Nat
    BY EmptyDeque DEF OrderInv, TypeOK
  <2>4. Waits' = Waits + 1
    BY <2>2, <2>3 DEF Waits
  <2>5. QED
    BY <1>5, <1>7, <2>4 DEF SendParked, Accepting
<1>8. QED
  BY <1>1, <1>3, <1>4, <1>6, <1>7 DEF Send

(* Every step is one of the queue or none.                                 *)
LEMMA QueueStep == OrderInv /\ [Next]_vars => [Promise!Next]_(Promise!vars)
<1> SUFFICES ASSUME OrderInv, [Next]_vars PROVE Promise!Next \/ UNCHANGED Promise!vars
  OBVIOUS
<1>0. OrderInv'
  BY OrderStep
<1>1. ASSUME NEW c \in Callers \cup {Inbound}, Send(c)
      PROVE  Promise!Next \/ UNCHANGED Promise!vars
  BY <1>0, <1>1, SendMaps
<1>2. ASSUME NEW c \in Callers, Receive(c)
      PROVE  Promise!Next \/ UNCHANGED Promise!vars
  <2>1. CASE ReceiveValue(c)
    <3>1. c \in Everyone
      BY DEF Everyone
    <3>2. Promise!Take
      BY <1>0, <1>2, <2>1, <3>1, TakenNext DEF Receive, ReceiveValue
    <3>3. QED
      BY <3>2 DEF Promise!Next
  <2>2. CASE ReceiveNull(c) \/ ReceiveParked(c)
    BY <1>2, <2>2, Stutters DEF Receive, ReceiveNull, ReceiveParked
  <2>3. QED
    BY <1>2, <2>1, <2>2 DEF Receive
<1>3. ASSUME NEW u \in Uids, ForwardReceive(u)
      PROVE  Promise!Next \/ UNCHANGED Promise!vars
  <2> DEFINE q == Append(remoteReceivers, u)
  <2>1. Head(q) \in Everyone
    <3>1. remoteReceivers \in Seq(Uids)
      BY DEF OrderInv, TypeOK
    <3>2. q \in Seq(Uids) /\ q # <<>>
      BY <3>1, AppendProperties
    <3>3. Head(q) \in Uids
      BY <3>2, HeadTailProperties
    <3>4. QED
      BY <3>3 DEF Everyone
  <2> HIDE DEF q
  <2>2. CASE ForwardValue(u, q)
    <3>1. Promise!Take
      BY <1>0, <1>3, <2>1, <2>2, TakenNext DEF ForwardReceive, ForwardValue
    <3>2. QED
      BY <3>1 DEF Promise!Next
  <2>3. CASE ForwardNull(u, q) \/ ForwardParked(u, q)
    BY <1>3, <2>3, Stutters DEF ForwardReceive, ForwardNull, ForwardParked
  <2>4. QED
    BY <1>3, <2>2, <2>3 DEF ForwardReceive, q
<1>4. CASE Close
  <2>1. Promise!Close
    BY <1>0, <1>4, Closes
  <2>2. QED
    BY <2>1 DEF Promise!Next
<1>5. ASSUME NEW c \in Everyone, Resume(c) \/ Abandon(c)
      PROVE  UNCHANGED Promise!vars
  BY <1>5, Stutters DEF Resume, Abandon
<1>6. CASE UNCHANGED vars
  BY <1>6, Stutters DEF vars
<1>7. QED
  BY <1>1, <1>2, <1>3, <1>4, <1>5, <1>6 DEF Next, Everyone

(* The deques start as an empty open queue.                                *)
LEMMA QueueInit == Init => Promise!Init
<1> SUFFICES ASSUME Init PROVE Promise!Init
  OBVIOUS
<1>1. got = <<>> /\ Waits = 0 /\ ~closed
  <2>1. Len(<<>>) = 0
    BY EmptySeq
  <2>2. QED
    BY <2>1 DEF Init, Waits
<1>2. Out = Row(0, 0) /\ Waiting = Row(0, 0)
  <2>1. Len(got) = 0
    BY <1>1, EmptySeq
  <2>2. QED
    BY <1>1, <2>1, OrderInit, Numbered DEF ByNumbers
<1>3. Row(0, 0) = <<>>
  BY RowType
<1>4. QED
  BY <1>1, <1>2, <1>3 DEF Promise!Init, Out

(* The three deques, with every way to park, to be let in and to be turned *)
(* away, are one queue.                                                    *)
THEOREM ImplementsChannelSpecCorrect == Spec => ImplementsChannelSpec
<1>1. OrderInv /\ [Next]_vars => [Promise!Next]_(Promise!vars)
  BY QueueStep
<1>2. QED
  BY <1>1, QueueInit, OrderCorrect, PTL DEF Spec, ImplementsChannelSpec, Promise!Spec
=============================================================================
