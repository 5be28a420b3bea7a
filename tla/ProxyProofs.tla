----------------------------- MODULE ProxyProofs -----------------------------
(***************************************************************************)
(* Theorems about ProxyChannel for any children and any number of their    *)
(* receives, whoever sends, receives and dies.                             *)
(***************************************************************************)
EXTENDS ProxyChannel, Listing

P == INSTANCE ChannelProofs

-----------------------------------------------------------------------------
(* The invariant.  Its parts are about files and a queue of receives, so   *)
(* that they can be stated between the reading of a record and what comes  *)
(* of it as well: out for outFile, q for remoteReceivers, in for inFile,   *)
(* strayed for lost.                                                       *)

InFileOf(f, u) == \E i \in DOMAIN f[Owner[u]] : f[Owner[u]][i].uid = u
InLine(q, u) == \E i \in DOMAIN q : q[i] = u
Answered(u) == answer[u] >= Null
Over(u, strayed) == Answered(u) \/ u \in strayed

(* The files hold the receives of their child, each once.                  *)
OutKept(out) ==
  \A k \in Children :
    /\ \A i \in DOMAIN out[k] : out[k][i].uid \in Uids => Owner[out[k][i].uid] = k
    /\ \A i, j \in DOMAIN out[k] :
         out[k][i].uid \in Uids /\ out[k][i].uid = out[k][j].uid => i = j
InKept(in) ==
  \A k \in Children :
    /\ \A i \in DOMAIN in[k] : Owner[in[k][i].uid] = k
    /\ \A i, j \in DOMAIN in[k] : in[k][i].uid = in[k][j].uid => i = j

(* What the parent has of a receive tells where it is.                     *)
StatusTells(out, in) ==
  \A u \in Uids :
    /\ InFileOf(out, u) \/ answer[u] = Undrawn => status[u] = "idle"
    /\ InFileOf(in, u) \/ Answered(u) => status[u] \in {"value", "null"}

(* Whatever is on its way is waited for, and whatever is waited for is on  *)
(* its way, unless the tail has stopped, or else its answer is lost.       *)
OnItsWayTo(out, q, in, u) == InFileOf(out, u) \/ InLine(q, u) \/ InFileOf(in, u)
WaitsKept(out, q, in, strayed) ==
  \A u \in Uids :
    /\ OnItsWayTo(out, q, in, u) => answer[u] = Pending /\ u \notin strayed
    /\ answer[u] = Pending /\ alive[Owner[u]] => OnItsWayTo(out, q, in, u) \/ u \in strayed
    /\ u \in strayed => answer[u] = Pending

(* A child made its receive u before w.                                    *)
Earlier(u, w) ==
  /\ Owner[u] = Owner[w]
  /\ \E i, j \in DOMAIN drawn[Owner[u]] :
       i < j /\ drawn[Owner[u]][i] = u /\ drawn[Owner[u]][j] = w

DrawnKept ==
  /\ drawn \in [Children -> Seq(Uids)]
  /\ \A k \in Children : \A i \in DOMAIN drawn[k] :
       Owner[drawn[k][i]] = k /\ answer[drawn[k][i]] \notin {Undrawn, Unasked}

(* The earlier one is as far or farther, or its answer is lost,            *)
StagesInOrder(out, q, in, strayed) ==
  \A u, w \in Uids : Earlier(u, w) =>
    /\ Answered(w) => Over(u, strayed)
    /\ InFileOf(in, w) => Over(u, strayed) \/ InFileOf(in, u)
    /\ InLine(q, w) => Over(u, strayed) \/ InFileOf(in, u) \/ InLine(q, u)
    /\ InFileOf(out, w) => Over(u, strayed) \/ OnItsWayTo(out, q, in, u)

(* and before the other where both are at the same place.                  *)
OutInOrder(out) ==
  \A k \in Children : \A i, j \in DOMAIN out[k] :
    out[k][i].uid \in Uids /\ out[k][j].uid \in Uids
      /\ Earlier(out[k][i].uid, out[k][j].uid) => i < j
LineInOrder(q) ==
  \A i, j \in DOMAIN q : Earlier(q[i], q[j]) => i < j
InInOrder(in) ==
  \A k \in Children : \A i, j \in DOMAIN in[k] :
    Earlier(in[k][i].uid, in[k][j].uid) => i < j

(* What a receive was told, whether the child has read it or not: values   *)
(* that were handed over, in the order in which they were, and null when   *)
(* there will be none any more.                                            *)
Told(in, u, v) ==
  \/ answer[u] = v /\ v >= Null
  \/ \E i \in DOMAIN in[Owner[u]] : in[Owner[u]][i].uid = u /\ in[Owner[u]][i].v = v

ToldKept(in) ==
  \A u \in Uids, v \in Null .. MaxOffers : Told(in, u, v) =>
    /\ v <= Len(got)
    /\ v = Null => closed /\ buffer = <<>>

ToldInOrder(in) ==
  \A u, w \in Uids : \A a, b \in Null .. MaxOffers :
    Earlier(u, w) /\ Told(in, u, a) /\ Told(in, w, b) => /\ a = Null => b = Null
                                                         /\ b # Null => a < b

(* What is proved about the parent's channel.                              *)
ChannelInv == P!ParkedInv

(* The types of what the channel does not have.                            *)
InRecord == [uid : Uids, v : Null .. MaxOffers]
OutRecord == [type : {"SEND"}, uid : {Inbound}] \cup [type : {"RECV"}, uid : Uids]
OwnTypes ==
  /\ alive \in [Children -> BOOLEAN]
  /\ outFile \in [Children -> Seq(OutRecord)]
  /\ inFile \in [Children -> Seq(InRecord)]
  /\ answer \in [Uids -> Unasked .. MaxOffers]
  /\ lost \subseteq Uids

ReceivesKept(out, q, in, strayed) ==
  /\ OutKept(out) /\ InKept(in) /\ WaitsKept(out, q, in, strayed)
  /\ StagesInOrder(out, q, in, strayed) /\ OutInOrder(out) /\ LineInOrder(q) /\ InInOrder(in)

ProxyInv ==
  /\ ChannelInv /\ OwnTypes /\ DrawnKept
  /\ ReceivesKept(outFile, remoteReceivers, inFile, lost)
  /\ StatusTells(outFile, inFile) /\ ToldKept(inFile) /\ ToldInOrder(inFile)

-----------------------------------------------------------------------------
(* The parent's channel is the one ChannelProofs is about.                 *)
LEMMA SameSend ==
  ASSUME NEW c, Parent!Send(c)
  PROVE  P!Send(c)
  BY DEF P!Send, P!SendClosed, P!SendToReceiver, P!SendToRemote, P!SendBuffered, P!SendParked,
     Parent!Send, Parent!SendClosed, Parent!SendToReceiver, Parent!SendToRemote,
     Parent!SendBuffered, Parent!SendParked, P!Free, Parent!Free, P!Accepting, Parent!Accepting,
     P!HandOver, Parent!HandOver, P!Settle, Parent!Settle, P!Park, Parent!Park,
     P!HasRoom, Parent!HasRoom, P!Everyone, Parent!Everyone

LEMMA SameReceive ==
  ASSUME NEW c, Parent!Receive(c) \/ Parent!Resume(c) \/ Parent!Abandon(c)
  PROVE  P!Receive(c) \/ P!Resume(c) \/ P!Abandon(c)
  BY DEF P!Receive, P!ReceiveValue, P!ReceiveNull, P!ReceiveParked, P!Resume, P!Abandon,
     Parent!Receive, Parent!ReceiveValue, Parent!ReceiveNull, Parent!ReceiveParked, Parent!Resume, Parent!Abandon,
     P!Free, Parent!Free, P!Available, Parent!Available, P!NextValue, Parent!NextValue,
     P!TakeNext, Parent!TakeNext, P!Refilled, Parent!Refilled, P!Unparked, Parent!Unparked,
     P!UnparkedFuture, Parent!UnparkedFuture, P!Settled, Parent!Settled,
     P!HandOver, Parent!HandOver, P!Settle, Parent!Settle, P!Park, Parent!Park,
     P!Everyone, Parent!Everyone

LEMMA SameForward ==
  ASSUME NEW u, Parent!ForwardReceive(u)
  PROVE  P!ForwardReceive(u)
  BY DEF P!ForwardReceive, P!ForwardValue, P!ForwardNull, P!ForwardParked,
     Parent!ForwardReceive, Parent!ForwardValue, Parent!ForwardNull, Parent!ForwardParked,
     P!Available, Parent!Available, P!NextValue, Parent!NextValue,
     P!TakeNext, Parent!TakeNext, P!Refilled, Parent!Refilled, P!Unparked, Parent!Unparked,
     P!UnparkedFuture, Parent!UnparkedFuture,
     P!HandOver, Parent!HandOver, P!Settle, Parent!Settle, P!Park, Parent!Park,
     P!Everyone, Parent!Everyone

LEMMA SameClose ==
  ASSUME Parent!Close
  PROVE  P!Close
  BY DEF P!Close, Parent!Close, P!RemotesAfterClose, Parent!RemotesAfterClose,
     P!FailedSends, Parent!FailedSends, P!NulledReceives, Parent!NulledReceives,
     P!NulledRemotes, Parent!NulledRemotes, P!Settle, Parent!Settle, P!Everyone, Parent!Everyone

LEMMA SameInit == Parent!Init => P!Init
  BY DEF P!Init, Parent!Init, P!Everyone, Parent!Everyone

LEMMA SameTypes == P!TypeOK <=> Parent!TypeOK
  BY DEF P!TypeOK, Parent!TypeOK, P!Values, Parent!Values, P!ParkedSend, Parent!ParkedSend,
     P!Delivery, Parent!Delivery, P!Settled, Parent!Settled, P!Everyone, Parent!Everyone

(* So what is proved of it holds of the parent's.                          *)
LEMMA ChannelInit == Init => ChannelInv
<1>1. P!Init => P!ParkedInv
  BY P!ParkedInit, DistinctAssumption, CapacityAssumption, OffersAssumption DEF P!Everyone
<1>2. QED
  BY <1>1, SameInit DEF Init, ChannelInv

LEMMA ChannelStep == ChannelInv /\ OwnTypes /\ [Next]_vars => ChannelInv'
<1> SUFFICES ASSUME ChannelInv, OwnTypes, [Next]_vars PROVE ChannelInv'
  OBVIOUS
<1>1. P!ParkedInv /\ [P!Next]_(P!vars) => P!ParkedInv'
  BY P!ParkedStep, DistinctAssumption, CapacityAssumption, OffersAssumption DEF P!Everyone
<1>2. [P!Next]_(P!vars)
  <2>1. ASSUME NEW c \in Callers \cup {Inbound}, Parent!Send(c) PROVE P!Next
    BY <2>1, SameSend DEF P!Next
  <2>2. ASSUME NEW c \in Callers, Parent!Receive(c) \/ Parent!Resume(c) \/ Parent!Abandon(c)
        PROVE  P!Next
    <3>1. P!Receive(c) \/ P!Resume(c) \/ P!Abandon(c)
      BY <2>2, SameReceive
    <3>2. QED
      BY <3>1 DEF P!Next, P!Everyone
  <2>3. ASSUME NEW u \in Uids, Parent!ForwardReceive(u) PROVE P!Next
    BY <2>3, SameForward DEF P!Next
  <2>4. Parent!Close => P!Next
    BY SameClose DEF P!Next
  <2>5. UNCHANGED channel => UNCHANGED P!vars
    BY DEF channel, P!vars
  <2>6. ASSUME NEW k \in Children, ParentReads(k) PROVE P!Next \/ UNCHANGED channel
    <3>1. FirstRecord(k) \in OutRecord
      BY <2>6, HeadTailProperties DEF OwnTypes, ParentReads, FirstRecord
    <3>2. FirstRecord(k).type = "RECV" => FirstRecord(k).uid \in Uids
      BY <3>1 DEF OutRecord
    <3>3. QED
      BY <2>1, <2>3, <2>6, <3>2 DEF ParentReads
  <2>7. CASE UNCHANGED vars
    BY <2>5, <2>7 DEF vars
  <2>8. CASE Next
    BY <2>1, <2>2, <2>4, <2>5, <2>6, <2>8 DEF Next, LocalSend, LocalReceive, Unplug, TailStops,
       ChildSend, ChildReads, ChildDies, ChildReceive
  <2>9. QED
    BY <2>7, <2>8
<1>3. QED
  BY <1>1, <1>2 DEF ChannelInv

-----------------------------------------------------------------------------
(* What the channel serves.  The first n of those in q have been served:   *)
(* the others are in line, and a file f of child k has become g by a       *)
(* record with v for each of them that is the child's, in their order, but *)
(* for the strayed.                                                        *)
Served(q, n, line) ==
  /\ n \in 0 .. Len(q) /\ Len(line) = Len(q) - n
  /\ \A i \in 1 .. Len(line) : line[i] = q[n + i]

Brought(f, g, q, n, k, v, strayed) ==
  /\ Len(f) <= Len(g)
  /\ \A i \in 1 .. Len(f) : g[i] = f[i]
  /\ \A i \in Len(f) + 1 .. Len(g) : \E m \in 1 .. n :
       g[i].uid = q[m] /\ Owner[q[m]] = k /\ g[i].v = v /\ q[m] \notin strayed
  /\ \A m \in 1 .. n : Owner[q[m]] = k /\ q[m] \notin strayed
                        => \E i \in Len(f) + 1 .. Len(g) : g[i].uid = q[m]
  /\ \A i, j \in Len(f) + 1 .. Len(g) : \A l, m \in 1 .. n :
       i < j /\ g[i].uid = q[l] /\ g[j].uid = q[m] => l < m

AllBrought(in, q, n, v, strayed) ==
  /\ \A u \in strayed : \E m \in 1 .. n : q[m] = u
  /\ \A k \in Children : Brought(inFile[k], in[k], q, n, k, v, strayed)

FileTypes(in) == in \in [Children -> Seq(InRecord)]

(* Everybody is where he was, or was served.                               *)
LEMMA ServedAre ==
  ASSUME FileTypes(inFile), NEW in, FileTypes(in), NEW q \in Seq(Uids), NEW line \in Seq(Uids),
         NEW n, NEW v, NEW strayed, Served(q, n, line),
         AllBrought(in, q, n, v, strayed),
         NEW u \in Uids
  PROVE  /\ InFileOf(in, u) <=> InFileOf(inFile, u) \/ (u \notin strayed /\ \E m \in 1 .. n : q[m] = u)
         /\ InLine(q, u) <=> InLine(line, u) \/ \E m \in 1 .. n : q[m] = u
<1> DEFINE k == Owner[u]
           f == inFile[k]
           g == in[k]
<1>1. /\ k \in Children /\ f \in Seq(InRecord) /\ g \in Seq(InRecord)
      /\ Len(f) \in Nat /\ DOMAIN f = 1 .. Len(f) /\ Len(g) \in Nat /\ DOMAIN g = 1 .. Len(g)
      /\ Len(q) \in Nat /\ DOMAIN q = 1 .. Len(q) /\ Len(line) \in Nat /\ DOMAIN line = 1 .. Len(line)
  <2>1. k \in Children
    BY ChildrenAssumption
  <2>2. f \in Seq(InRecord) /\ g \in Seq(InRecord)
    BY <2>1 DEF FileTypes
  <2>3. QED
    BY <2>1, <2>2, LenProperties
<1>2. Brought(f, g, q, n, k, v, strayed)
  BY <1>1 DEF AllBrought
<1> HIDE DEF f, g
<1>3. /\ Len(f) <= Len(g)
      /\ \A i \in 1 .. Len(f) : g[i] = f[i]
      /\ \A i \in Len(f) + 1 .. Len(g) : \E m \in 1 .. n : /\ g[i].uid = q[m] /\ g[i].v = v
                                                        /\ q[m] \notin strayed
      /\ \A m \in 1 .. n : q[m] = u /\ u \notin strayed
                            => \E i \in Len(f) + 1 .. Len(g) : g[i].uid = q[m] /\ g[i].v = v
  BY <1>2 DEF Brought
<1>4. \A i \in DOMAIN g : i \in DOMAIN f \/ i \in Len(f) + 1 .. Len(g)
  BY <1>1
<1>5. /\ \A i \in DOMAIN f : i \in DOMAIN g
      /\ \A i \in Len(f) + 1 .. Len(g) : i \in DOMAIN g
  BY <1>1, <1>3
<1>6. InFileOf(in, u) <=> InFileOf(inFile, u) \/ (u \notin strayed /\ \E m \in 1 .. n : q[m] = u)
  <2>1. InFileOf(in, u) <=> \E i \in DOMAIN g : g[i].uid = u
    BY DEF InFileOf, g
  <2>2. InFileOf(inFile, u) <=> \E i \in DOMAIN f : f[i].uid = u
    BY DEF InFileOf, f
  <2>3. QED
    BY <1>1, <1>3, <1>4, <1>5, <2>1, <2>2
<1>7. InLine(q, u) <=> InLine(line, u) \/ \E m \in 1 .. n : q[m] = u
  <2>1. n \in Nat /\ n <= Len(q) /\ Len(line) = Len(q) - n
    BY <1>1 DEF Served
  <2>2. \A i \in 1 .. Len(q) : i \in 1 .. n \/ (i - n \in 1 .. Len(line) /\ n + (i - n) = i)
    BY <1>1, <2>1
  <2>3. \A i \in 1 .. Len(line) : n + i \in 1 .. Len(q)
    BY <1>1, <2>1
  <2>4. \A i \in 1 .. n : i \in 1 .. Len(q)
    BY <1>1, <2>1
  <2>5. QED
    BY <1>1, <2>2, <2>3, <2>4 DEF InLine, Served
<1>8. QED
  BY <1>6, <1>7

(* No more is told than that.                                              *)
LEMMA ServedTold ==
  ASSUME FileTypes(inFile), NEW in, FileTypes(in), NEW q, NEW n, NEW v, NEW strayed,
         AllBrought(in, q, n, v, strayed),
         NEW u \in Uids, NEW a
  PROVE  Told(in, u, a) => Told(inFile, u, a) \/ (a = v /\ \E m \in 1 .. n : q[m] = u)
<1> DEFINE k == Owner[u]
           f == inFile[k]
           g == in[k]
<1>1. /\ k \in Children
      /\ Len(f) \in Nat /\ DOMAIN f = 1 .. Len(f) /\ Len(g) \in Nat /\ DOMAIN g = 1 .. Len(g)
  <2>1. k \in Children
    BY ChildrenAssumption
  <2>2. f \in Seq(InRecord) /\ g \in Seq(InRecord)
    BY <2>1 DEF FileTypes
  <2>3. QED
    BY <2>1, <2>2, LenProperties
<1>2. Brought(f, g, q, n, k, v, strayed)
  BY <1>1 DEF AllBrought
<1> HIDE DEF f, g
<1>3. /\ Len(f) <= Len(g)
      /\ \A i \in 1 .. Len(f) : g[i] = f[i]
      /\ \A i \in Len(f) + 1 .. Len(g) : \E m \in 1 .. n : /\ g[i].uid = q[m] /\ g[i].v = v
                                                        /\ q[m] \notin strayed
      /\ \A m \in 1 .. n : q[m] = u /\ u \notin strayed
                            => \E i \in Len(f) + 1 .. Len(g) : g[i].uid = q[m] /\ g[i].v = v
  BY <1>2 DEF Brought
<1>4. \A i \in DOMAIN g : i \in DOMAIN f \/ i \in Len(f) + 1 .. Len(g)
  BY <1>1
<1>5. /\ \A i \in DOMAIN f : i \in DOMAIN g
      /\ \A i \in Len(f) + 1 .. Len(g) : i \in DOMAIN g
  BY <1>1, <1>3
<1>6. Told(in, u, a) <=> \/ answer[u] = a /\ a >= Null
                         \/ \E i \in DOMAIN g : g[i].uid = u /\ g[i].v = a
  BY DEF Told, g
<1>7. Told(inFile, u, a) <=> \/ answer[u] = a /\ a >= Null
                             \/ \E i \in DOMAIN f : f[i].uid = u /\ f[i].v = a
  BY DEF Told, f
<1>8. ASSUME NEW i \in DOMAIN g, g[i].uid = u, g[i].v = a
      PROVE  Told(inFile, u, a) \/ (a = v /\ \E m \in 1 .. n : q[m] = u)
  <2>1. CASE i \in DOMAIN f
    BY <1>1, <1>3, <1>7, <1>8, <2>1
  <2>2. CASE i \in Len(f) + 1 .. Len(g)
    BY <1>3, <1>8, <2>2
  <2>3. QED
    BY <1>4, <2>1, <2>2
<1>9. QED
  BY <1>6, <1>7, <1>8

(* Serving those who wait the longest keeps the order of all.              *)
Apart(q) == \A i \in DOMAIN q : ~InFileOf(inFile, q[i]) /\ ~Over(q[i], lost)

LEMMA ServedKeeps ==
  ASSUME FileTypes(inFile), NEW in, FileTypes(in), NEW q \in Seq(Uids), NEW line \in Seq(Uids),
         NEW n, NEW v, NEW strayed, Served(q, n, line),
         AllBrought(in, q, n, v, strayed),
         NEW out, ReceivesKept(out, q, inFile, lost), P!Once(q), Apart(q),
         \A w \in Uids : InFileOf(out, w) => ~InLine(q, w)
  PROVE  ReceivesKept(out, line, in, lost \cup strayed)
<1> DEFINE Was(u) == \E m \in 1 .. n : q[m] = u
<1>1. \A u \in Uids : /\ InFileOf(in, u) <=> InFileOf(inFile, u) \/ (u \notin strayed /\ Was(u))
                      /\ InLine(q, u) <=> InLine(line, u) \/ Was(u)
  BY ServedAre
<1>2. /\ Len(q) \in Nat /\ DOMAIN q = 1 .. Len(q) /\ \A i \in DOMAIN q : q[i] \in Uids
      /\ Len(line) \in Nat /\ DOMAIN line = 1 .. Len(line)
      /\ n \in Nat /\ n <= Len(q) /\ Len(line) = Len(q) - n
      /\ \A i \in 1 .. Len(line) : line[i] = q[n + i]
  <2>1. Len(q) \in Nat /\ DOMAIN q = 1 .. Len(q) /\ Len(line) \in Nat /\ DOMAIN line = 1 .. Len(line)
    BY LenProperties
  <2>2. \A i \in DOMAIN q : q[i] \in Uids
    BY <2>1, ElementOfSeq
  <2>3. QED
    BY <2>1, <2>2 DEF Served
<1>3. \A m \in 1 .. n : m \in DOMAIN q
  BY <1>2
<1>4. ASSUME NEW u \in Uids, u \in strayed
       PROVE  Was(u) /\ ~InFileOf(inFile, u) /\ ~InFileOf(out, u) /\ ~InLine(line, u)
  <2>1. PICK m \in 1 .. n : q[m] = u
    BY <1>4 DEF AllBrought
  <2>2. m \in DOMAIN q /\ InLine(q, u)
    BY <1>3, <2>1 DEF InLine
  <2>3. ~InFileOf(inFile, u) /\ ~InFileOf(out, u)
    BY <2>1, <2>2 DEF Apart
  <2>4. ASSUME NEW i \in DOMAIN line, line[i] = u PROVE FALSE
    <3>1. n + i \in DOMAIN q /\ q[n + i] = u /\ n + i # m
      BY <1>2, <2>4
    <3>2. QED
      BY <2>1, <2>2, <3>1 DEF P!Once
  <2>5. QED
    BY <2>1, <2>3, <2>4 DEF InLine
<1>5. WaitsKept(out, line, in, lost \cup strayed)
  <2>1. WaitsKept(out, q, inFile, lost)
    BY DEF ReceivesKept
  <2> SUFFICES ASSUME NEW u \in Uids
               PROVE  /\ OnItsWayTo(out, line, in, u)
                           => answer[u] = Pending /\ u \notin lost \cup strayed
                      /\ answer[u] = Pending /\ alive[Owner[u]]
                           => OnItsWayTo(out, line, in, u) \/ u \in lost \cup strayed
                      /\ u \in lost \cup strayed => answer[u] = Pending
    BY DEF WaitsKept
  <2>2. CASE u \in strayed
    <3> HIDE DEF Was
    <3>1. OnItsWayTo(out, q, inFile, u) /\ ~OnItsWayTo(out, line, in, u)
      BY <1>1, <1>4, <2>2 DEF OnItsWayTo
    <3>2. QED
      BY <2>1, <2>2, <3>1 DEF WaitsKept
  <2>3. CASE u \notin strayed
    <3> HIDE DEF Was
    <3>1. OnItsWayTo(out, q, inFile, u) <=> OnItsWayTo(out, line, in, u)
      BY <1>1, <2>3 DEF OnItsWayTo
    <3>2. QED
      BY <2>1, <2>3, <3>1 DEF WaitsKept
  <2>4. QED
    BY <2>2, <2>3
<1>6. StagesInOrder(out, line, in, lost \cup strayed)
  <2> SUFFICES ASSUME NEW u \in Uids, NEW w \in Uids, Earlier(u, w)
               PROVE  /\ Answered(w) => Over(u, lost \cup strayed)
                      /\ InFileOf(in, w) => Over(u, lost \cup strayed) \/ InFileOf(in, u)
                      /\ InLine(line, w) => Over(u, lost \cup strayed) \/ InFileOf(in, u) \/ InLine(line, u)
                      /\ InFileOf(out, w) => Over(u, lost \cup strayed) \/ OnItsWayTo(out, line, in, u)
    BY DEF StagesInOrder
  <2>1. /\ Answered(w) => Over(u, lost)
        /\ InFileOf(inFile, w) => Over(u, lost) \/ InFileOf(inFile, u)
        /\ InLine(q, w) => Over(u, lost) \/ InFileOf(inFile, u) \/ InLine(q, u)
        /\ InFileOf(out, w) => Over(u, lost) \/ OnItsWayTo(out, q, inFile, u)
    BY DEF ReceivesKept, StagesInOrder
  <2>2. ASSUME Was(w) PROVE Over(u, lost \cup strayed) \/ InFileOf(in, u)
    <3>1. PICK m \in 1 .. n : q[m] = w
      BY <2>2
    <3>2. CASE InLine(q, u)
      <4>1. PICK l \in DOMAIN q : q[l] = u
        BY <3>2 DEF InLine
      <4>2. l < m
        BY <1>3, <3>1, <4>1 DEF ReceivesKept, LineInOrder
      <4>3. l \in 1 .. n
        BY <1>2, <4>1, <4>2
      <4>4. QED
        BY <1>1, <4>1, <4>3 DEF Over
    <3>3. QED
      BY <1>1, <2>1, <2>2, <3>2 DEF Over
  <2> HIDE DEF Was
  <2>3. QED
    BY <1>1, <2>1, <2>2 DEF OnItsWayTo, Over
<1>7. LineInOrder(line)
  <2>1. \A i \in DOMAIN line : n + i \in DOMAIN q /\ line[i] = q[n + i]
    BY <1>2
  <2>2. \A i, j \in DOMAIN line : n + i < n + j => i < j
    BY <1>2
  <2>3. QED
    BY <2>1, <2>2 DEF ReceivesKept, LineInOrder
<1>8. ASSUME NEW k \in Children
      PROVE  /\ \A i \in DOMAIN in[k] : Owner[in[k][i].uid] = k
             /\ \A i, j \in DOMAIN in[k] : in[k][i].uid = in[k][j].uid => i = j
             /\ \A i, j \in DOMAIN in[k] : Earlier(in[k][i].uid, in[k][j].uid) => i < j
  <2> DEFINE f == inFile[k]
             g == in[k]
  <2>1. /\ f \in Seq(InRecord) /\ Len(f) \in Nat /\ DOMAIN f = 1 .. Len(f)
        /\ g \in Seq(InRecord) /\ Len(g) \in Nat /\ DOMAIN g = 1 .. Len(g)
        /\ \A i \in DOMAIN f : f[i] \in InRecord
    BY LenProperties, ElementOfSeq DEF FileTypes
  <2>2. /\ Brought(f, g, q, n, k, v, strayed)
        /\ \A i \in DOMAIN f : Owner[f[i].uid] = k
        /\ \A i, j \in DOMAIN f : f[i].uid = f[j].uid => i = j
        /\ \A i, j \in DOMAIN f : Earlier(f[i].uid, f[j].uid) => i < j
    BY DEF ReceivesKept, InKept, InInOrder, AllBrought
  <2>3. \A i \in DOMAIN f : f[i].uid \in Uids /\ InFileOf(inFile, f[i].uid)
    <3>1. \A i \in DOMAIN f : f[i].uid \in Uids
      BY <2>1 DEF InRecord
    <3>2. QED
      BY <2>2, <3>1 DEF InFileOf
  <2> HIDE DEF f, g
  <2>4. \A i \in DOMAIN g : i \in DOMAIN f \/ i \in Len(f) + 1 .. Len(g)
    BY <2>1
  <2>5. \A i \in DOMAIN f : g[i] = f[i]
    BY <2>1, <2>2 DEF Brought
  <2>6. \A i \in Len(f) + 1 .. Len(g) : \E m \in 1 .. n : g[i].uid = q[m] /\ Owner[q[m]] = k
    BY <2>2 DEF Brought
  <2>7. \A i, j \in Len(f) + 1 .. Len(g) : \A l, m \in 1 .. n :
          i < j /\ g[i].uid = q[l] /\ g[j].uid = q[m] => l < m
    BY <2>2 DEF Brought
  <2>8. \A i \in DOMAIN g : Owner[g[i].uid] = k
    BY <2>2, <2>4, <2>5, <2>6
  <2>9. \A m \in 1 .. n : \A i \in DOMAIN f : f[i].uid # q[m]
    BY <1>3, <2>3 DEF Apart
  <2>10. ASSUME NEW i \in Len(f) + 1 .. Len(g), NEW j \in Len(f) + 1 .. Len(g),
                NEW l \in 1 .. n, NEW m \in 1 .. n, g[i].uid = q[l], g[j].uid = q[m]
         PROVE  (l = m => i = j) /\ (l < m => i < j)
    <3>1. i < j \/ j < i \/ i = j
      BY <2>1
    <3>2. (i < j => l < m) /\ (j < i => m < l)
      BY <2>7, <2>10
    <3>3. i = j => l = m
      BY <1>3, <2>10 DEF P!Once
    <3>4. l \in Nat /\ m \in Nat
      BY <1>2
    <3>5. QED
      BY <3>1, <3>2, <3>3, <3>4
  <2>11. ASSUME NEW i \in DOMAIN g, NEW j \in DOMAIN g, g[i].uid = g[j].uid PROVE i = j
    <3>1. CASE i \in DOMAIN f /\ j \in DOMAIN f
      BY <2>2, <2>5, <2>11, <3>1
    <3>2. CASE i \in Len(f) + 1 .. Len(g) /\ j \in Len(f) + 1 .. Len(g)
      BY <2>6, <2>10, <2>11, <3>2
    <3>3. QED
      BY <2>4, <2>5, <2>6, <2>9, <2>11, <3>1, <3>2
  <2>12. ASSUME NEW i \in DOMAIN g, NEW j \in DOMAIN g, Earlier(g[i].uid, g[j].uid) PROVE i < j
    <3>1. CASE i \in DOMAIN f /\ j \in DOMAIN f
      BY <2>2, <2>5, <2>12, <3>1
    <3>2. CASE i \in DOMAIN f /\ j \in Len(f) + 1 .. Len(g)
      BY <2>1, <3>2
    <3>3. CASE i \in Len(f) + 1 .. Len(g) /\ j \in DOMAIN f
      <4>1. PICK m \in 1 .. n : g[i].uid = q[m]
        BY <2>6, <3>3
      <4>2. m \in DOMAIN q /\ q[m] \in Uids /\ ~InFileOf(inFile, q[m]) /\ ~Over(q[m], lost)
        BY <1>2, <1>3 DEF Apart
      <4>3. f[j].uid \in Uids /\ InFileOf(inFile, f[j].uid) /\ Earlier(q[m], f[j].uid)
        BY <2>3, <2>5, <2>12, <3>3, <4>1
      <4>4. QED
        BY <4>2, <4>3 DEF ReceivesKept, StagesInOrder
    <3>4. CASE i \in Len(f) + 1 .. Len(g) /\ j \in Len(f) + 1 .. Len(g)
      <4>1. PICK l \in 1 .. n, m \in 1 .. n : g[i].uid = q[l] /\ g[j].uid = q[m]
        BY <2>6, <3>4
      <4>2. l < m
        BY <1>3, <2>12, <4>1 DEF ReceivesKept, LineInOrder
      <4>3. QED
        BY <2>10, <3>4, <4>1, <4>2
    <3>5. QED
      BY <2>4, <3>1, <3>2, <3>3, <3>4
  <2>13. QED
    BY <2>8, <2>11, <2>12 DEF g
<1>9. InKept(in) /\ InInOrder(in)
  BY <1>8 DEF InKept, InInOrder
<1>10. QED
  BY <1>5, <1>6, <1>7, <1>9 DEF ReceivesKept

(* What the served are told comes after all that was told before.          *)
LEMMA ServedAreTold ==
  ASSUME FileTypes(inFile), NEW in, FileTypes(in), NEW q \in Seq(Uids), NEW line \in Seq(Uids),
         NEW n, NEW v \in Null .. MaxOffers, NEW strayed, Served(q, n, line),
         AllBrought(in, q, n, v, strayed),
         NEW out, ReceivesKept(out, q, inFile, lost), Apart(q), ToldKept(inFile), ToldInOrder(inFile),
         Len(got) \in Nat,
         v # Null => n <= 1 /\ v > Len(got) /\ ~(closed /\ buffer = <<>>)
  PROVE  ToldInOrder(in)
<1> DEFINE Was(u) == \E m \in 1 .. n : q[m] = u
<1>1. ASSUME NEW u \in Uids, NEW a
      PROVE  Told(in, u, a) => Told(inFile, u, a) \/ (a = v /\ Was(u))
  BY ServedTold
<1>2. /\ n \in Nat /\ \A m \in 1 .. n : m \in DOMAIN q
  BY LenProperties DEF Served
<1>3. Null = 0 /\ MaxOffers \in Nat /\ v \in Nat
  BY OffersAssumption DEF Null
<1> SUFFICES ASSUME NEW u \in Uids, NEW w \in Uids, NEW a \in Null .. MaxOffers,
                    NEW b \in Null .. MaxOffers, Earlier(u, w), Told(in, u, a), Told(in, w, b)
             PROVE  (a = Null => b = Null) /\ (b # Null => a < b)
  BY DEF ToldInOrder
<1>4. CASE Told(inFile, u, a) /\ Told(inFile, w, b)
  BY <1>4 DEF ToldInOrder
<1>5. CASE Told(inFile, u, a) /\ b = v /\ Was(w)
  <2>1. a <= Len(got) /\ (a = Null => closed /\ buffer = <<>>)
    BY <1>5 DEF ToldKept
  <2>2. QED
    BY <1>3, <1>5, <2>1
<1>6. CASE a = v /\ Was(u) /\ Told(inFile, w, b)
  <2>1. InFileOf(inFile, w) \/ Answered(w)
    BY <1>6 DEF Told, InFileOf, Answered
  <2>2. InFileOf(inFile, u) \/ Over(u, lost)
    BY <2>1 DEF ReceivesKept, StagesInOrder
  <2>3. QED
    BY <1>2, <1>6, <2>2 DEF Apart
<1>7. CASE a = v /\ Was(u) /\ b = v /\ Was(w)
  <2>1. CASE v = Null
    BY <1>7, <2>1
  <2>2. CASE v # Null
    <3>1. PICK l \in 1 .. n, m \in 1 .. n : q[l] = u /\ q[m] = w
      BY <1>7
    <3>2. l < m
      BY <1>2, <3>1 DEF ReceivesKept, LineInOrder
    <3>3. QED
      BY <1>2, <2>2, <3>1, <3>2
  <2>3. QED
    BY <2>1, <2>2
<1> HIDE DEF Was
<1>8. QED
  BY <1>1, <1>4, <1>5, <1>6, <1>7

-----------------------------------------------------------------------------
(* What the channel knows of those in line.                                *)
LEMMA LineFacts ==
  ASSUME ChannelInv
  PROVE  /\ remoteReceivers \in Seq(Uids) /\ P!Once(remoteReceivers)
         /\ \A u \in Uids : status[u] = "pending" <=> InLine(remoteReceivers, u)
         /\ got \in Seq(P!Delivery) /\ \A i \in DOMAIN got : got[i].v = i
         /\ closed \in BOOLEAN /\ (closed => remoteReceivers = <<>> /\ senders = <<>>)
         /\ remoteReceivers # <<>> => buffer = <<>> /\ senders = <<>>
<1>1. P!EveryWaitIsParked /\ P!OrderInv /\ P!Once(remoteReceivers)
  BY P!ParkedMeans, DistinctAssumption, CapacityAssumption, OffersAssumption
     DEF ChannelInv, P!Everyone, P!ParkedInv, P!ParkedOnce
<1>2. P!TypeOK /\ P!NoMissedMatch /\ P!ClosedLeavesNobodyParked /\ P!Fifo
  BY <1>1 DEF P!OrderInv
<1>3. \A u \in Uids : status[u] = "pending" <=> InLine(remoteReceivers, u)
  BY <1>1 DEF P!EveryWaitIsParked, P!ParkedRemotes, InLine
<1>4. remoteReceivers \in Seq(Uids) /\ got \in Seq(P!Delivery) /\ closed \in BOOLEAN
  BY <1>2 DEF P!TypeOK
<1>5. /\ closed => remoteReceivers = <<>> /\ senders = <<>>
      /\ remoteReceivers # <<>> => buffer = <<>> /\ senders = <<>>
  BY <1>2 DEF P!NoMissedMatch, P!ClosedLeavesNobodyParked
<1>6. \A i \in DOMAIN got : got[i].v = i
  BY <1>2 DEF P!Fifo
<1>7. QED
  BY <1>1, <1>3, <1>4, <1>5, <1>6

(* Nobody in line was told anything.                                       *)
LEMMA LineIsApart ==
  ASSUME ProxyInv
  PROVE  Apart(remoteReceivers)
<1>1. \A i \in DOMAIN remoteReceivers :
        remoteReceivers[i] \in Uids /\ status[remoteReceivers[i]] = "pending"
  <2>1. /\ remoteReceivers \in Seq(Uids)
        /\ \A u \in Uids : status[u] = "pending" <=> InLine(remoteReceivers, u)
    BY LineFacts DEF ProxyInv
  <2>2. \A i \in DOMAIN remoteReceivers : remoteReceivers[i] \in Uids
    BY <2>1, ElementOfSeq, LenProperties
  <2>3. QED
    BY <2>1, <2>2 DEF InLine
<1>2. \A i \in DOMAIN remoteReceivers : remoteReceivers[i] \notin lost
  BY <1>1 DEF ProxyInv, ReceivesKept, WaitsKept, OnItsWayTo, InLine
<1>3. QED
  BY <1>1, <1>2 DEF ProxyInv, StatusTells, Apart, Over

(* The parent reads the first record of a file.                            *)
ReadFirst(out, k) == outFile[k] # <<>> /\ out = [outFile EXCEPT ![k] = Tail(@)]

LEMMA FirstRead ==
  ASSUME ProxyInv, NEW k \in Children, NEW out, ReadFirst(out, k), NEW u, u = FirstRecord(k).uid
  PROVE  /\ out \in [Children -> Seq(OutRecord)] /\ OutKept(out) /\ OutInOrder(out)
         /\ FirstRecord(k) \in OutRecord
         /\ \A w \in Uids : InFileOf(outFile, w) <=> InFileOf(out, w) \/ w = u
         /\ u \in Uids => Owner[u] = k /\ ~InFileOf(out, u)
         /\ u \in Uids => \A w \in Uids : Earlier(w, u) => ~InFileOf(outFile, w)
<1> DEFINE f == outFile[k]
           g == Tail(f)
<1>1. /\ outFile \in [Children -> Seq(OutRecord)] /\ OutKept(outFile) /\ OutInOrder(outFile)
  BY DEF ProxyInv, OwnTypes, ReceivesKept
<1>2. /\ f \in Seq(OutRecord) /\ f # <<>> /\ g \in Seq(OutRecord)
      /\ Len(f) \in Nat /\ Len(f) # 0 /\ Len(g) = Len(f) - 1 /\ Head(f) = f[1]
      /\ DOMAIN f = 1 .. Len(f) /\ DOMAIN g = 1 .. Len(g)
      /\ \A i \in 1 .. Len(g) : g[i] = f[i + 1]
      /\ \A i \in DOMAIN f : f[i] \in OutRecord
  <2>1. f \in Seq(OutRecord) /\ f # <<>>
    BY <1>1 DEF ReadFirst
  <2>2. Len(f) # 0
    BY <2>1, EmptySeq
  <2>3. QED
    BY <2>1, <2>2, HeadTailProperties, LenProperties, ElementOfSeq
<1>3. out = [outFile EXCEPT ![k] = g] /\ out[k] = g /\ \A l \in Children : l # k => out[l] = outFile[l]
  BY <1>1 DEF ReadFirst
<1>4. u = f[1].uid /\ FirstRecord(k) = f[1]
  BY <1>2 DEF FirstRecord
<1>5. /\ \A i \in DOMAIN f : f[i].uid \in Uids => Owner[f[i].uid] = k
      /\ \A i, j \in DOMAIN f : f[i].uid \in Uids /\ f[i].uid = f[j].uid => i = j
      /\ \A i, j \in DOMAIN f : f[i].uid \in Uids /\ f[j].uid \in Uids
                                  /\ Earlier(f[i].uid, f[j].uid) => i < j
  BY <1>1 DEF OutKept, OutInOrder
<1> HIDE DEF f, g
<1>6. \A i \in DOMAIN g : i + 1 \in DOMAIN f /\ g[i] = f[i + 1] /\ i + 1 # 1 /\ i \in Nat
  BY <1>2
<1>7. 1 \in DOMAIN f /\ \A i \in DOMAIN f : i = 1 \/ (i - 1 \in DOMAIN g /\ f[i] = g[i - 1])
  BY <1>2
<1>8. out \in [Children -> Seq(OutRecord)]
  BY <1>1, <1>2, <1>3
<1>9. OutKept(out)
  <2>1. /\ \A i \in DOMAIN g : g[i].uid \in Uids => Owner[g[i].uid] = k
        /\ \A i, j \in DOMAIN g : g[i].uid \in Uids /\ g[i].uid = g[j].uid => i = j
    <3>1. \A i, j \in DOMAIN g : i + 1 = j + 1 => i = j
      BY <1>6
    <3>2. QED
      BY <1>5, <1>6, <3>1
  <2>2. QED
    BY <1>1, <1>3, <2>1 DEF OutKept
<1>10. OutInOrder(out)
  <2>1. \A i, j \in DOMAIN g : g[i].uid \in Uids /\ g[j].uid \in Uids
                                 /\ Earlier(g[i].uid, g[j].uid) => i < j
    <3>1. \A i, j \in DOMAIN g : i + 1 < j + 1 => i < j
      BY <1>6
    <3>2. QED
      BY <1>5, <1>6, <3>1
  <2>2. QED
    BY <1>1, <1>3, <2>1 DEF OutInOrder
<1>11. FirstRecord(k) \in OutRecord /\ (u \in Uids => Owner[u] = k)
  BY <1>2, <1>4, <1>5, <1>7
<1>12. \A w \in Uids : InFileOf(outFile, w) /\ Owner[w] = k <=> \E i \in DOMAIN f : f[i].uid = w
  BY <1>5 DEF InFileOf, f
<1>13. \A w \in Uids : InFileOf(out, w) /\ Owner[w] = k <=> \E i \in DOMAIN g : g[i].uid = w
  <2>1. \A i \in DOMAIN g : g[i].uid \in Uids => Owner[g[i].uid] = k
    BY <1>5, <1>6
  <2>2. QED
    BY <1>3, <2>1 DEF InFileOf
<1>14. ASSUME NEW w \in Uids PROVE InFileOf(outFile, w) <=> InFileOf(out, w) \/ w = u
  <2>1. CASE Owner[w] = k
    <3>1. (\E i \in DOMAIN f : f[i].uid = w) <=> (\E i \in DOMAIN g : g[i].uid = w) \/ w = u
      BY <1>4, <1>6, <1>7
    <3>2. QED
      BY <1>12, <1>13, <2>1, <3>1
  <2>2. CASE Owner[w] # k
    <3>1. Owner[w] \in Children
      BY ChildrenAssumption
    <3>2. QED
      BY <1>3, <1>11, <2>2, <3>1 DEF InFileOf
  <2>3. QED
    BY <2>1, <2>2
<1>15. u \in Uids => ~InFileOf(out, u)
  BY <1>4, <1>5, <1>6, <1>7, <1>11, <1>13
<1>16. ASSUME u \in Uids, NEW w \in Uids, Earlier(w, u), InFileOf(outFile, w) PROVE FALSE
  <2>1. Owner[w] = k
    BY <1>11, <1>16 DEF Earlier
  <2>2. PICK i \in DOMAIN f : f[i].uid = w
    BY <1>12, <1>16, <2>1
  <2>3. i < 1
    BY <1>4, <1>5, <1>7, <1>16, <2>2
  <2>4. QED
    BY <1>2, <2>2, <2>3
<1>17. QED
  BY <1>8, <1>9, <1>10, <1>11, <1>14, <1>15, <1>16

(* A SEND record leaves the receives where they are.                       *)
LEMMA SendRead ==
  ASSUME ProxyInv, NEW k \in Children, NEW out, ReadFirst(out, k), FirstRecord(k).uid \notin Uids
  PROVE  ReceivesKept(out, remoteReceivers, inFile, lost)
<1>1. /\ OutKept(out) /\ OutInOrder(out)
      /\ \A w \in Uids : InFileOf(outFile, w) <=> InFileOf(out, w)
  BY FirstRead
<1>2. QED
  BY <1>1 DEF ProxyInv, ReceivesKept, WaitsKept, StagesInOrder, OnItsWayTo

(* A RECV record moves its receive to the end of the line.                 *)
LEMMA ReceiveRead ==
  ASSUME ProxyInv, NEW k \in Children, NEW out, ReadFirst(out, k), NEW u \in Uids,
         u = FirstRecord(k).uid, NEW q, q = Append(remoteReceivers, u)
  PROVE  ReceivesKept(out, q, inFile, lost) /\ P!Once(q) /\ Apart(q) /\ q \in Seq(Uids)
<1> DEFINE l == remoteReceivers
           n == Len(l)
<1>1. /\ OutKept(out) /\ OutInOrder(out)
      /\ \A w \in Uids : InFileOf(outFile, w) <=> InFileOf(out, w) \/ w = u
      /\ ~InFileOf(out, u)
      /\ \A w \in Uids : Earlier(w, u) => ~InFileOf(outFile, w)
  BY FirstRead
<1>2. /\ l \in Seq(Uids) /\ P!Once(l) /\ Apart(l)
      /\ \A w \in Uids : status[w] = "pending" <=> InLine(l, w)
  BY LineFacts, LineIsApart DEF ProxyInv
<1>3. ReceivesKept(outFile, l, inFile, lost) /\ StatusTells(outFile, inFile)
  BY DEF ProxyInv
<1>4. status[u] = "idle" /\ ~InLine(l, u) /\ ~InFileOf(inFile, u) /\ ~Over(u, lost)
  BY <1>1, <1>2, <1>3 DEF StatusTells, ReceivesKept, WaitsKept, OnItsWayTo, Over
<1> HIDE DEF l
<1>5. /\ q \in Seq(Uids) /\ n \in Nat /\ Len(q) = n + 1 /\ DOMAIN l = 1 .. n /\ DOMAIN q = 1 .. n + 1
      /\ \A i \in 1 .. n : q[i] = l[i]
      /\ q[n + 1] = u
      /\ \A i \in DOMAIN l : l[i] \in Uids
  <2>1. q = Append(l, u)
    BY DEF l
  <2>2. q \in Seq(Uids) /\ n \in Nat /\ DOMAIN l = 1 .. n /\ \A i \in DOMAIN l : l[i] \in Uids
    BY <1>2, <2>1, AppendProperties, LenProperties, ElementOfSeq
  <2>3. Len(q) = n + 1 /\ (\A i \in 1 .. n : q[i] = l[i]) /\ q[n + 1] = u
    BY <1>2, <2>1, AppendProperties
  <2>4. QED
    BY <2>2, <2>3, LenProperties
<1> HIDE DEF n
<1>6. /\ \A i \in DOMAIN q : i \in DOMAIN l \/ i = n + 1
      /\ \A i \in DOMAIN l : i < n + 1 /\ i \in DOMAIN q
      /\ n + 1 \in DOMAIN q
  BY <1>5
<1>7. \A w \in Uids : InLine(q, w) <=> InLine(l, w) \/ w = u
  BY <1>5, <1>6 DEF InLine
<1>8. P!Once(q)
  BY <1>2, <1>4, <1>5, <1>6 DEF P!Once, InLine
<1>9. Apart(q)
  BY <1>2, <1>4, <1>5, <1>6 DEF Apart
<1>10. WaitsKept(out, q, inFile, lost)
  BY <1>1, <1>3, <1>7 DEF ReceivesKept, WaitsKept, OnItsWayTo
<1>11. StagesInOrder(out, q, inFile, lost)
  <2> SUFFICES ASSUME NEW x \in Uids, NEW w \in Uids, Earlier(x, w)
               PROVE  /\ Answered(w) => Over(x, lost)
                      /\ InFileOf(inFile, w) => Over(x, lost) \/ InFileOf(inFile, x)
                      /\ InLine(q, w) => Over(x, lost) \/ InFileOf(inFile, x) \/ InLine(q, x)
                      /\ InFileOf(out, w) => Over(x, lost) \/ OnItsWayTo(out, q, inFile, x)
    BY DEF StagesInOrder
  <2>1. /\ Answered(w) => Over(x, lost)
        /\ InFileOf(inFile, w) => Over(x, lost) \/ InFileOf(inFile, x)
        /\ InLine(l, w) => Over(x, lost) \/ InFileOf(inFile, x) \/ InLine(l, x)
        /\ InFileOf(outFile, w) => Over(x, lost) \/ OnItsWayTo(outFile, l, inFile, x)
    BY <1>3 DEF ReceivesKept, StagesInOrder
  <2>2. CASE w = u
    <3>1. ~InFileOf(outFile, x) /\ InFileOf(outFile, u)
      BY <1>1, <2>2
    <3>2. Over(x, lost) \/ InFileOf(inFile, x) \/ InLine(l, x)
      BY <2>1, <2>2, <3>1 DEF OnItsWayTo
    <3>3. QED
      BY <1>1, <1>4, <1>7, <2>2, <3>2 DEF Over
  <2>3. CASE w # u
    BY <1>1, <1>7, <2>1, <2>3 DEF OnItsWayTo
  <2>4. QED
    BY <2>2, <2>3
<1>12. LineInOrder(q)
  <2> SUFFICES ASSUME NEW i \in DOMAIN q, NEW j \in DOMAIN q, Earlier(q[i], q[j]) PROVE i < j
    BY DEF LineInOrder
  <2>1. CASE i \in DOMAIN l /\ j \in DOMAIN l
    BY <1>3, <1>5, <2>1 DEF ReceivesKept, LineInOrder
  <2>2. CASE i \in DOMAIN l /\ j = n + 1
    BY <1>6, <2>2
  <2>3. CASE i = n + 1
    <3>1. Earlier(u, q[j]) /\ q[j] \in Uids
      BY <1>5, <1>6, <2>3
    <3>2. CASE j \in DOMAIN l
      <4>1. InLine(l, q[j])
        BY <1>5, <3>2 DEF InLine
      <4>2. QED
        BY <1>3, <1>4, <3>1, <4>1 DEF ReceivesKept, StagesInOrder
    <3>3. CASE j = n + 1
      <4>1. Earlier(u, u) /\ InFileOf(outFile, u)
        BY <1>1, <1>5, <3>1, <3>3
      <4>2. QED
        BY <1>1, <4>1
    <3>4. QED
      BY <1>6, <3>2, <3>3
  <2>4. QED
    BY <1>6, <2>1, <2>2, <2>3
<1>13. QED
  BY <1>1, <1>3, <1>5, <1>8, <1>9, <1>10, <1>11, <1>12 DEF ReceivesKept

-----------------------------------------------------------------------------
(* What a call does to the receives in q, which are those in line and, if  *)
(* it is that of a RECV record, the new one.                               *)
NullSet(q) == {i \in DOMAIN q : status'[q[i]] = "null" /\ status[q[i]] # "null"}

(* The first gets the next value, or the first n are told null.            *)
Hands(q) ==
  /\ Served(q, 1, remoteReceivers') /\ NullSet(q) = {}
  /\ ValueHanded = <<[uid |-> q[1], v |-> Len(got) + 1]>>
  /\ Len(got') = Len(got) + 1 /\ Len(got) + 1 \in Null .. MaxOffers
  /\ ~(closed /\ buffer = <<>>)
  /\ status'[q[1]] = "value"

SaysNull(q, n) ==
  /\ Served(q, n, remoteReceivers') /\ NullSet(q) = 1 .. n /\ ValueHanded = <<>>
  /\ n > 0 => closed' /\ buffer' = <<>>

Quiet ==
  /\ closed /\ buffer = <<>> => closed' /\ buffer' = <<>>
  /\ Len(got) <= Len(got')

OthersStay(q) == \A w \in Uids : ~InLine(q, w) => status'[w] = status[w]

Serves(q) == (Hands(q) \/ \E n : SaysNull(q, n)) /\ Quiet /\ OthersStay(q)

(* More of what the channel knows.                                         *)
LEMMA QueueFacts ==
  ASSUME ChannelInv
  PROVE  /\ receivers \in Seq(Callers)
         /\ senders \in Seq(P!ParkedSend)
         /\ status \in [Callers \cup Uids -> {"idle", "pending"} \cup P!Settled]
  BY DEF ChannelInv, P!ParkedInv, P!OrderInv, P!TypeOK, P!Everyone

(* Nobody is served where nobody leaves the line and nobody is told null.  *)
LEMMA NobodyServed ==
  ASSUME NEW q \in Seq(Uids), remoteReceivers' = q, \A i \in DOMAIN q : status'[q[i]] # "null",
         Len(got') = Len(got) \/ got'[Len(got')].to \notin Uids
  PROVE  SaysNull(q, 0)
<1>1. Len(q) \in Nat
  BY LenProperties
<1>2. Served(q, 0, remoteReceivers')
  BY <1>1 DEF Served
<1>3. ~(Len(got') > Len(got)) \/ Last(got').to \notin Uids
  <2>1. CASE Len(got') = Len(got)
    <3>1. ~(Len(got) > Len(got))
      OBVIOUS
    <3>2. QED
      BY <2>1, <3>1
  <2>2. QED
    BY <2>1 DEF Last
<1>4. NullSet(q) = 1 .. 0 /\ ~(0 > 0)
  BY DEF NullSet
<1>5. QED
  BY <1>2, <1>3, <1>4 DEF SaysNull, ValueHanded

(* The first of q is served.                                               *)
LEMMA FirstServed ==
  ASSUME NEW q \in Seq(Uids), q # <<>>, remoteReceivers' = Tail(q)
  PROVE  Served(q, 1, remoteReceivers') /\ Head(q) = q[1] /\ 1 \in DOMAIN q /\ q[1] \in Uids
<1>1. Len(q) \in Nat /\ Len(q) # 0 /\ DOMAIN q = 1 .. Len(q)
  BY EmptySeq, LenProperties
<1>2. /\ Len(Tail(q)) = Len(q) - 1 /\ Head(q) = q[1]
      /\ \A i \in 1 .. Len(Tail(q)) : Tail(q)[i] = q[i + 1]
  BY HeadTailProperties
<1>3. \A i \in 1 .. Len(q) - 1 : i + 1 = 1 + i
  BY <1>1
<1>4. Served(q, 1, remoteReceivers')
  BY <1>1, <1>2, <1>3 DEF Served
<1>5. 1 \in DOMAIN q
  BY <1>1
<1>6. QED
  BY <1>2, <1>4, <1>5, ElementOfSeq, <1>1

LEMMA Appended ==
  ASSUME NEW S, NEW s \in Seq(S), NEW e
  PROVE  /\ Len(s) \in Nat /\ Len(Append(s, e)) = Len(s) + 1 /\ Append(s, e)[Len(s) + 1] = e
         /\ DOMAIN Append(s, e) = 1 .. Len(s) + 1 /\ DOMAIN s = 1 .. Len(s)
         /\ \A i \in 1 .. Len(s) : Append(s, e)[i] = s[i]
<1> DEFINE T == S \cup {e}
<1>1. s \in Seq(T) /\ e \in T /\ Len(s) \in Nat /\ DOMAIN s = 1 .. Len(s)
  <2>1. /\ Len(s) \in Nat /\ DOMAIN s = 1 .. Len(s) /\ \A i \in 1 .. Len(s) : s[i] \in S
    BY LenProperties, ElementOfSeq
  <2>2. s \in [1 .. Len(s) -> T]
    BY LenProperties
  <2>3. QED
    BY <2>1, <2>2, SeqDef
<1> HIDE DEF T
<1>2. Append(s, e) \in Seq(T) /\ Len(Append(s, e)) = Len(s) + 1
      /\ Append(s, e)[Len(s) + 1] = e /\ \A i \in 1 .. Len(s) : Append(s, e)[i] = s[i]
  BY <1>1, AppendProperties
<1>3. QED
  BY <1>1, <1>2, LenProperties

LEMMA FirstHanded ==
  ASSUME ChannelInv, ChannelInv', NEW q \in Seq(Uids), q # <<>>, remoteReceivers' = Tail(q),
         NEW v, got' = Append(got, [v |-> v, to |-> Head(q)]), NullSet(q) = {},
         ~(closed /\ buffer = <<>>), status'[Head(q)] = "value"
  PROVE  Hands(q)
<1>1. Served(q, 1, remoteReceivers') /\ Head(q) = q[1] /\ q[1] \in Uids
  BY FirstServed
<1>2. got \in Seq(P!Delivery) /\ got' \in Seq(P!Delivery) /\ \A i \in DOMAIN got' : got'[i].v = i
  <2>1. got \in Seq(P!Delivery)
    BY LineFacts
  <2>2. P!TypeOK' /\ P!Fifo'
    BY DEF ChannelInv, P!ParkedInv, P!OrderInv
  <2>3. QED
    BY <2>1, <2>2 DEF P!TypeOK, P!Fifo, P!Delivery, P!Values, P!Everyone
<1>3. /\ Len(got) \in Nat /\ Len(got') = Len(got) + 1 /\ Len(got) + 1 \in DOMAIN got'
      /\ got'[Len(got) + 1] = [v |-> v, to |-> Head(q)]
  BY <1>2, Appended
<1>4. Last(got') = [v |-> Len(got) + 1, to |-> q[1]] /\ Len(got) + 1 \in Null .. MaxOffers
  <2>1. got'[Len(got) + 1].v = Len(got) + 1
    BY <1>2, <1>3
  <2>2. got'[Len(got) + 1] \in P!Delivery
    BY <1>2, <1>3, ElementOfSeq, LenProperties
  <2>3. QED
    BY <1>1, <1>3, <2>1, <2>2 DEF Last, P!Delivery, P!Values, Null
<1>5. Len(got') > Len(got)
  BY <1>3
<1>6. ValueHanded = <<[uid |-> q[1], v |-> Len(got) + 1]>>
  BY <1>1, <1>4, <1>5 DEF ValueHanded
<1>7. QED
  BY <1>1, <1>3, <1>4, <1>6 DEF Hands

LEMMA SendServes ==
  ASSUME ChannelInv, ChannelInv', NEW c \in Callers \cup {Inbound}, Parent!Send(c)
  PROVE  Serves(remoteReceivers)
<1> DEFINE q == remoteReceivers
<1>1. /\ q \in Seq(Uids) /\ \A w \in Uids : status[w] = "pending" <=> InLine(q, w)
      /\ got \in Seq(P!Delivery) /\ receivers \in Seq(Callers)
      /\ c \notin Uids /\ \A i \in DOMAIN q : q[i] \in Uids /\ status[q[i]] = "pending"
  <2>1. /\ q \in Seq(Uids) /\ \A w \in Uids : status[w] = "pending" <=> InLine(q, w)
        /\ got \in Seq(P!Delivery) /\ receivers \in Seq(Callers)
    BY LineFacts, QueueFacts
  <2>2. \A i \in DOMAIN q : q[i] \in Uids
    BY <2>1, ElementOfSeq, LenProperties
  <2>3. QED
    BY <2>1, <2>2, DistinctAssumption DEF InLine
<1> HIDE DEF q
<1>2. Len(got) \in Nat
  BY <1>1, LenProperties
<1>3. CASE Parent!SendClosed(c)
  <2>1. /\ remoteReceivers' = q /\ got' = got /\ closed' = closed /\ buffer' = buffer
        /\ status' = Parent!Settle(status, {}, {}, {}, {c})
    BY <1>3 DEF Parent!SendClosed, q
  <2>2. \A w \in Uids : status'[w] = status[w]
    BY <1>1, <2>1 DEF Parent!Settle, Parent!Everyone
  <2>3. \A i \in DOMAIN q : status'[q[i]] # "null"
    BY <1>1, <2>2
  <2>4. SaysNull(q, 0)
    BY <1>1, <2>1, <2>3, NobodyServed
  <2>5. Quiet
    <3>1. closed /\ buffer = <<>> => closed' /\ buffer' = <<>>
      BY <2>1
    <3>2. Len(got) <= Len(got')
      BY <1>2, <2>1
    <3>3. QED
      BY <3>1, <3>2 DEF Quiet
  <2>6. QED
    BY <2>2, <2>4, <2>5 DEF Serves, OthersStay, q
<1>4. CASE Parent!SendToReceiver(c)
  <2>1. /\ remoteReceivers' = q /\ closed' = closed /\ buffer' = buffer /\ receivers # <<>>
        /\ got' = Append(got, [v |-> offered + 1, to |-> Head(receivers)])
        /\ status' = Parent!Settle(status, {c}, {Head(receivers)}, {}, {})
    BY <1>4 DEF Parent!SendToReceiver, Parent!HandOver, q
  <2>2. Head(receivers) \in Callers /\ Head(receivers) \notin Uids
    BY <1>1, <2>1, HeadTailProperties, DistinctAssumption
  <2>3. \A w \in Uids : status'[w] = status[w]
    BY <1>1, <2>1, <2>2 DEF Parent!Settle, Parent!Everyone
  <2>4. \A i \in DOMAIN q : status'[q[i]] # "null"
    BY <1>1, <2>3
  <2>5. Len(got') = Len(got) + 1 /\ got'[Len(got) + 1].to = Head(receivers)
    BY <1>1, <2>1, Appended
  <2>6. SaysNull(q, 0)
    BY <1>1, <2>1, <2>2, <2>4, <2>5, NobodyServed
  <2>7. Quiet
    <3>1. closed /\ buffer = <<>> => closed' /\ buffer' = <<>>
      BY <2>1
    <3>2. Len(got) <= Len(got')
      BY <1>2, <2>5
    <3>3. QED
      BY <3>1, <3>2 DEF Quiet
  <2>8. QED
    BY <2>3, <2>6, <2>7 DEF Serves, OthersStay, q
<1>5. CASE Parent!SendToRemote(c)
  <2>1. /\ remoteReceivers' = Tail(q) /\ closed' = closed /\ buffer' = buffer /\ q # <<>> /\ ~closed
        /\ got' = Append(got, [v |-> offered + 1, to |-> Head(q)])
        /\ status' = Parent!Settle(status, {c}, {Head(q)}, {}, {})
    BY <1>5 DEF Parent!SendToRemote, Parent!HandOver, Parent!Accepting, q
  <2>2. Head(q) = q[1] /\ 1 \in DOMAIN q /\ Head(q) \in Uids
    BY <1>1, <2>1, FirstServed
  <2>3. \A w \in Uids : status'[w] = IF w = Head(q) THEN "value" ELSE status[w]
    BY <1>1, <2>1, <2>2 DEF Parent!Settle, Parent!Everyone
  <2>4. NullSet(q) = {} /\ status'[Head(q)] = "value"
    BY <1>1, <2>2, <2>3 DEF NullSet
  <2>5. Hands(q)
    BY <1>1, <2>1, <2>4, FirstHanded
  <2>6. OthersStay(q)
    BY <2>2, <2>3 DEF OthersStay, InLine
  <2>7. QED
    BY <1>2, <2>1, <2>5, <2>6 DEF Serves, Quiet, Hands, q
<1>6. CASE Parent!SendBuffered(c) \/ Parent!SendParked(c)
  <2>1. /\ remoteReceivers' = q /\ closed' = closed /\ ~closed /\ got' = got
        /\ \/ status' = Parent!Settle(status, {c}, {}, {}, {})
           \/ status' = Parent!Park(c)
    BY <1>6 DEF Parent!SendBuffered, Parent!SendParked, Parent!Accepting, q
  <2>2. \A w \in Uids : status'[w] = status[w]
    BY <1>1, <2>1 DEF Parent!Settle, Parent!Everyone, Parent!Park
  <2>3. \A i \in DOMAIN q : status'[q[i]] # "null"
    BY <1>1, <2>2
  <2>4. SaysNull(q, 0)
    BY <1>1, <2>1, <2>3, NobodyServed
  <2>5. QED
    BY <1>2, <2>1, <2>2, <2>4 DEF Serves, Quiet, OthersStay, q
<1>7. QED
  BY <1>3, <1>4, <1>5, <1>6 DEF Parent!Send

LEMMA CloseServes ==
  ASSUME ChannelInv, ChannelInv', Parent!Close
  PROVE  Serves(remoteReceivers)
<1> DEFINE q == remoteReceivers
           n == Len(q)
<1>1. /\ q \in Seq(Uids) /\ n \in Nat /\ DOMAIN q = 1 .. n
      /\ \A i \in DOMAIN q : q[i] \in Uids /\ status[q[i]] = "pending"
      /\ (q # <<>> => buffer = <<>>) /\ got \in Seq(P!Delivery)
      /\ receivers \in Seq(Callers) /\ senders \in Seq(P!ParkedSend)
  <2>1. /\ q \in Seq(Uids) /\ \A w \in Uids : status[w] = "pending" <=> InLine(q, w)
        /\ (q # <<>> => buffer = <<>>) /\ got \in Seq(P!Delivery)
        /\ receivers \in Seq(Callers) /\ senders \in Seq(P!ParkedSend)
    BY LineFacts, QueueFacts
  <2>2. n \in Nat /\ DOMAIN q = 1 .. n /\ \A i \in DOMAIN q : q[i] \in Uids
    BY <2>1, ElementOfSeq, LenProperties
  <2>3. QED
    BY <2>1, <2>2 DEF InLine
<1>2. /\ remoteReceivers' = <<>> /\ got' = got /\ closed' = TRUE /\ buffer' = buffer
      /\ status' = Parent!Settle(status, {}, {}, Parent!NulledRemotes \cup
                       (IF buffer = <<>> THEN Parent!NulledReceives ELSE {}), Parent!FailedSends)
  BY DEF Parent!Close, Parent!RemotesAfterClose
<1>3. Parent!NulledRemotes = {q[i] : i \in DOMAIN q}
  BY DEF Parent!NulledRemotes
<1>4. Parent!NulledReceives \cap Uids = {} /\ Parent!FailedSends \cap Uids = {}
  <2>1. \A i \in DOMAIN receivers : receivers[i] \in Callers
    BY <1>1, ElementOfSeq, LenProperties
  <2>2. \A i \in DOMAIN senders : senders[i].f \in Callers \cup {Inbound}
    <3>1. \A i \in DOMAIN senders : senders[i] \in P!ParkedSend
      BY <1>1, ElementOfSeq, LenProperties
    <3>2. QED
      BY <3>1 DEF P!ParkedSend
  <2>3. QED
    BY <2>1, <2>2, DistinctAssumption DEF Parent!NulledReceives, Parent!FailedSends
<1> HIDE DEF q, n
<1>5. ASSUME NEW w \in Uids
      PROVE  /\ (\E i \in DOMAIN q : q[i] = w) => status'[w] = "null"
             /\ ~(\E i \in DOMAIN q : q[i] = w) => status'[w] = status[w]
  BY <1>2, <1>3, <1>4 DEF Parent!Settle, Parent!Everyone
<1>6. NullSet(q) = 1 .. n
  <2>1. \A i \in DOMAIN q : status'[q[i]] = "null" /\ status[q[i]] # "null"
    BY <1>1, <1>5
  <2>2. QED
    BY <1>1, <2>1 DEF NullSet
<1>7. Served(q, n, remoteReceivers')
  <2>1. Len(remoteReceivers') = 0
    BY <1>2
  <2>2. QED
    BY <1>1, <2>1 DEF Served, n
<1>8. ValueHanded = <<>>
  <2>1. Len(got) \in Nat
    BY <1>1, LenProperties
  <2>2. ~(Len(got') > Len(got))
    BY <1>2, <2>1
  <2>3. QED
    BY <2>2 DEF ValueHanded
<1>9. n > 0 => closed' /\ buffer' = <<>>
  <2>1. q = <<>> => n = 0
    BY DEF n
  <2>2. QED
    BY <1>1, <1>2, <2>1
<1>10. Quiet
  <2>1. Len(got) \in Nat
    BY <1>1, LenProperties
  <2>2. QED
    BY <1>2, <2>1 DEF Quiet
<1>11. OthersStay(q)
  BY <1>5 DEF OthersStay, InLine
<1>12. SaysNull(q, n)
  BY <1>6, <1>7, <1>8, <1>9 DEF SaysNull
<1>13. QED
  BY <1>10, <1>11, <1>12 DEF Serves, q

LEMMA UnparkedAreCallers ==
  ASSUME ChannelInv
  PROVE  Parent!UnparkedFuture \cap Uids = {}
<1>1. senders \in Seq(P!ParkedSend)
  BY QueueFacts
<1>2. senders # <<>> => Head(senders) \in P!ParkedSend
  BY <1>1, HeadTailProperties
<1>3. senders # <<>> => Head(senders).f \in Callers \cup {Inbound}
  BY <1>2 DEF P!ParkedSend
<1>4. QED
  BY <1>3, DistinctAssumption DEF Parent!UnparkedFuture

LEMMA ForwardServes ==
  ASSUME ChannelInv, ChannelInv', NEW u \in Uids, Parent!ForwardReceive(u),
         NEW q, q = Append(remoteReceivers, u)
  PROVE  Serves(q)
<1> DEFINE l == remoteReceivers
<1>1. /\ l \in Seq(Uids) /\ got \in Seq(P!Delivery) /\ closed \in BOOLEAN
      /\ \A w \in Uids : status[w] = "pending" <=> InLine(l, w)
      /\ (closed => l = <<>> /\ senders = <<>>)
  BY LineFacts
<1>2. /\ q \in Seq(Uids) /\ q # <<>> /\ Len(l) \in Nat /\ Len(q) = Len(l) + 1
      /\ DOMAIN q = 1 .. Len(l) + 1 /\ DOMAIN l = 1 .. Len(l)
      /\ (\A i \in 1 .. Len(l) : q[i] = l[i]) /\ q[Len(l) + 1] = u
  BY <1>1, Appended, AppendProperties
<1>3. /\ status[u] = "idle" /\ closed' = closed
      /\ \/ Parent!ForwardValue(u, q) \/ Parent!ForwardNull(u, q) \/ Parent!ForwardParked(u, q)
  BY DEF Parent!ForwardReceive
<1> HIDE DEF l
<1>4. \A w \in Uids : InLine(q, w) <=> InLine(l, w) \/ w = u
  BY <1>2 DEF InLine
<1>5. \A i \in DOMAIN q : q[i] \in Uids /\ status[q[i]] \in {"idle", "pending"}
  <2>1. \A i \in DOMAIN q : q[i] \in Uids
    BY <1>2, ElementOfSeq
  <2>2. \A i \in DOMAIN q : InLine(l, q[i]) \/ q[i] = u
    BY <1>4, <2>1 DEF InLine
  <2>3. QED
    BY <1>1, <1>3, <2>1, <2>2
<1>6. Len(got) \in Nat
  BY <1>1, LenProperties
<1>7. Head(q) = q[1] /\ 1 \in DOMAIN q /\ Head(q) \in Uids
  <2>1. Head(q) = q[1] /\ 1 \in DOMAIN q
    BY <1>2, HeadTailProperties
  <2>2. QED
    BY <1>5, <2>1
<1>8. CASE Parent!ForwardValue(u, q)
  <2>1. /\ remoteReceivers' = Tail(q) /\ (buffer # <<>> \/ senders # <<>>)
        /\ status' = Parent!Settle(Parent!Park(u), Parent!UnparkedFuture, {Head(q)}, {}, {})
    BY <1>8 DEF Parent!ForwardValue, Parent!Available
  <2>2. PICK v : got' = Append(got, [v |-> v, to |-> Head(q)])
    BY <1>8 DEF Parent!ForwardValue, Parent!HandOver
  <2>3. \A w \in Uids : status'[w] = IF w = Head(q) THEN "value"
                                     ELSE IF w = u THEN "pending" ELSE status[w]
    BY <2>1, UnparkedAreCallers DEF Parent!Settle, Parent!Park, Parent!Everyone
  <2>4. NullSet(q) = {} /\ status'[Head(q)] = "value"
    BY <1>5, <1>7, <2>3 DEF NullSet
  <2>5. ~(closed /\ buffer = <<>>)
    BY <1>1, <2>1
  <2>6. Hands(q)
    BY <1>2, <2>1, <2>2, <2>4, <2>5, FirstHanded
  <2>7. Quiet
    BY <1>6, <2>5, <2>6 DEF Hands, Quiet
  <2>8. OthersStay(q)
    BY <1>4, <1>7, <2>3 DEF OthersStay, InLine
  <2>9. QED
    BY <2>6, <2>7, <2>8 DEF Serves
<1>9. CASE Parent!ForwardNull(u, q)
  <2>1. /\ remoteReceivers' = Tail(q) /\ buffer = <<>> /\ closed /\ buffer' = buffer /\ got' = got
        /\ status' = Parent!Settle(Parent!Park(u), {}, {}, {Head(q)}, {})
    BY <1>9 DEF Parent!ForwardNull, Parent!Available
  <2>2. Len(l) = 0
    BY <1>1, <2>1 DEF l
  <2>3. Head(q) = u /\ DOMAIN q = 1 .. 1
    BY <1>2, <1>7, <2>2
  <2>4. \A w \in Uids : status'[w] = IF w = u THEN "null" ELSE status[w]
    BY <2>1, <2>3 DEF Parent!Settle, Parent!Park, Parent!Everyone
  <2>5. NullSet(q) = 1 .. 1
    BY <1>3, <1>7, <2>3, <2>4 DEF NullSet
  <2>6. Served(q, 1, remoteReceivers')
    BY <1>2, <2>1, FirstServed
  <2>7. ValueHanded = <<>>
    <3>1. ~(Len(got') > Len(got))
      BY <1>6, <2>1
    <3>2. QED
      BY <3>1 DEF ValueHanded
  <2>8. closed' /\ buffer' = <<>>
    BY <1>3, <2>1
  <2>9. SaysNull(q, 1)
    BY <2>5, <2>6, <2>7, <2>8 DEF SaysNull
  <2>10. Quiet
    <3>1. Len(got) <= Len(got')
      BY <1>6, <2>1
    <3>2. QED
      BY <2>8, <3>1 DEF Quiet
  <2>11. OthersStay(q)
    BY <1>4, <2>4 DEF OthersStay
  <2>12. QED
    BY <2>9, <2>10, <2>11 DEF Serves
<1>10. CASE Parent!ForwardParked(u, q)
  <2>1. /\ remoteReceivers' = q /\ buffer' = buffer /\ got' = got /\ status' = Parent!Park(u) /\ ~closed
    BY <1>10 DEF Parent!ForwardParked
  <2>2. \A w \in Uids : status'[w] = IF w = u THEN "pending" ELSE status[w]
    BY <2>1 DEF Parent!Park, Parent!Everyone
  <2>3. \A i \in DOMAIN q : status'[q[i]] # "null"
    BY <1>5, <2>2
  <2>4. SaysNull(q, 0)
    BY <1>2, <2>1, <2>3, NobodyServed
  <2>5. Quiet
    BY <1>6, <2>1 DEF Quiet
  <2>6. OthersStay(q)
    BY <1>4, <2>2 DEF OthersStay
  <2>7. QED
    BY <2>4, <2>5, <2>6 DEF Serves
<1>11. QED
  BY <1>3, <1>8, <1>9, <1>10

(* What the parent's own receivers do is nothing to those of the children. *)
LEMMA LocalReceiveIsApart ==
  ASSUME ChannelInv, NEW c \in Callers,
         Parent!Receive(c) \/ Parent!Resume(c) \/ Parent!Abandon(c)
  PROVE  /\ Quiet /\ remoteReceivers' = remoteReceivers
         /\ \A w \in Uids : status'[w] = status[w]
<1>1. /\ got \in Seq(P!Delivery) /\ closed \in BOOLEAN /\ (closed => senders = <<>>)
      /\ status \in [Callers \cup Uids -> {"idle", "pending"} \cup P!Settled]
  BY LineFacts, QueueFacts
<1>2. /\ remoteReceivers' = remoteReceivers /\ closed' = closed
      /\ \/ ~(buffer = <<>> /\ senders = <<>>)
         \/ buffer' = buffer
  BY DEF Parent!Receive, Parent!ReceiveValue, Parent!ReceiveNull, Parent!ReceiveParked,
     Parent!Resume, Parent!Abandon, Parent!Available
<1>3. got' = got \/ \E d : got' = Append(got, d)
  BY DEF Parent!Receive, Parent!ReceiveValue, Parent!ReceiveNull, Parent!ReceiveParked,
     Parent!Resume, Parent!Abandon, Parent!HandOver
<1>4. Len(got) <= Len(got')
  <2>1. Len(got) \in Nat
    BY <1>1, LenProperties
  <2>2. CASE got' = got
    BY <2>1, <2>2
  <2>3. ASSUME NEW d, got' = Append(got, d) PROVE Len(got) <= Len(got')
    <3>1. Len(Append(got, d)) = Len(got) + 1
      BY <1>1, Appended
    <3>2. QED
      BY <2>1, <2>3, <3>1
  <2>4. QED
    BY <1>3, <2>2, <2>3
<1>5. Quiet
  BY <1>1, <1>2, <1>4 DEF Quiet
<1>6. ASSUME NEW w \in Uids PROVE status'[w] = status[w]
  <2>1. CASE Parent!Receive(c)
    <3>1. \/ status' = Parent!Settle(status, Parent!UnparkedFuture, {c}, {}, {})
          \/ status' = Parent!Settle(status, {}, {}, {c}, {})
          \/ status' = Parent!Park(c)
      BY <2>1 DEF Parent!Receive, Parent!ReceiveValue, Parent!ReceiveNull, Parent!ReceiveParked
    <3>2. QED
      BY <3>1, UnparkedAreCallers, DistinctAssumption DEF Parent!Settle, Parent!Park, Parent!Everyone
  <2>2. CASE Parent!Resume(c) \/ Parent!Abandon(c)
    BY <1>1, <2>2, DistinctAssumption DEF Parent!Resume, Parent!Abandon
  <2>3. QED
    BY <2>1, <2>2
<1>7. QED
  BY <1>2, <1>5, <1>6

-----------------------------------------------------------------------------
(* What the children are told: the records rs have the first n of q, in    *)
(* their order, and v with each,                                           *)
Records(rs, q, n, v) ==
  /\ \A i \in DOMAIN rs : \E m \in 1 .. n : rs[i].uid = q[m] /\ rs[i].v = v
  /\ \A m \in 1 .. n : \E i \in DOMAIN rs : rs[i].uid = q[m]
  /\ \A i, j \in DOMAIN rs : \A l, m \in 1 .. n :
       i < j /\ rs[i].uid = q[l] /\ rs[j].uid = q[m] => l < m

(* and each child gets its own of those that are written.                  *)
LEMMA RecordsAreBrought ==
  ASSUME NEW f \in Seq(InRecord), NEW rs \in Seq(InRecord), NEW q, NEW n, NEW v, Records(rs, q, n, v),
         NEW written, written \subseteq DOMAIN rs,
         NEW strayed, strayed = {rs[i].uid : i \in DOMAIN rs \ written},
         NEW k, NEW I, I \subseteq written, \A i \in written : i \in I <=> Owner[rs[i].uid] = k,
         NEW g, g = f \o Select(rs, I)
  PROVE  g \in Seq(InRecord) /\ Brought(f, g, q, n, k, v, strayed)
<1>1. PICK t, at : t = Select(rs, I) /\ at = InOrder(I)
  OBVIOUS
<1>2. /\ t \in Seq(InRecord) /\ g = f \o t
      /\ \A i \in DOMAIN t : at[i] \in I /\ t[i] = rs[at[i]]
      /\ \A i, j \in DOMAIN t : i < j => at[i] < at[j]
      /\ \A i \in I : \E j \in DOMAIN t : at[j] = i
  <2>1. /\ Select(rs, I) \in Seq(InRecord)
        /\ \A i \in DOMAIN Select(rs, I) : InOrder(I)[i] \in I /\ Select(rs, I)[i] = rs[InOrder(I)[i]]
        /\ \A i, j \in DOMAIN Select(rs, I) : i < j => InOrder(I)[i] < InOrder(I)[j]
        /\ \A i \in I : \E j \in DOMAIN Select(rs, I) : InOrder(I)[j] = i
    BY Selected
  <2>2. QED
    BY <1>1, <2>1
<1>3. \A i \in DOMAIN t : at[i] \in DOMAIN rs /\ at[i] \in written /\ Owner[rs[at[i]].uid] = k
  BY <1>2
<1>4. \A i \in written : rs[i].uid \notin strayed
  <2> SUFFICES ASSUME NEW i \in written, NEW j \in DOMAIN rs \ written, rs[i].uid = rs[j].uid
               PROVE  FALSE
    OBVIOUS
  <2>1. PICK m \in 1 .. n : rs[i].uid = q[m]
    BY DEF Records
  <2>2. i < j \/ j < i
    BY LenProperties
  <2>3. m < m
    BY <2>1, <2>2 DEF Records
  <2>4. QED
    BY <2>3
<1>5. Len(f) \in Nat /\ Len(t) \in Nat /\ DOMAIN t = 1 .. Len(t)
  BY <1>2, LenProperties
<1>6. /\ g \in Seq(InRecord) /\ Len(g) = Len(f) + Len(t)
      /\ \A i \in 1 .. Len(f) + Len(t) : g[i] = IF i <= Len(f) THEN f[i] ELSE t[i - Len(f)]
  BY <1>2, ConcatProperties
<1>7. /\ Len(f) <= Len(g) /\ \A i \in 1 .. Len(f) : g[i] = f[i]
  BY <1>5, <1>6
<1>8. \A i \in Len(f) + 1 .. Len(g) : i - Len(f) \in DOMAIN t /\ g[i] = t[i - Len(f)]
  BY <1>5, <1>6
<1>9. ASSUME NEW j \in DOMAIN t
      PROVE  j + Len(f) \in Len(f) + 1 .. Len(g) /\ g[j + Len(f)] = t[j]
  <2>1. j + Len(f) \in Len(f) + 1 .. Len(g) /\ (j + Len(f)) - Len(f) = j
    BY <1>5, <1>6
  <2>2. g[j + Len(f)] = t[(j + Len(f)) - Len(f)]
    BY <1>8, <2>1
  <2>3. QED
    BY <2>1, <2>2
<1>10. ASSUME NEW i \in Len(f) + 1 .. Len(g)
      PROVE  \E m \in 1 .. n : g[i].uid = q[m] /\ Owner[q[m]] = k /\ g[i].v = v /\ q[m] \notin strayed
  <2>1. PICK j \in DOMAIN t : g[i] = t[j]
    BY <1>8
  <2>2. PICK l \in DOMAIN rs : g[i] = rs[l] /\ Owner[rs[l].uid] = k /\ rs[l].uid \notin strayed
    BY <1>2, <1>3, <1>4, <2>1
  <2>3. QED
    BY <2>2 DEF Records
<1>11. ASSUME NEW m \in 1 .. n, Owner[q[m]] = k, q[m] \notin strayed
       PROVE  \E i \in Len(f) + 1 .. Len(g) : g[i].uid = q[m]
  <2>1. PICK j \in DOMAIN rs : rs[j].uid = q[m]
    BY DEF Records
  <2>2. j \in written
    BY <1>11, <2>1
  <2>3. PICK l \in DOMAIN t : at[l] = j
    BY <1>2, <1>11, <2>1, <2>2
  <2>4. t[l].uid = q[m]
    BY <1>2, <2>1, <2>3
  <2>5. QED
    BY <1>9, <2>4
<1>12. ASSUME NEW i \in Len(f) + 1 .. Len(g), NEW j \in Len(f) + 1 .. Len(g),
              NEW l \in 1 .. n, NEW m \in 1 .. n, i < j, g[i].uid = q[l], g[j].uid = q[m]
       PROVE  l < m
  <2>1. PICK x \in DOMAIN t, y \in DOMAIN t : x < y /\ g[i] = t[x] /\ g[j] = t[y]
    <3>1. i - Len(f) < j - Len(f)
      BY <1>5, <1>6, <1>12
    <3>2. QED
      BY <1>8, <3>1
  <2>2. /\ at[x] \in DOMAIN rs /\ at[y] \in DOMAIN rs /\ at[x] < at[y]
        /\ rs[at[x]].uid = q[l] /\ rs[at[y]].uid = q[m]
    BY <1>2, <1>3, <1>12, <2>1
  <2>3. QED
    BY <2>2 DEF Records
<1>13. QED
  BY <1>6, <1>7, <1>10, <1>11, <1>12 DEF Brought

(* The records of those who are told null.                                 *)
LEMMA NullRecords ==
  ASSUME NEW q \in Seq(Uids), P!Once(q), NEW n, 1 .. n \subseteq DOMAIN q,
         NEW t, t = Select([i \in DOMAIN q |-> [uid |-> q[i], v |-> Null]], 1 .. n)
  PROVE  t \in Seq(InRecord) /\ Records(t, q, n, Null)
<1> DEFINE s == [i \in DOMAIN q |-> [uid |-> q[i], v |-> Null]]
<1>1. s \in Seq(InRecord) /\ DOMAIN s = DOMAIN q
  <2>1. Len(q) \in Nat /\ DOMAIN q = 1 .. Len(q) /\ \A i \in DOMAIN q : q[i] \in Uids
    BY LenProperties, ElementOfSeq
  <2>2. Null \in Null .. MaxOffers
    BY OffersAssumption DEF Null
  <2>3. s \in [1 .. Len(q) -> InRecord]
    BY <2>1, <2>2 DEF InRecord
  <2>4. QED
    BY <2>1, <2>3, SeqDef
<1>2. \A i \in 1 .. n : i \in DOMAIN q /\ s[i].uid = q[i] /\ s[i].v = Null
  OBVIOUS
<1> HIDE DEF s
<1>3. PICK I, at : I = 1 .. n /\ at = InOrder(I)
  OBVIOUS
<1>4. t = Select(s, I) /\ I \subseteq DOMAIN s
  BY <1>1, <1>3 DEF s
<1>5. /\ t \in Seq(InRecord)
      /\ \A i \in DOMAIN t : at[i] \in 1 .. n /\ t[i].uid = q[at[i]] /\ t[i].v = Null
      /\ \A i, j \in DOMAIN t : i < j => at[i] < at[j]
      /\ \A m \in 1 .. n : \E i \in DOMAIN t : at[i] = m
  <2>1. /\ t \in Seq(InRecord)
        /\ \A i \in DOMAIN t : at[i] \in I /\ t[i] = s[at[i]]
        /\ \A i, j \in DOMAIN t : i < j => at[i] < at[j]
        /\ \A i \in I : \E j \in DOMAIN t : at[j] = i
    <3>1. /\ Select(s, I) \in Seq(InRecord)
          /\ \A i \in DOMAIN Select(s, I) : InOrder(I)[i] \in I /\ Select(s, I)[i] = s[InOrder(I)[i]]
          /\ \A i, j \in DOMAIN Select(s, I) : i < j => InOrder(I)[i] < InOrder(I)[j]
          /\ \A i \in I : \E j \in DOMAIN Select(s, I) : InOrder(I)[j] = i
      BY <1>1, <1>4, Selected
    <3>2. QED
      BY <1>3, <1>4, <3>1
  <2>2. ASSUME NEW i \in DOMAIN t
        PROVE  at[i] \in 1 .. n /\ t[i].uid = q[at[i]] /\ t[i].v = Null
    <3>1. at[i] \in 1 .. n /\ t[i] = s[at[i]]
      BY <1>3, <2>1, <2>2
    <3>2. QED
      BY <1>2, <3>1
  <2>3. \A m \in 1 .. n : \E i \in DOMAIN t : at[i] = m
    BY <1>3, <2>1
  <2>4. QED
    BY <2>1, <2>2, <2>3
<1>6. ASSUME NEW i \in DOMAIN t, NEW j \in DOMAIN t, NEW l \in 1 .. n, NEW m \in 1 .. n,
             i < j, t[i].uid = q[l], t[j].uid = q[m]
      PROVE  l < m
  <2>1. q[at[i]] = q[l] /\ q[at[j]] = q[m] /\ at[i] \in DOMAIN q /\ at[j] \in DOMAIN q
        /\ l \in DOMAIN q /\ m \in DOMAIN q
    BY <1>2, <1>5, <1>6
  <2>2. at[i] = l /\ at[j] = m
    BY <2>1 DEF P!Once
  <2>3. QED
    BY <1>5, <1>6, <2>2
<1>7. Records(t, q, n, Null)
  <2>1. ASSUME NEW m \in 1 .. n PROVE \E i \in DOMAIN t : t[i].uid = q[m]
    <3>1. PICK i \in DOMAIN t : at[i] = m
      BY <1>5, <2>1
    <3>2. t[i].uid = q[m]
      BY <1>5, <3>1
    <3>3. QED
      BY <3>2
  <2>2. ASSUME NEW i \in DOMAIN t PROVE \E m \in 1 .. n : t[i].uid = q[m] /\ t[i].v = Null
    BY <1>5, <2>2
  <2>3. QED
    BY <1>6, <2>1, <2>2 DEF Records
<1>8. QED
  BY <1>5, <1>7

(* A step of the channel brings its records into the files.                *)
Tells(q, n, v) ==
  \/ Hands(q) /\ n = 1 /\ v = Len(got) + 1
  \/ SaysNull(q, n) /\ v = Null

LEMMA Delivered ==
  ASSUME FileTypes(inFile), NEW q \in Seq(Uids), P!Once(q), Delivers(q),
         NEW n, NEW v, Tells(q, n, v)
  PROVE  /\ FileTypes(inFile') /\ v \in Null .. MaxOffers
         /\ \E strayed : AllBrought(inFile', q, n, v, strayed) /\ lost' = lost \cup strayed
<1>1. PICK rs, written :
        /\ rs = ValueHanded \o Nulls(q) /\ written \subseteq DOMAIN rs
        /\ inFile' = [k \in Children |->
              inFile[k] \o Select(rs, {i \in written : Owner[rs[i].uid] = k})]
        /\ lost' = lost \cup {rs[i].uid : i \in DOMAIN rs \ written}
  BY DEF Delivers, Loses
<1>2. PICK strayed : strayed = {rs[i].uid : i \in DOMAIN rs \ written}
  OBVIOUS
<1>3. PICK t : t = Nulls(q)
  OBVIOUS
<1>4. t = Select([i \in DOMAIN q |-> [uid |-> q[i], v |-> Null]], NullSet(q))
  BY <1>3 DEF Nulls, NullSet
<1>5. rs = ValueHanded \o t
  BY <1>1, <1>3
<1>6. rs \in Seq(InRecord) /\ Records(rs, q, n, v) /\ v \in Null .. MaxOffers
  <2>1. CASE Hands(q) /\ n = 1 /\ v = Len(got) + 1
    <3>1. /\ NullSet(q) = 1 .. 0 /\ ValueHanded = <<[uid |-> q[1], v |-> v]>> /\ v \in Null .. MaxOffers
          /\ 1 <= Len(q)
      BY <2>1 DEF Hands, Served
    <3>2. t \in Seq(InRecord) /\ Records(t, q, 0, Null)
      <4>1. 1 .. 0 \subseteq DOMAIN q
        OBVIOUS
      <4>2. QED
        BY <1>4, <3>1, <4>1, NullRecords
    <3>3. t = <<>>
      <4>1. Len(t) \in Nat /\ DOMAIN t = 1 .. Len(t)
        BY <3>2, LenProperties
      <4>2. 1 \notin DOMAIN t
        BY <3>2 DEF Records
      <4>3. Len(t) = 0
        BY <4>1, <4>2
      <4>4. QED
        BY <3>2, <4>3, EmptySeq
    <3>4. q[1] \in Uids
      BY <3>1, ElementOfSeq, LenProperties
    <3>5. [uid |-> q[1], v |-> v] \in InRecord
      BY <3>1, <3>4 DEF InRecord
    <3>6. <<[uid |-> q[1], v |-> v]>> \in Seq(InRecord)
      BY <3>5
    <3>7. rs = <<[uid |-> q[1], v |-> v]>>
      BY <1>5, <3>1, <3>3, <3>6, ConcatEmptySeq
    <3>8. Records(rs, q, 1, v)
      BY <3>7 DEF Records
    <3>9. QED
      BY <2>1, <3>1, <3>6, <3>7, <3>8
  <2>2. CASE SaysNull(q, n) /\ v = Null
    <3>1. /\ NullSet(q) = 1 .. n /\ ValueHanded = <<>>
      BY <2>2 DEF SaysNull
    <3>2. 1 .. n \subseteq DOMAIN q
      BY <3>1 DEF NullSet
    <3>3. t \in Seq(InRecord) /\ Records(t, q, n, Null)
      BY <1>4, <3>1, <3>2, NullRecords
    <3>4. rs = t
      BY <1>5, <3>1, <3>3, ConcatEmptySeq
    <3>5. Null \in Null .. MaxOffers
      BY OffersAssumption DEF Null
    <3>6. QED
      BY <2>2, <3>3, <3>4, <3>5
  <2>3. QED
    BY <2>1, <2>2 DEF Tells
<1>7. ASSUME NEW k \in Children
      PROVE  inFile'[k] \in Seq(InRecord) /\ Brought(inFile[k], inFile'[k], q, n, k, v, strayed)
  <2>1. inFile[k] \in Seq(InRecord)
    BY DEF FileTypes
  <2>2. PICK I : /\ I = {i \in written : Owner[rs[i].uid] = k}
                 /\ inFile'[k] = inFile[k] \o Select(rs, I)
    BY <1>1
  <2>3. I \subseteq written /\ \A i \in written : i \in I <=> Owner[rs[i].uid] = k
    BY <2>2
  <2>4. QED
    BY <1>1, <1>6, <1>2, <2>1, <2>2, <2>3, RecordsAreBrought
<1>8. FileTypes(inFile')
  <2>1. inFile' = [k \in Children |-> inFile'[k]]
    BY <1>1
  <2>2. QED
    BY <1>7, <2>1 DEF FileTypes
<1>9. \A u \in strayed : \E m \in 1 .. n : q[m] = u
  BY <1>6, <1>2 DEF Records
<1>10. AllBrought(inFile', q, n, v, strayed) /\ lost' = lost \cup strayed
  BY <1>1, <1>7, <1>9, <1>2 DEF AllBrought
<1>11. QED
  BY <1>6, <1>8, <1>10

-----------------------------------------------------------------------------
(* The steps.  What has been shown of the files and the line after a step  *)
(* holds after it when the children have not moved.                        *)
LEMMA ReceivesStay ==
  ASSUME UNCHANGED <<alive, answer, drawn>>,
         ReceivesKept(outFile', remoteReceivers', inFile', lost')
  PROVE  ReceivesKept(outFile, remoteReceivers, inFile, lost)'
<1> DEFINE out == outFile'
           q == remoteReceivers'
           in == inFile'
           strayed == lost'
<1>1. /\ OutKept(out) /\ InKept(in) /\ WaitsKept(out, q, in, strayed)
      /\ StagesInOrder(out, q, in, strayed) /\ OutInOrder(out) /\ LineInOrder(q) /\ InInOrder(in)
  BY DEF ReceivesKept
<1>2. OutKept(outFile)'
  BY <1>1 DEF OutKept
<1>3. InKept(inFile)'
  BY <1>1 DEF InKept
<1>4. WaitsKept(outFile, remoteReceivers, inFile, lost)'
  BY <1>1 DEF WaitsKept, OnItsWayTo, InFileOf, InLine
<1>5. StagesInOrder(outFile, remoteReceivers, inFile, lost)'
  BY <1>1 DEF StagesInOrder, OnItsWayTo, InFileOf, InLine, Answered, Over, Earlier
<1>6. OutInOrder(outFile)'
  BY <1>1 DEF OutInOrder, Earlier
<1>7. LineInOrder(remoteReceivers)'
  BY <1>1 DEF LineInOrder, Earlier
<1>8. InInOrder(inFile)'
  BY <1>1 DEF InInOrder, Earlier
<1>9. QED
  BY <1>2, <1>3, <1>4, <1>5, <1>6, <1>7, <1>8 DEF ReceivesKept

LEMMA ToldStays ==
  ASSUME UNCHANGED <<answer, drawn>>, ToldInOrder(inFile')
  PROVE  ToldInOrder(inFile)'
  BY DEF ToldInOrder, Told, Earlier

(* What the children keep for themselves.                                  *)
LEMMA DrawnStays ==
  ASSUME DrawnKept, UNCHANGED <<answer, drawn>>
  PROVE  DrawnKept'
  BY DEF DrawnKept

(* What is told does not change when nobody is told anything.              *)
LEMMA RestKeepsTold ==
  ASSUME ProxyInv, UNCHANGED channel, \A u \in Uids : \A a : Told(inFile, u, a)' => Told(inFile, u, a)
  PROVE  ToldKept(inFile)'
  BY DEF ProxyInv, ToldKept, channel

(* A step of the channel on behalf of the receives in q.                   *)
LEMMA ChannelMoves ==
  ASSUME ProxyInv, ChannelInv', UNCHANGED <<alive, answer, drawn>>,
         NEW out, out = outFile', out \in [Children -> Seq(OutRecord)],
         NEW q \in Seq(Uids), ReceivesKept(out, q, inFile, lost), P!Once(q), Apart(q),
         \A w \in Uids : InFileOf(out, w) => InFileOf(outFile, w) /\ ~InLine(q, w),
         Serves(q), Delivers(q)
  PROVE  ProxyInv'
<1>1. /\ FileTypes(inFile) /\ got \in Seq(P!Delivery) /\ Len(got) \in Nat
      /\ remoteReceivers' \in Seq(Uids)
  <2>1. got \in Seq(P!Delivery)
    BY LineFacts DEF ProxyInv
  <2>2. P!TypeOK'
    BY DEF ChannelInv, P!ParkedInv, P!OrderInv
  <2>3. remoteReceivers' \in Seq(Uids)
    BY <2>2 DEF P!TypeOK
  <2>4. FileTypes(inFile)
    BY DEF ProxyInv, OwnTypes, FileTypes
  <2>5. QED
    BY <2>1, <2>3, <2>4, LenProperties
<1>2. PICK n, v : Tells(q, n, v)
  BY DEF Serves, Tells
<1>3. PICK in, line : in = inFile' /\ line = remoteReceivers'
  OBVIOUS
<1>4. PICK strayed : /\ FileTypes(in) /\ AllBrought(in, q, n, v, strayed) /\ v \in Null .. MaxOffers
                     /\ line \in Seq(Uids) /\ lost' = lost \cup strayed
  <2>1. /\ FileTypes(inFile') /\ v \in Null .. MaxOffers
        /\ \E strayed : AllBrought(inFile', q, n, v, strayed) /\ lost' = lost \cup strayed
    BY <1>1, <1>2, Delivered
  <2>2. QED
    BY <1>1, <1>3, <2>1
<1>5. Served(q, n, line)
  BY <1>2, <1>3 DEF Tells, Hands, SaysNull
<1>6. ReceivesKept(out, line, in, lost \cup strayed)
  BY <1>1, <1>4, <1>5, ServedKeeps
<1>7. ReceivesKept(outFile, remoteReceivers, inFile, lost)'
  BY <1>3, <1>4, <1>6, ReceivesStay
<1>8. /\ v # Null => n <= 1 /\ v > Len(got) /\ ~(closed /\ buffer = <<>>)
      /\ n \in Nat /\ 1 .. n \subseteq DOMAIN q
      /\ v <= Len(got')
      /\ v = Null /\ n > 0 => closed' /\ buffer' = <<>>
      /\ Quiet /\ OthersStay(q)
  <2>1. Quiet /\ OthersStay(q)
    BY DEF Serves
  <2>2. n \in Nat /\ 1 .. n \subseteq DOMAIN q
    BY <1>5, LenProperties DEF Served
  <2>3. CASE Hands(q) /\ n = 1 /\ v = Len(got) + 1
    <3>1. v # Null /\ v > Len(got) /\ v <= Len(got') /\ n <= 1
      BY <1>1, <2>3 DEF Hands, Null
    <3>2. QED
      BY <2>1, <2>2, <2>3, <3>1 DEF Hands
  <2>4. CASE SaysNull(q, n) /\ v = Null
    <3>1. v <= Len(got')
      <4>1. PICK m : m = Len(got')
        OBVIOUS
      <4>2. got' \in Seq(P!Delivery)
        <5>1. P!TypeOK'
          BY DEF ChannelInv, P!ParkedInv, P!OrderInv
        <5>2. QED
          BY <5>1 DEF P!TypeOK, P!Delivery, P!Values, P!Everyone
      <4>3. m \in Nat
        BY <4>1, <4>2, LenProperties
      <4>4. QED
        BY <2>4, <4>1, <4>3 DEF Null
    <3>2. n > 0 => closed' /\ buffer' = <<>>
      BY <2>4 DEF SaysNull
    <3>3. QED
      BY <2>1, <2>2, <2>4, <3>1, <3>2
  <2>5. QED
    BY <1>2, <2>3, <2>4 DEF Tells
<1>9. ToldInOrder(inFile)'
  <2>1. ToldKept(inFile) /\ ToldInOrder(inFile)
    BY DEF ProxyInv
  <2>2. ToldInOrder(in)
    BY <1>1, <1>4, <1>5, <1>8, <2>1, ServedAreTold
  <2>3. QED
    BY <1>3, <2>2, ToldStays
<1>10. ToldKept(inFile)'
  <2>1. ASSUME NEW u \in Uids, NEW a \in Null .. MaxOffers, Told(in, u, a)
        PROVE  a <= Len(got') /\ (a = Null => closed' /\ buffer' = <<>>)
    <3>1. Told(inFile, u, a) \/ (a = v /\ \E m \in 1 .. n : q[m] = u)
      BY <1>1, <1>4, <2>1, ServedTold
    <3>2. CASE Told(inFile, u, a)
      <4>1. a <= Len(got) /\ (a = Null => closed /\ buffer = <<>>)
        BY <3>2 DEF ProxyInv, ToldKept
      <4>2. Len(got) <= Len(got') /\ Len(got') \in Int
        <5>1. got' \in Seq(P!Delivery)
          <6>1. P!TypeOK'
            BY DEF ChannelInv, P!ParkedInv, P!OrderInv
          <6>2. QED
            BY <6>1 DEF P!TypeOK, P!Delivery, P!Values, P!Everyone
        <5>2. QED
          BY <1>8, <5>1, LenProperties DEF Quiet
      <4>3. a \in Int
        BY DEF Null
      <4>4. a = Null => closed' /\ buffer' = <<>>
        BY <1>8, <4>1 DEF Quiet
      <4>5. QED
        BY <1>1, <4>1, <4>2, <4>3, <4>4
    <3>3. CASE a = v /\ \E m \in 1 .. n : q[m] = u
      <4>1. n > 0
        BY <1>8, <3>3
      <4>2. QED
        BY <1>8, <3>3, <4>1
    <3>4. QED
      BY <3>1, <3>2, <3>3
  <2>2. \A u \in Uids : \A a : Told(inFile, u, a)' <=> Told(in, u, a)
    BY <1>3 DEF Told
  <2>3. QED
    BY <2>1, <2>2 DEF ToldKept
<1>11. StatusTells(outFile, inFile)'
  <2>1. StatusTells(outFile, inFile) /\ WaitsKept(out, q, inFile, lost)
    BY DEF ProxyInv, ReceivesKept
  <2>2. ASSUME NEW u \in Uids, InFileOf(out, u) \/ answer[u] = Undrawn
        PROVE  status'[u] = "idle"
    <3>1. ~InLine(q, u)
      BY <2>1, <2>2 DEF WaitsKept, OnItsWayTo, Undrawn, Pending
    <3>2. status[u] = "idle"
      BY <2>1, <2>2 DEF StatusTells
    <3>3. QED
      BY <1>8, <3>1, <3>2 DEF OthersStay
  <2>3. ASSUME NEW u \in Uids, InFileOf(in, u) \/ Answered(u)
        PROVE  status'[u] \in {"value", "null"}
    <3>1. InFileOf(inFile, u) \/ Answered(u) \/ \E m \in 1 .. n : q[m] = u
      BY <1>1, <1>4, <1>5, <2>3, ServedAre
    <3>2. CASE InFileOf(inFile, u) \/ Answered(u)
      <4>1. ~InLine(q, u)
        BY <3>2 DEF InLine, Apart, Over
      <4>2. status[u] \in {"value", "null"}
        BY <2>1, <3>2 DEF StatusTells
      <4>3. QED
        BY <1>8, <4>1, <4>2 DEF OthersStay
    <3>3. ASSUME NEW m \in 1 .. n, q[m] = u PROVE status'[u] \in {"value", "null"}
      <4>1. CASE Hands(q) /\ n = 1
        <5>1. m = 1
          BY <4>1
        <5>2. QED
          BY <3>3, <4>1, <5>1 DEF Hands
      <4>2. CASE SaysNull(q, n)
        BY <3>3, <4>2 DEF SaysNull, NullSet
      <4>3. QED
        BY <1>2, <4>1, <4>2 DEF Tells
    <3>4. QED
      BY <3>1, <3>2, <3>3
  <2>4. \A u \in Uids : /\ InFileOf(outFile, u)' <=> InFileOf(out, u)
                        /\ InFileOf(inFile, u)' <=> InFileOf(in, u)
                        /\ Answered(u)' <=> Answered(u)
    BY <1>3 DEF InFileOf, Answered
  <2>5. QED
    BY <2>2, <2>3, <2>4 DEF StatusTells
<1>12. OwnTypes'
  <2>1. ASSUME NEW u \in strayed PROVE u \in Uids
    <3>1. PICK m \in 1 .. n : q[m] = u
      BY <1>4 DEF AllBrought
    <3>2. QED
      BY <1>8, <3>1, ElementOfSeq, LenProperties
  <2>2. QED
    BY <1>3, <1>4, <2>1 DEF ProxyInv, OwnTypes, FileTypes
<1>13. DrawnKept'
  BY DrawnStays DEF ProxyInv
<1>14. QED
  BY <1>7, <1>9, <1>10, <1>11, <1>12, <1>13 DEF ProxyInv

(* The calls the parent makes for itself.                                  *)
LEMMA ParentCalls ==
  ASSUME ProxyInv, ChannelInv', UNCHANGED <<alive, outFile, answer, drawn>>,
         Serves(remoteReceivers), Delivers(remoteReceivers)
  PROVE  ProxyInv'
<1>1. PICK out, q : out = outFile' /\ q = remoteReceivers
  OBVIOUS
<1>2. /\ out \in [Children -> Seq(OutRecord)] /\ ReceivesKept(out, q, inFile, lost) /\ out = outFile
  BY <1>1 DEF ProxyInv, OwnTypes
<1>3. q \in Seq(Uids) /\ P!Once(q) /\ Apart(q)
  BY <1>1, LineFacts, LineIsApart DEF ProxyInv
<1>4. \A w \in Uids : InFileOf(out, w) => InFileOf(outFile, w) /\ ~InLine(q, w)
  <2>1. \A w \in Uids : status[w] = "pending" <=> InLine(q, w)
    BY <1>1, LineFacts DEF ProxyInv
  <2>2. StatusTells(outFile, inFile)
    BY DEF ProxyInv
  <2>3. QED
    BY <1>2, <2>1, <2>2 DEF StatusTells
<1>5. Serves(q) /\ Delivers(q)
  BY <1>1
<1>6. QED
  BY <1>1, <1>2, <1>3, <1>4, <1>5, ChannelMoves

(* What the parent calls for a record.                                     *)
LEMMA ParentReadsKeeps ==
  ASSUME ProxyInv, ChannelInv', NEW k \in Children, ParentReads(k)
  PROVE  ProxyInv'
<1>1. PICK out, u : out = outFile' /\ u = FirstRecord(k).uid
  OBVIOUS
<1>2. ReadFirst(out, k) /\ UNCHANGED <<alive, answer, drawn>>
  BY <1>1 DEF ParentReads, ReadFirst
<1>3. /\ out \in [Children -> Seq(OutRecord)] /\ FirstRecord(k) \in OutRecord
      /\ \A w \in Uids : InFileOf(outFile, w) <=> InFileOf(out, w) \/ w = u
      /\ u \in Uids => ~InFileOf(out, u)
  BY <1>1, <1>2, FirstRead
<1>4. \A w \in Uids : InFileOf(out, w) => InFileOf(outFile, w) /\ ~InLine(remoteReceivers, w)
  <2>1. \A w \in Uids : status[w] = "pending" <=> InLine(remoteReceivers, w)
    BY LineFacts DEF ProxyInv
  <2>2. StatusTells(outFile, inFile)
    BY DEF ProxyInv
  <2>3. QED
    BY <1>3, <2>1, <2>2 DEF StatusTells
<1>5. CASE /\ FirstRecord(k).type = "SEND" /\ Parent!Send(Inbound) /\ Delivers(remoteReceivers)
  <2>1. u \notin Uids
    BY <1>1, <1>3, <1>5, DistinctAssumption DEF OutRecord
  <2>2. Serves(remoteReceivers)
    BY <1>5, SendServes DEF ProxyInv
  <2>3. PICK q : q = remoteReceivers
    OBVIOUS
  <2>4. q \in Seq(Uids) /\ P!Once(q) /\ Apart(q)
    BY <2>3, LineFacts, LineIsApart DEF ProxyInv
  <2>5. ReceivesKept(out, q, inFile, lost)
    BY <1>1, <1>2, <2>1, <2>3, SendRead
  <2>6. Serves(q) /\ Delivers(q) /\ \A w \in Uids : InFileOf(out, w) => ~InLine(q, w)
    BY <1>4, <1>5, <2>2, <2>3
  <2>7. QED
    BY <1>1, <1>2, <1>3, <1>4, <2>4, <2>5, <2>6, ChannelMoves
<1>6. CASE /\ FirstRecord(k).type = "RECV" /\ Parent!ForwardReceive(FirstRecord(k).uid)
           /\ Delivers(Append(remoteReceivers, FirstRecord(k).uid))
  <2>1. u \in Uids
    BY <1>1, <1>3, <1>6 DEF OutRecord
  <2>2. PICK q : q = Append(remoteReceivers, u)
    OBVIOUS
  <2>3. Parent!ForwardReceive(u) /\ Delivers(q)
    BY <1>1, <1>6, <2>2
  <2>4. Serves(q)
    BY <2>1, <2>2, <2>3, ForwardServes DEF ProxyInv
  <2>5. ReceivesKept(out, q, inFile, lost) /\ P!Once(q) /\ Apart(q) /\ q \in Seq(Uids)
    BY <1>1, <1>2, <2>1, <2>2, ReceiveRead
  <2>6. \A w \in Uids : InLine(q, w) => InLine(remoteReceivers, w) \/ w = u
    <3>1. remoteReceivers \in Seq(Uids)
      BY LineFacts DEF ProxyInv
    <3>2. /\ Len(remoteReceivers) \in Nat /\ DOMAIN q = 1 .. Len(remoteReceivers) + 1
          /\ q[Len(remoteReceivers) + 1] = u /\ DOMAIN remoteReceivers = 1 .. Len(remoteReceivers)
          /\ \A i \in 1 .. Len(remoteReceivers) : q[i] = remoteReceivers[i]
      BY <2>2, <3>1, Appended
    <3>3. \A i \in DOMAIN q : i \in 1 .. Len(remoteReceivers) \/ i = Len(remoteReceivers) + 1
      BY <3>2
    <3>4. QED
      BY <3>2, <3>3 DEF InLine
  <2>7. \A w \in Uids : InFileOf(out, w) => InFileOf(outFile, w) /\ ~InLine(q, w)
    BY <1>3, <1>4, <2>1, <2>6
  <2>8. QED
    BY <1>1, <1>2, <1>3, <2>3, <2>4, <2>5, <2>7, ChannelMoves
<1>7. CASE FirstRecord(k).type = "SEND" /\ UNCHANGED <<channel, inFile, lost>>
  <2>1. u \notin Uids
    BY <1>1, <1>3, <1>7, DistinctAssumption DEF OutRecord
  <2>2. UNCHANGED <<channel, alive, inFile, answer, drawn, lost>>
    BY <1>2, <1>7
  <2>3. ReceivesKept(outFile, remoteReceivers, inFile, lost)'
    <3>1. ReceivesKept(out, remoteReceivers, inFile, lost)
      BY <1>1, <1>2, <2>1, SendRead
    <3>2. ReceivesKept(outFile', remoteReceivers', inFile', lost')
      BY <1>1, <2>2, <3>1 DEF channel
    <3>3. QED
      BY <2>2, <3>2, ReceivesStay
  <2>4. OwnTypes'
    BY <1>1, <1>3, <2>2 DEF ProxyInv, OwnTypes
  <2>5. DrawnKept'
    BY <2>2, DrawnStays DEF ProxyInv
  <2>6. ToldInOrder(inFile)' /\ ToldKept(inFile)'
    <3>1. ToldInOrder(inFile)'
      BY <2>2, ToldStays DEF ProxyInv
    <3>2. \A w \in Uids : \A a : Told(inFile, w, a)' => Told(inFile, w, a)
      BY <2>2 DEF Told
    <3>3. QED
      BY <2>2, <3>1, <3>2, RestKeepsTold
  <2>7. StatusTells(outFile, inFile)'
    <3>1. StatusTells(outFile, inFile)
      BY DEF ProxyInv
    <3>2. \A w \in Uids : /\ InFileOf(outFile, w)' => InFileOf(outFile, w)
                          /\ InFileOf(inFile, w)' <=> InFileOf(inFile, w)
                          /\ Answered(w)' <=> Answered(w)
      BY <1>1, <1>4, <2>2 DEF InFileOf, Answered
    <3>3. QED
      BY <2>2, <3>1, <3>2 DEF StatusTells, channel
  <2>8. QED
    BY <2>3, <2>4, <2>5, <2>6, <2>7 DEF ProxyInv
<1>8. QED
  BY <1>2, <1>5, <1>6, <1>7 DEF ParentReads

(* Receivers of the parent's own.                                          *)
LEMMA LocalReceiveKeeps ==
  ASSUME ProxyInv, ChannelInv', NEW c \in Callers, LocalReceive(c)
  PROVE  ProxyInv'
<1>1. /\ Quiet /\ remoteReceivers' = remoteReceivers /\ UNCHANGED children
      /\ \A w \in Uids : status'[w] = status[w]
  BY LocalReceiveIsApart DEF LocalReceive, ProxyInv
<1>2. UNCHANGED <<alive, outFile, inFile, answer, drawn, lost>>
  BY <1>1 DEF children
<1>3. OwnTypes'
  BY <1>2 DEF ProxyInv, OwnTypes
<1>4. DrawnKept'
  BY <1>2, DrawnStays DEF ProxyInv
<1>5. ReceivesKept(outFile, remoteReceivers, inFile, lost)'
  BY <1>1, <1>2, ReceivesStay DEF ProxyInv
<1>6. ToldInOrder(inFile)'
  BY <1>2, ToldStays DEF ProxyInv
<1>7. StatusTells(outFile, inFile)'
  <2>1. StatusTells(outFile, inFile)
    BY DEF ProxyInv
  <2>2. QED
    BY <1>1, <1>2, <2>1 DEF StatusTells, InFileOf, Answered
<1>8. ToldKept(inFile)'
  <2>1. ToldKept(inFile)
    BY DEF ProxyInv
  <2>2. \A u, a : Told(inFile, u, a)' <=> Told(inFile, u, a)
    BY <1>2 DEF Told
  <2>3. got \in Seq(P!Delivery) /\ got' \in Seq(P!Delivery)
    <3>1. P!TypeOK /\ P!TypeOK'
      BY DEF ProxyInv, ChannelInv, P!ParkedInv, P!OrderInv
    <3>2. QED
      BY <3>1 DEF P!TypeOK, P!Delivery, P!Values, P!Everyone
  <2>4. Len(got) \in Nat /\ Len(got') \in Nat
    BY <2>3, LenProperties
  <2>5. ASSUME NEW u \in Uids, NEW a \in Null .. MaxOffers, Told(inFile, u, a)
        PROVE  a <= Len(got') /\ (a = Null => closed' /\ buffer' = <<>>)
    <3>1. a <= Len(got) /\ (a = Null => closed /\ buffer = <<>>) /\ a \in Int
      BY <2>1, <2>5 DEF ToldKept, Null
    <3>2. a <= Len(got')
      BY <1>1, <2>4, <3>1 DEF Quiet
    <3>3. QED
      BY <1>1, <3>1, <3>2 DEF Quiet
  <2>6. QED
    BY <2>2, <2>5 DEF ToldKept
<1>9. QED
  BY <1>3, <1>4, <1>5, <1>6, <1>7, <1>8 DEF ProxyInv

-----------------------------------------------------------------------------
(* The children, while the channel rests.                                  *)

(* A child appends a record.                                               *)
LEMMA Emitted ==
  ASSUME OwnTypes, NEW k \in Children, NEW r \in OutRecord, Emits(k, r)
  PROVE  /\ outFile' \in [Children -> Seq(OutRecord)]
         /\ \A l \in Children : l # k => outFile'[l] = outFile[l]
         /\ Len(outFile[k]) \in Nat
         /\ DOMAIN outFile[k] = 1 .. Len(outFile[k])
         /\ DOMAIN outFile'[k] = 1 .. Len(outFile[k]) + 1
         /\ \A i \in 1 .. Len(outFile[k]) : outFile'[k][i] = outFile[k][i]
         /\ outFile'[k][Len(outFile[k]) + 1] = r
<1>1. outFile[k] \in Seq(OutRecord)
  BY DEF OwnTypes
<1>2. /\ outFile' = [outFile EXCEPT ![k] = Append(outFile[k], r)]
  BY DEF Emits
<1>3. Append(outFile[k], r) \in Seq(OutRecord)
  BY <1>1, AppendProperties
<1>4. outFile'[k] = Append(outFile[k], r)
  BY <1>2 DEF OwnTypes
<1>5. /\ outFile' \in [Children -> Seq(OutRecord)]
      /\ \A l \in Children : l # k => outFile'[l] = outFile[l]
  BY <1>2, <1>3 DEF OwnTypes
<1>6. QED
  BY <1>1, <1>4, <1>5, Appended

LEMMA EmittedIs ==
  ASSUME OwnTypes, NEW k \in Children, NEW r \in OutRecord, Emits(k, r),
         r.uid \in Uids => Owner[r.uid] = k, NEW w \in Uids
  PROVE  InFileOf(outFile', w) <=> InFileOf(outFile, w) \/ w = r.uid
<1>1. PICK n, f, g : n = Len(outFile[k]) /\ f = outFile[k] /\ g = outFile'[k]
  OBVIOUS
<1>2. /\ \A l \in Children : l # k => outFile'[l] = outFile[l]
      /\ n \in Nat /\ DOMAIN f = 1 .. n /\ DOMAIN g = 1 .. n + 1
      /\ \A i \in 1 .. n : g[i] = f[i]
      /\ g[n + 1] = r
  BY <1>1, Emitted
<1>3. CASE Owner[w] = k
  <2>1. (\E i \in DOMAIN g : g[i].uid = w) <=> (\E i \in DOMAIN f : f[i].uid = w) \/ w = r.uid
    <3>1. /\ \A i \in DOMAIN g : i \in DOMAIN f \/ i = n + 1
          /\ \A i \in DOMAIN f : i \in DOMAIN g
          /\ n + 1 \in DOMAIN g
      BY <1>2
    <3>2. QED
      BY <1>2, <3>1
  <2>2. QED
    BY <1>1, <1>3, <2>1 DEF InFileOf
<1>4. CASE Owner[w] # k
  <2>1. Owner[w] \in Children
    BY ChildrenAssumption
  <2>2. QED
    BY <1>2, <1>4, <2>1 DEF InFileOf
<1>5. QED
  BY <1>3, <1>4

LEMMA ChildSendKeeps ==
  ASSUME ProxyInv, ChannelInv', NEW k \in Children, ChildSend(k)
  PROVE  ProxyInv'
<1> DEFINE r == [type |-> "SEND", uid |-> Inbound]
<1>1. /\ Emits(k, r) /\ r \in OutRecord /\ r.uid = Inbound /\ Inbound \notin Uids
      /\ UNCHANGED <<channel, alive, inFile, answer, drawn, lost>> /\ OwnTypes
  BY DistinctAssumption DEF ChildSend, OutRecord, ProxyInv
<1> HIDE DEF r
<1>2. PICK out, f, g, n : out = outFile' /\ f = outFile[k] /\ g = out[k] /\ n = Len(f)
  OBVIOUS
<1>3. /\ out \in [Children -> Seq(OutRecord)]
      /\ \A l \in Children : l # k => out[l] = outFile[l]
      /\ n \in Nat /\ DOMAIN f = 1 .. n /\ DOMAIN g = 1 .. n + 1
      /\ \A i \in 1 .. n : g[i] = f[i]
      /\ g[n + 1] = r
  BY <1>1, <1>2, Emitted
<1>4. ASSUME NEW w \in Uids PROVE InFileOf(out, w) <=> InFileOf(outFile, w)
  BY <1>1, <1>2, EmittedIs
<1>5. \A i \in DOMAIN g : g[i].uid \in Uids => i \in DOMAIN f /\ g[i] = f[i]
  <2>1. \A i \in DOMAIN g : i \in DOMAIN f \/ i = n + 1
    BY <1>3
  <2>2. QED
    BY <1>1, <1>3, <2>1
<1>6. ReceivesKept(out, remoteReceivers, inFile, lost)
  <2>1. ReceivesKept(outFile, remoteReceivers, inFile, lost)
    BY DEF ProxyInv
  <2>2. OutKept(out)
    <3>1. /\ \A i \in DOMAIN g : g[i].uid \in Uids => Owner[g[i].uid] = k
          /\ \A i, j \in DOMAIN g : g[i].uid \in Uids /\ g[i].uid = g[j].uid => i = j
      BY <1>2, <1>5, <2>1 DEF ReceivesKept, OutKept
    <3>2. OutKept(outFile)
      BY <2>1 DEF ReceivesKept
    <3>3. ASSUME NEW l \in Children, l # k
          PROVE  /\ \A i \in DOMAIN out[l] : out[l][i].uid \in Uids => Owner[out[l][i].uid] = l
                 /\ \A i, j \in DOMAIN out[l] :
                      out[l][i].uid \in Uids /\ out[l][i].uid = out[l][j].uid => i = j
      BY <1>3, <3>2, <3>3 DEF OutKept
    <3>4. QED
      BY <1>2, <3>1, <3>3 DEF OutKept
  <2>3. OutInOrder(out)
    <3>1. \A i, j \in DOMAIN g : g[i].uid \in Uids /\ g[j].uid \in Uids
                                   /\ Earlier(g[i].uid, g[j].uid) => i < j
      BY <1>2, <1>5, <2>1 DEF ReceivesKept, OutInOrder
    <3>2. QED
      BY <1>2, <1>3, <2>1, <3>1 DEF ReceivesKept, OutInOrder
  <2>4. QED
    BY <1>4, <2>1, <2>2, <2>3 DEF ReceivesKept, WaitsKept, StagesInOrder, OnItsWayTo
<1>7. ReceivesKept(outFile, remoteReceivers, inFile, lost)'
  <2>1. ReceivesKept(outFile', remoteReceivers', inFile', lost')
    BY <1>1, <1>2, <1>6 DEF channel
  <2>2. QED
    BY <1>1, <2>1, ReceivesStay
<1>8. OwnTypes'
  BY <1>1, <1>2, <1>3 DEF OwnTypes
<1>9. DrawnKept'
  BY <1>1, DrawnStays DEF ProxyInv
<1>10. ToldInOrder(inFile)' /\ ToldKept(inFile)'
  <2>1. ToldInOrder(inFile)'
    BY <1>1, ToldStays DEF ProxyInv
  <2>2. \A u \in Uids : \A a : Told(inFile, u, a)' => Told(inFile, u, a)
    BY <1>1 DEF Told
  <2>3. QED
    BY <1>1, <2>1, <2>2, RestKeepsTold
<1>11. StatusTells(outFile, inFile)'
  <2>1. StatusTells(outFile, inFile)
    BY DEF ProxyInv
  <2>2. \A u \in Uids : /\ InFileOf(outFile, u)' <=> InFileOf(outFile, u)
                        /\ InFileOf(inFile, u)' <=> InFileOf(inFile, u)
                        /\ Answered(u)' <=> Answered(u)
    BY <1>1, <1>2, <1>4 DEF InFileOf, Answered
  <2>3. QED
    BY <1>1, <2>1, <2>2 DEF StatusTells, channel
<1>12. QED
  BY <1>7, <1>8, <1>9, <1>10, <1>11 DEF ProxyInv

(* The tail of a dead child stops.                                         *)
LEMMA TailStopsKeeps ==
  ASSUME ProxyInv, ChannelInv', NEW k \in Children, TailStops(k)
  PROVE  ProxyInv'
<1>1. /\ ~alive[k] /\ outFile' = [outFile EXCEPT ![k] = <<>>]
      /\ UNCHANGED <<channel, alive, inFile, answer, drawn, lost>> /\ OwnTypes
      /\ ReceivesKept(outFile, remoteReceivers, inFile, lost)
  BY DEF TailStops, ProxyInv
<1>2. PICK out : out = outFile'
  OBVIOUS
<1>3. /\ out \in [Children -> Seq(OutRecord)] /\ out[k] = <<>>
      /\ \A l \in Children : l # k => out[l] = outFile[l]
  <2>1. <<>> \in Seq(OutRecord)
    OBVIOUS
  <2>2. QED
    BY <1>1, <1>2, <2>1 DEF OwnTypes
<1>4. ASSUME NEW w \in Uids PROVE InFileOf(out, w) <=> InFileOf(outFile, w) /\ Owner[w] # k
  <2>1. Owner[w] \in Children
    BY ChildrenAssumption
  <2>2. QED
    BY <1>3, <2>1 DEF InFileOf
<1>5. ReceivesKept(out, remoteReceivers, inFile, lost)
  <2>1. OutKept(out) /\ OutInOrder(out)
    <3>1. OutKept(outFile) /\ OutInOrder(outFile)
      BY <1>1 DEF ReceivesKept
    <3>2. \A l \in Children : out[l] = outFile[l] \/ DOMAIN out[l] = {}
      BY <1>3
    <3>3. OutKept(out)
      BY <3>1, <3>2 DEF OutKept
    <3>4. OutInOrder(out)
      BY <3>1, <3>2 DEF OutInOrder
    <3>5. QED
      BY <3>3, <3>4
  <2>2. WaitsKept(out, remoteReceivers, inFile, lost)
    BY <1>1, <1>4 DEF ReceivesKept, WaitsKept, OnItsWayTo
  <2>3. StagesInOrder(out, remoteReceivers, inFile, lost)
    BY <1>1, <1>4 DEF ReceivesKept, StagesInOrder, OnItsWayTo, Earlier
  <2>4. QED
    BY <1>1, <2>1, <2>2, <2>3 DEF ReceivesKept
<1>6. ReceivesKept(outFile, remoteReceivers, inFile, lost)'
  <2>1. ReceivesKept(outFile', remoteReceivers', inFile', lost')
    BY <1>1, <1>2, <1>5 DEF channel
  <2>2. QED
    BY <1>1, <2>1, ReceivesStay
<1>7. OwnTypes'
  BY <1>1, <1>2, <1>3 DEF OwnTypes
<1>8. DrawnKept'
  BY <1>1, DrawnStays DEF ProxyInv
<1>9. ToldInOrder(inFile)' /\ ToldKept(inFile)'
  <2>1. ToldInOrder(inFile)'
    BY <1>1, ToldStays DEF ProxyInv
  <2>2. \A u \in Uids : \A a : Told(inFile, u, a)' => Told(inFile, u, a)
    BY <1>1 DEF Told
  <2>3. QED
    BY <1>1, <2>1, <2>2, RestKeepsTold
<1>10. StatusTells(outFile, inFile)'
  <2>1. StatusTells(outFile, inFile)
    BY DEF ProxyInv
  <2>2. \A u \in Uids : /\ InFileOf(outFile, u)' => InFileOf(outFile, u)
                        /\ InFileOf(inFile, u)' <=> InFileOf(inFile, u)
                        /\ Answered(u)' <=> Answered(u)
    BY <1>1, <1>2, <1>4 DEF InFileOf, Answered
  <2>3. QED
    BY <1>1, <2>1, <2>2 DEF StatusTells, channel
<1>11. QED
  BY <1>6, <1>7, <1>8, <1>9, <1>10 DEF ProxyInv

LEMMA ChildDiesKeeps ==
  ASSUME ProxyInv, ChannelInv', NEW k \in Children, ChildDies(k)
  PROVE  ProxyInv'
<1>1. /\ alive' = [alive EXCEPT ![k] = FALSE] /\ OwnTypes
      /\ UNCHANGED <<channel, outFile, inFile, answer, drawn, lost>>
  BY DEF ChildDies, ProxyInv
<1>2. \A l \in Children : alive'[l] => alive[l]
  BY <1>1 DEF OwnTypes
<1>3. ReceivesKept(outFile, remoteReceivers, inFile, lost)'
  <2>1. ReceivesKept(outFile, remoteReceivers, inFile, lost)
    BY DEF ProxyInv
  <2>2. OutKept(outFile)' /\ InKept(inFile)'
    BY <1>1, <2>1 DEF ReceivesKept, OutKept, InKept
  <2>3. WaitsKept(outFile, remoteReceivers, inFile, lost)'
    <3>1. \A u \in Uids : alive'[Owner[u]] => alive[Owner[u]]
      BY <1>2, ChildrenAssumption
    <3>2. QED
      BY <1>1, <2>1, <3>1 DEF ReceivesKept, WaitsKept, OnItsWayTo, InFileOf, InLine, channel
  <2>4. StagesInOrder(outFile, remoteReceivers, inFile, lost)'
    BY <1>1, <2>1 DEF ReceivesKept, StagesInOrder, OnItsWayTo, InFileOf, InLine, Earlier, Answered, Over, channel
  <2>5. OutInOrder(outFile)' /\ LineInOrder(remoteReceivers)' /\ InInOrder(inFile)'
    BY <1>1, <2>1 DEF ReceivesKept, OutInOrder, LineInOrder, InInOrder, Earlier, channel
  <2>6. QED
    BY <2>2, <2>3, <2>4, <2>5 DEF ReceivesKept
<1>4. OwnTypes'
  BY <1>1 DEF OwnTypes
<1>5. DrawnKept'
  BY <1>1, DrawnStays DEF ProxyInv
<1>6. ToldInOrder(inFile)' /\ ToldKept(inFile)'
  <2>1. ToldInOrder(inFile)'
    BY <1>1, ToldStays DEF ProxyInv
  <2>2. \A u \in Uids : \A a : Told(inFile, u, a)' => Told(inFile, u, a)
    BY <1>1 DEF Told
  <2>3. QED
    BY <1>1, <2>1, <2>2, RestKeepsTold
<1>7. StatusTells(outFile, inFile)'
  BY <1>1 DEF ProxyInv, StatusTells, InFileOf, Answered, channel
<1>8. QED
  BY <1>3, <1>4, <1>5, <1>6, <1>7 DEF ProxyInv

(* A receive becomes the last of its child's.                              *)
LEMMA ReceiveIsLast ==
  ASSUME OwnTypes, DrawnKept, NEW u \in Uids, ChildReceive(u), Asks(u)
  PROVE  /\ DrawnKept'
         /\ \A x, w \in Uids : Earlier(x, w)' =>
              /\ x # u /\ answer[x] \notin {Undrawn, Unasked} /\ Owner[x] = Owner[w]
              /\ w # u => Earlier(x, w)
<1> DEFINE k == Owner[u]
           d == drawn[k]
           n == Len(d)
<1>1. /\ k \in Children /\ d \in Seq(Uids) /\ answer[u] = Undrawn
      /\ drawn' = [drawn EXCEPT ![k] = Append(d, u)]
      /\ answer' = [answer EXCEPT ![u] = Pending]
  BY ChildrenAssumption DEF ChildReceive, Asks, DrawnKept
<1>2. PICK e : e = drawn'[k]
  OBVIOUS
<1>3. /\ e = Append(d, u)
      /\ \A l \in Children : l # k => drawn'[l] = drawn[l]
  BY <1>1, <1>2 DEF DrawnKept
<1>4. /\ n \in Nat /\ DOMAIN d = 1 .. n /\ DOMAIN e = 1 .. n + 1 /\ e \in Seq(Uids)
      /\ (\A i \in 1 .. n : e[i] = d[i]) /\ e[n + 1] = u
      /\ \A i \in 1 .. n : d[i] \in Uids /\ Owner[d[i]] = k /\ answer[d[i]] \notin {Undrawn, Unasked}
  <2>1. /\ n \in Nat /\ DOMAIN d = 1 .. n /\ DOMAIN e = 1 .. n + 1
        /\ (\A i \in 1 .. n : e[i] = d[i]) /\ e[n + 1] = u
    BY <1>1, <1>3, Appended
  <2>2. e \in Seq(Uids)
    BY <1>1, <1>3, AppendProperties
  <2>3. \A i \in 1 .. n : d[i] \in Uids
    BY <1>1, <2>1, ElementOfSeq
  <2>4. \A i \in 1 .. n : Owner[d[i]] = k /\ answer[d[i]] \notin {Undrawn, Unasked}
    BY <1>1, <2>1 DEF DrawnKept
  <2>5. QED
    BY <2>1, <2>2, <2>3, <2>4
<1>5. \A w \in Uids : answer'[w] = IF w = u THEN Pending ELSE answer[w]
  BY <1>1 DEF OwnTypes
<1> HIDE DEF n, d
<1>6. ASSUME NEW x \in Uids, NEW w \in Uids, Earlier(x, w)'
      PROVE  /\ x # u /\ answer[x] \notin {Undrawn, Unasked} /\ Owner[x] = Owner[w]
             /\ w # u => Earlier(x, w)
  <2>1. /\ Owner[x] = Owner[w] /\ Owner[x] \in Children
        /\ \E i, j \in DOMAIN drawn'[Owner[x]] :
              i < j /\ drawn'[Owner[x]][i] = x /\ drawn'[Owner[x]][j] = w
    BY <1>6, ChildrenAssumption DEF Earlier
  <2>2. CASE Owner[x] # k
    <3>1. Earlier(x, w)
      BY <1>3, <2>1, <2>2 DEF Earlier
    <3>2. \E i \in DOMAIN drawn[Owner[x]] : drawn[Owner[x]][i] = x
      BY <3>1 DEF Earlier
    <3>3. answer[x] \notin {Undrawn, Unasked}
      BY <2>1, <3>2 DEF DrawnKept
    <3>4. QED
      BY <2>1, <2>2, <3>1, <3>3
  <2>3. CASE Owner[x] = k
    <3>1. PICK i \in 1 .. n + 1, j \in 1 .. n + 1 : i < j /\ e[i] = x /\ e[j] = w
      BY <1>2, <1>4, <2>1, <2>3
    <3>2. i \in 1 .. n /\ d[i] = x
      BY <1>4, <3>1
    <3>3. x # u /\ answer[x] \notin {Undrawn, Unasked}
      BY <1>1, <1>4, <3>2
    <3>4. ASSUME w # u PROVE Earlier(x, w)
      <4>1. j \in 1 .. n /\ d[j] = w
        BY <1>4, <3>1, <3>4
      <4>2. \E a, b \in DOMAIN d : a < b /\ d[a] = x /\ d[b] = w
        BY <1>4, <3>1, <3>2, <4>1
      <4>3. QED
        BY <2>1, <2>3, <4>2 DEF Earlier, d
    <3>5. QED
      BY <2>1, <3>3, <3>4
  <2>4. QED
    BY <2>2, <2>3
<1>7. DrawnKept'
  <2>1. drawn' \in [Children -> Seq(Uids)]
    BY <1>1, <1>3, <1>4 DEF DrawnKept
  <2>2. ASSUME NEW l \in Children, NEW i \in DOMAIN drawn'[l]
        PROVE  Owner[drawn'[l][i]] = l /\ answer'[drawn'[l][i]] \notin {Undrawn, Unasked}
    <3>1. CASE l # k
      <4>1. drawn'[l] = drawn[l] /\ i \in DOMAIN drawn[l]
        BY <1>3, <2>2, <3>1
      <4>2. Owner[drawn[l][i]] = l /\ answer[drawn[l][i]] \notin {Undrawn, Unasked}
        BY <4>1 DEF DrawnKept
      <4>3. drawn[l][i] \in Uids
        BY <4>1, ElementOfSeq, LenProperties DEF DrawnKept
      <4>4. QED
        BY <1>5, <4>1, <4>2, <4>3 DEF Pending, Undrawn, Unasked
    <3>2. CASE l = k
      <4>1. i \in 1 .. n + 1 /\ drawn'[l][i] = e[i]
        BY <1>2, <1>4, <2>2, <3>2
      <4>2. CASE i = n + 1
        BY <1>4, <1>5, <3>2, <4>1, <4>2 DEF Pending, Undrawn, Unasked
      <4>3. CASE i \in 1 .. n
        BY <1>4, <1>5, <3>2, <4>1, <4>3 DEF Pending, Undrawn, Unasked
      <4>4. QED
        BY <1>4, <4>1, <4>2, <4>3
    <3>3. QED
      BY <3>1, <3>2
  <2>3. QED
    BY <2>1, <2>2 DEF DrawnKept
<1>8. QED
  BY <1>6, <1>7

LEMMA AsksKeeps ==
  ASSUME ProxyInv, ChannelInv', NEW u \in Uids, ChildReceive(u), Asks(u)
  PROVE  ProxyInv'
<1> DEFINE k == Owner[u]
           r == [type |-> "RECV", uid |-> u]
           l == remoteReceivers
<1>1. /\ OwnTypes /\ DrawnKept /\ ReceivesKept(outFile, l, inFile, lost) /\ StatusTells(outFile, inFile)
      /\ ToldInOrder(inFile)
  BY DEF ProxyInv
<1>2. /\ k \in Children /\ alive[k] /\ answer[u] = Undrawn /\ Emits(k, r) /\ r \in OutRecord
      /\ r.uid = u /\ answer' = [answer EXCEPT ![u] = Pending]
      /\ UNCHANGED <<channel, alive, inFile, lost>>
  BY ChildrenAssumption DEF ChildReceive, Asks, OutRecord
<1> HIDE DEF r
<1>3. /\ DrawnKept'
      /\ \A x, w \in Uids : Earlier(x, w)' =>
           /\ x # u /\ answer[x] \notin {Undrawn, Unasked} /\ Owner[x] = Owner[w]
           /\ w # u => Earlier(x, w)
  BY <1>1, ReceiveIsLast
<1>4. PICK out : out = outFile'
  OBVIOUS
<1>5. PICK n, f, g : n = Len(f) /\ f = outFile[k] /\ g = out[k]
  OBVIOUS
<1>6. /\ out \in [Children -> Seq(OutRecord)]
      /\ \A c \in Children : c # k => out[c] = outFile[c]
      /\ n \in Nat /\ DOMAIN f = 1 .. n /\ DOMAIN g = 1 .. n + 1
      /\ \A i \in 1 .. n : g[i] = f[i]
      /\ g[n + 1].uid = u
  BY <1>1, <1>2, <1>4, <1>5, Emitted
<1>7. \A w \in Uids : InFileOf(out, w) <=> InFileOf(outFile, w) \/ w = u
  BY <1>1, <1>2, <1>4, EmittedIs
<1>8. \A i \in DOMAIN g : i \in DOMAIN f \/ i = n + 1
  BY <1>6
<1>9. \A i \in DOMAIN f : g[i] = f[i] /\ i < n + 1
  BY <1>6
<1> HIDE DEF k, l
(* Before that the receive is nowhere.                                     *)
<1>10. /\ ~InFileOf(outFile, u) /\ ~InLine(l, u) /\ ~InFileOf(inFile, u) /\ ~Answered(u)
       /\ status[u] = "idle" /\ u \notin lost
  BY <1>1, <1>2 DEF ReceivesKept, WaitsKept, StatusTells, OnItsWayTo, Answered, Pending, Undrawn, Null
<1>11. /\ \A w \in Uids : answer'[w] = IF w = u THEN Pending ELSE answer[w]
       /\ \A w \in Uids : Answered(w)' <=> Answered(w)
       /\ \A w \in Uids : Over(w, lost)' <=> Over(w, lost)
  <2>1. \A w \in Uids : answer'[w] = IF w = u THEN Pending ELSE answer[w]
    BY <1>1, <1>2 DEF OwnTypes
  <2>2. \A w \in Uids : Answered(w)' <=> Answered(w)
    BY <1>10, <2>1 DEF Answered, Pending, Null
  <2>3. QED
    BY <1>2, <2>1, <2>2 DEF Over
<1>12. /\ \A w \in Uids : InFileOf(outFile, w)' <=> InFileOf(outFile, w) \/ w = u
       /\ \A w : InFileOf(inFile, w)' <=> InFileOf(inFile, w)
       /\ \A w : InLine(remoteReceivers, w)' <=> InLine(l, w)
  BY <1>2, <1>4, <1>7 DEF InFileOf, InLine, channel, l
<1>13. \A i \in DOMAIN f : f[i].uid # u
  BY <1>5, <1>10 DEF InFileOf, k
<1>14. OutKept(outFile)'
  <2>1. OutKept(outFile)
    BY <1>1 DEF ReceivesKept
  <2>2. \A i \in DOMAIN g : g[i].uid \in Uids => Owner[g[i].uid] = k
    BY <1>5, <1>6, <1>8, <1>9, <1>2, <2>1 DEF OutKept, k
  <2>3. \A i, j \in DOMAIN g : g[i].uid \in Uids /\ g[i].uid = g[j].uid => i = j
    BY <1>2, <1>5, <1>6, <1>8, <1>9, <1>13, <2>1 DEF OutKept
  <2>4. ASSUME NEW c \in Children, c # k
        PROVE  /\ \A i \in DOMAIN out[c] : out[c][i].uid \in Uids => Owner[out[c][i].uid] = c
               /\ \A i, j \in DOMAIN out[c] :
                    out[c][i].uid \in Uids /\ out[c][i].uid = out[c][j].uid => i = j
    BY <1>6, <2>1, <2>4 DEF OutKept
  <2>5. OutKept(out)
    BY <1>5, <2>2, <2>3, <2>4 DEF OutKept
  <2>6. QED
    BY <1>4, <2>5 DEF OutKept
<1>15. InKept(inFile)'
  BY <1>1, <1>2 DEF ReceivesKept, InKept
<1>16. WaitsKept(outFile, remoteReceivers, inFile, lost)'
  <2>1. WaitsKept(outFile, l, inFile, lost)
    BY <1>1 DEF ReceivesKept
  <2>2. QED
    BY <1>2, <1>10, <1>11, <1>12, <2>1 DEF WaitsKept, OnItsWayTo
<1>17. StagesInOrder(outFile, remoteReceivers, inFile, lost)'
  <2> SUFFICES ASSUME NEW x \in Uids, NEW w \in Uids, Earlier(x, w)'
               PROVE  /\ Answered(w)' => Over(x, lost)'
                      /\ InFileOf(inFile, w)' => Over(x, lost)' \/ InFileOf(inFile, x)'
                      /\ InLine(remoteReceivers, w)'
                           => Over(x, lost)' \/ InFileOf(inFile, x)' \/ InLine(remoteReceivers, x)'
                      /\ InFileOf(outFile, w)'
                           => Over(x, lost)' \/ OnItsWayTo(outFile, remoteReceivers, inFile, x)'
    BY DEF StagesInOrder
  <2>1. x # u /\ answer[x] \notin {Undrawn, Unasked} /\ Owner[x] = Owner[w] /\ (w # u => Earlier(x, w))
    BY <1>3
  <2>2. OnItsWayTo(outFile, remoteReceivers, inFile, x)' <=> OnItsWayTo(outFile, l, inFile, x)
    BY <1>12, <2>1 DEF OnItsWayTo
  <2>3. CASE w = u
    <3>1. Answered(x) \/ answer[x] = Pending
      <4>1. answer[x] \in Unasked .. MaxOffers
        BY <1>1 DEF OwnTypes
      <4>2. QED
        BY <2>1, <4>1 DEF Answered, Undrawn, Unasked, Pending, Null
    <3>2. Over(x, lost) \/ OnItsWayTo(outFile, l, inFile, x)
      BY <1>1, <1>2, <2>1, <2>3, <3>1 DEF ReceivesKept, WaitsKept, Over, k
    <3>3. QED
      BY <1>10, <1>11, <1>12, <2>2, <2>3, <3>2 DEF Over
  <2>4. CASE w # u
    <3>1. /\ Answered(w) => Over(x, lost)
          /\ InFileOf(inFile, w) => Over(x, lost) \/ InFileOf(inFile, x)
          /\ InLine(l, w) => Over(x, lost) \/ InFileOf(inFile, x) \/ InLine(l, x)
          /\ InFileOf(outFile, w) => Over(x, lost) \/ OnItsWayTo(outFile, l, inFile, x)
      BY <1>1, <2>1, <2>4 DEF ReceivesKept, StagesInOrder
    <3>2. QED
      BY <1>11, <1>12, <2>2, <2>4, <3>1
  <2>5. QED
    BY <2>3, <2>4
<1>18. OutInOrder(outFile)'
  <2>1. OutInOrder(outFile)
    BY <1>1 DEF ReceivesKept
  <2>2. ASSUME NEW c \in Children, NEW i \in DOMAIN out[c], NEW j \in DOMAIN out[c],
               out[c][i].uid \in Uids, out[c][j].uid \in Uids, Earlier(out[c][i].uid, out[c][j].uid)'
        PROVE  i < j
    <3> DEFINE x == out[c][i].uid
               w == out[c][j].uid
    <3>1. x # u /\ (w # u => Earlier(x, w))
      BY <1>3, <2>2
    <3>2. CASE c # k
      <4>1. out[c] = outFile[c] /\ w # u
        <5>1. out[c] = outFile[c]
          BY <1>6, <3>2
        <5>2. Owner[w] = c
          BY <1>1, <2>2, <5>1 DEF ReceivesKept, OutKept
        <5>3. QED
          BY <3>2, <5>1, <5>2 DEF k
      <4>2. QED
        BY <2>1, <2>2, <3>1, <4>1 DEF OutInOrder
    <3>3. CASE c = k
      <4>1. out[c] = g /\ i \in DOMAIN f /\ f[i].uid = x
        BY <1>5, <1>6, <1>8, <1>9, <2>2, <3>1, <3>3
      <4>2. CASE j = n + 1
        BY <1>9, <4>1, <4>2
      <4>3. CASE j \in DOMAIN f
        <5>1. f[j].uid = w /\ w # u
          BY <1>9, <1>13, <4>1, <4>3
        <5>2. QED
          BY <1>5, <2>1, <2>2, <3>1, <3>3, <4>1, <4>3, <5>1 DEF OutInOrder
      <4>4. QED
        BY <1>8, <2>2, <4>1, <4>2, <4>3
    <3>4. QED
      BY <3>2, <3>3
  <2>3. QED
    BY <1>4, <2>2 DEF OutInOrder
<1>19. LineInOrder(remoteReceivers)'
  <2>1. LineInOrder(l) /\ l \in Seq(Uids) /\ remoteReceivers' = l
    BY <1>1, <1>2, LineFacts DEF ReceivesKept, ProxyInv, l, channel
  <2>2. \A i \in DOMAIN l : l[i] \in Uids /\ l[i] # u
    <3>1. \A i \in DOMAIN l : l[i] \in Uids
      BY <2>1, ElementOfSeq, LenProperties
    <3>2. QED
      BY <1>10, <3>1 DEF InLine
  <2>3. QED
    BY <1>3, <2>1, <2>2 DEF LineInOrder
<1>20. InInOrder(inFile)'
  <2>1. InInOrder(inFile) /\ InKept(inFile) /\ inFile' = inFile
    BY <1>1, <1>2 DEF ReceivesKept
  <2>2. ASSUME NEW c \in Children, NEW i \in DOMAIN inFile[c]
        PROVE  inFile[c][i].uid \in Uids /\ inFile[c][i].uid # u
    <3>1. inFile[c] \in Seq(InRecord)
      BY <1>1 DEF OwnTypes
    <3>2. inFile[c][i] \in InRecord
      BY <2>2, <3>1, ElementOfSeq, LenProperties
    <3>3. inFile[c][i].uid \in Uids /\ Owner[inFile[c][i].uid] = c
      BY <2>1, <2>2, <3>2 DEF InRecord, InKept
    <3>4. QED
      BY <1>10, <3>3 DEF InFileOf
  <2>3. QED
    BY <1>3, <2>1, <2>2 DEF InInOrder
<1>21. ReceivesKept(outFile, remoteReceivers, inFile, lost)'
  BY <1>14, <1>15, <1>16, <1>17, <1>18, <1>19, <1>20 DEF ReceivesKept
<1>22. StatusTells(outFile, inFile)'
  <2>1. \A w \in Uids : answer'[w] = Undrawn => answer[w] = Undrawn
    BY <1>11 DEF Pending, Undrawn
  <2>2. status' = status
    BY <1>2 DEF channel
  <2>3. QED
    BY <1>1, <1>10, <1>11, <1>12, <2>1, <2>2 DEF StatusTells
<1>23. \A w \in Uids : \A a : Told(inFile, w, a)' => Told(inFile, w, a)
  BY <1>2, <1>11 DEF Told, Pending, Null
<1>24. ToldKept(inFile)'
  BY <1>2, <1>23, RestKeepsTold
<1>25. ToldInOrder(inFile)'
  <2> SUFFICES ASSUME NEW x \in Uids, NEW w \in Uids, NEW a \in Null .. MaxOffers,
                      NEW b \in Null .. MaxOffers,
                      Earlier(x, w)', Told(inFile, x, a)', Told(inFile, w, b)'
               PROVE  (a = Null => b = Null) /\ (b # Null => a < b)
    BY DEF ToldInOrder
  <2>1. Told(inFile, x, a) /\ Told(inFile, w, b)
    BY <1>23
  <2>2. w # u
    <3>1. Told(inFile, w, b) => Answered(w) \/ InFileOf(inFile, w)
      BY DEF Told, Answered, InFileOf
    <3>2. QED
      BY <1>10, <2>1, <3>1
  <2>3. QED
    BY <1>1, <1>3, <2>1, <2>2 DEF ToldInOrder
<1>26. OwnTypes'
  <2>1. answer' \in [Uids -> Unasked .. MaxOffers]
    <3>1. Pending \in Unasked .. MaxOffers
      BY OffersAssumption DEF Pending, Unasked
    <3>2. QED
      BY <1>1, <1>2, <3>1 DEF OwnTypes
  <2>2. QED
    BY <1>1, <1>2, <1>4, <1>6, <2>1 DEF OwnTypes
<1>27. QED
  BY <1>3, <1>21, <1>22, <1>24, <1>25, <1>26 DEF ProxyInv

(* It could not ask: the receive is over before it was on its way.         *)
LEMMA CannotAskKeeps ==
  ASSUME ProxyInv, ChannelInv', NEW u \in Uids, ChildReceive(u), CannotAsk(u)
  PROVE  ProxyInv'
<1>1. /\ answer[u] = Undrawn /\ answer' = [answer EXCEPT ![u] = Unasked]
      /\ UNCHANGED <<channel, alive, outFile, inFile, drawn, lost>>
  BY DEF ChildReceive, CannotAsk
<1>2. /\ OwnTypes /\ DrawnKept /\ ReceivesKept(outFile, remoteReceivers, inFile, lost)
      /\ StatusTells(outFile, inFile) /\ ToldInOrder(inFile)
  BY DEF ProxyInv
<1>3. /\ \A w \in Uids : answer'[w] = IF w = u THEN Unasked ELSE answer[w]
      /\ \A w \in Uids : (answer'[w] = Pending) <=> (answer[w] = Pending)
      /\ \A w \in Uids : answer'[w] = Undrawn => answer[w] = Undrawn
      /\ \A w \in Uids : Answered(w)' <=> Answered(w)
      /\ \A w \in Uids : Over(w, lost)' <=> Over(w, lost)
  <2>1. \A w \in Uids : answer'[w] = IF w = u THEN Unasked ELSE answer[w]
    BY <1>1, <1>2 DEF OwnTypes
  <2>2. \A w \in Uids : (answer'[w] = Pending) <=> (answer[w] = Pending)
    BY <1>1, <2>1 DEF Unasked, Undrawn, Pending
  <2>3. \A w \in Uids : answer'[w] = Undrawn => answer[w] = Undrawn
    BY <1>1, <2>1
  <2>4. \A w \in Uids : Answered(w)' <=> Answered(w)
    BY <1>1, <2>1 DEF Answered, Unasked, Undrawn, Null
  <2>5. \A w \in Uids : Over(w, lost)' <=> Over(w, lost)
    BY <1>1, <2>4 DEF Over
  <2>6. QED
    BY <2>1, <2>2, <2>3, <2>4, <2>5
<1>4. /\ \A w : InFileOf(outFile, w)' <=> InFileOf(outFile, w)
      /\ \A w : InFileOf(inFile, w)' <=> InFileOf(inFile, w)
      /\ \A w : InLine(remoteReceivers, w)' <=> InLine(remoteReceivers, w)
      /\ \A w, x : Earlier(x, w)' <=> Earlier(x, w)
  BY <1>1 DEF InFileOf, InLine, Earlier, channel
<1>5. ReceivesKept(outFile, remoteReceivers, inFile, lost)'
  <2>1. /\ OutKept(outFile)' /\ OutInOrder(outFile)' /\ LineInOrder(remoteReceivers)'
        /\ InKept(inFile)' /\ InInOrder(inFile)'
    BY <1>1, <1>2, <1>4 DEF ReceivesKept, OutKept, OutInOrder, LineInOrder, InKept, InInOrder, channel
  <2>2. WaitsKept(outFile, remoteReceivers, inFile, lost)'
    BY <1>1, <1>2, <1>3, <1>4 DEF ReceivesKept, WaitsKept, OnItsWayTo
  <2>3. StagesInOrder(outFile, remoteReceivers, inFile, lost)'
    BY <1>2, <1>3, <1>4 DEF ReceivesKept, StagesInOrder, OnItsWayTo
  <2>4. QED
    BY <2>1, <2>2, <2>3 DEF ReceivesKept
<1>6. StatusTells(outFile, inFile)'
  <2>1. status' = status
    BY <1>1 DEF channel
  <2>2. QED
    BY <1>2, <1>3, <1>4, <2>1 DEF StatusTells
<1>7. ASSUME NEW w \in Uids, NEW a, Told(inFile, w, a)' PROVE Told(inFile, w, a)
  <2>1. ~(answer'[u] >= Null)
    BY <1>3 DEF Unasked, Null
  <2>2. \/ answer'[w] = a /\ a >= Null
        \/ \E i \in DOMAIN inFile[Owner[w]] : inFile[Owner[w]][i].uid = w /\ inFile[Owner[w]][i].v = a
    BY <1>1, <1>7 DEF Told
  <2>3. CASE answer'[w] = a /\ a >= Null
    <3>1. w # u
      BY <2>1, <2>3
    <3>2. QED
      BY <1>3, <2>3, <3>1 DEF Told
  <2>4. QED
    BY <2>2, <2>3 DEF Told
<1>8. ToldKept(inFile)'
  BY <1>1, <1>7, RestKeepsTold
<1>9. ToldInOrder(inFile)'
  BY <1>2, <1>4, <1>7 DEF ToldInOrder
<1>10. OwnTypes'
  <2>1. Unasked \in Unasked .. MaxOffers
    BY OffersAssumption DEF Unasked
  <2>2. QED
    BY <1>1, <1>2, <2>1 DEF OwnTypes
<1>11. DrawnKept'
  <2>1. ASSUME NEW c \in Children, NEW i \in DOMAIN drawn[c]
        PROVE  Owner[drawn[c][i]] = c /\ answer'[drawn[c][i]] \notin {Undrawn, Unasked}
    <3>1. drawn[c][i] \in Uids /\ drawn[c][i] # u
      BY <1>1, <1>2, <2>1, ElementOfSeq, LenProperties DEF DrawnKept
    <3>2. QED
      BY <1>2, <1>3, <2>1, <3>1 DEF DrawnKept
  <2>2. QED
    BY <1>1, <1>2, <2>1 DEF DrawnKept
<1>12. QED
  BY <1>5, <1>6, <1>8, <1>9, <1>10, <1>11 DEF ProxyInv

(* A child reads the first record of its file.                             *)
LEMMA ChildReadsIs ==
  ASSUME OwnTypes, InKept(inFile), InInOrder(inFile), NEW k \in Children, ChildReads(k),
         NEW in, in = inFile', NEW u, u = Head(inFile[k]).uid, NEW v, v = Head(inFile[k]).v
  PROVE  /\ in \in [Children -> Seq(InRecord)] /\ InKept(in) /\ InInOrder(in)
         /\ u \in Uids /\ Owner[u] = k /\ v \in Null .. MaxOffers
         /\ \A w \in Uids : InFileOf(inFile, w) <=> InFileOf(in, w) \/ w = u
         /\ ~InFileOf(in, u)
         /\ \A w \in Uids : Earlier(w, u) => ~InFileOf(inFile, w)
         /\ \E i \in DOMAIN inFile[k] : inFile[k][i].uid = u /\ inFile[k][i].v = v
         /\ \A c \in Children : \A i \in DOMAIN in[c] : \E j \in DOMAIN inFile[c] : in[c][i] = inFile[c][j]
<1> DEFINE f == inFile[k]
           g == Tail(f)
<1>1. /\ inFile \in [Children -> Seq(InRecord)] /\ f # <<>> /\ in = [inFile EXCEPT ![k] = Tail(@)]
  BY DEF OwnTypes, ChildReads
<1>2. /\ f \in Seq(InRecord) /\ g \in Seq(InRecord)
      /\ Len(f) \in Nat /\ Len(f) # 0 /\ Len(g) = Len(f) - 1 /\ Head(f) = f[1]
      /\ DOMAIN f = 1 .. Len(f) /\ DOMAIN g = 1 .. Len(g)
      /\ \A i \in 1 .. Len(g) : g[i] = f[i + 1]
      /\ \A i \in DOMAIN f : f[i] \in InRecord
  <2>1. f \in Seq(InRecord)
    BY <1>1
  <2>2. Len(f) # 0
    BY <1>1, <2>1, EmptySeq
  <2>3. QED
    BY <1>1, <2>1, <2>2, HeadTailProperties, LenProperties, ElementOfSeq
<1>3. in[k] = g /\ (\A c \in Children : c # k => in[c] = inFile[c])
      /\ in \in [Children -> Seq(InRecord)]
  BY <1>1, <1>2
<1>4. f[1].uid = u /\ f[1].v = v
  BY <1>2
<1>5. /\ \A i \in DOMAIN f : Owner[f[i].uid] = k
      /\ \A i, j \in DOMAIN f : f[i].uid = f[j].uid => i = j
      /\ \A i, j \in DOMAIN f : Earlier(f[i].uid, f[j].uid) => i < j
  BY DEF InKept, InInOrder
<1>6. PICK h : h = f
  OBVIOUS
<1>7. PICK t : t = g
  OBVIOUS
<1> HIDE DEF f, g
<1>8. \A i \in DOMAIN t : i + 1 \in DOMAIN h /\ t[i] = h[i + 1] /\ i + 1 # 1 /\ i \in Nat
  BY <1>2, <1>6, <1>7
<1>9. 1 \in DOMAIN h /\ \A i \in DOMAIN h : i = 1 \/ (i - 1 \in DOMAIN t /\ h[i] = t[i - 1])
  BY <1>2, <1>6, <1>7
<1>10. /\ \A i \in DOMAIN t : Owner[t[i].uid] = k
       /\ \A i, j \in DOMAIN t : t[i].uid = t[j].uid => i = j
       /\ \A i, j \in DOMAIN t : Earlier(t[i].uid, t[j].uid) => i < j
  <2>1. \A i, j \in DOMAIN t : (i + 1 = j + 1 => i = j) /\ (i + 1 < j + 1 => i < j)
    BY <1>8
  <2>2. QED
    BY <1>5, <1>6, <1>8, <2>1
<1>11. InKept(in) /\ InInOrder(in)
  <2>1. \A c \in Children : (c = k /\ in[c] = t) \/ (c # k /\ in[c] = inFile[c])
    BY <1>3, <1>7
  <2>2. InKept(in)
    BY <1>10, <2>1 DEF InKept
  <2>3. InInOrder(in)
    BY <1>10, <2>1 DEF InInOrder
  <2>4. QED
    BY <2>2, <2>3
<1>12. u \in Uids /\ Owner[u] = k /\ v \in Null .. MaxOffers
  <2>1. f[1] \in InRecord /\ 1 \in DOMAIN f
    BY <1>2, <1>6, <1>9
  <2>2. QED
    BY <1>4, <1>5, <2>1 DEF InRecord
<1>13. ASSUME NEW w \in Uids PROVE InFileOf(inFile, w) <=> InFileOf(in, w) \/ w = u
  <2>1. CASE Owner[w] = k
    <3>1. (\E i \in DOMAIN h : h[i].uid = w) <=> (\E i \in DOMAIN t : t[i].uid = w) \/ w = u
      BY <1>4, <1>6, <1>8, <1>9
    <3>2. QED
      BY <1>3, <1>6, <1>7, <2>1, <3>1 DEF InFileOf, f
  <2>2. CASE Owner[w] # k
    <3>1. Owner[w] \in Children
      BY ChildrenAssumption
    <3>2. QED
      BY <1>3, <1>12, <2>2, <3>1 DEF InFileOf
  <2>3. QED
    BY <2>1, <2>2
<1>14. ~InFileOf(in, u)
  <2>1. \A i \in DOMAIN t : t[i].uid # u
    BY <1>4, <1>5, <1>6, <1>8, <1>9
  <2>2. QED
    BY <1>3, <1>7, <1>12, <2>1 DEF InFileOf
<1>15. ASSUME NEW w \in Uids, Earlier(w, u), InFileOf(inFile, w) PROVE FALSE
  <2>1. PICK i \in DOMAIN f : f[i].uid = w
    BY <1>12, <1>15 DEF InFileOf, Earlier, f
  <2>2. i < 1
    BY <1>4, <1>5, <1>6, <1>9, <1>15, <2>1
  <2>3. QED
    BY <1>2, <2>1, <2>2
<1>16. \E i \in DOMAIN inFile[k] : inFile[k][i].uid = u /\ inFile[k][i].v = v
  BY <1>4, <1>6, <1>9 DEF f
<1>17. \A c \in Children : \A i \in DOMAIN in[c] : \E j \in DOMAIN inFile[c] : in[c][i] = inFile[c][j]
  <2>1. \A i \in DOMAIN in[k] : \E j \in DOMAIN inFile[k] : in[k][i] = inFile[k][j]
    BY <1>3, <1>6, <1>7, <1>8 DEF f
  <2>2. QED
    BY <1>3, <2>1
<1>18. QED
  BY <1>3, <1>11, <1>12, <1>13, <1>14, <1>15, <1>16, <1>17

LEMMA ChildReadsKeeps ==
  ASSUME ProxyInv, ChannelInv', NEW k \in Children, ChildReads(k)
  PROVE  ProxyInv'
<1> DEFINE l == remoteReceivers
<1>1. /\ OwnTypes /\ DrawnKept /\ ReceivesKept(outFile, l, inFile, lost) /\ StatusTells(outFile, inFile)
      /\ ToldInOrder(inFile)
  BY DEF ProxyInv
<1>2. PICK in, u, v : in = inFile' /\ u = Head(inFile[k]).uid /\ v = Head(inFile[k]).v
  OBVIOUS
<1>3. /\ in \in [Children -> Seq(InRecord)] /\ InKept(in) /\ InInOrder(in)
      /\ u \in Uids /\ Owner[u] = k /\ v \in Null .. MaxOffers
      /\ \A w \in Uids : InFileOf(inFile, w) <=> InFileOf(in, w) \/ w = u
      /\ ~InFileOf(in, u)
      /\ \A w \in Uids : Earlier(w, u) => ~InFileOf(inFile, w)
      /\ \E i \in DOMAIN inFile[k] : inFile[k][i].uid = u /\ inFile[k][i].v = v
      /\ \A c \in Children : \A i \in DOMAIN in[c] : \E j \in DOMAIN inFile[c] : in[c][i] = inFile[c][j]
  <2>1. InKept(inFile) /\ InInOrder(inFile)
    BY <1>1 DEF ReceivesKept
  <2>2. QED
    BY <1>1, <1>2, <2>1, ChildReadsIs
<1>4. UNCHANGED <<channel, alive, outFile, drawn>>
  BY DEF ChildReads
<1> HIDE DEF l
<1>5. /\ answer[u] = Pending /\ ~InFileOf(outFile, u) /\ ~InLine(l, u)
      /\ status[u] \in {"value", "null"}
  <2>1. InFileOf(inFile, u)
    BY <1>3
  <2>2. answer[u] = Pending
    BY <1>1, <1>3, <2>1 DEF ReceivesKept, WaitsKept, OnItsWayTo
  <2>3. status[u] \in {"value", "null"} /\ ~InFileOf(outFile, u)
    BY <1>1, <1>3, <2>1 DEF StatusTells
  <2>4. status[u] = "pending" <=> InLine(l, u)
    BY <1>3, LineFacts DEF ProxyInv, l
  <2>5. QED
    BY <2>2, <2>3, <2>4
<1>6. \/ answer' = [answer EXCEPT ![u] = v] /\ lost' = lost
      \/ answer' = answer /\ lost' = lost \cup {u}
  BY <1>2, <1>5 DEF ChildReads, Completes, Discards, Loses
<1>7. /\ \A w \in Uids : w # u => answer'[w] = answer[w] /\ (w \in lost' <=> w \in lost)
      /\ \A w \in Uids : Over(w, lost)' <=> Over(w, lost) \/ w = u
      /\ \A w \in Uids : Answered(w) => Answered(w)'
      /\ \/ answer'[u] = v /\ Answered(u)' /\ u \notin lost'
         \/ answer'[u] = Pending /\ ~Answered(u)' /\ u \in lost'
      /\ v >= Null /\ v # Pending /\ v \notin {Undrawn, Unasked}
  <2>1. v >= Null /\ v # Pending /\ v \notin {Undrawn, Unasked}
    BY <1>3 DEF Null, Pending, Undrawn, Unasked
  <2>2. u \notin lost
    BY <1>1, <1>3 DEF ReceivesKept, WaitsKept, OnItsWayTo
  <2>3. ~Answered(u) /\ ~(Pending >= Null)
    BY <1>5 DEF Answered, Pending, Null
  <2>4. CASE answer' = [answer EXCEPT ![u] = v] /\ lost' = lost
    <3>1. \A w \in Uids : answer'[w] = IF w = u THEN v ELSE answer[w]
      BY <1>1, <2>4 DEF OwnTypes
    <3>2. \A w \in Uids : Answered(w)' <=> Answered(w) \/ w = u
      BY <2>1, <3>1 DEF Answered
    <3>3. QED
      BY <1>3, <2>1, <2>2, <2>4, <3>1, <3>2 DEF Over
  <2>5. CASE answer' = answer /\ lost' = lost \cup {u}
    <3>1. \A w \in Uids : Answered(w)' <=> Answered(w)
      BY <2>5 DEF Answered
    <3>2. QED
      BY <1>3, <1>5, <2>1, <2>3, <2>5, <3>1 DEF Over
  <2>6. QED
    BY <1>6, <2>4, <2>5
<1>8. /\ \A w : InFileOf(outFile, w)' <=> InFileOf(outFile, w)
      /\ \A w : InFileOf(inFile, w)' <=> InFileOf(in, w)
      /\ \A w : InLine(remoteReceivers, w)' <=> InLine(l, w)
      /\ \A w, x : Earlier(x, w)' <=> Earlier(x, w)
  BY <1>2, <1>4 DEF InFileOf, InLine, Earlier, channel, l
<1>9. ReceivesKept(outFile, remoteReceivers, inFile, lost)'
  <2>1. OutKept(outFile)' /\ OutInOrder(outFile)' /\ LineInOrder(remoteReceivers)'
    BY <1>1, <1>4, <1>8 DEF ReceivesKept, OutKept, OutInOrder, LineInOrder, channel, l
  <2>2. InKept(inFile)' /\ InInOrder(inFile)'
    BY <1>2, <1>3, <1>8 DEF InKept, InInOrder
  <2>3. WaitsKept(outFile, remoteReceivers, inFile, lost)'
    <3>1. WaitsKept(outFile, l, inFile, lost)
      BY <1>1 DEF ReceivesKept
    <3>2. alive' = alive
      BY <1>4
    <3>3. ASSUME NEW w \in Uids, w # u
          PROVE  /\ OnItsWayTo(outFile, remoteReceivers, inFile, w)'
                      => answer'[w] = Pending /\ w \notin lost'
                 /\ answer'[w] = Pending /\ alive'[Owner[w]]
                      => OnItsWayTo(outFile, remoteReceivers, inFile, w)' \/ w \in lost'
                 /\ w \in lost' => answer'[w] = Pending
      <4>1. OnItsWayTo(outFile, remoteReceivers, inFile, w)' <=> OnItsWayTo(outFile, l, inFile, w)
        BY <1>3, <1>8, <3>3 DEF OnItsWayTo
      <4>2. QED
        BY <1>7, <3>1, <3>2, <3>3, <4>1 DEF WaitsKept
    <3>4. /\ ~OnItsWayTo(outFile, remoteReceivers, inFile, u)'
          /\ answer'[u] = Pending => u \in lost'
          /\ u \in lost' => answer'[u] = Pending
      BY <1>3, <1>5, <1>7, <1>8 DEF OnItsWayTo
    <3>5. QED
      BY <1>3, <3>3, <3>4 DEF WaitsKept
  <2>4. StagesInOrder(outFile, remoteReceivers, inFile, lost)'
    <3> SUFFICES ASSUME NEW x \in Uids, NEW w \in Uids, Earlier(x, w)'
                 PROVE  /\ Answered(w)' => Over(x, lost)'
                        /\ InFileOf(inFile, w)' => Over(x, lost)' \/ InFileOf(inFile, x)'
                        /\ InLine(remoteReceivers, w)'
                             => Over(x, lost)' \/ InFileOf(inFile, x)' \/ InLine(remoteReceivers, x)'
                        /\ InFileOf(outFile, w)'
                             => Over(x, lost)' \/ OnItsWayTo(outFile, remoteReceivers, inFile, x)'
      BY DEF StagesInOrder
    <3>1. Earlier(x, w)
      BY <1>8
    <3>2. /\ Answered(w) => Over(x, lost)
          /\ InFileOf(inFile, w) => Over(x, lost) \/ InFileOf(inFile, x)
          /\ InLine(l, w) => Over(x, lost) \/ InFileOf(inFile, x) \/ InLine(l, x)
          /\ InFileOf(outFile, w) => Over(x, lost) \/ OnItsWayTo(outFile, l, inFile, x)
      BY <1>1, <3>1 DEF ReceivesKept, StagesInOrder
    <3>3. w = u => Over(x, lost)
      BY <1>3, <3>1, <3>2
    <3>4. OnItsWayTo(outFile, l, inFile, x)
            => x = u \/ OnItsWayTo(outFile, remoteReceivers, inFile, x)'
      BY <1>3, <1>8 DEF OnItsWayTo
    <3>5. QED
      <4>1. Answered(w)' => Answered(w) \/ w = u
        BY <1>7 DEF Over, Answered
      <4>2. QED
        BY <1>3, <1>7, <1>8, <3>2, <3>3, <3>4, <4>1
  <2>5. QED
    BY <2>1, <2>2, <2>3, <2>4 DEF ReceivesKept
<1>10. StatusTells(outFile, inFile)'
  <2>1. \A w \in Uids : answer'[w] = Undrawn => answer[w] = Undrawn
    BY <1>3, <1>7 DEF Pending, Undrawn
  <2>2. status' = status
    BY <1>4 DEF channel
  <2>3. \A w \in Uids : Answered(w)' => Answered(w) \/ w = u
    BY <1>7 DEF Answered
  <2>4. QED
    BY <1>1, <1>3, <1>5, <1>8, <2>1, <2>2, <2>3 DEF StatusTells
<1>11. ASSUME NEW w \in Uids, NEW a, Told(inFile, w, a)' PROVE Told(inFile, w, a)
  <2>1. \/ answer'[w] = a /\ a >= Null
        \/ \E i \in DOMAIN in[Owner[w]] : in[Owner[w]][i].uid = w /\ in[Owner[w]][i].v = a
    BY <1>2, <1>11 DEF Told
  <2>2. CASE answer'[w] = a /\ a >= Null
    <3>1. w = u => a = v
      BY <1>7, <2>2 DEF Answered
    <3>2. QED
      BY <1>3, <1>7, <2>2, <3>1 DEF Told
  <2>3. CASE \E i \in DOMAIN in[Owner[w]] : in[Owner[w]][i].uid = w /\ in[Owner[w]][i].v = a
    <3>1. Owner[w] \in Children
      BY ChildrenAssumption
    <3>2. PICK i \in DOMAIN in[Owner[w]] : in[Owner[w]][i].uid = w /\ in[Owner[w]][i].v = a
      BY <2>3
    <3>3. PICK j \in DOMAIN inFile[Owner[w]] : in[Owner[w]][i] = inFile[Owner[w]][j]
      BY <1>3, <3>1
    <3>4. QED
      BY <3>2, <3>3 DEF Told
  <2>4. QED
    BY <2>1, <2>2, <2>3
<1>12. ToldKept(inFile)'
  BY <1>4, <1>11, RestKeepsTold
<1>13. ToldInOrder(inFile)'
  <2> SUFFICES ASSUME NEW x \in Uids, NEW w \in Uids, NEW a \in Null .. MaxOffers,
                      NEW b \in Null .. MaxOffers,
                      Earlier(x, w)', Told(inFile, x, a)', Told(inFile, w, b)'
               PROVE  (a = Null => b = Null) /\ (b # Null => a < b)
    BY DEF ToldInOrder
  <2>1. Told(inFile, x, a) /\ Told(inFile, w, b)
    BY <1>11
  <2>2. QED
    BY <1>1, <1>8, <2>1 DEF ToldInOrder
<1>14. OwnTypes'
  <2>1. v \in Unasked .. MaxOffers
    BY <1>3 DEF Null, Unasked
  <2>2. answer' \in [Uids -> Unasked .. MaxOffers] /\ lost' \subseteq Uids
    BY <1>1, <1>3, <1>6, <2>1 DEF OwnTypes
  <2>3. QED
    BY <1>1, <1>2, <1>3, <1>4, <2>2 DEF OwnTypes
<1>15. DrawnKept'
  <2>1. drawn' = drawn
    BY <1>4
  <2>2. ASSUME NEW c \in Children, NEW i \in DOMAIN drawn[c]
        PROVE  Owner[drawn[c][i]] = c /\ answer'[drawn[c][i]] \notin {Undrawn, Unasked}
    <3>1. drawn[c][i] \in Uids
      BY <1>1, <2>2, ElementOfSeq, LenProperties DEF DrawnKept
    <3>2. Pending \notin {Undrawn, Unasked}
      BY DEF Pending, Undrawn, Unasked
    <3>3. QED
      BY <1>1, <1>7, <2>2, <3>1, <3>2 DEF DrawnKept
  <2>3. QED
    BY <1>1, <2>1, <2>2 DEF DrawnKept
<1>16. QED
  BY <1>9, <1>10, <1>12, <1>13, <1>14, <1>15 DEF ProxyInv

-----------------------------------------------------------------------------
(* Together.                                                               *)
LEMMA ProxyInit == Init => ProxyInv
<1> SUFFICES ASSUME Init PROVE ProxyInv
  OBVIOUS
<1>1. /\ remoteReceivers = <<>> /\ got = <<>>
      /\ status = [c \in Callers \cup Uids |-> "idle"]
  BY DEF Init, Parent!Init, Parent!Everyone
<1>2. /\ alive = [k \in Children |-> TRUE] /\ outFile = [k \in Children |-> <<>>]
      /\ inFile = [k \in Children |-> <<>>] /\ answer = [u \in Uids |-> Undrawn]
      /\ drawn = [k \in Children |-> <<>>] /\ lost = {}
  BY DEF Init
<1>3. \A S : <<>> \in Seq(S)
  OBVIOUS
<1>4. DOMAIN <<>> = {}
  OBVIOUS
<1>5. \A k \in Children : DOMAIN outFile[k] = {} /\ DOMAIN inFile[k] = {} /\ DOMAIN drawn[k] = {}
  BY <1>2, <1>4
<1>6. \A u \in Uids : Owner[u] \in Children
  BY ChildrenAssumption
<1>7. \A u \in Uids : /\ ~InFileOf(outFile, u) /\ ~InFileOf(inFile, u) /\ ~InLine(remoteReceivers, u)
                      /\ answer[u] = Undrawn /\ ~Answered(u) /\ u \notin lost
  <2>1. \A u \in Uids : answer[u] = Undrawn /\ u \notin lost
    BY <1>2
  <2>2. QED
    BY <1>1, <1>4, <1>5, <1>6, <2>1 DEF InFileOf, InLine, Answered, Undrawn, Null
<1>8. OwnTypes
  <2>1. Undrawn \in Unasked .. MaxOffers
    BY OffersAssumption DEF Undrawn, Unasked
  <2>2. QED
    BY <1>2, <1>3, <2>1 DEF OwnTypes
<1>9. DrawnKept
  BY <1>2, <1>3, <1>5 DEF DrawnKept
<1>10. \A u, w \in Uids : ~Earlier(u, w)
  BY <1>5, <1>6 DEF Earlier
<1>11. ReceivesKept(outFile, remoteReceivers, inFile, lost)
  <2>1. OutKept(outFile) /\ InKept(inFile) /\ OutInOrder(outFile) /\ InInOrder(inFile)
    BY <1>5 DEF OutKept, InKept, OutInOrder, InInOrder
  <2>2. LineInOrder(remoteReceivers)
    BY <1>1, <1>4 DEF LineInOrder
  <2>3. WaitsKept(outFile, remoteReceivers, inFile, lost)
    BY <1>7 DEF WaitsKept, OnItsWayTo, Undrawn, Pending
  <2>4. StagesInOrder(outFile, remoteReceivers, inFile, lost)
    BY <1>10 DEF StagesInOrder
  <2>5. QED
    BY <2>1, <2>2, <2>3, <2>4 DEF ReceivesKept
<1>12. StatusTells(outFile, inFile)
  BY <1>1, <1>7 DEF StatusTells
<1>13. \A u \in Uids : \A a : ~Told(inFile, u, a)
  BY <1>5, <1>6, <1>7 DEF Told, Answered
<1>14. ToldKept(inFile) /\ ToldInOrder(inFile)
  BY <1>13 DEF ToldKept, ToldInOrder
<1>15. QED
  BY <1>8, <1>9, <1>11, <1>12, <1>14, ChannelInit DEF ProxyInv

LEMMA ProxyStep == ProxyInv /\ [Next]_vars => ProxyInv'
<1> SUFFICES ASSUME ProxyInv, [Next]_vars PROVE ProxyInv'
  OBVIOUS
<1>1. ChannelInv'
  BY ChannelStep DEF ProxyInv
<1>2. ASSUME NEW c \in Callers, LocalSend(c) PROVE ProxyInv'
  BY <1>1, <1>2, SendServes, ParentCalls DEF LocalSend, ProxyInv
<1>3. ASSUME NEW c \in Callers, LocalReceive(c) PROVE ProxyInv'
  BY <1>1, <1>3, LocalReceiveKeeps
<1>4. CASE Unplug
  BY <1>1, <1>4, CloseServes, ParentCalls DEF Unplug, ProxyInv
<1>5. ASSUME NEW k \in Children,
             ParentReads(k) \/ TailStops(k) \/ ChildSend(k) \/ ChildReads(k) \/ ChildDies(k)
      PROVE  ProxyInv'
  BY <1>1, <1>5, ParentReadsKeeps, TailStopsKeeps, ChildSendKeeps, ChildReadsKeeps, ChildDiesKeeps
<1>6. ASSUME NEW u \in Uids, ChildReceive(u) PROVE ProxyInv'
  BY <1>1, <1>6, AsksKeeps, CannotAskKeeps DEF ChildReceive
<1>7. CASE UNCHANGED vars
  <2>1. UNCHANGED <<channel, alive, outFile, inFile, answer, drawn, lost>>
    BY <1>7 DEF vars, children
  <2>2. ReceivesKept(outFile, remoteReceivers, inFile, lost)'
    BY <2>1, ReceivesStay DEF ProxyInv, channel
  <2>3. ToldKept(inFile)' /\ ToldInOrder(inFile)'
    <3>1. \A u \in Uids : \A a : Told(inFile, u, a)' => Told(inFile, u, a)
      BY <2>1 DEF Told
    <3>2. ToldInOrder(inFile)'
      BY <2>1, ToldStays DEF ProxyInv
    <3>3. QED
      BY <2>1, <3>1, <3>2, RestKeepsTold
  <2>4. StatusTells(outFile, inFile)'
    BY <2>1 DEF ProxyInv, StatusTells, InFileOf, Answered, channel
  <2>5. OwnTypes'
    BY <2>1 DEF ProxyInv, OwnTypes
  <2>6. DrawnKept'
    BY <2>1, DrawnStays DEF ProxyInv
  <2>7. QED
    BY <1>1, <2>2, <2>3, <2>4, <2>5, <2>6 DEF ProxyInv
<1>8. CASE Next
  BY <1>2, <1>3, <1>4, <1>5, <1>6, <1>8 DEF Next
<1>9. QED
  BY <1>7, <1>8

LEMMA ProxyCorrect == Spec => []ProxyInv
  BY ProxyInit, ProxyStep, PTL DEF Spec

(* TypeOK: of the channel, the files and what the children keep.           *)
THEOREM TypeCorrect == Spec => []TypeOK
<1>1. ProxyInv => TypeOK
  <2> SUFFICES ASSUME ProxyInv PROVE TypeOK
    OBVIOUS
  <2>1. Parent!TypeOK
    BY SameTypes DEF ProxyInv, ChannelInv, P!ParkedInv, P!OrderInv
  <2>2. ASSUME NEW k \in Children PROVE drawn[k] \in Seq(Of(k))
    <3>1. drawn[k] \in Seq(Uids)
      BY DEF ProxyInv, DrawnKept
    <3>2. Len(drawn[k]) \in Nat /\ DOMAIN drawn[k] = 1 .. Len(drawn[k])
          /\ \A i \in 1 .. Len(drawn[k]) : drawn[k][i] \in Uids
      BY <3>1, LenProperties, ElementOfSeq
    <3>3. \A i \in 1 .. Len(drawn[k]) : drawn[k][i] \in Of(k)
      BY <3>2 DEF ProxyInv, DrawnKept, Of
    <3>4. drawn[k] \in [1 .. Len(drawn[k]) -> Of(k)]
      BY <3>1, <3>3, LenProperties
    <3>5. QED
      BY <3>2, <3>4, SeqDef
  <2>3. QED
    BY <2>1, <2>2 DEF ProxyInv, OwnTypes, OutRecord, InRecord, TypeOK
<1>2. QED
  BY <1>1, ProxyCorrect, PTL

(* At most one place: none or one.                                         *)
LEMMA NoneOrOne ==
  ASSUME NEW I, \A i, j \in I : i = j
  PROVE  Cardinality(I) = IF I = {} THEN 0 ELSE 1
<1>1. CASE I = {}
  BY <1>1, FS_EmptySet
<1>2. CASE I # {}
  <2>1. PICK i \in I : TRUE
    BY <1>2
  <2>2. I = {i}
    BY <2>1
  <2>3. QED
    BY <1>2, <2>2, FS_Singleton
<1>3. QED
  BY <1>1, <1>2

(* EveryRemoteWaitIsCarried: a receive a living child waits for is in      *)
(* exactly one place on its way, or else its answer was not written or did *)
(* not run and it is in none; and an answered one is in none.              *)
THEOREM EveryRemoteWaitIsCarriedCorrect == Spec => []EveryRemoteWaitIsCarried
<1>1. ProxyInv => EveryRemoteWaitIsCarried
  <2> SUFFICES ASSUME ProxyInv, NEW u \in Uids, alive[Owner[u]]
               PROVE  /\ Asked(u) + Registered(u) + OnItsWay(u)
                           = IF answer[u] = Pending /\ u \notin lost THEN 1 ELSE 0
                      /\ u \in lost => answer[u] = Pending
    BY DEF EveryRemoteWaitIsCarried
  <2>1. Asked(u) = IF InFileOf(outFile, u) THEN 1 ELSE 0
    <3>1. PICK I : I = {i \in DOMAIN outFile[Owner[u]] : outFile[Owner[u]][i].uid = u}
      OBVIOUS
    <3>2. \A i, j \in I : i = j
      BY <3>1, ChildrenAssumption DEF ProxyInv, ReceivesKept, OutKept
    <3>3. I = {} <=> ~InFileOf(outFile, u)
      BY <3>1 DEF InFileOf
    <3>4. Cardinality(I) = IF I = {} THEN 0 ELSE 1
      BY <3>2, NoneOrOne
    <3>5. QED
      BY <3>1, <3>3, <3>4 DEF Asked
  <2>2. Registered(u) = IF InLine(remoteReceivers, u) THEN 1 ELSE 0
    <3>1. PICK I : I = {i \in DOMAIN remoteReceivers : remoteReceivers[i] = u}
      OBVIOUS
    <3>2. \A i, j \in I : i = j
      BY <3>1, LineFacts DEF ProxyInv, P!Once
    <3>3. I = {} <=> ~InLine(remoteReceivers, u)
      BY <3>1 DEF InLine
    <3>4. Cardinality(I) = IF I = {} THEN 0 ELSE 1
      BY <3>2, NoneOrOne
    <3>5. QED
      BY <3>1, <3>3, <3>4 DEF Registered
  <2>3. OnItsWay(u) = IF InFileOf(inFile, u) THEN 1 ELSE 0
    <3>1. PICK I : I = {i \in DOMAIN inFile[Owner[u]] : inFile[Owner[u]][i].uid = u}
      OBVIOUS
    <3>2. \A i, j \in I : i = j
      BY <3>1, ChildrenAssumption DEF ProxyInv, ReceivesKept, InKept
    <3>3. I = {} <=> ~InFileOf(inFile, u)
      BY <3>1 DEF InFileOf
    <3>4. Cardinality(I) = IF I = {} THEN 0 ELSE 1
      BY <3>2, NoneOrOne
    <3>5. QED
      BY <3>1, <3>3, <3>4 DEF OnItsWay
  <2>4. /\ ~(InFileOf(outFile, u) /\ InLine(remoteReceivers, u))
        /\ ~(InFileOf(outFile, u) /\ InFileOf(inFile, u))
        /\ ~(InLine(remoteReceivers, u) /\ InFileOf(inFile, u))
    <3>1. status[u] = "pending" <=> InLine(remoteReceivers, u)
      BY LineFacts DEF ProxyInv
    <3>2. QED
      BY <3>1 DEF ProxyInv, StatusTells
  <2>5. /\ OnItsWayTo(outFile, remoteReceivers, inFile, u) <=> answer[u] = Pending /\ u \notin lost
        /\ u \in lost => answer[u] = Pending
    BY DEF ProxyInv, ReceivesKept, WaitsKept
  <2>6. QED
    BY <2>1, <2>2, <2>3, <2>4, <2>5 DEF OnItsWayTo
<1>2. QED
  BY <1>1, ProxyCorrect, PTL

(* AnsweredInOrder: but for those whose answer was lost, the receives of a *)
(* child are answered in the order in which it made them, with later       *)
(* values for later ones and no value after null.                          *)
THEOREM AnsweredInOrderCorrect == Spec => []AnsweredInOrder
<1>1. ProxyInv => AnsweredInOrder
  <2> SUFFICES ASSUME ProxyInv, NEW k \in Children, NEW i \in DOMAIN drawn[k], NEW j \in DOMAIN drawn[k],
                      i < j, answer[drawn[k][j]] >= Null
               PROVE  /\ answer[drawn[k][i]] >= Null \/ drawn[k][i] \in lost
                      /\ answer[drawn[k][i]] = Null => answer[drawn[k][j]] = Null
                      /\ answer[drawn[k][j]] # Null => answer[drawn[k][i]] < answer[drawn[k][j]]
    BY DEF AnsweredInOrder
  <2>1. PICK x, w : x = drawn[k][i] /\ w = drawn[k][j]
    OBVIOUS
  <2>2. x \in Uids /\ w \in Uids /\ Owner[x] = k /\ Owner[w] = k
    <3>1. drawn[k] \in Seq(Uids)
      BY DEF ProxyInv, DrawnKept
    <3>2. x \in Uids /\ w \in Uids
      BY <2>1, <3>1, ElementOfSeq, LenProperties
    <3>3. QED
      BY <2>1, <3>2 DEF ProxyInv, DrawnKept
  <2>3. Earlier(x, w)
    BY <2>1, <2>2 DEF Earlier
  <2>4. Answered(w) /\ (Answered(x) \/ x \in lost)
    BY <2>1, <2>2, <2>3 DEF ProxyInv, ReceivesKept, StagesInOrder, Answered, Over
  <2>5. CASE Answered(x)
    <3>1. answer[x] \in Null .. MaxOffers /\ answer[w] \in Null .. MaxOffers
      <4>1. answer[x] \in Unasked .. MaxOffers /\ answer[w] \in Unasked .. MaxOffers
        BY <2>2 DEF ProxyInv, OwnTypes
      <4>2. QED
        BY <2>4, <2>5, <4>1 DEF Answered, Null, Unasked
    <3>2. Told(inFile, x, answer[x]) /\ Told(inFile, w, answer[w])
      BY <2>4, <2>5 DEF Told, Answered
    <3>3. QED
      BY <2>1, <2>2, <2>3, <2>4, <2>5, <3>1, <3>2 DEF ProxyInv, ToldInOrder, Answered
  <2>6. CASE x \in lost
    <3>1. answer[x] = Pending
      BY <2>2, <2>6 DEF ProxyInv, ReceivesKept, WaitsKept
    <3>2. answer[w] \in Unasked .. MaxOffers
      BY <2>2 DEF ProxyInv, OwnTypes
    <3>3. QED
      BY <2>1, <2>4, <2>6, <3>1, <3>2 DEF Answered, Pending, Null, Unasked
  <2>7. QED
    BY <2>4, <2>5, <2>6
<1>2. QED
  BY <1>1, ProxyCorrect, PTL
=============================================================================
