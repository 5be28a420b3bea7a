------------------------------ MODULE Channel ------------------------------
(***************************************************************************)
(* One VChannel: chanSend, chanReceive and chanClose of                    *)
(* helpers/parallelism.nim, with the two ways a child process reaches the  *)
(* channel of its parent (the SEND and RECV records that tailChannelFile   *)
(* hands to the dispatchers initChannels installs).                        *)
(*                                                                         *)
(* The primitives are "a cooperative state machine over a VChannel" and    *)
(* run to completion, so each call is one step.  What interleaves is the   *)
(* strands that make the calls: each parks on the future its call          *)
(* returned and goes on when somebody completes it.                        *)
(*                                                                         *)
(* Values are numbered by the order in which sends are accepted.           *)
(***************************************************************************)
EXTENDS Integers, Sequences, FiniteSets

CONSTANTS
  Callers,     \* strands of the program's own process: fibers, main thread
  Uids,        \* receives issued by child processes, one uid for each
  Inbound,     \* stands for the future that `discard chanSend(...)` drops
  Capacities,  \* 0 = unbuffered, -1 = unbounded, N > 0 = bounded
  MaxOffers    \* bound on accepted sends

Everyone == Callers \cup Uids

ASSUME DistinctAssumption == Callers \cap Uids = {} /\ Inbound \notin Everyone
ASSUME CapacityAssumption == Capacities \subseteq Int
ASSUME OffersAssumption == MaxOffers \in Nat

VARIABLES
  capacity,         \* given by `channel`, `.bounded:` or `.unbounded`
  closed,
  buffer,           \* c.buffer
  senders,          \* c.senders: the value and the future of a parked send
  receivers,        \* c.receivers: futures of parked receives
  remoteReceivers,  \* remoteReceivers[c.name]: parked receives of children
  status,           \* the future each caller holds, "idle" when it has none
  gone,             \* callers that will not look at their future any more
  got,              \* history: values handed over, and to whom
  offered,          \* history: how many sends were accepted
  dropped           \* history: parked values turned away by unplug

vars == <<capacity, closed, buffer, senders, receivers, remoteReceivers,
          status, gone, got, offered, dropped>>

Values == 1 .. MaxOffers
ParkedSend == [v : Values, f : Callers \cup {Inbound}]
Delivery == [v : Values, to : Everyone]
Settled == {"sent", "failed", "value", "null"}

Init ==
  /\ capacity \in Capacities
  /\ closed = FALSE
  /\ buffer = <<>>
  /\ senders = <<>>
  /\ receivers = <<>>
  /\ remoteReceivers = <<>>
  /\ status = [c \in Everyone |-> "idle"]
  /\ gone = {}
  /\ got = <<>>
  /\ offered = 0
  /\ dropped = <<>>

-----------------------------------------------------------------------------
(* Plausible slips in the operators below, for the mutation runs.          *)

HasRoomForOneMore(n) == capacity = -1 \/ (capacity > 0 /\ n <= capacity)
RefilledInFront == IF senders = <<>> THEN Tail(buffer)
                   ELSE <<Head(senders).v>> \o Tail(buffer)
UnparkedNobody == senders
UnparkedEverybody == <<>>
UnparkedFutureForgotten == {}
RemotesKeptAfterClose == remoteReceivers
RemotesSwapped == receivers

-----------------------------------------------------------------------------
(* chanSend's test for a place in the buffer, for a buffer of n values.    *)
HasRoom(n) == capacity = -1 \/ (capacity > 0 /\ n < capacity)

(* Taking a value also lets the longest parked sender in: its value takes  *)
(* the free place (or is the one taken), and its future completes.         *)
Refilled == IF senders = <<>> THEN Tail(buffer)
            ELSE Append(Tail(buffer), Head(senders).v)
Unparked == IF senders = <<>> THEN senders ELSE Tail(senders)
UnparkedFuture == IF senders = <<>> THEN {} ELSE {Head(senders).f}

(* The next value for a receive, local or of a child: head of the buffer,  *)
(* else the value of the longest parked sender.                            *)
Available == buffer # <<>> \/ senders # <<>>
NextValue == IF buffer # <<>> THEN Head(buffer) ELSE Head(senders).v
TakeNext ==
  /\ buffer' = IF buffer # <<>> THEN Refilled ELSE buffer
  /\ senders' = Unparked

(* Who is waiting parks; and of the futures st, those of the callers in    *)
(* sent, answered, nulled and failed settle.                               *)
Park(c) == [e \in Everyone |-> IF e = c THEN "pending" ELSE status[e]]
Settle(st, sent, answered, nulled, failed) ==
  [c \in Everyone |-> IF c \in answered THEN "value"
                      ELSE IF c \in sent THEN "sent"
                      ELSE IF c \in nulled THEN "null"
                      ELSE IF c \in failed THEN "failed"
                      ELSE st[c]]

HandOver(v, c) == got' = Append(got, [v |-> v, to |-> c])

(* Who may call: a caller whose last call is over; a child's SEND record   *)
(* is sent by nobody who waits.                                            *)
Free(c) == c = Inbound \/ (c \in Callers \ gone /\ status[c] = "idle")

-----------------------------------------------------------------------------
(* chanSend, one action for each of its outcomes.                          *)

SendClosed(c) ==
  /\ Free(c)
  /\ closed
  /\ status' = Settle(status, {}, {}, {}, {c})
  /\ UNCHANGED <<capacity, closed, buffer, senders, receivers,
                 remoteReceivers, gone, got, offered, dropped>>

Accepting(c) == Free(c) /\ ~closed /\ offered < MaxOffers /\ offered' = offered + 1

SendToReceiver(c) ==
  /\ Accepting(c)
  /\ receivers # <<>>
  /\ receivers' = Tail(receivers)
  /\ HandOver(offered + 1, Head(receivers))
  /\ status' = Settle(status, {c}, {Head(receivers)}, {}, {})
  /\ UNCHANGED <<capacity, closed, buffer, senders, remoteReceivers, gone,
                 dropped>>

SendToRemote(c) ==
  /\ Accepting(c)
  /\ receivers = <<>>
  /\ remoteReceivers # <<>>
  /\ remoteReceivers' = Tail(remoteReceivers)
  /\ HandOver(offered + 1, Head(remoteReceivers))
  /\ status' = Settle(status, {c}, {Head(remoteReceivers)}, {}, {})
  /\ UNCHANGED <<capacity, closed, buffer, senders, receivers, gone, dropped>>

SendBuffered(c) ==
  /\ Accepting(c)
  /\ receivers = <<>>
  /\ remoteReceivers = <<>>
  /\ HasRoom(Len(buffer))
  /\ buffer' = Append(buffer, offered + 1)
  /\ status' = Settle(status, {c}, {}, {}, {})
  /\ UNCHANGED <<capacity, closed, senders, receivers, remoteReceivers, gone,
                 got, dropped>>

SendParked(c) ==
  /\ Accepting(c)
  /\ receivers = <<>>
  /\ remoteReceivers = <<>>
  /\ ~HasRoom(Len(buffer))
  /\ senders' = Append(senders, [v |-> offered + 1, f |-> c])
  /\ status' = Park(c)
  /\ UNCHANGED <<capacity, closed, buffer, receivers, remoteReceivers, gone,
                 got, dropped>>

Send(c) == \/ SendClosed(c)
           \/ SendToReceiver(c)
           \/ SendToRemote(c)
           \/ SendBuffered(c)
           \/ SendParked(c)

-----------------------------------------------------------------------------
(* chanReceive.                                                            *)

ReceiveValue(c) ==
  /\ Available
  /\ HandOver(NextValue, c)
  /\ TakeNext
  /\ status' = Settle(status, UnparkedFuture, {c}, {}, {})
  /\ UNCHANGED receivers

ReceiveNull(c) ==
  /\ ~Available
  /\ closed
  /\ status' = Settle(status, {}, {}, {c}, {})
  /\ UNCHANGED <<buffer, senders, receivers, got>>

ReceiveParked(c) ==
  /\ ~Available
  /\ ~closed
  /\ receivers' = Append(receivers, c)
  /\ status' = Park(c)
  /\ UNCHANGED <<buffer, senders, got>>

Receive(c) ==
  /\ c \in Callers /\ Free(c)
  /\ \/ ReceiveValue(c)
     \/ ReceiveNull(c)
     \/ ReceiveParked(c)
  /\ UNCHANGED <<capacity, closed, remoteReceivers, gone, offered, dropped>>

-----------------------------------------------------------------------------
(* A RECV record of a child: the uid is registered, then the fulfiller     *)
(* serves the first registered uid if it can.  Its put-back branch (a      *)
(* value taken and no uid left to serve) cannot be reached from here.      *)

ForwardValue(u, q) ==
  /\ Available
  /\ HandOver(NextValue, Head(q))
  /\ TakeNext
  /\ remoteReceivers' = Tail(q)
  /\ status' = Settle(Park(u), UnparkedFuture, {Head(q)}, {}, {})

ForwardNull(u, q) ==
  /\ ~Available
  /\ closed
  /\ remoteReceivers' = Tail(q)
  /\ status' = Settle(Park(u), {}, {}, {Head(q)}, {})
  /\ UNCHANGED <<buffer, senders, got>>

ForwardParked(u, q) ==
  /\ ~Available
  /\ ~closed
  /\ remoteReceivers' = q
  /\ status' = Park(u)
  /\ UNCHANGED <<buffer, senders, got>>

ForwardReceive(u) ==
  /\ status[u] = "idle"
  /\ LET q == Append(remoteReceivers, u)
     IN ForwardValue(u, q) \/ ForwardNull(u, q) \/ ForwardParked(u, q)
  /\ UNCHANGED <<capacity, closed, receivers, gone, offered, dropped>>

-----------------------------------------------------------------------------
(* chanClose: idempotent; receivers wake with null while nothing is        *)
(* buffered, parked senders fail, uids are told null.                      *)

FailedSends == {senders[i].f : i \in DOMAIN senders}
NulledReceives == {receivers[i] : i \in DOMAIN receivers}
NulledRemotes == {remoteReceivers[i] : i \in DOMAIN remoteReceivers}
RemotesAfterClose == <<>>

Close ==
  /\ ~closed
  /\ closed' = TRUE
  /\ senders' = <<>>
  /\ dropped' = dropped \o [i \in DOMAIN senders |-> senders[i].v]
  /\ remoteReceivers' = RemotesAfterClose
  /\ receivers' = IF buffer = <<>> THEN <<>> ELSE receivers
  /\ status' = Settle(status, {}, {}, NulledRemotes \cup
                              (IF buffer = <<>> THEN NulledReceives ELSE {}),
                      FailedSends)
  /\ UNCHANGED <<capacity, buffer, gone, got, offered>>

-----------------------------------------------------------------------------
(* The strand is resumed and reads its settled future.                     *)
Resume(c) ==
  /\ c \in Callers \ gone
  /\ status[c] \in Settled
  /\ status' = [status EXCEPT ![c] = "idle"]
  /\ UNCHANGED <<capacity, closed, buffer, senders, receivers,
                 remoteReceivers, gone, got, offered, dropped>>

(* The waiting strand gives up: a cancelled fiber gets FiberCancelledError *)
(* out of its cooperativeAwait, a child process dies, the main thread runs *)
(* out of pending work.  Its future stays where it is parked.  A fiber may *)
(* also be cancelled between the settling of its future and its turn.      *)
Abandon(c) ==
  /\ c \notin gone
  /\ status[c] = "pending" \/ (c \in Callers /\ status[c] # "idle")
  /\ gone' = gone \cup {c}
  /\ UNCHANGED <<capacity, closed, buffer, senders, receivers,
                 remoteReceivers, status, got, offered, dropped>>

Next == \/ \E c \in Callers \cup {Inbound} : Send(c)
        \/ \E c \in Callers : Receive(c) \/ Resume(c)
        \/ \E u \in Uids : ForwardReceive(u)
        \/ \E c \in Everyone : Abandon(c)
        \/ Close

Spec == Init /\ [][Next]_vars

-----------------------------------------------------------------------------
TypeOK ==
  /\ capacity \in Capacities
  /\ closed \in BOOLEAN
  /\ buffer \in Seq(Values)
  /\ senders \in Seq(ParkedSend)
  /\ receivers \in Seq(Callers)
  /\ remoteReceivers \in Seq(Uids)
  /\ status \in [Everyone -> {"idle", "pending"} \cup Settled]
  /\ gone \subseteq Everyone
  /\ got \in Seq(Delivery)
  /\ offered \in 0 .. MaxOffers
  /\ dropped \in Seq(Values)

(* Values leave the channel in the order in which sends brought them, each *)
(* exactly once: handed over, buffered, parked and turned away, in that    *)
(* order, they are 1, 2, ..., offered.  In particular nothing overtakes    *)
(* when a receive refills the buffer from the parked senders.              *)
Fifo ==
  /\ \A i \in DOMAIN got : got[i].v = i
  /\ \A i \in DOMAIN buffer : buffer[i] = Len(got) + i
  /\ \A i \in DOMAIN senders : senders[i].v = Len(got) + Len(buffer) + i
  /\ \A i \in DOMAIN dropped : dropped[i] = Len(got) + Len(buffer) + i
  /\ Len(got) + Len(buffer) + Len(senders) + Len(dropped) = offered
  /\ dropped # <<>> => closed

(* Nobody is parked who could be served: not a receiver beside a value,    *)
(* not a sender beside a receiver or a free place; and the buffer holds no *)
(* more than the channel's capacity.                                       *)
NoMissedMatch ==
  /\ receivers # <<>> \/ remoteReceivers # <<>> => buffer = <<>> /\ senders = <<>>
  /\ senders # <<>> => capacity # -1 /\ (capacity > 0 => Len(buffer) >= capacity)
  /\ capacity > 0 => Len(buffer) <= capacity
  /\ capacity = 0 => buffer = <<>>

(* unplug: "parked recvs wake with :null, sends fail".  Nobody is left in  *)
(* a deque of a closed channel, and nobody parks in one.                   *)
ClosedLeavesNobodyParked ==
  closed => receivers = <<>> /\ senders = <<>> /\ remoteReceivers = <<>>

ParkedSenders == {senders[i].f : i \in DOMAIN senders}
ParkedReceivers == {receivers[i] : i \in DOMAIN receivers}
ParkedRemotes == {remoteReceivers[i] : i \in DOMAIN remoteReceivers}

(* A future nobody has completed is in exactly one place where somebody    *)
(* will find it: every wait can still be answered.                         *)
EveryWaitIsParked ==
  /\ \A c \in Callers : status[c] = "pending"
                           <=> c \in ParkedSenders \cup ParkedReceivers
  /\ \A u \in Uids : status[u] = "pending" <=> u \in ParkedRemotes
  /\ ParkedSenders \cap ParkedReceivers = {}
  /\ \A i, j \in DOMAIN receivers : receivers[i] = receivers[j] => i = j
  /\ \A i, j \in DOMAIN remoteReceivers :
        remoteReceivers[i] = remoteReceivers[j] => i = j
  /\ \A i, j \in DOMAIN senders :
        senders[i].f = senders[j].f /\ senders[i].f # Inbound => i = j

(* asyncdispatch raises when a future is completed a second time: once it  *)
(* is settled it only changes by being read.                               *)
NoFutureCompletedTwice ==
  [][\A c \in Everyone : status[c] \in Settled /\ status'[c] # status[c]
                             => status'[c] = "idle"]_vars

(* The deques implement the single queue of ChannelSpec: what is buffered  *)
(* and then what is parked.                                                *)
Waiting == buffer \o [i \in DOMAIN senders |-> senders[i].v]
Promise == INSTANCE ChannelSpec
             WITH queue <- Waiting,
                  out <- [i \in DOMAIN got |-> got[i].v], open <- ~closed
ImplementsChannelSpec == Promise!Spec
=============================================================================
