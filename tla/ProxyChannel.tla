---------------------------- MODULE ProxyChannel ----------------------------
(***************************************************************************)
(* A channel of the parent that child processes use as well: composes      *)
(* Channel, the record files between the processes, and the children.      *)
(*                                                                         *)
(* A child started by do.async.isolated holds no channel of its own: its   *)
(* `send` appends a SEND record to a file and goes on; its `receive`       *)
(* appends a RECV record with a fresh uid and parks on a future of its     *)
(* own (proxyReceive).  The parent tails that file and makes the calls;    *)
(* what a uid is handed goes, as a DELIVER record, into a file the child   *)
(* tails.  TailFile is about how the records get through a file; here a    *)
(* record has a payload of one line, and is read whole, at any time after  *)
(* it was written, in order.  It may fail to be written, or hold a payload *)
(* that does not run where it is read, and then nobody hears of it.        *)
(***************************************************************************)
EXTENDS Integers, Sequences, FiniteSets, SequencesExt, Selection

CONSTANTS
  Children,
  Callers, Inbound, Capacities, MaxOffers,   \* of Channel
  Owner,   \* the uids the children draw, and which child draws each
  MaxLost  \* bound: how many receives may lose their answer, or cannot be asked for

Uids == DOMAIN Owner
Of(k) == {u \in Uids : Owner[u] = k}

ASSUME ChildrenAssumption == \A u \in Uids : Owner[u] \in Children
ASSUME DistinctAssumption == Callers \cap Uids = {} /\ Inbound \notin Callers \cup Uids
ASSUME CapacityAssumption == Capacities \subseteq Int
ASSUME OffersAssumption == MaxOffers \in Nat /\ MaxLost \in Nat

VARIABLES
  (* of Channel *)
  capacity, closed, buffer, senders, receivers, remoteReceivers,
  status, gone, got, offered, dropped,
  (* of the children *)
  alive,
  outFile,   \* ARTURO_CHANNEL_FILE: records of the child the parent has not read
  inFile,    \* ARTURO_CHANNEL_INBOUND: records of the parent the child has not read
  answer,    \* pendingProxyRecvs: what the future of each receive holds
  drawn,     \* history: the uids of each child, in the order of its receives
  lost       \* history: the uids whose answer was not written, or did not run

channel == <<capacity, closed, buffer, senders, receivers, remoteReceivers,
             status, gone, got, offered, dropped>>
children == <<alive, outFile, inFile, answer, drawn, lost>>
vars == <<channel, children>>

Parent == INSTANCE Channel

(* What a child's future holds when that is no value.  (Unasked is a null  *)
(* as well: that of a receive whose own record could not be written.)      *)
Unasked == -3
Undrawn == -2
Pending == -1
Null == 0

Init ==
  /\ Parent!Init
  /\ alive = [k \in Children |-> TRUE]
  /\ outFile = [k \in Children |-> <<>>]
  /\ inFile = [k \in Children |-> <<>>]
  /\ answer = [u \in Uids |-> Undrawn]
  /\ drawn = [k \in Children |-> <<>>]
  /\ lost = {}

-----------------------------------------------------------------------------
(* Plausible slips, for the mutation runs.                                 *)
NullsForgotten(q) == <<>>
ReadsTheLast(k) == outFile[k][Len(outFile[k])]
AnswersWhoeverWaits(r) == answer' = [u \in Uids |-> IF answer[u] = Pending THEN r.v ELSE answer[u]]

-----------------------------------------------------------------------------
(* writeDeliverRecord, for the uids a step of the channel has settled: the *)
(* one a value was handed to, or those that were told null, in the order   *)
(* in which they were registered.                                          *)
ValueHanded ==
  IF Len(got') > Len(got) /\ Last(got').to \in Uids
  THEN <<[uid |-> Last(got').to, v |-> Last(got').v]>> ELSE <<>>

Nulls(q) == Select([i \in DOMAIN q |-> [uid |-> q[i], v |-> Null]],
                   {i \in DOMAIN q : status'[q[i]] = "null" /\ status[q[i]] # "null"})

(* An answer that nobody hears of.                                         *)
Failed == lost \cup {u \in Uids : answer[u] = Unasked}
Loses(uids) == lost' = lost \cup uids /\ Cardinality(Failed \cup uids) <= MaxLost

(* A file that cannot be opened or written to is passed over, though the   *)
(* receive is not in line any more.  (The records are bound by \E so that  *)
(* they are put together once.)                                            *)
Delivers(q) ==
  \E rs \in {ValueHanded \o Nulls(q)} : \E written \in SUBSET DOMAIN rs :
    /\ inFile' = [k \in Children |->
                    inFile[k] \o Select(rs, {i \in written : Owner[rs[i].uid] = k})]
    /\ Loses({rs[i].uid : i \in DOMAIN rs \ written})

-----------------------------------------------------------------------------
(* The parent's own strands.                                               *)
Sends == UNION {{<<k, i>> : i \in {j \in DOMAIN outFile[k] : outFile[k][j].type = "SEND"}} : k \in Children}
RoomForSends == offered + Cardinality(Sends) < MaxOffers

LocalSend(c) ==
  /\ RoomForSends
  /\ Parent!Send(c)
  /\ Delivers(remoteReceivers)
  /\ UNCHANGED <<alive, outFile, answer, drawn>>

LocalReceive(c) ==
  /\ Parent!Receive(c) \/ Parent!Resume(c) \/ Parent!Abandon(c)
  /\ UNCHANGED children

Unplug ==
  /\ Parent!Close
  /\ Delivers(remoteReceivers)
  /\ UNCHANGED <<alive, outFile, answer, drawn>>

(* The parent's tail of a child's file: SEND is a send whose future is     *)
(* dropped, unless its payload does not run; RECV registers the uid and    *)
(* calls the fulfiller.                                                    *)
FirstRecord(k) == Head(outFile[k])

ParentReads(k) ==
  /\ outFile[k] # <<>>
  /\ outFile' = [outFile EXCEPT ![k] = Tail(@)]
  /\ LET r == FirstRecord(k)
     IN \/ r.type = "SEND" /\ Parent!Send(Inbound) /\ Delivers(remoteReceivers)
        \/ r.type = "SEND" /\ UNCHANGED <<channel, inFile, lost>>
        \/ r.type = "RECV" /\ Parent!ForwardReceive(r.uid)
                           /\ Delivers(Append(remoteReceivers, r.uid))
  /\ UNCHANGED <<alive, answer, drawn>>

(* The child has ended: the tail stops, and what it has not read is lost.  *)
TailStops(k) ==
  /\ ~alive[k] /\ outFile[k] # <<>>
  /\ outFile' = [outFile EXCEPT ![k] = <<>>]
  /\ UNCHANGED <<channel, alive, inFile, answer, drawn, lost>>

-----------------------------------------------------------------------------
(* The children.                                                           *)
Emits(k, r) == outFile' = [outFile EXCEPT ![k] = Append(@, r)]

(* (A child that cannot write gives the value to a channel of its own,     *)
(* from which nobody receives.)                                            *)
ChildSend(k) ==
  /\ alive[k] /\ RoomForSends
  /\ Emits(k, [type |-> "SEND", uid |-> Inbound])
  /\ UNCHANGED <<channel, alive, inFile, answer, drawn, lost>>

(* proxyReceive.                                                           *)
Asks(u) ==
  /\ answer' = [answer EXCEPT ![u] = Pending]
  /\ drawn' = [drawn EXCEPT ![Owner[u]] = Append(@, u)]
  /\ Emits(Owner[u], [type |-> "RECV", uid |-> u])

CannotAsk(u) ==
  /\ Cardinality(Failed) < MaxLost
  /\ answer' = [answer EXCEPT ![u] = Unasked]
  /\ UNCHANGED <<drawn, outFile>>

ChildReceive(u) ==
  /\ alive[Owner[u]] /\ answer[u] = Undrawn
  /\ Asks(u) \/ CannotAsk(u)
  /\ UNCHANGED <<channel, alive, inFile, lost>>

(* dispatchDeliver: a record for a uid that is not pending does nothing.   *)
Completes(r) ==
  answer' = [answer EXCEPT ![r.uid] = IF @ = Pending THEN r.v ELSE @]

(* A payload that does not parse or run is passed over; null always runs.  *)
Discards(r) == r.v # Null /\ Loses({r.uid}) /\ UNCHANGED answer

ChildReads(k) ==
  /\ alive[k] /\ inFile[k] # <<>>
  /\ \/ Completes(Head(inFile[k])) /\ UNCHANGED lost
     \/ Discards(Head(inFile[k]))
  /\ inFile' = [inFile EXCEPT ![k] = Tail(@)]
  /\ UNCHANGED <<channel, alive, outFile, drawn>>

(* A child may end, or be killed, at any time.                             *)
ChildDies(k) ==
  /\ alive[k]
  /\ alive' = [alive EXCEPT ![k] = FALSE]
  /\ UNCHANGED <<channel, outFile, inFile, answer, drawn, lost>>

-----------------------------------------------------------------------------
Next ==
  \/ \E c \in Callers : LocalSend(c) \/ LocalReceive(c)
  \/ Unplug
  \/ \E k \in Children : \/ ParentReads(k) \/ TailStops(k)
                         \/ ChildSend(k) \/ ChildReads(k) \/ ChildDies(k)
  \/ \E u \in Uids : ChildReceive(u)

Spec == Init /\ [][Next]_vars

(* Both tails poll as long as their process lives.  Nothing is assumed of  *)
(* what the programs call.                                                 *)
FairSpec == /\ Spec
            /\ \A k \in Children : WF_vars(ParentReads(k)) /\ WF_vars(ChildReads(k))

-----------------------------------------------------------------------------
TypeOK ==
  /\ Parent!TypeOK
  /\ alive \in [Children -> BOOLEAN]
  /\ outFile \in [Children -> Seq([type : {"SEND"}, uid : {Inbound}]
                                    \cup [type : {"RECV"}, uid : Uids])]
  /\ inFile \in [Children -> Seq([uid : Uids, v : Null .. MaxOffers])]
  /\ answer \in [Uids -> Unasked .. MaxOffers]
  /\ \A k \in Children : drawn[k] \in Seq(Of(k))
  /\ lost \subseteq Uids

(* A receive of a living child that has no answer yet is in exactly one    *)
(* place on its way to one: asked for in a record, registered with the     *)
(* parent, or answered in a record; or else its answer is lost, and then   *)
(* it is in no place.  An answered one is nowhere any more, so no value is *)
(* handed to a receive that cannot take it.                                *)
Asked(u) == Cardinality({i \in DOMAIN outFile[Owner[u]] : outFile[Owner[u]][i].uid = u})
Registered(u) == Cardinality({i \in DOMAIN remoteReceivers : remoteReceivers[i] = u})
OnItsWay(u) == Cardinality({i \in DOMAIN inFile[Owner[u]] : inFile[Owner[u]][i].uid = u})

EveryRemoteWaitIsCarried ==
  \A u \in Uids : alive[Owner[u]] =>
    /\ Asked(u) + Registered(u) + OnItsWay(u)
         = IF answer[u] = Pending /\ u \notin lost THEN 1 ELSE 0
    /\ u \in lost => answer[u] = Pending

(* The receives a child asked for are answered in the order in which it    *)
(* made them, but for those whose answer was lost, with values in the      *)
(* order in which they were sent; after a null there is no value any more. *)
AnsweredInOrder ==
  \A k \in Children : \A i, j \in DOMAIN drawn[k] :
    LET a == answer[drawn[k][i]]
        b == answer[drawn[k][j]]
    IN i < j /\ b >= Null => /\ a >= Null \/ drawn[k][i] \in lost
                             /\ a = Null => b = Null
                             /\ b # Null => a < b

(* "parked recvs wake with :null", those of other processes included: once *)
(* the channel is closed, a child does not wait for ever, unless its       *)
(* answer is lost: there comes a time when none of them waits.             *)
Waits(u) == alive[Owner[u]] /\ answer[u] = Pending

AnsweredAfterClose == closed ~> \A u \in Uids \ lost : ~Waits(u)

(* The same without that exception: what the documentation says.  An       *)
(* answer that could not be written, or does not run, breaks it.           *)
ParkedReceivesWake == closed ~> \A u \in Uids : ~Waits(u)
=============================================================================
