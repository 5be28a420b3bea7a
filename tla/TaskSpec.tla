------------------------------ MODULE TaskSpec ------------------------------
(***************************************************************************)
(* What a task promises to whoever holds it, whatever runs it: a state, a  *)
(* future and, for a fiber, the flag that asks it to stop.  A future       *)
(* settles once.  The state is only what the last of several writers said: *)
(* the ending of a fiber, `cancel`, and everybody who reads the future.    *)
(*                                                                         *)
(* Fibers implements this module; Gather is built on its actions.          *)
(***************************************************************************)
CONSTANT Tasks

VARIABLES
  state,           \* VTask.state, "none" before the task exists
  fut,             \* VTask.future: "idle", "pending", "value" or "error"
  cancelRequested  \* the flag of the task's fiber

taskVars == <<state, fut, cancelRequested>>

Unborn == [t \in Tasks |-> "none"]

Init ==
  /\ state = Unborn
  /\ fut = [t \in Tasks |-> "idle"]
  /\ cancelRequested = [t \in Tasks |-> FALSE]

Settled(t) == fut[t] \in {"value", "error"}

-----------------------------------------------------------------------------
(* Plausible slips, for the mutation runs.                                 *)
CancelHandlesForgotten(S) == UNCHANGED cancelRequested

-----------------------------------------------------------------------------
Spawn(S) ==
  /\ \A t \in S : state[t] = "none"
  /\ state' = [t \in Tasks |-> IF t \in S THEN "pending" ELSE state[t]]
  /\ fut' = [t \in Tasks |-> IF t \in S THEN "pending" ELSE fut[t]]
  /\ UNCHANGED cancelRequested

(* cancelTask on the pending ones of S: the state, then the cancelHandle.  *)
Pending(S) == {t \in S : state[t] = "pending"}

CancelHandles(S) ==
  cancelRequested' = [t \in Tasks |-> t \in S \/ cancelRequested[t]]

Cancel(S) ==
  /\ state' = [t \in Tasks |-> IF t \in S THEN "cancelled" ELSE state[t]]
  /\ CancelHandles(S)
  /\ UNCHANGED fut

(* The endings of a fiber write the state, then the future.                *)
Ends(t, st, result) ==
  /\ fut[t] = "pending"
  /\ fut' = [fut EXCEPT ![t] = result]
  /\ state' = [state EXCEPT ![t] = st]
  /\ UNCHANGED cancelRequested

Return(t) == Ends(t, "done", "value")
Raise(t) == Ends(t, "failed", "error")
Stop(t) == cancelRequested[t] /\ Ends(t, "cancelled", "error")

(* Input and output settles its future and leaves the state to readers.    *)
SettleQuietly(t, result) == result \in {"value", "error"} /\ Ends(t, state[t], result)

(* Readers.  `wait` says done of every value; the other waits do not       *)
(* overwrite what was said before.                                         *)
Unsuccessful(t) == IF state[t] = "cancelled" THEN "cancelled" ELSE "failed"
ReadState(t) == IF fut[t] = "value" THEN "done" ELSE Unsuccessful(t)
GatheredState(t) ==
  IF fut[t] = "value" /\ state[t] # "pending" THEN state[t] ELSE ReadState(t)

Say(t, st) == state' = [state EXCEPT ![t] = st] /\ UNCHANGED <<fut, cancelRequested>>

Read(t) == Settled(t) /\ Say(t, ReadState(t))
Gathered(t) == Settled(t) /\ Say(t, GatheredState(t))

(* A reader whose wait ended by an error of its own takes it for the       *)
(* task's.                                                                 *)
Blame(t) == fut[t] # "idle" /\ Say(t, Unsuccessful(t))

Next == \E t \in Tasks : \/ Spawn({t})
                         \/ state[t] = "pending" /\ Cancel({t})
                         \/ Return(t) \/ Raise(t) \/ Stop(t)
                         \/ \E r \in {"value", "error"} : SettleQuietly(t, r)
                         \/ Read(t) \/ Gathered(t) \/ Blame(t)

Spec == Init /\ [][Next]_taskVars
=============================================================================
