----------------------------- MODULE ChildProofs -----------------------------
(***************************************************************************)
(* Theorems about ChildTask for any kinds of task, size of the pipe and    *)
(* amount of output.                                                       *)
(***************************************************************************)
EXTENDS ChildTask, TLAPS

-----------------------------------------------------------------------------
(* Where the parent's coroutine is tells what became of the process and of *)
(* the future: it gets past its loop only beside a dead process, and to    *)
(* its end only beside an empty pipe that nobody can write to any more.    *)
PhaseTells ==
  /\ phase \in {"draining", "reading", "settled"} => child = "gone"
  /\ phase = "settled" => pipe = 0 /\ offspring # "running"
  /\ phase = "settled" <=> outcome # "pending"

(* An isolated child is read through its files: it has no pipe of its own, *)
(* and starts nobody who could hold it.                                    *)
OnlyShellsPipe == kind = "isolated" => left = 0 /\ pipe = 0 /\ offspring = "none"
DrainsOrReads == /\ phase = "draining" => kind = "isolated"
                 /\ phase = "reading" => kind = "shell"

ChildInv == TypeOK /\ PhaseTells /\ OnlyShellsPipe /\ DrainsOrReads /\ StateAgrees

(* A child that was just started.                                          *)
LEMMA ChildInit == Init => ChildInv
<1> SUFFICES ASSUME Init PROVE ChildInv
  OBVIOUS
<1>1. left \in 0 .. Output /\ pipe \in 0 .. PipeSize /\ (kind = "isolated" => left = 0)
  BY SizesAssumption DEF Init
<1>2. TypeOK
  BY <1>1 DEF Init, TypeOK
<1>3. QED
  BY <1>1, <1>2 DEF Init, ChildInv, PhaseTells, OnlyShellsPipe, DrainsOrReads,
        StateAgrees

(* A signal ends the process, or sends it into its handler.                *)
LEMMA Signalled ==
  ASSUME TypeOK, Terminate
  PROVE  child' \in {"gone", "stopping"} /\ code' \in {0, 1}
<1>1. code \in {0, 1}
  BY DEF TypeOK
<1>2. QED
  BY <1>1 DEF Terminate

-----------------------------------------------------------------------------
(* What the process does.                                                  *)
LEMMA ProcessKeeps == ChildInv /\ Process => ChildInv'
<1> SUFFICES ASSUME ChildInv, Process PROVE ChildInv'
  OBVIOUS
<1>1. kind \in Kinds /\ Kinds \subseteq {"isolated", "shell"} /\ kind' = kind
  BY KindsAssumption
  DEF ChildInv, TypeOK, Process, Started, Write, Fork, OffspringEnds, Store, ChildEnds,
      HandlerEnds
<1>2. UNCHANGED <<state, phase, outcome, waiting, flagged, blamed>>
  BY DEF task, waiter, Process, Started, Write, Fork, OffspringEnds, Store, ChildEnds, HandlerEnds
<1>3. CASE Started \/ Store \/ ChildEnds \/ HandlerEnds
  <2>1. TypeOK'
    <3>1. CASE Store
      <4>1. result' \in BOOLEAN /\ failure' \in BOOLEAN
        BY <3>1 DEF Store, ChildInv, TypeOK
      <4>2. QED
        BY <1>2, <3>1, <4>1 DEF Store, ChildInv, TypeOK
    <3>2. CASE Started \/ ChildEnds \/ HandlerEnds
      BY <1>2, <3>2 DEF Started, ChildEnds, HandlerEnds, ChildInv, TypeOK
    <3>3. QED
      BY <1>3, <3>1, <3>2
  <2>2. QED
    BY <1>2, <1>3, <2>1
    DEF Started, Store, ChildEnds, HandlerEnds,
        ChildInv, PhaseTells, OnlyShellsPipe, DrainsOrReads,
        StateAgrees
<1>4. CASE Write
  <2>1. left' \in 0 .. Output /\ pipe' \in 0 .. PipeSize
    BY <1>4, SizesAssumption DEF Write, HasRoom, ChildInv, TypeOK
  <2>2. phase # "settled"
    BY <1>4 DEF Write, ChildInv, PhaseTells
  <2>3. QED
    BY <1>2, <1>4, <2>1, <2>2
    DEF Write, ChildInv, TypeOK, PhaseTells, OnlyShellsPipe, DrainsOrReads,
        StateAgrees
<1>5. CASE Fork \/ OffspringEnds
  BY <1>1, <1>2, <1>5
  DEF Fork, OffspringEnds,
      ChildInv, TypeOK, PhaseTells, OnlyShellsPipe, DrainsOrReads,
        StateAgrees
<1>6. QED
  BY <1>3, <1>4, <1>5 DEF Process

(* What the parent's coroutine does.                                       *)
LEMMA CoroutineKeeps == ChildInv /\ Coroutine => ChildInv'
<1> SUFFICES ASSUME ChildInv, Coroutine PROVE ChildInv'
  OBVIOUS
<1>1. kind \in {"isolated", "shell"}
  BY KindsAssumption DEF ChildInv, TypeOK
<1>2. CASE LeaveLoop
  <2>1. CASE MustWait
    <3>1. \/ Terminate /\ offspring' \in {"gone", offspring}
          \/ UNCHANGED <<child, code, offspring>>
      BY <1>2, <2>1 DEF LeaveLoop, SignalGroup
    <3>2. child' \in {"starting", "running", "stopping", "gone"} /\ code' \in {0, 1}
      BY <3>1, Signalled DEF ChildInv, TypeOK
    <3>3. offspring' = offspring \/ (offspring = "running" /\ offspring' = "gone")
      BY <1>2, <2>1 DEF LeaveLoop, SignalGroup
    <3>4. phase' = "waiting" /\ phase = "polling"
      BY <1>2, <2>1 DEF LeaveLoop
    <3>5. QED
      BY <1>2, <3>2, <3>3, <3>4
      DEF LeaveLoop, waiter, ChildInv, TypeOK, PhaseTells, OnlyShellsPipe, DrainsOrReads,
        StateAgrees
  <2>2. CASE ~MustWait
    <3>1. child = "gone" /\ phase' = AfterExit /\ phase = "polling"
      BY <1>2, <2>2 DEF LeaveLoop, LoopOver, MustWait
    <3>2. QED
      BY <1>1, <1>2, <2>2, <3>1
      DEF LeaveLoop, waiter, AfterExit, ChildInv, TypeOK, PhaseTells, OnlyShellsPipe,
          DrainsOrReads, StateAgrees
  <2>3. QED
    BY <2>1, <2>2
<1>3. CASE WaitForExit
  BY <1>1, <1>3
  DEF WaitForExit, waiter, process, AfterExit, ChildInv, TypeOK, PhaseTells, OnlyShellsPipe,
      DrainsOrReads, StateAgrees
<1>4. CASE Drain
  <2>1. outcome' \in {"value", "error"} /\ outcome = "pending" /\ kind = "isolated"
    BY <1>4 DEF Drain, ChildInv, PhaseTells, DrainsOrReads, TypeOK
  <2>2. QED
    BY <1>4, <2>1
    DEF Drain, waiter, process, ChildInv, TypeOK, PhaseTells, OnlyShellsPipe, DrainsOrReads,
        StateAgrees
<1>5. CASE ReadSome
  BY <1>5, SizesAssumption
  DEF ReadSome, task, waiter, ChildInv, TypeOK, PhaseTells, OnlyShellsPipe, DrainsOrReads,
        StateAgrees
<1>6. CASE ReadEnd
  <2>1. outcome' \in {"value", "error"} /\ outcome = "pending"
    BY <1>6 DEF ReadEnd, ChildInv, PhaseTells, TypeOK
  <2>2. QED
    BY <1>6, <2>1
    DEF ReadEnd, EndOfFile, waiter, process, ChildInv, TypeOK, PhaseTells, OnlyShellsPipe,
        DrainsOrReads, StateAgrees
<1>7. QED
  BY <1>2, <1>3, <1>4, <1>5, <1>6 DEF Coroutine

(* What the parent's program does: cancel, and wait.                       *)
LEMMA ProgramKeeps == ChildInv /\ Program => ChildInv'
<1> SUFFICES ASSUME ChildInv, Program PROVE ChildInv'
  OBVIOUS
<1>1. CASE Cancel
  <2>1. /\ child' \in {"starting", "running", "stopping", "gone"} /\ code' \in {0, 1}
        /\ child = "gone" => child' = "gone"
    BY <1>1, Signalled DEF Cancel, ChildInv, TypeOK
  <2>2. QED
    BY <1>1, <2>1
    DEF Cancel, waiter, ChildInv, TypeOK, PhaseTells, OnlyShellsPipe, DrainsOrReads,
        StateAgrees
<1>2. CASE WaitStart
  BY <1>2
  DEF WaitStart, process, ChildInv, TypeOK, PhaseTells, OnlyShellsPipe, DrainsOrReads,
      StateAgrees
<1>3. CASE WaitEnd
  <2>1. /\ state' \in {"done", "failed", "cancelled"}
        /\ state' = "done" => outcome = "value"
        /\ state' = "failed" => outcome = "error" \/ flagged
    BY <1>3 DEF WaitEnd, Classified, Unsuccessful, ChildInv, TypeOK
  <2>2. /\ blamed' = (flagged /\ state # "cancelled")
        /\ state # "cancelled" /\ flagged => state' = "failed"
        /\ state = "cancelled" => state' # "failed"
        /\ flagged \in BOOLEAN
    BY <1>3 DEF WaitEnd, Classified, Unsuccessful, ChildInv, TypeOK
  <2>3. TypeOK'
    <3>1. waiting' \in BOOLEAN /\ flagged' \in BOOLEAN /\ blamed' \in BOOLEAN
      BY <1>3, <2>2 DEF WaitEnd
    <3>2. UNCHANGED <<kind, grouped, child, code, offspring, result, failure, left, pipe,
                      phase, outcome>>
      BY <1>3 DEF WaitEnd, process
    <3>3. QED
      BY <2>1, <3>1, <3>2 DEF ChildInv, TypeOK
  <2>4. StateAgrees'
    BY <1>3, <2>1, <2>2 DEF WaitEnd, StateAgrees
  <2>5. QED
    BY <1>3, <2>3, <2>4
    DEF WaitEnd, process, ChildInv, PhaseTells, OnlyShellsPipe, DrainsOrReads
<1>4. CASE CancelWaiter
  BY <1>4
  DEF CancelWaiter, process, ChildInv, TypeOK, PhaseTells, OnlyShellsPipe, DrainsOrReads,
      StateAgrees
<1>5. QED
  BY <1>1, <1>2, <1>3, <1>4 DEF Program

(* Nobody breaks the invariant.                                            *)
LEMMA ChildStep == ChildInv /\ [Next]_vars => ChildInv'
<1>1. ChildInv /\ UNCHANGED vars => ChildInv'
  BY DEF vars, ChildInv, TypeOK, PhaseTells, OnlyShellsPipe, DrainsOrReads,
        StateAgrees
<1>2. QED
  BY <1>1, ProcessKeeps, CoroutineKeeps, ProgramKeeps DEF Next

(* So it holds in every state.                                             *)
LEMMA ChildCorrect == Spec => []ChildInv
  BY ChildInit, ChildStep, PTL DEF Spec

-----------------------------------------------------------------------------
(* Every variable has its type; the pipe never holds more than it can.     *)
THEOREM TypeCorrect == Spec => []TypeOK
<1>1. ChildInv => TypeOK
  BY DEF ChildInv
<1>2. QED
  BY <1>1, ChildCorrect, PTL

(* A task never settles while its process, or for a shell command anybody  *)
(* who may still write to its pipe, is there; nothing written is lost.     *)
THEOREM SettledMeansOverCorrect == Spec => []SettledMeansOver
<1>1. ChildInv => SettledMeansOver
  BY DEF ChildInv, PhaseTells, SettledMeansOver
<1>2. QED
  BY <1>1, ChildCorrect, PTL

(* What `wait` made of the task agrees with its future, also if it was     *)
(* cancelled between the two, unless the waiter was cancelled itself and   *)
(* took its own error for the task's.                                      *)
THEOREM StateAgreesCorrect == Spec => []StateAgrees
<1>1. ChildInv => StateAgrees
  BY DEF ChildInv
<1>2. QED
  BY <1>1, ChildCorrect, PTL
=============================================================================
