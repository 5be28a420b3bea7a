----------------------------- MODULE ChildTask -----------------------------
(***************************************************************************)
(* A task that runs in another process: runInChildProcess (`do.async` with *)
(* `.isolated`, `serve.async`) and runShellInChildProcess (`execute.async`)*)
(* of helpers/parallelism.nim, with `cancel` and `wait` of Tasks.nim, what *)
(* a child Arturo does on SIGTERM (Events.nim), and the process itself.    *)
(*                                                                         *)
(* The parent is one thread: while it is inside waitForExit or readAll     *)
(* nothing else of its program runs.  The child runs beside it.            *)
(***************************************************************************)
EXTENDS Naturals

CONSTANTS
  Kinds,     \* kinds of task: "isolated" and "shell"
  PipeSize,  \* what the pipe of a shell command holds
  Output     \* bound: what the command has to write

ASSUME KindsAssumption == Kinds \subseteq {"isolated", "shell"}
ASSUME SizesAssumption == PipeSize \in Nat /\ Output \in Nat

VARIABLES
  kind,
  grouped,   \* did setpgid put the child in a group of its own?
  child,     \* "starting", "running", "stopping" (in a SIGTERM handler)
             \*   or "gone"
  code,      \* its exit code: 0, or 1 for any other and for a signal
  offspring, \* a process the command started: "none", "running", "gone"
  result,    \* resFile was written
  failure,   \* errFile was written
  left,      \* output still to be written
  pipe,      \* output in the pipe
  state,     \* VTask.state
  phase,     \* where the parent's coroutine is
  outcome,   \* the task's future
  waiting,   \* a strand is inside `wait`
  flagged,   \* it is a fiber that is asked to stop
  blamed     \* history: its state is what such a fiber made of it

process == <<kind, grouped, child, code, offspring, result, failure, left, pipe>>
waiter == <<waiting, flagged, blamed>>
task == <<state, phase, outcome, waiter>>
vars == <<kind, grouped, child, code, offspring, result, failure, left, pipe,
          state, phase, outcome, waiting, flagged, blamed>>

(* startProcess was called.  A child that has already exec'd cannot be     *)
(* moved to another group any more: setpgid may have failed.               *)
Init ==
  /\ kind \in Kinds
  /\ grouped \in BOOLEAN
  /\ child = "starting"
  /\ code = 0
  /\ offspring = "none"
  /\ result = FALSE
  /\ failure = FALSE
  /\ left \in IF kind = "shell" THEN 0 .. Output ELSE {0}
  /\ pipe = 0
  /\ state = "pending"
  /\ phase = "polling"
  /\ outcome = "pending"
  /\ waiting = FALSE
  /\ flagged = FALSE
  /\ blamed = FALSE

-----------------------------------------------------------------------------
(* Plausible slips in the operators below, for the mutation runs.          *)
HasRoomForOneMore == pipe <= PipeSize
OnlyCancelled == state = "cancelled"
ClassifiedBlindly == "done"
NoSignal == UNCHANGED <<child, code>>
NeverWaits == FALSE

-----------------------------------------------------------------------------
(* The child installs its handlers, then runs.  A shell command writes,    *)
(* may start other processes that keep its pipe open, and ends; it cannot  *)
(* end while it has to write.                                              *)
Started ==
  /\ child = "starting"
  /\ child' = "running"
  /\ UNCHANGED <<kind, grouped, code, offspring, result, failure, left, pipe, task>>

HasRoom == pipe < PipeSize

Write ==
  /\ kind = "shell"
  /\ "running" \in {child, offspring}
  /\ left > 0
  /\ HasRoom
  /\ left' = left - 1
  /\ pipe' = pipe + 1
  /\ UNCHANGED <<kind, grouped, child, code, offspring, result, failure, task>>

Fork ==
  /\ kind = "shell"
  /\ child = "running"
  /\ offspring = "none"
  /\ offspring' = "running"
  /\ UNCHANGED <<kind, grouped, child, code, result, failure, left, pipe, task>>

OffspringEnds ==
  /\ offspring = "running"
  /\ child # "gone" \/ left = 0
  /\ offspring' = "gone"
  /\ UNCHANGED <<kind, grouped, child, code, result, failure, left, pipe, task>>

(* The wrapped block of an isolated child stores its result or its error.  *)
Store ==
  /\ kind = "isolated"
  /\ child = "running"
  /\ ~result /\ ~failure
  /\ \/ result' = TRUE /\ UNCHANGED failure
     \/ failure' = TRUE /\ UNCHANGED result
  /\ UNCHANGED <<kind, grouped, child, code, offspring, left, pipe, task>>

ChildEnds ==
  /\ child = "running"
  /\ left = 0 \/ offspring = "running"
  /\ child' = "gone"
  /\ code' \in {0, 1}
  /\ UNCHANGED <<kind, grouped, offspring, result, failure, left, pipe, task>>

(* SIGTERM: the end of a process that has no handler (yet).  Arturo has    *)
(* one, other commands may; none gives up while operations are pending,    *)
(* and in an isolated child the two inbound tails re-arm their timers for  *)
(* as long as it lives.                                                    *)
Terminate ==
  \/ /\ child = "starting" \/ kind = "shell"
     /\ child' = "gone"
     /\ code' = 1
  \/ /\ child # "starting"
     /\ child' = "stopping"
     /\ UNCHANGED code

StillPending == kind = "isolated"

HandlerEnds ==
  /\ child = "stopping"
  /\ ~StillPending
  /\ child' = "gone"
  /\ code' = 1
  /\ UNCHANGED <<kind, grouped, offspring, result, failure, left, pipe, task>>

-----------------------------------------------------------------------------
(* The program of the parent.                                              *)

Frozen == phase \in {"waiting", "reading"}

(* cancelTask.                                                             *)
Cancel ==
  /\ ~Frozen
  /\ state = "pending"
  /\ state' = "cancelled"
  /\ IF child # "gone" THEN Terminate ELSE UNCHANGED <<child, code>>
  /\ UNCHANGED <<kind, grouped, offspring, result, failure, left, pipe,
                 phase, outcome, waiter>>

(* wait: nothing to wait for if the task is cancelled, else the outcome is *)
(* read once it is there, and the state follows it.  If the strand is a    *)
(* fiber and was asked to stop, the await raises, whatever the outcome     *)
(* may be, and the error is taken for the task's.                          *)
WaitStart ==
  /\ ~Frozen
  /\ ~waiting
  /\ state # "cancelled"
  /\ waiting' = TRUE
  /\ UNCHANGED <<process, state, phase, outcome, flagged, blamed>>

CancelWaiter ==
  /\ ~Frozen
  /\ waiting /\ ~flagged
  /\ flagged' = TRUE
  /\ UNCHANGED <<process, state, phase, outcome, waiting, blamed>>

Unsuccessful == IF state = "cancelled" THEN "cancelled" ELSE "failed"
Classified == IF outcome = "value" /\ ~flagged THEN "done" ELSE Unsuccessful

WaitEnd ==
  /\ ~Frozen
  /\ waiting
  /\ flagged \/ outcome # "pending"
  /\ waiting' = FALSE
  /\ flagged' = FALSE
  /\ blamed' = (flagged /\ state # "cancelled")
  /\ state' = Classified
  /\ UNCHANGED <<process, phase, outcome>>

-----------------------------------------------------------------------------
(* The coroutine.  `while p.running and tsk.state != taskCancelled`, then  *)
(* terminateGroup and waitForExit if it was left by a cancel.              *)

LoopOver == child = "gone" \/ state = "cancelled"
MustWait == state = "cancelled" /\ child # "gone"
AfterExit == IF kind = "isolated" THEN "draining" ELSE "reading"

SignalGroup ==
  IF grouped
  THEN /\ Terminate
       /\ offspring' = IF offspring = "running" THEN "gone" ELSE offspring
  ELSE UNCHANGED <<child, code, offspring>>

LeaveLoop ==
  /\ phase = "polling"
  /\ LoopOver
  /\ IF MustWait
     THEN phase' = "waiting" /\ SignalGroup
     ELSE phase' = AfterExit /\ UNCHANGED <<child, code, offspring>>
  /\ UNCHANGED <<kind, grouped, result, failure, left, pipe, state, outcome, waiter>>

WaitForExit ==
  /\ phase = "waiting"
  /\ child = "gone"
  /\ phase' = AfterExit
  /\ UNCHANGED <<process, state, outcome, waiter>>

(* Both tails are over; then the files say what became of the block.       *)
Drain ==
  /\ phase = "draining"
  /\ phase' = "settled"
  /\ outcome' = IF failure THEN "error"
                ELSE IF code = 0 /\ result THEN "value"
                ELSE IF state = "cancelled" THEN "value" ELSE "error"
  /\ UNCHANGED <<process, state, waiter>>

(* readAll: to the end of file, when nobody holds the pipe any more.  With *)
(* `.code` every exit code is an outcome, without it only 0 is.            *)
ReadSome ==
  /\ phase = "reading"
  /\ pipe > 0
  /\ pipe' = 0
  /\ UNCHANGED <<kind, grouped, child, code, offspring, result, failure, left, task>>

EndOfFile == pipe = 0 /\ offspring # "running"

ReadEnd ==
  /\ phase = "reading"
  /\ EndOfFile
  /\ phase' = "settled"
  /\ \/ outcome' = "value"
     \/ code # 0 /\ state # "cancelled" /\ outcome' = "error"
  /\ UNCHANGED <<process, state, waiter>>

-----------------------------------------------------------------------------
Process == Started \/ Write \/ Fork \/ OffspringEnds \/ Store \/ ChildEnds \/ HandlerEnds
Coroutine == LeaveLoop \/ WaitForExit \/ Drain \/ ReadSome \/ ReadEnd
Program == Cancel \/ WaitStart \/ CancelWaiter \/ WaitEnd

Next == Process \/ Coroutine \/ Program

(* The parent's dispatcher turns.  A signal handler that waits for nothing *)
(* comes to its end: Arturo's own, when its dispatcher is drained, and one *)
(* that a shell command may have.  Nothing else is assumed of a child.     *)
Spec == Init /\ [][Next]_vars /\ WF_vars(Coroutine) /\ WF_vars(HandlerEnds)

-----------------------------------------------------------------------------
TypeOK ==
  /\ kind \in Kinds
  /\ grouped \in BOOLEAN
  /\ child \in {"starting", "running", "stopping", "gone"}
  /\ code \in {0, 1}
  /\ offspring \in {"none", "running", "gone"}
  /\ result \in BOOLEAN /\ failure \in BOOLEAN
  /\ left \in 0 .. Output
  /\ pipe \in 0 .. PipeSize
  /\ state \in {"pending", "done", "failed", "cancelled"}
  /\ phase \in {"polling", "waiting", "draining", "reading", "settled"}
  /\ outcome \in {"pending", "value", "error"}
  /\ waiting \in BOOLEAN
  /\ flagged \in BOOLEAN /\ blamed \in BOOLEAN

(* A task never settles while its process, or for a shell command anybody  *)
(* who may still write to its pipe, is there; nothing written is lost.     *)
SettledMeansOver ==
  outcome # "pending" =>
    /\ child = "gone"
    /\ pipe = 0
    /\ offspring # "running"

(* What `wait` made of the task agrees with its future, although a cancel  *)
(* may come between the two.  Only a waiter that was itself cancelled says *)
(* failed of a task that did not fail, and of one that is still running at *)
(* that: such a task is not pending any more, and nobody can cancel it.    *)
StateAgrees ==
  /\ state = "done" => outcome = "value"
  /\ state = "failed" => outcome = "error" \/ blamed
  /\ blamed => state = "failed"

(* When the processes have ended the future settles, whoever cancelled     *)
(* what in between.                                                        *)
SettlesAfterExit ==
  child = "gone" /\ offspring # "running" ~> outcome # "pending"

(* A cancelled shell command ends, also when it is blocked on a full pipe  *)
(* and was never moved to a group of its own.                              *)
CancelEndsShell == state = "cancelled" /\ kind = "shell" ~> child = "gone"

(* "cancel s ; actually kills the child process"                           *)
CancelKillsChild == state = "cancelled" ~> child = "gone"
=============================================================================
