------------------------------- MODULE Fibers -------------------------------
(***************************************************************************)
(* The cooperative scheduler of helpers/parallelism.nim and the tasks that *)
(* `do.async` runs on it: spawnInProcessDoBlock, runOneStep,               *)
(* cooperativeAwait, runUntilFutureDone, pumpScheduler, and the builtins   *)
(* `wait` (plain), `cancel` and `pause` of Tasks.nim and System.nim.       *)
(*                                                                         *)
(* One OS thread.  Main resumes fibers one at a time from the ready queue; *)
(* a fiber runs until it awaits an unfinished future or ends.  What Main   *)
(* and the blocks do is up to the Arturo program: any order of spawns,     *)
(* waits, pauses, cancels, channel receives and sends.                     *)
(***************************************************************************)
EXTENDS Naturals, Sequences, FiniteSets

CONSTANTS
  Tasks,      \* the tasks a program may spawn; each owns one fiber
  Main,       \* the main thread
  MaxSteps,   \* bound: calls one block makes before it ends
  MaxCalls    \* bound: calls Main makes

ASSUME MainAssumption == Main \notin Tasks
ASSUME TasksAssumption == IsFiniteSet(Tasks)
ASSUME BoundsAssumption == MaxSteps \in Nat /\ MaxCalls \in Nat

Strands == Tasks \cup {Main}

InQueue(t, q) == \E i \in DOMAIN q : q[i] = t

(* Futures: the one a task settles, the timer of a strand's pause, and the *)
(* future a fiber parks on in a channel until somebody sends (the gate).   *)
TaskOf(t) == <<"task", t>>
TimerOf(s) == <<"timer", s>>
GateOf(t) == <<"gate", t>>
TaskFutures == {TaskOf(t) : t \in Tasks}
Timers == {TimerOf(s) : s \in Strands}
Gates == {GateOf(t) : t \in Tasks}
Futures == TaskFutures \cup Timers \cup Gates

(* What Main or a fiber is at when that is no future.                      *)
Free == <<"free">>        \* Main runs its program, or sits at the prompt
Pump == <<"pump">>        \* Main is inside pumpScheduler
Start == <<"start">>      \* a fiber that was never resumed
Nothing == <<"nothing">>  \* a fiber that is not inside cooperativeAwait

VARIABLES
  ready,            \* scheduler.ready
  current,          \* scheduler.currentFiber, Main for nil
  co,               \* the coroutine: "none", "alive" or "dead" (mcoDead)
  awaits,           \* what an alive fiber will find when it is resumed:
                    \*   Start, a future, or Nothing while it runs
  cancelRequested,  \* ctx.cancelRequested
  state,            \* VTask.state, "none" before the spawn
  fut,              \* futures: "idle", "pending", "value" or "error"
  waiters,          \* the callbacks of a future: the fibers they make ready
  callbacks,        \* the dispatcher's queue of callbacks (callSoon)
  dispatcherUp,     \* has anything created the dispatcher yet?
  main,             \* Free, Pump (REPL idle), or the future Main awaits
  spent             \* calls made so far, per strand (bound)

vars == <<ready, current, co, awaits, cancelRequested, state, fut, waiters,
          callbacks, dispatcherUp, main, spent>>

Init ==
  /\ ready = <<>>
  /\ current = Main
  /\ co = [t \in Tasks |-> "none"]
  /\ awaits = [t \in Tasks |-> Start]
  /\ cancelRequested = [t \in Tasks |-> FALSE]
  /\ state = [t \in Tasks |-> "none"]
  /\ fut = [f \in Futures |-> "idle"]
  /\ waiters = [f \in Futures |-> <<>>]
  /\ callbacks = <<>>
  /\ dispatcherUp = FALSE
  /\ main = Free
  /\ spent = [s \in Strands |-> 0]

-----------------------------------------------------------------------------
(* Plausible slips in the operators below, for the mutation runs.          *)
HasPendingOperationsOrParked ==
  callbacks # <<>> \/ \E f \in Timers \cup Gates : fut[f] = "pending"
WakeUnflattened(q) ==
  IF dispatcherUp
  THEN callbacks' = Append(callbacks, q) /\ ready' = ready
  ELSE ready' = Append(ready, q) /\ callbacks' = callbacks
ClassifiedBlindly(b) == "done"
AddCallbackForgotten(t, f) == UNCHANGED waiters
SettlesAndForgets(t, result) == UNCHANGED fut
MakeReadyForgotten(b) == UNCHANGED ready
ResumableEvenDead(t) == TRUE

-----------------------------------------------------------------------------
Finished(f) == fut[f] \in {"value", "error"}
HasPendingOperations == callbacks # <<>> \/ \E f \in Timers : fut[f] = "pending"

(* The callbacks of a future that settles: queued by callSoon once there   *)
(* is a dispatcher, run on the spot before that.                           *)
Wake(q) ==
  IF dispatcherUp
  THEN callbacks' = callbacks \o q /\ ready' = ready
  ELSE ready' = ready \o q /\ callbacks' = callbacks

Call(s, n) == spent[s] < n /\ spent' = [spent EXCEPT ![s] = @ + 1]

(* `wait` has read the settled future of task b.                           *)
Classified(b) ==
  IF fut[TaskOf(b)] = "value" THEN "done"
  ELSE IF state[b] = "cancelled" THEN "cancelled" ELSE "failed"

(* `wait` on task b caught an error that is not b's.                       *)
Blamed(b) == IF state[b] = "cancelled" THEN "cancelled" ELSE "failed"

-----------------------------------------------------------------------------
(* The scheduler.  Main turns it while it waits and while the REPL idles.  *)

Turning == current = Main /\ (main = Pump \/ (main \in Futures /\ ~Finished(main)))

(* runOneStep on a queue that is not empty: its head is resumed, unless it *)
(* is "cancel race: already-done fiber re-queued".                         *)
Resumable(t) == co[t] # "dead"

ResumeHead(q) ==
  /\ ready' = Tail(q)
  /\ IF Resumable(Head(q))
     THEN /\ current' = Head(q)
          /\ awaits' = [awaits EXCEPT ![Head(q)] = IF @ = Start THEN Nothing ELSE @]
     ELSE UNCHANGED <<current, awaits>>

RunFiber ==
  /\ Turning
  /\ ready # <<>>
  /\ ResumeHead(ready)
  /\ UNCHANGED <<co, cancelRequested, state, fut, waiters, callbacks,
                 dispatcherUp, main, spent>>

(* runOneStep with nothing ready: poll.  Some timers have expired (maybe   *)
(* none: a poll may time out); every queued callback runs, then theirs.    *)
(* The only callback of a fiber's timer is that fiber's.                   *)
Armed == {s \in Strands : fut[TimerOf(s)] = "pending"}
Orders(S) == {q \in [1 .. Cardinality(S) -> S] : \A t \in S : InQueue(t, q)}
Due(S) == {t \in Tasks \cap S : waiters[TimerOf(t)] # <<>>}

Poll ==
  /\ Turning
  /\ ready = <<>>
  /\ HasPendingOperations
  /\ \E S \in SUBSET Armed :
       /\ \E q \in Orders(Due(S)) : ready' = callbacks \o q
       /\ fut' = [f \in Futures |-> IF f \in {TimerOf(s) : s \in S} THEN "value" ELSE fut[f]]
       /\ waiters' = [f \in Futures |-> IF f \in {TimerOf(s) : s \in S} THEN <<>> ELSE waiters[f]]
  /\ callbacks' = <<>>
  /\ dispatcherUp' = TRUE
  /\ main' = IF main = Pump THEN Free ELSE main
  /\ UNCHANGED <<current, co, awaits, cancelRequested, state, spent>>

(* The REPL waits for a key: it pumps the scheduler every 50 ms.           *)
PumpStart ==
  /\ current = Main
  /\ main = Free
  /\ main' = Pump
  /\ UNCHANGED <<ready, current, co, awaits, cancelRequested, state, fut,
                 waiters, callbacks, dispatcherUp, spent>>

PumpEnd ==
  /\ current = Main
  /\ main = Pump
  /\ ready = <<>>
  /\ ~HasPendingOperations
  /\ main' = Free
  /\ dispatcherUp' = TRUE
  /\ UNCHANGED <<ready, current, co, awaits, cancelRequested, state, fut,
                 waiters, callbacks, spent>>

-----------------------------------------------------------------------------
(* What a block does while it runs.  It makes calls until it ends; a call  *)
(* that awaits either goes on or suspends the fiber.                       *)

Runs(t) == current = t /\ awaits[t] = Nothing

(* addCallback, then suspend, on a future that is not finished.            *)
AddCallback(t, f) == waiters' = [waiters EXCEPT ![f] = Append(@, t)]

SuspendOn(t, f) ==
  /\ ~cancelRequested[t]
  /\ AddCallback(t, f)
  /\ awaits' = [awaits EXCEPT ![t] = f]
  /\ current' = Main

(* fiberEntry: the state, then the future, then the coroutine is over.     *)
Settles(t, result) == fut' = [fut EXCEPT ![TaskOf(t)] = result]

Ends(t, st, result) ==
  /\ state' = [state EXCEPT ![t] = st]
  /\ Settles(t, result)
  /\ Wake(waiters[TaskOf(t)])
  /\ waiters' = [waiters EXCEPT ![TaskOf(t)] = <<>>]
  /\ co' = [co EXCEPT ![t] = "dead"]
  /\ awaits' = [awaits EXCEPT ![t] = Nothing]
  /\ current' = Main

(* pause: the timer is armed before cooperativeAwait looks at the flag.    *)
FiberPause(t) ==
  /\ Runs(t)
  /\ Call(t, MaxSteps)
  /\ fut[TimerOf(t)] # "pending"
  /\ fut' = [fut EXCEPT ![TimerOf(t)] = "pending"]
  /\ dispatcherUp' = TRUE
  /\ \/ SuspendOn(t, TimerOf(t))
     \/ /\ cancelRequested[t]
        /\ awaits' = [awaits EXCEPT ![t] = TimerOf(t)]
        /\ UNCHANGED <<waiters, current>>
  /\ UNCHANGED <<ready, co, cancelRequested, state, callbacks, main>>

(* receive on an empty channel.                                            *)
FiberPark(t) ==
  /\ Runs(t)
  /\ Call(t, MaxSteps)
  /\ fut[GateOf(t)] # "pending"
  /\ fut' = [fut EXCEPT ![GateOf(t)] = "pending"]
  /\ \/ SuspendOn(t, GateOf(t))
     \/ /\ cancelRequested[t]
        /\ awaits' = [awaits EXCEPT ![t] = GateOf(t)]
        /\ UNCHANGED <<waiters, current>>
  /\ UNCHANGED <<ready, co, cancelRequested, state, callbacks, dispatcherUp, main>>

(* wait b.  Nothing to wait for if b is marked cancelled; a future that is *)
(* finished is read at once; an error raised by the await itself is caught *)
(* by `wait` and taken for b's.                                            *)
FiberWait(t, b) ==
  /\ Runs(t)
  /\ b # t /\ co[b] # "none"
  /\ Call(t, MaxSteps)
  /\ \/ /\ state[b] = "cancelled"
        /\ UNCHANGED <<current, awaits, waiters, state>>
     \/ /\ state[b] # "cancelled"
        /\ cancelRequested[t]
        /\ state' = [state EXCEPT ![b] = Blamed(b)]
        /\ UNCHANGED <<current, awaits, waiters>>
     \/ /\ state[b] # "cancelled"
        /\ ~cancelRequested[t]
        /\ Finished(TaskOf(b))
        /\ state' = [state EXCEPT ![b] = Classified(b)]
        /\ UNCHANGED <<current, awaits, waiters>>
     \/ /\ state[b] # "cancelled"
        /\ ~Finished(TaskOf(b))
        /\ SuspendOn(t, TaskOf(b))
        /\ UNCHANGED state
  /\ UNCHANGED <<ready, co, cancelRequested, fut, callbacks, dispatcherUp, main>>

(* Back from suspend (or stopped by the flag before it): the rest of       *)
(* cooperativeAwait and of the builtin that called it.                     *)
Resumed(t) == current = t /\ awaits[t] \in Futures

FinishAwait(t) ==
  /\ Resumed(t)
  /\ ~cancelRequested[t]
  /\ awaits' = [awaits EXCEPT ![t] = Nothing]
  /\ \/ awaits[t] \notin TaskFutures /\ UNCHANGED state
     \/ \E b \in Tasks : /\ awaits[t] = TaskOf(b)
                         /\ state' = [state EXCEPT ![b] = Classified(b)]
  /\ UNCHANGED <<ready, current, co, cancelRequested, fut, waiters, callbacks,
                 dispatcherUp, main, spent>>

(* cancelRequested: FiberCancelledError is raised.  It escapes the block,  *)
(* or a `try` of the block swallows it, or the `wait` it was raised in.    *)
AwaitCancelled(t) ==
  /\ Resumed(t)
  /\ cancelRequested[t]
  /\ \/ /\ awaits[t] \notin TaskFutures
        /\ Ends(t, "cancelled", "error")
        /\ UNCHANGED <<cancelRequested, dispatcherUp, main, spent>>
     \/ /\ awaits[t] \notin TaskFutures
        /\ awaits' = [awaits EXCEPT ![t] = Nothing]
        /\ UNCHANGED <<ready, current, co, cancelRequested, state, fut, waiters,
                       callbacks, dispatcherUp, main, spent>>
     \/ \E b \in Tasks :
          /\ awaits[t] = TaskOf(b)
          /\ state' = [state EXCEPT ![b] = Blamed(b)]
          /\ awaits' = [awaits EXCEPT ![t] = Nothing]
          /\ UNCHANGED <<ready, current, co, cancelRequested, fut, waiters,
                         callbacks, dispatcherUp, main, spent>>

(* fiberEntry, when the block returned and when it raised.                 *)
FiberReturn(t) ==
  /\ Runs(t)
  /\ Ends(t, "done", "value")
  /\ UNCHANGED <<cancelRequested, dispatcherUp, main, spent>>

FiberRaise(t) ==
  /\ Runs(t)
  /\ Ends(t, "failed", "error")
  /\ UNCHANGED <<cancelRequested, dispatcherUp, main, spent>>

-----------------------------------------------------------------------------
(* Calls both Main and a running block make.                               *)

Acting(s) == IF s = Main THEN current = Main /\ main = Free /\ Call(Main, MaxCalls)
             ELSE Runs(s) /\ Call(s, MaxSteps)

Created(b) ==
  /\ co[b] = "none"
  /\ co' = [co EXCEPT ![b] = "alive"]
  /\ state' = [state EXCEPT ![b] = "pending"]
  /\ fut' = [fut EXCEPT ![TaskOf(b)] = "pending"]

(* do.async.lazy, or do.async inside a fiber: only queued.                 *)
Spawn(s, b) ==
  /\ Acting(s)
  /\ Created(b)
  /\ ready' = Append(ready, b)
  /\ UNCHANGED <<current, awaits, cancelRequested, waiters, callbacks,
                 dispatcherUp, main>>

(* do.async on Main: queued, then one runOneStep (the head of the queue).  *)
SpawnEager(b) ==
  /\ Acting(Main)
  /\ Created(b)
  /\ ResumeHead(Append(ready, b))
  /\ UNCHANGED <<cancelRequested, waiters, callbacks, dispatcherUp, main>>

(* cancel: cancelTask, then the task's cancelHandle.                       *)
RaiseFlag(b) == cancelRequested' = [cancelRequested EXCEPT ![b] = TRUE]
MakeReady(b) == ready' = IF co[b] = "dead" THEN ready ELSE Append(ready, b)

Cancel(s, b) ==
  /\ Acting(s)
  /\ state[b] = "pending"
  /\ state' = [state EXCEPT ![b] = "cancelled"]
  /\ RaiseFlag(b)
  /\ MakeReady(b)
  /\ UNCHANGED <<current, co, awaits, fut, waiters, callbacks, dispatcherUp, main>>

(* send to the channel b's fiber is parked on.                             *)
Send(s, b) ==
  /\ Acting(s)
  /\ fut[GateOf(b)] = "pending"
  /\ fut' = [fut EXCEPT ![GateOf(b)] = "value"]
  /\ Wake(waiters[GateOf(b)])
  /\ waiters' = [waiters EXCEPT ![GateOf(b)] = <<>>]
  /\ UNCHANGED <<current, co, awaits, cancelRequested, state, dispatcherUp, main>>

-----------------------------------------------------------------------------
(* Main's own waits.                                                       *)

MainWait(b) ==
  /\ Acting(Main)
  /\ co[b] # "none"
  /\ state[b] # "cancelled"
  /\ main' = TaskOf(b)
  /\ UNCHANGED <<ready, current, co, awaits, cancelRequested, state, fut,
                 waiters, callbacks, dispatcherUp>>

(* pause with work in flight; with none it is an OS sleep.                 *)
MainPause ==
  /\ Acting(Main)
  /\ ready # <<>> \/ HasPendingOperations
  /\ fut[TimerOf(Main)] # "pending"
  /\ fut' = [fut EXCEPT ![TimerOf(Main)] = "pending"]
  /\ main' = TimerOf(Main)
  /\ dispatcherUp' = TRUE
  /\ UNCHANGED <<ready, current, co, awaits, cancelRequested, state, waiters,
                 callbacks>>

MainWaited ==
  /\ current = Main
  /\ main \in Futures /\ Finished(main)
  /\ main' = Free
  /\ \/ main \notin TaskFutures /\ UNCHANGED state
     \/ \E b \in Tasks : /\ main = TaskOf(b)
                         /\ state' = [state EXCEPT ![b] = Classified(b)]
  /\ UNCHANGED <<ready, current, co, awaits, cancelRequested, fut, waiters,
                 callbacks, dispatcherUp, spent>>

(* runUntilFutureDone gives up: "no pending work, future will never        *)
(* complete".  `wait` catches that as well.                                *)
MainGivesUp ==
  /\ current = Main
  /\ main \in TaskFutures /\ ~Finished(main)
  /\ ready = <<>>
  /\ ~HasPendingOperations
  /\ main' = Free
  /\ dispatcherUp' = TRUE
  /\ \E b \in Tasks : /\ main = TaskOf(b)
                      /\ state' = [state EXCEPT ![b] = Blamed(b)]
  /\ UNCHANGED <<ready, current, co, awaits, cancelRequested, fut, waiters,
                 callbacks, spent>>

-----------------------------------------------------------------------------
Scheduler == RunFiber \/ Poll \/ PumpStart \/ PumpEnd \/ MainWaited \/ MainGivesUp

Block(t) == \/ FiberPause(t) \/ FiberPark(t)
            \/ \E b \in Tasks : FiberWait(t, b)
            \/ FinishAwait(t) \/ AwaitCancelled(t)
            \/ FiberReturn(t) \/ FiberRaise(t)
            \/ \E b \in Tasks : Spawn(t, b) \/ Cancel(t, b) \/ Send(t, b)

MainCall == \/ \E b \in Tasks : \/ Spawn(Main, b) \/ SpawnEager(b)
                                \/ Cancel(Main, b) \/ Send(Main, b)
                                \/ MainWait(b)
            \/ MainPause

Next == Scheduler \/ (\E t \in Tasks : Block(t)) \/ MainCall

Spec == Init /\ [][Next]_vars

(* A loop that waits turns, and the REPL pumps while it waits for input;   *)
(* an armed timer expires, and a poll after that finds it; a block that    *)
(* runs gets on with it and ends.                                          *)
PollTimer(s) == Poll /\ fut[TimerOf(s)] = "pending" /\ fut'[TimerOf(s)] = "value"
FairSpec == /\ Spec
            /\ WF_vars(Scheduler)
            /\ \A s \in Strands : SF_vars(PollTimer(s))
            /\ \A t \in Tasks : WF_vars(Block(t))

-----------------------------------------------------------------------------
TypeOK ==
  /\ ready \in Seq(Tasks)
  /\ current \in Strands
  /\ co \in [Tasks -> {"none", "alive", "dead"}]
  /\ awaits \in [Tasks -> {Start, Nothing} \cup Futures]
  /\ cancelRequested \in [Tasks -> BOOLEAN]
  /\ state \in [Tasks -> {"none", "pending", "done", "failed", "cancelled"}]
  /\ fut \in [Futures -> {"idle", "pending", "value", "error"}]
  /\ waiters \in [Futures -> Seq(Tasks)]
  /\ callbacks \in Seq(Tasks)
  /\ dispatcherUp \in BOOLEAN
  /\ main \in {Free, Pump} \cup Futures
  /\ spent \in [Strands -> Nat]

(* A fiber that is not running is never forgotten: before its start and    *)
(* after its future settled it is in the ready queue or about to be put    *)
(* there; until then its callback is registered with the future.           *)
NoLostWakeup ==
  \A t \in Tasks :
    co[t] = "alive" /\ current # t =>
      IF awaits[t] \in Futures /\ ~Finished(awaits[t])
      THEN InQueue(t, waiters[awaits[t]])
      ELSE InQueue(t, ready) \/ InQueue(t, callbacks)

(* A task's future settles exactly when its fiber is over: nobody reads a  *)
(* result of a block that still runs, and no fiber ends unanswered.        *)
SettledIffDead ==
  \A t \in Tasks : Finished(TaskOf(t)) <=> co[t] = "dead"

(* A task whose state is taskDone has a result to read.                    *)
DoneMeansValue == \A t \in Tasks : state[t] = "done" => fut[TaskOf(t)] = "value"

(* A fiber is only resumed if it is alive and has a reason to be: its      *)
(* start, a settled future, or its cancellation.  The ready queue may hold *)
(* a fiber twice (cancelled and woken): the second entry must do nothing.  *)
NoSpuriousResume ==
  [][\A t \in Tasks :
       current = Main /\ current' = t =>
         /\ co'[t] = "alive"
         /\ \/ awaits[t] = Start
            \/ awaits[t] \in Futures /\ Finished(awaits[t])
            \/ cancelRequested[t]]_vars

(* Cancelling a fiber ends it, wherever it is parked.                      *)
CancelStops == \A t \in Tasks : cancelRequested[t] ~> co[t] = "dead"

(* Main's waits end, in a result or in "no pending work".                  *)
WaitReturns == main \in Futures ~> main = Free

(* What a task promises its holders, whoever writes its state and in       *)
(* whatever order: its future settles once, by the ending of its fiber,    *)
(* which alone can stop as cancelled and only when asked to; the state     *)
(* changes as TaskSpec says.                                               *)
Promise == INSTANCE TaskSpec WITH fut <- [t \in Tasks |-> fut[TaskOf(t)]]
ImplementsTaskSpec == Promise!Spec

(* "eager: run the fiber until first yield before returning the task"      *)
EagerRunsNewFiber == [][\A b \in Tasks : SpawnEager(b) => current' = b]_vars

(* failed?: "check if given task ended in failure"                         *)
FailedMeansEnded ==
  \A t \in Tasks : state[t] = "failed" => fut[TaskOf(t)] = "error"
=============================================================================
