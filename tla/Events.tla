------------------------------- MODULE Events -------------------------------
(***************************************************************************)
(* Events and their handlers: `on`, `emit`, `off`, the callbacks of a task,*)
(* and the exit hook of library/Events.nim, on the main thread.            *)
(*                                                                         *)
(* A handler runs inside a poll.  The poll was started by a wait, of the   *)
(* program or of another handler; so handlers nest, and the poll of the    *)
(* innermost wait runs what the outer polls have still to run.  Main is a  *)
(* stack of frames, the program at the bottom and the innermost handler on *)
(* top.                                                                    *)
(***************************************************************************)
EXTENDS Naturals, Sequences, FiniteSets, Selection

CONSTANTS
  Names,       \* names of events, BeforeExit among them
  BeforeExit,
  Leaves,      \* how many values a handler's block may leave on the stack
  MaxCalls,    \* bound: calls the program and its handlers make
  MaxTicks     \* turns of the dispatcher the exit hook waits for (100)

ASSUME NamesAssumption == BeforeExit \in Names
ASSUME LeavesAssumption == Leaves \subseteq Nat
ASSUME BoundsAssumption == MaxCalls \in Nat /\ MaxTicks \in Nat

VARIABLES
  subscribers,  \* subscribers: the registrations of each event
  nextId,       \* nextSubscriberId
  watchers,     \* callbacks of the task's future
  taskState,    \* VTask.state of a task that I/O settles
  outcome,      \* its future
  timers,       \* handlers scheduled by enqueueEmit
  callbacks,    \* the dispatcher's queue of callbacks
  frames,       \* main's stack of frames, see above
  sp,           \* SP, the height of main's value stack
  exiting,      \* shuttingDown
  ticks,        \* drainTicks
  calls,        \* calls made so far (bound)
  scheduled,    \* history: everything that was to run, in that order
  started,      \* history: everything that did
  removed,      \* history: ids taken out by `off`, and once-handlers fired
  told          \* history: what the callbacks of the task were told

registry == <<subscribers, nextId, removed>>
task == <<watchers, taskState, outcome>>
queues == <<timers, callbacks, scheduled>>
main == <<frames, sp, exiting, ticks>>
vars == <<subscribers, nextId, watchers, taskState, outcome, timers, callbacks,
          frames, sp, exiting, ticks, calls, scheduled, started, removed, told>>

Modes == {"done", "failed", "cancelled", "finished"}
Ids == 1 .. MaxCalls
Registration == [id : Ids, once : BOOLEAN]
Firing == [id : Ids, mode : Modes \cup {"event"}]
Frame == [at : {"running", "waiting", "polling"}, for : {"other", "task"}, sp : Nat]

(* A frame at its start, for a stack of the given height; what it waits   *)
(* for matters when it is the task.                                        *)
Running(height) == [at |-> "running", for |-> "other", sp |-> height]

Init ==
  /\ subscribers = [e \in Names |-> <<>>]
  /\ nextId = 0
  /\ watchers = <<>>
  /\ taskState = "pending"
  /\ outcome = "pending"
  /\ timers = <<>>
  /\ callbacks = <<>>
  /\ frames = <<Running(0)>>
  /\ sp = 0
  /\ exiting = FALSE
  /\ ticks = 0
  /\ calls = 0
  /\ scheduled = <<>>
  /\ started = <<>>
  /\ removed = {}
  /\ told = <<>>

-----------------------------------------------------------------------------
(* Plausible slips in the operators below, for the mutation runs.          *)
QueuedAfresh == timers
KeptAll(e) == subscribers[e]
WrittenNever(end) == taskState
DrainedAtOnce == TRUE
MayTurnOnceMore == exiting => ticks <= MaxTicks

-----------------------------------------------------------------------------
Top == frames[Len(frames)]
Enter(at) == frames' = [frames EXCEPT ![Len(frames)].at = at]

(* The program or a handler makes a call.                                  *)
Acts ==
  /\ frames # <<>> /\ Top.at = "running"
  /\ calls < MaxCalls
  /\ calls' = calls + 1

(* The subscribers that fire more than once; registrations without one.    *)
Kept(e) == Select(subscribers[e], {i \in DOMAIN subscribers[e] : ~subscribers[e][i].once})
Without(subs, id) == Select(subs, {i \in DOMAIN subs : subs[i].id # id})
IdsOf(subs) == {subs[i].id : i \in DOMAIN subs}

(* Callbacks come before the handlers that only wait for the next poll.    *)
CallSoon(new) ==
  /\ callbacks' = callbacks \o new
  /\ LET n == Len(scheduled) - Len(timers)
     IN scheduled' = SubSeq(scheduled, 1, n) \o new
                       \o SubSeq(scheduled, n + 1, Len(scheduled))
  /\ timers' = timers

(* on: for an event, and for the task (whose callbacks are called soon if  *)
(* it has settled already).                                                *)
On(e, once) ==
  /\ Acts
  /\ nextId' = nextId + 1
  /\ subscribers' = [subscribers EXCEPT
       ![e] = Append(@, [id |-> nextId + 1, once |-> once])]
  /\ UNCHANGED <<removed, task, queues, main, started, told>>

OnTask(mode) ==
  /\ Acts
  /\ nextId' = nextId + 1
  /\ LET w == [id |-> nextId + 1, mode |-> mode]
     IN IF outcome = "pending"
        THEN watchers' = Append(watchers, w) /\ UNCHANGED queues
        ELSE CallSoon(<<w>>) /\ UNCHANGED watchers
  /\ UNCHANGED <<subscribers, removed, taskState, outcome, main, started, told>>

(* dispatchEvent: every handler on the next tick; once-handlers go.        *)
Firings(e) ==
  [i \in DOMAIN subscribers[e] |->
     [id |-> subscribers[e][i].id, mode |-> "event"]]

Dispatch(e) ==
  /\ timers' = timers \o Firings(e)
  /\ scheduled' = scheduled \o Firings(e)
  /\ subscribers' = [subscribers EXCEPT ![e] = Kept(e)]
  /\ removed' = removed \cup
       {s \in IdsOf(subscribers[e]) :
          \E i \in DOMAIN subscribers[e] :
             subscribers[e][i].id = s /\ subscribers[e][i].once}
  /\ UNCHANGED <<callbacks, nextId>>

Emit(e) ==
  /\ Acts
  /\ Dispatch(e)
  /\ UNCHANGED <<task, main, started, told>>

(* off: every handler of an event, or the one with an id.                  *)
Off(e) ==
  /\ Acts
  /\ subscribers' = [subscribers EXCEPT ![e] = <<>>]
  /\ removed' = removed \cup IdsOf(subscribers[e])
  /\ UNCHANGED <<nextId, task, queues, main, started, told>>

OffId(id) ==
  /\ Acts
  /\ id \in UNION {IdsOf(subscribers[e]) : e \in Names}
  /\ subscribers' = [e \in Names |-> Without(subscribers[e], id)]
  /\ removed' = removed \cup {id}
  /\ UNCHANGED <<nextId, task, queues, main, started, told>>

(* cancel: the state; the closed handle then makes the future fail.        *)
Cancel ==
  /\ Acts
  /\ taskState = "pending"
  /\ taskState' = "cancelled"
  /\ UNCHANGED <<registry, watchers, outcome, queues, main, started, told>>

(* Any builtin that waits on the main thread: runUntilFutureDone, for the  *)
(* future of the task or for another.                                      *)
WaitStart(future) ==
  /\ Acts
  /\ future = "task" => taskState # "cancelled"
  /\ frames' = [frames EXCEPT ![Len(frames)] =
                  [at |-> "waiting", for |-> future, sp |-> sp]]
  /\ UNCHANGED <<registry, task, queues, sp, exiting, ticks, started, told>>

-----------------------------------------------------------------------------
(* The dispatcher.                                                         *)

Waits == frames # <<>> /\ Top.at = "waiting"
HasPendingOperations ==
  timers # <<>> \/ callbacks # <<>> \/ outcome = "pending"
Draining == exiting /\ Len(frames) = 1

(* A poll: the timers of scheduled handlers are due; their callbacks come  *)
(* behind those that are queued.                                           *)
Queued == callbacks \o timers

MayTurn == Draining => ticks < MaxTicks

PollStart ==
  /\ Waits
  /\ HasPendingOperations
  /\ MayTurn
  /\ ticks' = IF Draining THEN ticks + 1 ELSE ticks
  /\ callbacks' = Queued
  /\ timers' = <<>>
  /\ Enter("polling")
  /\ UNCHANGED <<registry, task, scheduled, sp, exiting, calls, started, told>>

(* What the callback of the settled task makes of it.                      *)
Told == IF taskState = "cancelled" THEN "cancelled"
        ELSE IF outcome = "error" THEN "failed" ELSE "done"

Written(end) == IF taskState = "pending" \/ end = "failed" THEN end ELSE taskState

(* The next callback: a handler, or a callback of the task, which runs its *)
(* handler if its mode is the one.                                         *)
RunCallback ==
  /\ frames # <<>> /\ Top.at = "polling"
  /\ callbacks # <<>>
  /\ callbacks' = Tail(callbacks)
  /\ started' = Append(started, Head(callbacks))
  /\ LET mode == Head(callbacks).mode
     IN /\ frames' = IF mode \in {"event", "finished", Told}
                     THEN Append(frames, Running(sp)) ELSE frames
        /\ IF mode = "event" THEN UNCHANGED <<taskState, told>>
           ELSE /\ told' = Append(told, Told)
                /\ taskState' = Written(Told)
  /\ UNCHANGED <<registry, watchers, outcome, timers, scheduled, sp, exiting,
                 ticks, calls>>

PollEnd ==
  /\ frames # <<>> /\ Top.at = "polling"
  /\ callbacks = <<>>
  /\ Enter("waiting")
  /\ UNCHANGED <<registry, task, queues, sp, exiting, ticks, calls, started, told>>

(* The handler is over, in a value, in nothing or in an error that is      *)
(* shown.                                                                  *)
HandlerEnds ==
  /\ Len(frames) > 1 /\ Top.at = "running"
  /\ frames' = SubSeq(frames, 1, Len(frames) - 1)
  /\ \E n \in Leaves : sp' = sp + n
  /\ UNCHANGED <<registry, task, queues, exiting, ticks, calls, started, told>>

(* The future that is waited for was settled, or will never be; `wait`     *)
(* writes the task's state.                                                *)
WaitEnd ==
  /\ Waits
  /\ ~Draining
  /\ IF Top.for = "task"
     THEN /\ outcome # "pending"
          /\ taskState' = IF outcome = "value" THEN "done"
                          ELSE IF taskState = "cancelled" THEN "cancelled" ELSE "failed"
     ELSE UNCHANGED taskState
  /\ Enter("running")
  /\ UNCHANGED <<registry, watchers, outcome, queues, sp, exiting, ticks, calls,
                 started, told>>

(* I/O settles the task.                                                   *)
TaskSettles ==
  /\ frames # <<>> /\ Top.at = "polling"
  /\ outcome = "pending"
  /\ outcome' \in {"value", "error"}
  /\ CallSoon(watchers)
  /\ watchers' = <<>>
  /\ UNCHANGED <<registry, taskState, main, calls, started, told>>

(* The program is over: the exit hook emits BeforeExit and drains.         *)
Exit ==
  /\ Len(frames) = 1 /\ Top.at = "running"
  /\ ~exiting
  /\ exiting' = TRUE
  /\ Dispatch(BeforeExit)
  /\ frames' = <<[Running(sp) EXCEPT !.at = "waiting"]>>
  /\ UNCHANGED <<task, sp, ticks, calls, started, told>>

Drained == HasPendingOperations => ticks = MaxTicks
Gone ==
  /\ Waits /\ Draining
  /\ Drained
  /\ frames' = <<>>
  /\ UNCHANGED <<registry, task, queues, sp, exiting, ticks, calls, started, told>>

-----------------------------------------------------------------------------
Dispatcher == PollStart \/ RunCallback \/ PollEnd \/ Gone
Program == \/ \E e \in Names, once \in BOOLEAN : On(e, once)
           \/ \E mode \in Modes : OnTask(mode)
           \/ \E e \in Names : Emit(e) \/ Off(e)
           \/ \E id \in Ids : OffId(id)
           \/ Cancel
           \/ \E future \in {"task", "other"} : WaitStart(future)
           \/ HandlerEnds
           \/ Exit

Next == Program \/ Dispatcher \/ WaitEnd \/ TaskSettles

(* The loop that waits turns; a block that runs comes to its end.          *)
Spec == Init /\ [][Next]_vars /\ WF_vars(Dispatcher) /\ WF_vars(Program)

-----------------------------------------------------------------------------
TypeOK ==
  /\ subscribers \in [Names -> Seq(Registration)]
  /\ nextId \in 0 .. MaxCalls
  /\ watchers \in Seq(Firing)
  /\ taskState \in {"pending", "done", "failed", "cancelled"}
  /\ outcome \in {"pending", "value", "error"}
  /\ timers \in Seq(Firing)
  /\ callbacks \in Seq(Firing)
  /\ frames \in Seq(Frame)
  /\ sp \in Nat
  /\ exiting \in BOOLEAN
  /\ ticks \in 0 .. MaxTicks
  /\ calls \in 0 .. MaxCalls
  /\ scheduled \in Seq(Firing)
  /\ started \in Seq(Firing)
  /\ removed \subseteq Ids
  /\ told \in Seq(Modes)

(* Every handler an emit found, and every callback of the task, is started *)
(* once, in the order in which they were scheduled, however the polls that *)
(* start them are nested.                                                  *)
StartedInOrder == scheduled = started \o callbacks \o timers

(* "auto-remove the handler after its first fire": however many emits come *)
(* before the next tick, a once-handler is started once, and nothing that  *)
(* `off` took out is scheduled again.                                      *)
OffIsFinal ==
  [][\A i \in DOMAIN timers' \ DOMAIN timers : timers'[i].id \notin removed]_vars

(* State and reports agree with the future, whoever of cancel, wait and    *)
(* the callbacks comes first; and a task once reported done or failed is   *)
(* never reported as anything else.                                        *)
ReportsAgree ==
  /\ taskState = "done" \/ (\E i \in DOMAIN told : told[i] = "done") => outcome = "value"
  /\ taskState = "failed" \/ (\E i \in DOMAIN told : told[i] = "failed") => outcome = "error"
  /\ \A i, j \in DOMAIN told : i < j /\ told[i] # told[j] => told[i] = "cancelled"

(* A scheduled handler is started: in a wait of the main thread, or by the *)
(* exit hook while it has turns left.  (2 * MaxCalls is more than the      *)
(* calls of these runs can schedule.)                                      *)
HandlersStart ==
  \A n \in 1 .. 2 * MaxCalls :
    Len(scheduled) >= n /\ ticks < MaxTicks ~> Len(started) >= n

(* "whatever got interrupted just carries on": a wait finds main's stack   *)
(* as it left it.                                                          *)
CarriesOn == [][WaitEnd => sp = Top.sp]_vars
=============================================================================
