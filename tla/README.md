# A verification model of Arturo's concurrency

Arturo is a programming language with a bytecode VM written in Nim. Most of the
program is sequential: a parser, a code generator, an instruction loop, and a
library of builtins that compute a value from their arguments. What is hard to get
right and hard to test is its concurrency, and it sits in one file,
`src/src/helpers/parallelism.nim`, and the builtins around it: stackful fibers on a
cooperative scheduler, tasks, channels, child processes that talk to their parent
through files, and events. Beside it, the way function calls keep their variables in one
flat table has state of its own, which every fiber takes along. This directory models
those parts in TLA+, checks them with TLC on small instances, and proves all of
the invariants and action properties, and two of the three refinements, with TLAPS for
all instances.

Paths below are relative to `src/src/`; line numbers are those of the commit in `src/`.

## The system

| Component | State | Operations | Interacts with |
|---|---|---|---|
| Fiber scheduler (`helpers/parallelism.nim:36-221`, `vm/context.nim`) | `scheduler.ready`, `currentFiber`, a coroutine and a `VMContext` per fiber, the flag `cancelRequested` | `spawnFiber`, `runOneStep`, `cooperativeAwait`, `runUntilFutureDone`, `pumpScheduler`, `cooperativePause` | asyncdispatch (timers, callbacks), every builtin that blocks, the REPL |
| In-process tasks (`parallelism.nim:856-899, 1101-1121`, `library/Tasks.nim`) | `VTask.state`, its future, its cancel hook | `do.async` eager and lazy, `do` of a task (`drainTask`), `wait`, `wait.all`, `wait.first`, `wait.any`, timeouts, `cancel`, `failed?`, `finished?` | scheduler |
| Channels (`parallelism.nim:466-588`, `library/Streams.nim`) | per channel: capacity, `closed`, the deques `buffer`, `senders`, `receivers`; per name: `remoteReceivers` | `channel`, `send`, `receive`, `unplug`, the SEND and RECV records of children | scheduler (parked futures), record files |
| Records between processes (`parallelism.nim:223-463`, `535-630`) | one append-only file for each direction, the tail's position | append and flush a record of 2 or 4 lines; poll every 20 ms | channels, events, child processes |
| Tasks in child processes (`parallelism.nim:639-847`) | the process, its result and error files, the task | `do.async.isolated`, `execute.async`, `serve.async`, `cancel`, `wait` | dispatcher, record files, OS signals |
| Events (`library/Events.nim`) | subscribers by name, handlers queued as timers, `shuttingDown` | `on`, `emit`, `off`, task callbacks, signal and exit hooks | dispatcher, record files |
| Parallel iterators (`library/Iterators.nim:430-580`) | window, winner, tasks | `.parallel` on every iterator, `every?.parallel`, `some?.parallel` | in-process tasks |
| Calls and scopes (`vm/globals.nim:29-55, 237-290`, `vm/exec.nim:220-559`, `vm/context.nim`) | the symbol table, the undo log of each call, a pool of logs, a `VMContext` for each fiber, the memo table | `execFunction`, `execMethod`, `execFunctionInline`, loops, `.export`, `swapOutTo`, `swapInFrom` | scheduler, every block |
| Rest of the VM (`vm/`) | stack, attributes, frames of files | parse, generate code, execute an instruction | everything |
| The rest | | library, package manager, stores, web server, UI, vendored code | |

`PROJECT.json` lists all of them, with what is and what is not modelled.

### What is hard

* **Interleaving.** One OS thread, but every blocking builtin is a point where
  other fibers, timers, callbacks and handlers run. A fiber can be woken by a future,
  by its cancellation, or by both; it can be cancelled before it starts, while parked,
  or after its future was completed and before its turn.
* **Two sources of truth.** A task has a state and a future, written by `cancel`, by
  `wait`, by the fiber's ending and by task callbacks, in whatever order those come.
* **Waiting.** A parked future is held by one deque. Taken out of it without an
  answer, or answered twice, is a strand that waits for ever or an exception in
  somebody else's call.
* **Other processes.** A child writes while the parent reads, in pieces as large as a
  stdio buffer; it may die between any two of them; it is polled, not waited for.
* **One table for everybody.** Calls, loops and fibers all write the same symbol table
  and put back what they found, each in its own way; a fiber may be suspended inside of any
  of them, and a block may leave any of them early.
* **Ending.** Main waits must notice that nothing will happen any more; a cancelled
  task must end; a child must die when it is told to.

### What makes each component correct

* Scheduler: no wakeup is lost, no fiber is resumed without a reason, cancelled
  fibers end, waits of the main thread return.
* Tasks: the future settles exactly when the fiber is over, and the state does not name
  an outcome that the future does not have, except where a cancelled waiter has taken its
  own error for the task's.
* Gathering: results of a race come in the order in which the tasks settled, behind those
  that had settled before the call, and no more than were asked for; caps hold for the
  fibers the caller still waits for; a short circuit answers what the items say; losers
  end; the call returns; nobody else who waits is disturbed.
* Channels: one queue; first in, first out; nobody is parked who could be served;
  every wait can still be answered, and is answered once.
* Records: whole records only, in order, each once, and none lost.
* Events: a scheduled handler is started once, in order, however polls nest; none is
  scheduled after `off`; what a callback is told agrees with the future.
* Channels across processes: every receive of a living child is in one place on its way
  to an answer, unless the answer was not written or does not run, and answers keep the
  order of the receives.
* Calls: a name means what it would mean in a chain of environments of the strand's own.
* Child processes: the task settles after, and only after, its processes; the state
  agrees with the future, with the exception above; cancel ends the process.

## Modules

| Module | What it is | Code |
|---|---|---|
| `ChannelSpec` | what a channel promises: one queue, an open flag, the values handed out | |
| `Channel` | one `VChannel` with its three deques, remote receivers, parked strands | `parallelism.nim:266-283, 440-446, 472-588` |
| `ChannelProofs` | theorems about `Channel`: order of the values, who is parked when, what becomes of the futures, and that it implements `ChannelSpec` | |
| `ProxyChannel` | `Channel` with child processes that use it through record files; composes `Channel`, the files and the children | `parallelism.nim:261-296, 440-462, 482-485, 513-630`, `Streams.nim:233-283` |
| `ProxyProofs` | theorems about `ProxyChannel`; what is proved of the channel is taken from an instance of `ChannelProofs` | |
| `TaskSpec` | what a task promises: its state, its future, the flag that asks it to stop | `types.nim:264-270`, `parallelism.nim:857-936`, `Tasks.nim:44-55, 109-119, 214-225` |
| `Fibers` | scheduler, fibers, tasks, main thread, dispatcher | `parallelism.nim:105-194, 333-344, 857-899`, `Tasks.nim:44-55, 202-225`, `repl.nim:138-142` |
| `FibersProofs` | theorems about `Fibers`: futures and states, wakeups, resumes, and that it implements `TaskSpec` | |
| `Gather` | one call that waits for several tasks: `wait` in all its forms, `.parallel` iterators; built on the actions of `TaskSpec` | `Tasks.nim:92-247`, `Iterators.nim:479-580`, `parallelism.nim:133-221` |
| `GatherProofs` | theorems about `Gather`: order of the results, caps, short circuits | |
| `TailFile` | a record file between a writing and a polling process | `parallelism.nim:271-283, 372-463, 535-547, 617-630`, `printable.nim:641-643` |
| `TailProofs` | theorems about `TailFile` | |
| `ChildTask` | a task in another process, the process, its SIGTERM handler | `parallelism.nim:639-830`, `Events.nim:105-109, 356-374`, `Tasks.nim:44-55, 202-225` |
| `ChildProofs` | theorems about `ChildTask` | |
| `Events` | handlers, task callbacks, nested polls, the drain at exit | `Events.nim:48-126, 195-330, 387-399`, `Tasks.nim:44-55, 202-225`, `parallelism.nim:163-174` |
| `EventsProofs` | theorems about `Events` | |
| `Selection` | what a loop with a test keeps of a sequence; used by `Events` and `ProxyChannel` | `Events.nim:119-126` |
| `Listing` | lemmas for the proofs: every finite set of numbers can be listed in order, so that `Selection` selects what it says, and has a greatest member | |
| `ScopeSpec` | what variables mean: a chain of environments for each strand | `globals.nim:237-290` |
| `Calls` | the flat symbol table, undo logs and their pool, loops, and the swap at each resume | `globals.nim:29-55, 244-290`, `exec.nim:225-282, 401-559`, `Iterators.nim:111-172`, `context.nim:47-89` |
| `MCChannel`, `MCFibers`, `MCTail`, `MCChildTask`, `MCEvents`, `MCGather`, `MCProxyChannel`, `MCCalls` | instances for TLC | |

Three abstract specifications are implemented by detailed ones: `ChannelSpec` by
`Channel`, `TaskSpec` by `Fibers`, `ScopeSpec` by `Calls`. `Gather` is not refined but
composed: its tasks are the actions of `TaskSpec`, which `Fibers` is proved to
implement, so what `Gather` shows rests on promises that the scheduler keeps.

The modules name the operations as the code does and give one action to each
operation, or to each of its outcomes where an operation has several (`chanSend` has
five). Everything between two points at which something else can run is one action,
because the code is single-threaded under `--threads:off`: a channel primitive, a
builtin called by a block, a resume up to the next suspend. The near misses at the top
of each module ("plausible slips") are alternative bodies of the operators below them;
each property is shown to fail under one of them.

### Channel

`status[c]` is the future a caller holds: idle, pending, or settled as `sent`,
`failed`, `value` or `null`. A local strand reads it in `Resume` and may then call
again. `Abandon` is a strand that stops waiting (a cancelled fiber, a dead child, a
main thread told that nothing is pending): its future stays in the deque, as in the
code. `Uids` are receives of child processes, each forwarded once by a RECV record;
`Inbound` is the SEND record of a child, whose future `initChannels` discards. The
values are the numbers of the accepted sends, so that order and loss can be stated.

`remoteReceivers` is keyed by name in the code; the model has one channel and its
name. The put-back branch of the fulfiller (`parallelism.nim:583-585`) is unreachable,
because the caller has just registered a receiver, and has no action.

### Fibers

A fiber is a coroutine (`co`), what it will find when it is resumed (`awaits`) and a
flag. `RunFiber` is `runOneStep` on a ready queue; `Poll` is `runOneStep` on an empty
one: any set of armed timers has expired, in any order, and queued callbacks run first.
`Wake` is what asyncdispatch does with the callbacks of a future that completes: they
are queued by `callSoon` once a dispatcher exists and run at once before that.
`FinishAwait` and `AwaitCancelled` are the second half of `cooperativeAwait` with the
rest of the builtin that called it; a cancellation escapes the block, or is swallowed by
a `try` in the block, or by the `wait` it was raised in. `Ends` is `fiberEntry`: state,
future, callbacks, and the end of the coroutine in one step. The blocks of the program
make any sequence of `MaxSteps` calls, the main thread any of `MaxCalls`.

Simplifications: a strand has one timer and one gate (channel future) at a time, so a
fiber that swallowed its cancellation does not start a second pause while the first
timer still runs; a block that leaves by `return` or `break` past `fiberEntry` is left
out (a Defect that leaves a coroutine is undefined).

### TaskSpec and Gather

`TaskSpec` has the state, the future and the stop flag of each task, and nothing of
how it runs. Its steps are `Spawn`, `Cancel`, the three endings of a fiber, the quiet
settling of an I/O task (whose state is left to whoever reads it), the two ways of
reading (`wait` writes `done` over anything; the other waits keep what was said before)
and `Blame`, a reader that takes an error of its own for the task's. Under the identity
mapping each step of `Fibers` is one of these or changes none of the three. `drainTask`
(`do` of a task, `parallelism.nim:1101`) has no action of its own: its ending is `Gathered`
or `Blame`, and its `withTimeout` stands inside the `try`, where that of `wait.timeout`
does not.

`Gather` is one call among such tasks. `call` says which: plain `wait`, `.all`, `.first`,
`.any`, with `.timeout` and `.cancel`, on Main or on a fiber; or an iterator with a
sliding window (`map`) or a short circuit (`every`). Plain `wait`, `.all` and `map` go
from item to item (`AwaitItem`, `TakeItem`), with `withTimeout` before each item if there
is a deadline (`ArmLimit`). `.first`, `.any` and `every` register one callback for each
task and await one future for the winner (`BeginRace`, `RunCallback`, `RaceReturns`).
`watchers` are the callbacks of each future and `queue` those of the futures that settled;
as in asyncdispatch they run at once before a dispatcher exists, and in the next poll
after. `parked` and `Back` are the two halves of `coopWait`. Around the call another
strand waits for `Watched`, is cancelled there (`OtherBlames`) or goes on, and anybody cancels
the tasks of `Shared` or the caller. A task is a fiber that ends, a fiber that ends only
when cancelled, or I/O. `order` and `early` are history, as are the entries of `results`
beside their number.

`order` is the order in which the tasks of a race settled, from the first state on, and
`early` says how many of them had when the call began. `CollectedInOrder` says what the
code does with them: the early ones come first and in the order of the block, the others
in the order in which they settled. That all come in the order in which they settled is
`InCompletionOrder`, which the code does not keep (`GatherOrder.cfg`). Likewise
`WindowKept` is the cap on the fibers the caller waits for (`InFlight` without `GivenUp`), and
says when it may give up one that still runs: it was asked to stop, or it is Main and
nothing can end that fiber. The cap on all of them is `CapKept`, which the code does not
keep (`GatherCap.cfg`). `LosersEnd` excepts a loser that another, cancelled waiter has
marked as failed: `.cancel` skips it.

Simplifications: tasks of a block are distinct; a deadline is one timer that fires at any
time; what map and its kin do with a result is left out.

### ProxyChannel

The parent is an instance of `Channel`; each step of it that settles a receive of a
child appends a DELIVER record to the child's file (`Delivers`), in the order in which the
uids were registered. A child appends SEND and RECV records to its own file and keeps
the futures of its receives in `answer`. The two files are queues of whole records; that
they are, `TailFile` shows for payloads of one line between living processes (what a
newline does is in `TailNewline.cfg`). A child may die at any moment, and then the parent's
tail stops and drops what it has not read.

An answer may get lost on the way. `writeDeliverRecord` passes over a file that it cannot
open or write to (`parallelism.nim:275, 282-283`), after the uid was taken out of the line
(`Delivers`); and a DELIVER record whose payload raises in the child is passed over too (`:458-459`;
`Discards`), such as that of a word without a meaning there. The receive is then in no place
and stays pending. `lost` is the history of these, and the properties say that nothing else is lost
and that the others keep their order. A SEND record whose payload raises in the parent is
passed over (the second disjunct of `ParentReads`); nobody waits for it. A receive whose own record
cannot be written holds `null` at once (`CannotAsk`, `Unasked`). A child that cannot
write its SEND record falls back to a channel of its own, from which nobody receives
(`Streams.nim:282`): no step of this module. Simplifications: a payload runs as the value it
stands for, or raises; a write that fails leaves nothing in the file.

### Calls and ScopeSpec

`Syms` and `ScopeStack` are the live globals, `ctx` those of the strands that are swapped
out. A call records the previous value of a name the first time it is written and puts all
of them back at its end (`EndScoped`, for a return, an error or a cancellation alike); an
inline call has no log of its own, saves its parameter and writes to the log of the
function around it; a loop saves its variable and writes it past every log. `EndScoped`
hands the log to a pool. `Suspend` and `Resume` swap table and logs at any point.

The mapping to `ScopeSpec` rebuilds the chain of environments of a strand: one for each
frame, binding the names the frame has notes of, to what they were before the next inner
frame that touched them. So an undo log that is lost, stale or swapped with another
strand's becomes an environment that changes by itself, which `ScopeSpec` has no step
for. `before` and `outer` in `calls` are history, for `NoTrace`, except for the saved
parameter.

### TailFile

The file is a sequence of line fragments. A record reaches it in one write, or in up to
three when the stdio buffer fills within the payload line and behind it. A pass of
the reader opens the file, seeks, reads lines (up to a newline or to what there is; an
end of file sticks to the open file), hands over a record with its last line, and moves
`pos`. `alive()` is asked after the pass. `Lines` and `Payload` tell channel records
(4, 3) from event records (2, 2).

### ChildTask

The coroutine in the parent is the variable `phase`: polling, inside `waitForExit`,
draining its tails or reading the output, settled. While it is inside `waitForExit` or
`readAll` the parent is frozen and the program does nothing. The child is starting (no
handler yet), running, stopping (inside its SIGTERM handler) or gone. `setpgid` comes
after the child was started, so whether it took effect is chosen at random. `WaitStart`
and `WaitEnd` are `wait`, by Main or by a fiber; a fiber may be cancelled in there
(`CancelWaiter`), and then the await raises whatever the outcome is, and `wait` writes
`failed` on a task that may still be running (`Tasks.nim:218-222`). `blamed` is the history of
that: `StateAgrees` says that nothing else makes the state disagree with the outcome.

### Events

Handlers run on the main thread, inside a poll, and the poll was started by a wait: of
the program, or of another handler. `frames` is that stack, the program at the bottom;
a frame is running code, waiting (between two turns of `runUntilFutureDone`) or inside
a poll. All frames share the dispatcher's one queue of `callbacks`, so an inner poll
runs what the outer one has still to run. `emit` makes a timer of zero length for each
handler; `timers` holds them until the next poll, which puts their callbacks behind those
that are queued. A callback of the task is queued when the future settles, or at once if
it has settled. `RunCallback` starts one of either kind and writes the task's state
as the code does. `HandlerEnds` leaves any number of `Leaves` on main's stack, whose
height is `sp`. `Exit` dispatches BeforeExit and waits for at most `MaxTicks` turns (100
in the code); a pending task is a pending operation and uses up turns as well.

`scheduled`, `started`, `removed` and `told` are history. The program and its handlers
make any calls they like, `MaxCalls` together.

Simplifications: one task, settled by I/O (how fibers settle theirs is in `Fibers`); `wait` on
anything else is a wait of arbitrary length; `off` of a number that names no registration
does nothing in the code and is no action; quitting from inside a handler is left out.

## Runs

| Run | Properties | Instance | Distinct states | Shows |
|---|---|---|---|---|
| `channel` | `TypeOK`, `Fifo`, `NoMissedMatch`, `ClosedLeavesNobodyParked`, `EveryWaitIsParked`, `NoFutureCompletedTwice`, `ImplementsChannelSpec` | 3 callers, 2 uids, capacities -1, 0, 1, 2, 4 sends | about 1,060,000 | a channel is one first-in-first-out queue, and every wait can be answered |
| `fibers` | `TypeOK`, `NoLostWakeup`, `SettledIffDead`, `DoneMeansValue`, `NoSpuriousResume`, `CancelStops`, `WaitReturns`, `ImplementsTaskSpec` | 2 tasks, 2 calls a block, 3 calls on main | 156,309 | the scheduler forgets nobody, everything that must end does, tasks are what `TaskSpec` says |
| `gather` | `TypeOK`, `CollectedInOrder`, `WindowKept`, `ShortCircuitSound`, `LosersEnd`, `GatherReturns` | up to 3 tasks; blocks of 0 to 3; caps 1 to 3; every form of `wait`, `map`, `every` | 680,574 | the order of the results, the cap on what is waited for, short circuits; losers end; the call returns |
| `wait_forgets` | `NobodyForgotten` | same | violated | finding 3 |
| `tail` | `TypeOK`, `RecordsIntact`, `FlushedIsDelivered`, `TailEnds` | 3 records of 4 lines, one-line payloads | 1,432 | torn writes and a dying child never break a record of one-line payload |
| `tail_exit` | `DrainedAtExit` | 2 records | violated | finding 1 |
| `proxy` | `TypeOK`, `EveryRemoteWaitIsCarried`, `AnsweredInOrder`, `AnsweredAfterClose` | 2 children with 2 and 1 receives, 1 local caller, capacities 0 and 1, 2 sends, at most 1 answer lost | 363,910 | a child's receive is carried to an answer, in order, also past `unplug`, and losing one disturbs no other |
| `child` | `TypeOK`, `SettledMeansOver`, `StateAgrees`, `SettlesAfterExit`, `CancelEndsShell` | both kinds of task, a pipe of 2, up to 3 units of output | 2,778 | a task settles with its processes, and its state says how, unless a cancelled waiter wrote it |
| `child_cancel` | `CancelKillsChild` | isolated children | violated | finding 2 |
| `events` | `TypeOK`, `StartedInOrder`, `ReportsAgree`, `OffIsFinal`, `HandlersStart` | an event of the program and BeforeExit, 4 calls, 2 turns at exit | 412,340 | a handler starts once, in order, never after `off`, and is told the truth |
| `calls` | `ImplementsScopeSpec` | main and 1 fiber, 2 names, 2 values, calls 2 deep, 5 steps, a pool of 1 | 155,759 | the flat table means a chain of environments for each strand |
| `loop_variable` | `NoTrace` | same | violated | finding 4 |

Seven more configurations are kept beside these and are run by hand, each violated, for
things met while modelling: `FibersEager.cfg` and `FibersFailed.cfg` (with `MCFibers`),
`TailNewline.cfg` (with `MCTail`), `EventsStack.cfg` (with `MCEvents`), `GatherOrder.cfg` and
`GatherCap.cfg` (with `MCGather`), `ProxyLost.cfg` (with `MCProxyChannel`); see Findings.

What the passing runs do not say. Of some hazards listed in `PROJECT.json` the
models have the behaviour and the properties allow it, because the code does it: a value that
goes to a cancelled receiver (`ChannelSpec`), a task that a cancelled waiter calls failed
(`Blame` in `TaskSpec`, `blamed` in `ChildTask`), an eager task that has not started, a lost
answer, fibers beyond a cap, a command blocked on its pipe that nobody cancels. Those hazards
name no property, or one that says the disturbance goes no further.

### Bounds

* `channel`: with capacity 1 and 2, three callers and a child's SEND records fill the
  buffer and park two senders behind it; with capacity 0 and -1 the other branches are
  taken; four sends are enough for a value that overtakes two others, and two uids
  for a queue of remote receivers. Callers and uids are interchangeable: symmetry.
* `fibers`: two tasks are enough for one that waits for the other, one that cancels the
  other, a stale queue entry and a queue with an older entry; each block makes two
  calls, which is enough to swallow a cancellation and await again. The liveness
  properties are checked without symmetry.
* `tail`: three records make a torn one with a whole one before and after it.
* `events`: four calls are a registration, an emit, a wait, and a wait of the handler
  that the wait started, which is a poll inside a poll; or two handlers emitted twice.
  Two turns at exit are one that starts the handlers of BeforeExit and one for what they
  emit. `Leaves` is {0} in `events`, where the stack is not the question.
* `gather`: three tasks make a winner, a loser that settles while the winner is handed
  out, and one that is never started; caps 1, 2 and 3 are a window of one, one that slides,
  and none. Blocks of no task are included where the code takes them. Every state that
  the tasks, the dispatcher (there or not yet) and the caller (Main or a fiber) may be in
  when the call begins is an initial state or reached before it. `Shared` = {1}: one task that
  strangers cancel, and the rest only through `.cancel`; `Watched` = 1 is the one that
  another strand waits for.
* `proxy`: two receives of one child and one of another give an order within a child and
  a competition between two; two sends and one local caller fill a buffer of one.
  Capacity 0 is a child or a sender that waits, 1 a buffer that fills; an unbounded one has
  no more to it here and is in `channel`. `MaxLost` = 1: one answer that is lost, before and after
  others of the same child and of the other one.
* `calls`: two names are one that a call touches and one it does not, two values an old
  and a new one; a call inside a call or a loop on each strand; one frame in the pool is
  enough to be recycled. `ExportDepth` = 1 excludes functions with `.export` inside
  other functions, where the refinement does not hold (Findings). Names and values
  are interchangeable: symmetry. The view leaves out the history variables.
* `child`: the output exceeds the pipe, so a command can block on it.

### Fairness

* `Fibers`: weak fairness of `Scheduler`: the main thread's loops `runUntilFutureDone`
  and the REPL's pump turn until they are done. Weak fairness of `Block(t)`: a
  running block goes on; it has a bounded number of calls, so it ends. Strong fairness
  of `PollTimer(s)`: every timer expires at some real time, and a poll that comes
  after that completes it; strong, because polls come and go. No fairness is assumed of
  what the program calls.
* `TailFile`: weak fairness of the reader: the parent turns its dispatcher. None of the
  child, which may stop writing or die.
* `ChildTask`: weak fairness of the coroutine, and of the end of a signal handler
  (`HandlerEnds`): Arturo's own when it has nothing left to drain, and one that a shell
  command may have, which is assumed to let it end; the code sends no SIGKILL. A handler that
  ignores SIGTERM falsifies `CancelEndsShell`. Nothing else is assumed of the child's own
  program.
* `Gather`: weak fairness of the dispatcher, of the caller, of its timer, of each fiber
  that can end, and of an I/O task that is not cancelled; none of the strand beside the
  call, of cancels, or of a fiber that is stuck.
* `ProxyChannel`: weak fairness of both tails of each child: they poll every 20 ms as
  long as their process lives. None of what the programs call, or of a death.
* `Events`: weak fairness of the dispatcher: a main thread that waits turns it. Weak
  fairness of the program: blocks that run come to their end (their calls are bounded).
  None of `WaitEnd` or `TaskSettles`: what is waited for may never come.

Deadlock is not checked where the system really stops: a channel program that has made
all its calls or has parked everybody, a program that has exited, a tail that is done, a task that has settled or
a command that is blocked on its pipe.

## Findings

1. A record flushed between the last pass of a tail and the exit of the child is lost
   (`parallelism.nim:461` against `:403` and `:720`).
2. A child of `do.async.isolated` that is told to end by `cancel` stays in its SIGTERM
   handler, and the parent waits for it (`Events.nim:369`, `parallelism.nim:608-609`
   against `Tasks.nim:244`).
3. `wait.timeout` replaces the callbacks of everybody else who waits for the task: a fiber
   in `wait` on the same task is never resumed (`Tasks.nim:208`, and `:106` for
   `wait.all.timeout`, against `:68`).
4. The variable of a loop that is left by `break`, `return` or an error keeps the last
   item, in the caller of the function as well (`Iterators.nim:172`,
   `exec.nim:274-276` against `exec.nim:374-375`).

Also met, each with a configuration or a bound to see it by hand:

* `do.async` runs the head of the ready queue, which need not be the new fiber
  (`parallelism.nim:899` against `:858`): `FibersEager.cfg`.
* `wait` marks the task it waited for as failed for errors that are not the task's; the
  task lives on and cannot be cancelled (`Tasks.nim:222` against `:257`):
  `FibersFailed.cfg`. `TaskSpec` allows it as `Blame`. A child process that a cancelled fiber
  waited for (`blamed` in `ChildTask`) runs on, and `cancel` does not end it; a loser of
  `wait.first.cancel` that is blamed is not cancelled either (`LosersEnd` excepts it).
* A string with a newline breaks the framing of the record files
  (`parallelism.nim:624`, `printable.nim:642-643` against `parallelism.nim:234`):
  `TailNewline.cfg`.
* A value that a handler leaves stays on main's stack, below the result of the wait that
  was interrupted and above the arguments that are already there (`Events.nim:80` against
  `Events.nim:74-75`): `EventsStack.cfg`.
* A function with `.export` called inside another function leaks: what it exports is in
  no note of the caller's frame, so the caller's end does not undo it
  (`exec.nim:441-447`): `Calls.cfg` with `ExportDepth = 2`.
* `wait.first` and `wait.any` hand out tasks that have settled before the call in the
  order of the block, not of completion (`Tasks.nim:127-129`: the callbacks are added in that
  order and run in it, against `:75`, `:88` and `:160`): `GatherOrder.cfg`.
* A cap on `.parallel` does not hold once the fiber around the call is cancelled: the `except`
  of each item takes the cancellation for the item's result, and the loop goes on to spawn
  all that is left (`Iterators.nim:494-503` against `:1182`, "integer caps the number of in-flight
  fibers"): `GatherCap.cfg`.
* A receive of a child process waits for ever, also past `unplug`, when its answer could not
  be written or raises where it is read (`parallelism.nim:275, 282-283, 458-459` against
  `Streams.nim:311`, "parked recvs wake with :null"): `ProxyLost.cfg`.
* A task that fails within the time raises out of `wait.timeout`, and out of the whole of
  `wait.all.timeout`, in place of becoming an `:error` value (`Tasks.nim:106, 208`):
  `LimitEscapes` in `Gather`.

## Proofs

All proofs are checked by TLAPS to the last leaf, from the assumptions of the modules
only (one theorem of `TailProofs` states a hypothesis besides): callers, uids and `Inbound`
are distinct, each uid belongs to a child, capacities are integers; the main thread is no task, tasks are finite
and, where a block has them in order, numbered; a block is no longer than there are tasks
and a cap is at least 1; the kinds of task and of record are the ones there are; bounds are
numbers.

`ChannelProofs`: `TypeCorrect`, `FifoCorrect`, `NoMissedMatchCorrect`,
`ClosedCorrect`. `Fifo` and `NoMissedMatch` are not inductive alone: that a receive
refills the buffer without overtaking needs that parked senders mean a full buffer, and
that a send may hand its value straight to a receiver needs that a parked receiver means
an empty channel; and both survive `unplug` only together with
`ClosedLeavesNobodyParked`. `OrderInv` is the conjunction of the three with `TypeOK`,
and is inductive: one lemma for each action, one step for each conjunct.

For `EveryWaitIsParkedCorrect` and `NoFutureCompletedTwiceCorrect` the deques are
read as sets that hold each member once (`Held`, `Once`), so that a push adds one future and
a pop takes one away. `ParkedInv` is `OrderInv`, "a future is pending exactly when it is
parked" (`OnlyParkedWait`) and "it is parked once" (`OnceSent` for the senders, where the
future that `discard chanSend(...)` drops may stand many times). It needs `OrderInv`: that
`unplug` answers the parked receivers at all hangs on nothing being buffered beside them
(`NoMissedMatch`). Every future an operation settles is taken out of a deque by it, so it was
pending, and `NoFutureCompletedTwice` follows from the same lemmas.

The last theorem is `ImplementsChannelSpecCorrect`, the refinement of `ChannelSpec` by
`Channel`. By `Fifo` the values handed over are the numbers 1, 2, ... and those that wait
go on from there, whether they are buffered or parked. So a state of the abstract queue is
known from how many values there are of each kind (`ByNumbers`), and the argument for each
action is a count: a send adds one to those that wait (`Accept`) or passes an empty queue
(`Pass`), a receive moves one (`Take`), `unplug` leaves a front of the row (`Close`).

`FibersProofs`: `TypeCorrect`, and three strengthenings.

* `ResultInv`, for `SettledIffDeadCorrect` and `DoneMeansValueCorrect`. That a
  future settles exactly when its fiber is over needs that the running fiber is alive and
  that no future of an unspawned task was touched; that a state `done` has a value needs
  that whoever waits for a task holds its future.
* `WakeInv`, for `NoLostWakeupCorrect`. `NoLostWakeup` speaks of fibers that are not
  running; for it to survive a poll or a completion, the callbacks of a future must be those
  of fibers that wait for that future: a timer's only callback is its owner's
  (`OwnTimers`), a registered fiber is at its place (`OwnPlace`), and whatever is queued was
  spawned (`QueuedIsSpawned`, `SpawnedInv`).
* `ResumeInv`, for `NoSpuriousResumeCorrect`. That the entry of the ready queue which resumes
  a fiber has a reason is no invariant by itself: an entry could outlive its reason if the
  fiber had a second one. A fiber that nobody asked to stop is at one place only
  (`OnePlace`): it runs, or is queued once, in one of the two queues, or stands once with
  the unfinished future it awaits. A cancelled fiber may be queued twice, and is excepted by
  its flag.

The last theorem is `ImplementsTaskSpecCorrect`, the refinement of `TaskSpec` by `Fibers`. Its
invariant `RunInv` joins the two above with three facts about the running fiber: a future
is settled only by a fiber that is alive (`RunningIsAlive`), a flag is set only for a task
that has a fiber (`MadeWithFiber`), and whoever stands at a wait holds the future of a
task that was spawned. Then every action of `Fibers` maps: a spawn, a cancel and an
ending to the step of that name, the end of a wait to `Read` or `Blame`, everything
else (polls, parking, channels, pauses) to a stutter.

`GatherProofs`: `TypeCorrect`, `CollectedInOrderCorrect`, `ShortCircuitSoundCorrect`,
`WindowKeptCorrect`, for blocks of any length, from `CallInv`.

* `GatherInv` says where the caller may be (`CallerPlaces`), that before the call nothing
  of it exists (`BeforeCall`), and that a future is idle exactly until its task is spawned
  (`Births`). An iterator with a short circuit spawns the items in order, so there is a
  last one.
* `RaceInv` is about `.first`, `.any` and `every`: each task that has not settled holds
  one callback of the race (`RaceWatched`), and a queued callback names a settled item
  and is queued once (`QueueSettled`, `QueueOnce`). Then what is queued are the tasks of
  `Due` behind those already collected, in that order (`OrderKept`); `Due` is `order` with
  the early tasks in the order of the block. That is the invariant under `CollectedInOrder`:
  `results` is a front of `Due`.
* `EveryKept` counts for the short circuit. The code spawns the next item in the callback
  of a settled one, some polls after the future settled, so `WindowKept` cannot be kept by
  counting unfinished fibers: a task whose callback is queued must count as in flight
  (`InFlight`), and then each callback takes one out before it puts one in. The tasks
  that are over (`Processed`) are as many as `pSettled`, and none of them hit as long as
  there is no answer; when `pSettled` reaches the length of the block, they are all items.
* `MapKept` bounds the sliding window: nothing is spawned at or beyond `at` + cap, and
  everything before `at` is in `results`. `GivenUpKept` says of what is in `results` that it
  has settled, or that the caller was asked to stop, or is Main with a fiber nothing can end.

`EventsProofs`: `TypeCorrect`, `StartedInOrderCorrect`, `ReportsAgreeCorrect`, and the action
property `OffIsFinalCorrect`, from `EventsInv`. For `OffIsFinal` every id must have been
handed out before (`Fresh`: no registration has an id beyond `nextId` or one that was
removed) and stand in one place (`Unique`), so that taking it out takes it out for good,
whichever of `off` and the first firing does it. For `ReportsAgree` a task callback must not
be queued before the task settles (`ModesApart`), and a report must be what the state
still says (`ReportStays`).

`ChildProofs`: `TypeCorrect`, `SettledMeansOverCorrect`, `StateAgreesCorrect`, from `ChildInv`:
the place of the parent's coroutine tells what became of the process and of the future
(`PhaseTells`), and an isolated child has no pipe (`OnlyShellsPipe`), so that leaving by
the tails and leaving by the output are never confused (`DrainsOrReads`).

`TailProofs`: `TypeCorrect`, and `RecordsIntactCorrect`, from `TailInv`. The file is
described by which fragment may follow which (`FileInOrder`); then a position is between
two records or between two lines of one exactly if the fragment before it says so
(`ReaderInOrder`), and a pass that ends inside a record forgets what it has read and leaves
`pos` where the record began. The proof of `RecordsIntact` needs, and states, the hypothesis
`OneLinePayload`: payloads take one line, and the payload is not the last line of its
record. Without the first half it is false (`TailNewline.cfg`); without the second, a record
that is torn within its last line is taken as whole, which is the case of event records
(`parallelism.nim:386`). Channel records satisfy the second half, and the constants of
run `tail` both; `TypeCorrect` has no hypothesis.

`ProxyProofs`: `TypeCorrect`, `EveryRemoteWaitIsCarriedCorrect`, `AnsweredInOrderCorrect`, for any
children, receives and capacities, from `ProxyInv`. Neither property is inductive alone,
and they need each other's strengthening, because both speak of the same three places: the
child's file, the parent's line of uids, and the file back.

* `ChannelInv` is `ParkedInv` of `ChannelProofs`, for the instance that the parent is. It is
  what makes `null` an honest answer: `NoMissedMatch` and `ClosedLeavesNobodyParked` say
  that whoever is told `null` by `unplug` waits at an empty channel, and that afterwards
  nobody is in line.
* `WaitsKept`: a receive is pending in the child if it is in one of the places, and, if the
  child lives and the answer is not lost, only if. `OutKept`, `InKept`: in each file a receive stands once, and in its own
  child's. `StatusTells`: the parent's status of a receive says on which side of the line it
  is, so that nothing is registered or answered twice.
* `StagesInOrder` with `OutInOrder`, `LineInOrder` and `InInOrder`: of two receives of one
  child the earlier one is at least as far, or its answer is lost, and before the other where
  both are in the same place.
* `ToldKept` and `ToldInOrder`: what a receive was told (whether the child has read it or
  not) is a value that was handed over, or `null` at a closed empty channel; later receives
  are told later values, and after `null` only `null`.

The parts are about files and a line given as parameters, so that they can be stated in the
middle of a step: reading a RECV record first moves a receive from the file to the end of
the line (`ReceiveRead`), and whatever the channel does then serves a front of that line, of
length 0, 1 or all of it (`Serves`), and brings each one served a record, in order
(`Delivered`), but for those whose record is not written: they are strays from then on, and
the parts have the set of strays as a parameter too. Serving a front keeps the parts
(`ServedKeeps`, `ServedAreTold`).

Sets of numbers are counted in `Gather` and listed in order in `Events` and `ProxyChannel`. `Listing` proves
what that rests on, by descending through smaller sets (the library's minimal elements of a
well-founded relation, which need no operator as parameter): a finite nonempty set of
numbers has a greatest member, and every finite set of numbers has a listing in order, so
that the `CHOOSE` in `InOrder` chooses something.

The invariants that the runs check were checked with TLC before they were proved.

Only model-checked: liveness (`CancelStops`, `WaitReturns`, `LosersEnd`, `GatherReturns`,
`FlushedIsDelivered`, `TailEnds`, `AnsweredAfterClose`, `SettlesAfterExit`,
`CancelEndsShell`, `HandlersStart`), which the prover does not reach; and the refinement
`ImplementsScopeSpec`, which is on the plan below. No module that is proved about has a
RECURSIVE operator.

## Plan

Done: scheduler and tasks, channels, record files, child processes, events, gathering
waits and parallel iterators, channels of child processes, calls and scopes; three
refinements, two of them proved. Left, in this order:

1. Proof: `ImplementsScopeSpec` of `Calls`, under `ExportDepth` <= 1 (beyond that it is false).
   A name's value in a scope is what the first note above it says, or else the table; a frame
   in the pool is empty; then each action is a step of `ScopeSpec` or a stutter.
2. A second channel of the same name (`Streams.nim:89`), with receives registered under
   the first.
3. The memo table of `execFunction`, and the stack that a memoized result is taken from.
4. Blocks that name a task twice in `Gather`.

## Not modelled

The sequential parts (parser, code generator, instruction loop, values, library, package
manager, stores): no state that several actors share. What of the VM's globals is
swapped around a resume beside the symbol table and its logs (stack, attributes, frames
of files): data movement of the same form. What a value that two names share is made to
contain: values are atoms in `Calls`. The hook of SIGINT, which runs Arturo code in the
middle of an instruction. Asynchronous I/O of the standard library beyond one await and one
close. Memory: fibers are never destroyed (`parallelism.nim:74` has no caller), which no
property is about. Windows, where `terminateGroup` and the signal hooks differ.

The C and C++ sources of the repository are all third-party code under `extras/` (a
Markdown parser, compression, an HTML entity table, web views, line editing, a
coroutine library, an epoll emulation) and together much longer than any other part. They are
external to this model, which describes Arturo's own Nim sources: of them only the
coroutines matter to it, and of those the contract that `resume` runs a coroutine up
to its next `suspend` and that one whose entry has returned is done.
