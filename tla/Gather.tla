------------------------------- MODULE Gather -------------------------------
(***************************************************************************)
(* One call that waits for several tasks: the forms of `wait` (Tasks.nim:  *)
(* plain, .all, .first, .any, .timeout, .cancel) over tasks that exist, or *)
(* a `.parallel` iterator (Iterators.nim: the sliding window of map and    *)
(* the like, the short circuit of every? and some?), which spawns a fiber  *)
(* for each item.  The tasks keep the promises of TaskSpec and end when    *)
(* they like; around the call another strand waits for one of the tasks,   *)
(* cancels tasks, or cancels the caller.                                   *)
(*                                                                         *)
(* The dispatcher runs the callbacks of settled futures, all that are      *)
(* queued, before any strand goes on.                                      *)
(***************************************************************************)
EXTENDS Naturals, Sequences, FiniteSets

CONSTANTS
  Tasks,    \* the items of the block: 1, 2, ... in the block's order
  Shapes,   \* the operations to consider, and for each the pairs of the length of
            \*   the block and the count of wait.any, or the cap of an iterator
  Kinds,    \* for each of them the kinds of tasks: "fiber", "stuck" (a fiber that
            \*   ends only if it is cancelled), "io"
  Watched,  \* the task that another strand waits for
  Shared    \* the tasks that other strands cancel

Waits == {"wait", "all", "first", "any"}
Iterators == {"map", "every"}
Races == {"first", "any", "every"}

ASSUME TasksAssumption == IsFiniteSet(Tasks) /\ Tasks = 1 .. Cardinality(Tasks)
ASSUME ShapesAssumption ==
  /\ DOMAIN Shapes \subseteq Waits \cup Iterators
  /\ \A op \in DOMAIN Shapes : Shapes[op] \subseteq (0 .. Cardinality(Tasks)) \X Tasks
ASSUME KindsAssumption ==
  /\ DOMAIN Kinds = DOMAIN Shapes
  /\ \A op \in DOMAIN Kinds :
       Kinds[op] \subseteq {"fiber", "stuck"} \cup (IF op \in Waits THEN {"io"} ELSE {})
ASSUME WatchedAssumption == Watched \in Tasks /\ Shared \subseteq Tasks

VARIABLES
  (* the tasks *)
  state, fut, cancelRequested,
  kind,      \* what a task is; known to nobody but itself
  hits,      \* the items whose value decides an every? or some?
  (* the call *)
  call,      \* [op, len, n (how many, or the cap), cancel, timeout, onMain]
  phase,     \* "before", "in", "returned" or "raised"
  at,        \* the item the loop of wait, wait.all and map is at
  parked,    \* "run", or what the caller awaits: "task", "limit", "winner"
  woken,     \* the caller's fiber is in the ready queue
  flagged,   \* the caller's fiber is asked to stop
  limit,     \* withTimeout's future: "idle", "pending", "true", "false", "error"
  timer,     \* its timer, or that of wait.first: "idle", "armed", "fired"
  results,   \* what the call has so far: sequence of [of, is]
  pSettled,  \* the short circuit's count of settled items
  (* asyncdispatch *)
  watchers,  \* the callbacks of a task's future
  queue,     \* callbacks of settled futures, <<what, task>>
  polling,   \* the queue is being run
  up,        \* has anything created the dispatcher yet?
  (* around the call *)
  other,     \* another strand: "idle", "waiting", "woken", "over"
  order,     \* history: the tasks of a race in the order in which they settled
  early      \* history: how many of them had settled when the call began

T == INSTANCE TaskSpec

tasks == <<state, fut, cancelRequested>>
program == <<kind, hits, call>>
caller == <<phase, at, parked, woken, flagged, limit, timer, results, pSettled>>
dispatcher == <<watchers, queue, polling, up>>
history == <<order, early>>
vars == <<tasks, program, caller, dispatcher, other, history>>

Items == 1 .. call.len
Born(t) == state[t] # "none"
pSpawn == Cardinality({t \in Tasks : Born(t)})

(* The calls a program may make.  wait.any refuses a count out of range;   *)
(* wait.first takes an empty block; wait.any ignores a timeout.            *)
Calls ==
  {c \in [op : DOMAIN Shapes, len : 0 .. Cardinality(Tasks), n : Tasks,
          cancel : BOOLEAN, timeout : BOOLEAN, onMain : BOOLEAN] :
     /\ <<c.len, c.n>> \in Shapes[c.op]
     /\ c.op = "wait" => c.len = 1
     /\ c.op = "any" => c.n <= c.len
     /\ c.op \in {"wait", "all", "first"} => c.n = 1
     /\ c.cancel => c.op \in {"first", "any"}
     /\ c.timeout => c.op \in {"wait", "all", "first"}}

Init ==
  /\ call \in Calls
  /\ kind \in [Tasks -> Kinds[call.op] \cup {"fiber"}]
  /\ \A t \in Tasks \ Items : kind[t] = "fiber"
  /\ hits \in SUBSET (IF call.op = "every" THEN Tasks ELSE {})
  /\ LET born == IF call.op \in Waits THEN Items ELSE {} IN
       /\ state = [t \in Tasks |-> IF t \in born THEN "pending" ELSE "none"]
       /\ fut = [t \in Tasks |-> IF t \in born THEN "pending" ELSE "idle"]
  /\ cancelRequested = [t \in Tasks |-> FALSE]
  /\ phase = "before" /\ at = 1 /\ parked = "run"
  /\ woken = FALSE /\ flagged = FALSE
  /\ limit = "idle" /\ timer = "idle"
  /\ results = <<>> /\ pSettled = 0
  /\ watchers = [t \in Tasks |-> <<>>]
  /\ queue = <<>> /\ polling = FALSE
  /\ up \in BOOLEAN /\ ((\E t \in Tasks : kind[t] = "io") => up)
  /\ other = "idle" /\ order = <<>> /\ early = 0

-----------------------------------------------------------------------------
(* Plausible slips, for the mutation runs.                                 *)
InitialWindowUnbounded == Items
AllSettledTooEarly == pSpawn >= call.len
FiresNewestFirst(t) == queue' = [i \in DOMAIN watchers[t] |-> <<watchers[t][i], t>>] \o queue
WakesTheCallerNever == FALSE
OutcomeByState(t) == state[t]

-----------------------------------------------------------------------------
(* Who may move.  One thread: while callbacks run nobody else does, and    *)
(* while the caller runs nothing but the callbacks it causes.              *)
Executing == phase = "in" /\ parked = "run"
CallerMoves == Executing /\ ~polling
Quiet == ~polling /\ ~Executing

(* The futures' callbacks.                                                 *)
AddCallback(t, what) == watchers' = [watchers EXCEPT ![t] = Append(@, what)]
Fires(t) == queue' = queue \o [i \in DOMAIN watchers[t] |-> <<watchers[t][i], t>>]

Fire(t, now) ==
  /\ Fires(t)
  /\ watchers' = [watchers EXCEPT ![t] = <<>>]
  /\ polling' = (now /\ queue' # <<>>)

Has(t, outcome) == [of |-> t, is |-> outcome]
Outcome(t) == IF fut[t] = "value" THEN "value"
              ELSE IF state[t] = "cancelled" THEN "null" ELSE "error"
Settles(t) ==
  /\ order' = IF call.op \in {"first", "any"} THEN Append(order, t) ELSE order
  /\ UNCHANGED early

-----------------------------------------------------------------------------
(* The tasks.                                                              *)
FiberEnds(t) ==
  /\ Quiet
  /\ \/ kind[t] = "fiber" /\ (T!Return(t) \/ T!Raise(t))
     \/ kind[t] # "io" /\ T!Stop(t)
  /\ Fire(t, ~up)
  /\ Settles(t)
  /\ UNCHANGED <<program, caller, up, other>>

(* Inside a poll, which goes on with the callbacks.                        *)
IoSettles(t) ==
  /\ Quiet
  /\ kind[t] = "io"
  /\ \E r \in {"value", "error"} : T!SettleQuietly(t, r)
  /\ Fire(t, TRUE)
  /\ Settles(t)
  /\ UNCHANGED <<program, caller, up, other>>

TimerFires ==
  /\ Quiet
  /\ timer = "armed"
  /\ timer' = "fired"
  /\ queue' = Append(queue, <<"timeout", at>>)
  /\ polling' = TRUE
  /\ UNCHANGED <<tasks, program, phase, at, parked, woken, flagged, limit, results,
                 pSettled, watchers, up, other, history>>

PollStart ==
  /\ Quiet
  /\ queue # <<>> \/ ~up
  /\ polling' = (queue # <<>>)
  /\ up' = TRUE
  /\ UNCHANGED <<tasks, program, caller, watchers, queue, other, history>>

-----------------------------------------------------------------------------
(* The callbacks.                                                          *)

(* The winner of a race is known; every? and some? know it by the answer.  *)
Decides(answers) == IF call.op = "any" THEN Len(answers) >= call.n ELSE answers # <<>>
Complete == Decides(results)
MayStillAnswer == ~Complete

(* pSpawnOne: the next item's fiber, and the callback of its future.       *)
Spawns(S) ==
  /\ T!Spawn(S)
  /\ watchers' = IF call.op = "every"
                 THEN [t \in Tasks |-> IF t \in S THEN Append(watchers[t], "race") ELSE watchers[t]]
                 ELSE watchers

AllSettled == pSettled + 1 >= call.len

ShortCircuit(t) ==
  /\ pSettled' = pSettled + 1
  /\ IF fut[t] = "value" /\ t \in hits
     THEN results' = <<Has(t, "hit")>> /\ UNCHANGED <<tasks, watchers>>
     ELSE IF pSpawn < call.len
     THEN Spawns({pSpawn + 1}) /\ UNCHANGED results
     ELSE /\ results' = IF AllSettled THEN <<Has(t, "default")>> ELSE results
          /\ UNCHANGED <<tasks, watchers>>

(* wait.first and wait.any take the outcome and classify the task.         *)
Collect(t) ==
  /\ results' = Append(results, Has(t, Outcome(t)))
  /\ T!Gathered(t)
  /\ UNCHANGED <<watchers, pSettled>>

RaceCallback(t) ==
  IF MayStillAnswer
  THEN IF call.op = "every" THEN ShortCircuit(t) ELSE Collect(t)
  ELSE UNCHANGED <<tasks, watchers, results, pSettled>>

WakesTheCaller == parked = "winner" /\ Decides(results')

LimitBecomes(i, answer) ==
  IF limit = "pending" /\ i = at
  THEN limit' = answer /\ woken' = (woken \/ parked = "limit")
  ELSE UNCHANGED <<limit, woken>>

RunCallback ==
  /\ polling
  /\ queue' = Tail(queue)
  /\ polling' = (queue' # <<>>)
  /\ LET what == Head(queue)[1]
         t == Head(queue)[2]
     IN \/ /\ what = "race"
           /\ RaceCallback(t)
           /\ woken' = (woken \/ WakesTheCaller)
           /\ UNCHANGED <<limit, other>>
        \/ /\ what = "wake"
           /\ woken' = TRUE
           /\ UNCHANGED <<tasks, watchers, results, pSettled, limit, other>>
        \/ /\ what = "limit"
           /\ LimitBecomes(t, IF fut[t] = "value" THEN "true" ELSE "error")
           /\ UNCHANGED <<tasks, watchers, results, pSettled, other>>
        \/ /\ what = "timeout" /\ call.op # "first"
           /\ LimitBecomes(t, "false")
           /\ UNCHANGED <<tasks, watchers, results, pSettled, other>>
        \/ /\ what = "timeout" /\ call.op = "first"
           /\ results' = IF Complete THEN results ELSE <<Has(0, "timeout")>>
           /\ woken' = (woken \/ WakesTheCaller)
           /\ UNCHANGED <<tasks, watchers, pSettled, limit, other>>
        \/ /\ what = "other"
           /\ other' = IF other = "waiting" THEN "woken" ELSE other
           /\ UNCHANGED <<tasks, watchers, results, pSettled, limit, woken>>
  /\ UNCHANGED <<program, phase, at, parked, flagged, timer, up, history>>

-----------------------------------------------------------------------------
(* The call, up to its first await.                                        *)
InitialWindow == 1 .. (IF call.n < call.len THEN call.n ELSE call.len)
Answered == {t \in Items : T!Settled(t)}
InBlockOrder(S) == CHOOSE q \in [1 .. Cardinality(S) -> S] :
                     \A i, j \in DOMAIN q : i < j => q[i] < q[j]
Callbacks(what, S) == [i \in 1 .. Cardinality(S) |-> <<what, InBlockOrder(S)[i]>>]

Begins(st) == phase = "before" /\ Quiet /\ phase' = st

(* wait of a task already cancelled, and the iterators over nothing.       *)
ReturnsAtOnce ==
  /\ \/ /\ call.op = "wait" /\ state[1] = "cancelled"
        /\ results' = <<Has(1, "null")>>
     \/ /\ call.len = 0 /\ call.op \in {"map", "every"}
        /\ UNCHANGED results
  /\ Begins("returned")
  /\ UNCHANGED <<tasks, program, at, parked, woken, flagged, limit, timer, pSettled,
                 dispatcher, other, history>>

BeginLoop ==
  /\ call.op \in {"wait", "all", "map"}
  /\ call.op = "wait" => state[1] # "cancelled"
  /\ call.op = "map" => call.len > 0
  /\ Begins("in")
  /\ UNCHANGED <<tasks, program, at, parked, woken, flagged, limit, timer, results,
                 pSettled, dispatcher, other, history>>

(* A callback on each task: at once, or queued, for those that settled.    *)
BeginRace ==
  /\ call.op \in {"first", "any"}
  /\ Begins("in")
  /\ watchers' = [t \in Tasks |-> IF t \in Items \ Answered
                                  THEN Append(watchers[t], "race") ELSE watchers[t]]
  /\ queue' = queue \o Callbacks("race", Answered)
  /\ polling' = (~up /\ Answered # {})
  /\ early' = Len(order)
  /\ timer' = IF call.timeout THEN "armed" ELSE timer
  /\ up' = (up \/ call.timeout)
  /\ UNCHANGED <<tasks, program, at, parked, woken, flagged, limit, results,
                 pSettled, other, order>>

BeginShortCircuit ==
  /\ call.op = "every" /\ call.len > 0
  /\ Begins("in")
  /\ Spawns(InitialWindow)
  /\ UNCHANGED <<program, at, parked, woken, flagged, limit, timer, results,
                 pSettled, queue, polling, up, other, history>>

-----------------------------------------------------------------------------
(* coopWait.  On a fiber it raises if the fiber is asked to stop, before   *)
(* it suspends and after; on Main it turns the scheduler until the future  *)
(* has settled.                                                            *)
Arrived == CASE parked = "task" -> T!Settled(at)
             [] parked = "limit" -> limit # "pending"
             [] parked = "winner" -> Complete
             [] OTHER -> FALSE

Park(what) == parked' = what /\ woken' = FALSE

Back ==
  /\ phase = "in" /\ Quiet
  /\ IF call.onMain THEN Arrived ELSE woken /\ (Arrived \/ flagged)
  /\ parked' = "run"
  /\ woken' = FALSE
  /\ UNCHANGED <<tasks, program, phase, at, flagged, limit, timer, results, pSettled,
                 dispatcher, other, history>>

Raises == phase' = "raised" /\ parked' = "run"

-----------------------------------------------------------------------------
(* wait, wait.all and the window of map: one item after the other.         *)
InLoop == CallerMoves /\ call.op \notin Races /\ at <= call.len

Takes(outcome) ==
  /\ results' = Append(results, Has(at, outcome))
  /\ at' = at + 1
  /\ limit' = "idle" /\ timer' = "idle"

(* map spawns ahead of the item it drains.                                 *)
Window == {t \in Items : ~Born(t) /\ t - at < call.n}

FillWindow ==
  /\ InLoop /\ call.op = "map"
  /\ Window # {}
  /\ Spawns(Window)
  /\ UNCHANGED <<program, caller, queue, polling, up, other, history>>

(* withTimeout replaces the callbacks of the task's future by its own, and *)
(* is awaited outside the `try`: a flag or an error escapes the call.      *)
ArmLimit ==
  /\ InLoop /\ call.timeout /\ limit = "idle"
  /\ timer' = "armed"
  /\ up' = TRUE
  /\ limit' = "pending"
  /\ IF T!Settled(at)
     THEN queue' = Append(queue, <<"limit", at>>) /\ UNCHANGED watchers
     ELSE watchers' = [watchers EXCEPT ![at] = <<"limit">>] /\ UNCHANGED queue
  /\ IF flagged THEN Raises /\ UNCHANGED woken ELSE Park("limit") /\ UNCHANGED phase
  /\ UNCHANGED <<tasks, program, at, flagged, results, pSettled, polling, other, history>>

LimitEscapes ==
  /\ InLoop
  /\ limit = "error" \/ (limit # "idle" /\ flagged)
  /\ Raises
  /\ UNCHANGED <<tasks, program, at, woken, flagged, limit, timer, results, pSettled,
                 dispatcher, other, history>>

TimesOut ==
  /\ InLoop /\ limit = "false" /\ ~flagged
  /\ Takes("timeout")
  /\ UNCHANGED <<tasks, program, phase, parked, woken, flagged, pSettled, dispatcher,
                 other, history>>

(* Then the item itself, inside the `try`.                                 *)
AtItem ==
  /\ InLoop
  /\ call.timeout => limit = "true" /\ ~flagged
  /\ call.op = "map" => Window = {}

TakeItem ==
  /\ AtItem
  /\ \/ flagged /\ T!Blame(at) /\ Takes(IF state[at] = "cancelled" THEN "null" ELSE "error")
     \/ /\ ~flagged
        /\ IF call.op = "wait" THEN T!Read(at) ELSE T!Gathered(at)
        /\ Takes(Outcome(at))
  /\ UNCHANGED <<program, phase, parked, woken, flagged, pSettled, dispatcher, other, history>>

AwaitItem ==
  /\ AtItem
  /\ ~flagged /\ ~T!Settled(at)
  /\ Park("task")
  /\ IF call.onMain THEN UNCHANGED watchers ELSE AddCallback(at, "wake")
  /\ UNCHANGED <<tasks, program, phase, at, flagged, limit, timer, results, pSettled,
                 queue, polling, up, other, history>>

LoopReturns ==
  /\ CallerMoves /\ call.op \notin Races /\ at > call.len
  /\ phase' = "returned"
  /\ UNCHANGED <<tasks, program, at, parked, woken, flagged, limit, timer, results,
                 pSettled, dispatcher, other, history>>

-----------------------------------------------------------------------------
(* wait.first, wait.any, every? and some?: one future for the winner.      *)
CancelLosers == call.cancel \/ call.op = "every"

AwaitWinner ==
  /\ CallerMoves /\ call.op \in Races
  /\ ~flagged /\ ~Complete
  /\ Park("winner")
  /\ UNCHANGED <<tasks, program, phase, at, flagged, limit, timer, results, pSettled,
                 dispatcher, other, history>>

WinnerEscapes ==
  /\ CallerMoves /\ call.op \in Races
  /\ flagged
  /\ Raises
  /\ UNCHANGED <<tasks, program, at, woken, flagged, limit, timer, results, pSettled,
                 dispatcher, other, history>>

RaceReturns ==
  /\ CallerMoves /\ call.op \in Races
  /\ ~flagged /\ Complete
  /\ phase' = "returned"
  /\ IF CancelLosers THEN T!Cancel(T!Pending(Tasks)) ELSE UNCHANGED tasks
  /\ UNCHANGED <<program, at, parked, woken, flagged, limit, timer, results,
                 pSettled, dispatcher, other, history>>

(* runUntilFutureDone: nothing is ready and nothing is pending.            *)
CanEnd(t) == /\ fut[t] = "pending"
             /\ \/ kind[t] = "fiber"
                \/ kind[t] = "stuck" /\ cancelRequested[t]
                \/ kind[t] = "io" /\ ~cancelRequested[t]

MainGivesUp ==
  /\ phase = "in" /\ Quiet /\ call.onMain /\ ~Arrived
  /\ queue = <<>> /\ timer # "armed" /\ \A t \in Tasks : ~CanEnd(t)
  /\ up' = TRUE
  /\ \/ /\ parked = "task"
        /\ T!Blame(at)
        /\ Takes(IF state[at] = "cancelled" THEN "null" ELSE "error")
        /\ parked' = "run"
        /\ UNCHANGED phase
     \/ /\ parked = "winner"
        /\ Raises
        /\ UNCHANGED <<tasks, at, limit, timer, results>>
  /\ UNCHANGED <<program, woken, flagged, pSettled, watchers, queue, polling, other, history>>

-----------------------------------------------------------------------------
(* Around the call.  The tasks of an iterator are known to nobody else.    *)
OtherWaits ==
  /\ Quiet /\ other = "idle"
  /\ call.op \in Waits /\ state[Watched] = "pending" /\ ~T!Settled(Watched)
  /\ AddCallback(Watched, "other")
  /\ other' = "waiting"
  /\ UNCHANGED <<tasks, program, caller, queue, polling, up, history>>

OtherReads ==
  /\ Quiet /\ other = "woken"
  /\ T!Read(Watched)
  /\ other' = "over"
  /\ UNCHANGED <<program, caller, dispatcher, history>>

(* It is a fiber, and is cancelled before it goes on: its own error is     *)
(* taken for the task's.                                                   *)
OtherBlames ==
  /\ Quiet /\ other \in {"waiting", "woken"}
  /\ T!Blame(Watched)
  /\ other' = "over"
  /\ UNCHANGED <<program, caller, dispatcher, history>>

OtherCancels(t) ==
  /\ Quiet
  /\ call.op \in Waits /\ t \in Shared /\ state[t] = "pending"
  /\ T!Cancel({t})
  /\ UNCHANGED <<program, caller, dispatcher, other, history>>

CancelCaller ==
  /\ Quiet /\ phase \in {"before", "in"}
  /\ ~call.onMain /\ ~flagged
  /\ flagged' = TRUE
  /\ woken' = TRUE
  /\ UNCHANGED <<tasks, program, phase, at, parked, limit, timer, results, pSettled,
                 dispatcher, other, history>>

-----------------------------------------------------------------------------
Turn == PollStart \/ RunCallback \/ MainGivesUp

Caller ==
  \/ ReturnsAtOnce \/ BeginLoop \/ BeginRace \/ BeginShortCircuit \/ Back
  \/ FillWindow \/ ArmLimit \/ LimitEscapes \/ TimesOut \/ TakeItem \/ AwaitItem
  \/ LoopReturns \/ AwaitWinner \/ WinnerEscapes \/ RaceReturns

Next ==
  \/ Turn \/ Caller \/ TimerFires
  \/ \E t \in Tasks : FiberEnds(t) \/ IoSettles(t) \/ OtherCancels(t)
  \/ OtherWaits \/ OtherReads \/ OtherBlames \/ CancelCaller

Spec == Init /\ [][Next]_vars

(* Somebody turns the dispatcher, resumed strands go on, timers expire,    *)
(* fibers end unless they are stuck, and requests that are not cancelled   *)
(* are answered.  The other strand owes nothing.                           *)
FairSpec ==
  /\ Spec
  /\ WF_vars(Turn) /\ WF_vars(Caller) /\ WF_vars(TimerFires)
  /\ \A t \in Tasks : WF_vars(FiberEnds(t)) /\ WF_vars(~cancelRequested[t] /\ IoSettles(t))

-----------------------------------------------------------------------------
TypeOK ==
  /\ state \in [Tasks -> {"none", "pending", "done", "failed", "cancelled"}]
  /\ fut \in [Tasks -> {"idle", "pending", "value", "error"}]
  /\ cancelRequested \in [Tasks -> BOOLEAN]
  /\ call \in Calls /\ hits \subseteq Tasks /\ kind \in [Tasks -> {"fiber", "stuck", "io"}]
  /\ phase \in {"before", "in", "returned", "raised"}
  /\ at \in 1 .. Cardinality(Tasks) + 1
  /\ parked \in {"run", "task", "limit", "winner"}
  /\ woken \in BOOLEAN /\ flagged \in BOOLEAN
  /\ limit \in {"idle", "pending", "true", "false", "error"}
  /\ timer \in {"idle", "armed", "fired"}
  /\ results \in Seq([of : Tasks \cup {0},
                      is : {"value", "null", "error", "timeout", "hit", "default"}])
  /\ pSettled \in 0 .. Cardinality(Tasks)
  /\ watchers \in [Tasks -> Seq({"race", "wake", "limit", "other"})]
  /\ queue \in Seq({"race", "wake", "limit", "other", "timeout"}
                     \X (Tasks \cup {Cardinality(Tasks) + 1}))
  /\ polling \in BOOLEAN /\ up \in BOOLEAN
  /\ other \in {"idle", "waiting", "woken", "over"}
  /\ order \in Seq(Tasks) /\ early \in Nat
  /\ polling => queue # <<>>

(* wait.first and wait.any hand out tasks in the order in which they       *)
(* settled, but for those that had settled when the call began: these come *)
(* first, in the block's order.                                            *)
Early == {order[i] : i \in 1 .. early}
Due == [i \in DOMAIN order |-> IF i <= early THEN InBlockOrder(Early)[i] ELSE order[i]]

(* Each result is that of the task whose turn it is, with its own outcome, *)
(* and there are no more than were asked for; and a task whose result is   *)
(* handed out is not pending any more, or `.cancel` would take it for a    *)
(* loser.                                                                  *)
CollectedInOrder ==
  call.op \in {"first", "any"} =>
    /\ Len(results) <= call.n
    /\ \A i \in DOMAIN results :
         results[i].is # "timeout" =>
           /\ i <= Len(order) /\ results[i].of = Due[i]
           /\ (results[i].is = "value") = (fut[Due[i]] = "value")
           /\ state[Due[i]] # "pending"

(* "return their results in completion order": not so for the early ones.  *)
InCompletionOrder ==
  call.op \in {"first", "any"} =>
    \A i \in DOMAIN results : results[i].is # "timeout" => results[i].of = order[i]

(* The fibers of an iterator that run.  The caller does not wait any       *)
(* longer for those it has given up: when it is asked to stop, every await *)
(* raises and map takes that for the item's result; and on Main when       *)
(* nothing that runs can end the fiber it waits for.                       *)
InFlight == {t \in Items : fut[t] = "pending"}
GivenUp == {t \in InFlight : \E i \in DOMAIN results : results[i].of = t}

(* The cap holds for the fibers the caller waits for, and those beyond it  *)
(* were given up for one of the two reasons and no other.                  *)
WindowKept ==
  call.op \in Iterators =>
    /\ Cardinality(InFlight \ GivenUp) <= call.n
    /\ \A t \in GivenUp : flagged \/ (call.onMain /\ kind[t] = "stuck")

(* "integer caps the number of in-flight fibers": not so when the caller   *)
(* gives up.                                                               *)
CapKept == call.op \in Iterators => Cardinality(InFlight) <= call.n

(* every? and some? give the deciding answer only if some item decided,    *)
(* and the other one only when every item was tried and none did.          *)
ShortCircuitSound ==
  call.op = "every" =>
    \A i \in DOMAIN results :
      IF results[i].is = "hit"
      THEN \E t \in hits : fut[t] = "value"
      ELSE \A t \in Items : T!Settled(t) /\ (t \in hits => fut[t] = "error")

(* A call that cancels the losers leaves no fiber behind, but for those    *)
(* that another waiter called failed while they ran: they are not taken    *)
(* for losers.                                                             *)
LosersEnd ==
  (phase = "returned" /\ CancelLosers)
    ~> \A t \in Tasks : kind[t] = "io" \/ fut[t] # "pending" \/ state[t] = "failed"

(* On Main every such call comes to its end, in an answer or an error,     *)
(* whatever the tasks do; on a fiber it does if the block is not empty and *)
(* its tasks settle, or when the fiber is cancelled.                       *)
Answerable == call.len > 0 /\ \A t \in Items : kind[t] = "fiber" \/ T!Settled(t)

GatherReturns ==
  phase = "in" /\ (call.onMain \/ Answerable \/ flagged) ~> phase # "in"

(* "block until given task is finished and return its result": a strand    *)
(* that waits for a task is called back when the task settles.             *)
NobodyForgotten ==
  other = "waiting" =>
    \/ \E i \in DOMAIN watchers[Watched] : watchers[Watched][i] = "other"
    \/ \E i \in DOMAIN queue : queue[i] = <<"other", Watched>>
=============================================================================
