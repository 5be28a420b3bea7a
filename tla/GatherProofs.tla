---------------------------- MODULE GatherProofs ----------------------------
(***************************************************************************)
(* Theorems about Gather for blocks of any length, any cap or count, and   *)
(* tasks of every kind.                                                    *)
(***************************************************************************)
EXTENDS Gather, Listing

-----------------------------------------------------------------------------
(* The invariant.                                                          *)

(* The callbacks of races: in the callbacks of a future, and queued.       *)
HasRace(q) == \E i \in DOMAIN q : q[i] = "race"
OneRace(q) == \A i, j \in DOMAIN q : q[i] = "race" /\ q[j] = "race" => i = j
RaceQueued(t) == \E i \in DOMAIN queue : queue[i] = <<"race", t>>

(* Only a timer's callback names no task, and a callback of a race names a *)
(* settled item, once.                                                     *)
QueueNamed == \A i \in DOMAIN queue : queue[i][1] # "timeout" => queue[i][2] \in Tasks
QueueSettled == \A i \in DOMAIN queue :
                  queue[i][1] = "race" => queue[i][2] \in Items /\ T!Settled(queue[i][2])
QueueOnce == \A i, j \in DOMAIN queue :
               queue[i][1] = "race" /\ queue[j] = queue[i] => i = j

(* Where the caller may be.                                                *)
CallerPlaces ==
  /\ parked \in {"task", "limit"} => call.op \notin Races /\ at <= call.len
  /\ parked = "winner" => call.op \in Races
  /\ phase # "in" => parked = "run"

(* The history of a race: the tasks that have settled, each once; and how  *)
(* many of them had when the call began.                                   *)
Recorded ==
  call.op \in {"first", "any"} =>
    /\ early <= Len(order)
    /\ \A k, l \in DOMAIN order : order[k] = order[l] => k = l
    /\ \A t \in Tasks : T!Settled(t) <=> \E k \in DOMAIN order : order[k] = t

(* The tasks that a race hands out, in their order.                        *)
Line == IF phase = "before" \/ call.op \notin {"first", "any"} THEN <<>> ELSE Due

(* Before the call there is nothing of it.                                 *)
BeforeCall ==
  phase = "before" =>
    /\ results = <<>> /\ early = 0 /\ pSettled = 0 /\ at = 1
    /\ call.op \in Iterators => \A t \in Tasks : ~Born(t)
    /\ timer = "idle"
    /\ \A t \in Tasks : \A i \in DOMAIN watchers[t] : watchers[t][i] = "other"
    /\ \A i \in DOMAIN queue : queue[i][1] = "other"

(* A task's future is pending or settled from its birth on; the tasks of a *)
(* wait are there before it, an iterator spawns the items in their order.  *)
Births ==
  /\ \A t \in Tasks : Born(t) <=> fut[t] # "idle"
  /\ call.op \in Waits => \A t \in Tasks : Born(t) <=> t \in Items
  /\ call.op \in Iterators => \A t \in Tasks : Born(t) => t \in Items
  /\ call.op = "every" => \E k \in 0 .. call.len : \A t \in Tasks : Born(t) <=> t <= k

(* A race waits for the tasks that have not settled, once for each.        *)
RaceWatched ==
  call.op \in Races =>
    /\ \A t \in Tasks : OneRace(watchers[t])
    /\ \A t \in Tasks : ~Born(t) => ~HasRace(watchers[t])
    /\ phase # "before" => \A t \in Items : fut[t] = "pending" => HasRace(watchers[t])

(* The other calls leave no such callbacks.                                *)
NoRace ==
  call.op \notin Races =>
    /\ \A t \in Tasks : ~HasRace(watchers[t])
    /\ \A i \in DOMAIN queue : queue[i][1] # "race"

(* wait.first and wait.any: the tasks whose results are not there yet are  *)
(* queued, in the order in which they settled.                             *)
OrderKept ==
  call.op \in {"first", "any"} /\ phase # "before" =>
    /\ \A t \in Tasks : T!Settled(t) <=> \E k \in DOMAIN Line : Line[k] = t
    /\ \A k, l \in DOMAIN Line : Line[k] = Line[l] => k = l
    /\ \A i, j \in DOMAIN queue : \A k, l \in DOMAIN Line :
         i < j /\ queue[i] = <<"race", Line[k]>> /\ queue[j] = <<"race", Line[l]>> => k < l
    /\ ~Complete => /\ Len(results) <= Len(Line)
                    /\ \A k \in DOMAIN Line : k > Len(results) <=> RaceQueued(Line[k])

(* What has been handed out is what was in line.                           *)
HandedOut ==
  call.op \in {"first", "any"} =>
    /\ Len(results) <= call.n
    /\ \A i \in DOMAIN results :
         results[i].is # "timeout" =>
           /\ i <= Len(Line) /\ results[i].of = Line[i]
           /\ (results[i].is = "value") = (fut[Line[i]] = "value")
           /\ state[Line[i]] # "pending"

(* The items of a short circuit that are in flight: spawned, and their     *)
(* callback has not run; and those that are over.                          *)
Unprocessed == {t \in Items : fut[t] = "pending" \/ RaceQueued(t)}
Processed == {t \in Items : T!Settled(t) /\ ~RaceQueued(t)}

EveryKept ==
  call.op = "every" =>
    /\ Cardinality(Unprocessed) <= call.n
    /\ Len(results) <= 1
    /\ results = <<>> => /\ Cardinality(Processed) = pSettled
                         /\ \A t \in Processed : t \in hits => fut[t] # "value"

(* The window of map starts where the caller is, behind it are results.    *)
MapKept ==
  call.op = "map" =>
    /\ \A t \in Tasks : Born(t) => t < at + call.n
    /\ \A t \in 1 .. at - 1 : \E i \in DOMAIN results : results[i].of = t

Excused(t) == T!Settled(t) \/ flagged \/ (call.onMain /\ kind[t] = "stuck")

(* What an iterator has a result of has settled, or the caller was asked   *)
(* to stop or was stuck on Main.                                           *)
GivenUpKept ==
  call.op \in Iterators =>
    /\ limit = "idle" /\ \A t \in Tasks : kind[t] # "io"
    /\ \A i \in DOMAIN results : results[i].of \in Tasks /\ Excused(results[i].of)

GatherInv == TypeOK /\ QueueNamed /\ CallerPlaces /\ BeforeCall /\ Births /\ Recorded
RaceInv == /\ QueueSettled /\ QueueOnce /\ RaceWatched /\ NoRace /\ OrderKept /\ EveryKept
           /\ HandedOut /\ ShortCircuitSound

-----------------------------------------------------------------------------
(* Items are numbers.                                                      *)
LEMMA TasksAreNumbers == Tasks \subseteq Nat /\ Cardinality(Tasks) \in Nat
<1> DEFINE n == Cardinality(Tasks)
<1>1. n \in Nat /\ Tasks = 1 .. n
  BY TasksAssumption, FS_CardinalityType
<1> HIDE DEF n
<1>2. Tasks \subseteq Nat
  BY <1>1
<1>3. QED
  BY <1>1, <1>2 DEF n

(* What a program may call.                                                *)
LEMMA CallFacts ==
  ASSUME call \in Calls
  PROVE  /\ Cardinality(Tasks) \in Nat /\ Tasks = 1 .. Cardinality(Tasks)
         /\ call.op \in Waits \cup Iterators
         /\ call.len \in 0 .. Cardinality(Tasks) /\ call.n \in Tasks
         /\ Items = 1 .. call.len /\ Items \subseteq Tasks
         /\ call.op = "wait" => call.len = 1
         /\ call.op = "any" => call.n <= call.len
         /\ call.op = "first" => call.n = 1
         /\ call.onMain \in BOOLEAN /\ call.timeout \in BOOLEAN
<1>1. Cardinality(Tasks) \in Nat
  BY TasksAssumption, FS_CardinalityType
<1>2. Tasks = 1 .. Cardinality(Tasks) /\ DOMAIN Shapes \subseteq Waits \cup Iterators
  BY TasksAssumption, ShapesAssumption
<1>3. /\ call.op \in DOMAIN Shapes /\ call.len \in 0 .. Cardinality(Tasks) /\ call.n \in Tasks
      /\ call.onMain \in BOOLEAN /\ call.timeout \in BOOLEAN
      /\ call.op = "wait" => call.len = 1
      /\ call.op = "any" => call.n <= call.len
      /\ call.op = "first" => call.n = 1
  BY DEF Calls
<1>4. QED
  BY <1>1, <1>2, <1>3 DEF Items

-----------------------------------------------------------------------------
(* Types.                                                                  *)
TaskTypes ==
  /\ state \in [Tasks -> {"none", "pending", "done", "failed", "cancelled"}]
  /\ fut \in [Tasks -> {"idle", "pending", "value", "error"}]
  /\ cancelRequested \in [Tasks -> BOOLEAN]
ProgramTypes ==
  call \in Calls /\ hits \subseteq Tasks /\ kind \in [Tasks -> {"fiber", "stuck", "io"}]
CallerTypes ==
  /\ phase \in {"before", "in", "returned", "raised"}
  /\ at \in 1 .. Cardinality(Tasks) + 1
  /\ parked \in {"run", "task", "limit", "winner"}
  /\ woken \in BOOLEAN /\ flagged \in BOOLEAN
  /\ limit \in {"idle", "pending", "true", "false", "error"}
  /\ timer \in {"idle", "armed", "fired"}
Results == [of : Tasks \cup {0}, is : {"value", "null", "error", "timeout", "hit", "default"}]
Entries == {"race", "wake", "limit", "other", "timeout"} \X (Tasks \cup {Cardinality(Tasks) + 1})
Whats == {"race", "wake", "limit", "other"}
DispatcherTypes ==
  /\ watchers \in [Tasks -> Seq(Whats)]
  /\ queue \in Seq(Entries)
  /\ polling \in BOOLEAN /\ up \in BOOLEAN
  /\ polling => queue # <<>>
OtherTypes == other \in {"idle", "waiting", "woken", "over"} /\ order \in Seq(Tasks) /\ early \in Nat

LEMMA TypeParts ==
  TypeOK <=> /\ TaskTypes /\ ProgramTypes /\ CallerTypes /\ DispatcherTypes /\ OtherTypes
             /\ results \in Seq(Results) /\ pSettled \in 0 .. Cardinality(Tasks)
  BY DEF TypeOK, TaskTypes, ProgramTypes, CallerTypes, DispatcherTypes, OtherTypes, Results,
     Entries, Whats

LEMMA TypePartsNext ==
  TypeOK' <=> /\ TaskTypes' /\ ProgramTypes' /\ CallerTypes' /\ DispatcherTypes' /\ OtherTypes'
              /\ results' \in Seq(Results) /\ pSettled' \in 0 .. Cardinality(Tasks)
  BY DEF TypeOK, TaskTypes, ProgramTypes, CallerTypes, DispatcherTypes, OtherTypes, Results,
     Entries, Whats

(* What happens to tasks: the actions of TaskSpec.                         *)
Settling(t) == \/ T!Return(t) \/ T!Raise(t) \/ T!Stop(t)
               \/ \E r \in {"value", "error"} : T!SettleQuietly(t, r)
Saying(t) == T!Read(t) \/ T!Gathered(t) \/ T!Blame(t)

LEMMA TaskActionTypes ==
  ASSUME TaskTypes,
         \/ UNCHANGED tasks
         \/ \E S \in SUBSET Tasks : T!Spawn(S) \/ T!Cancel(S)
         \/ \E t \in Tasks : Settling(t) \/ Saying(t)
  PROVE  TaskTypes'
<1>1. CASE UNCHANGED tasks
  BY <1>1 DEF TaskTypes, tasks
<1>2. ASSUME NEW S \in SUBSET Tasks, T!Spawn(S) PROVE TaskTypes'
  BY <1>2 DEF TaskTypes, T!Spawn
<1>3. ASSUME NEW S \in SUBSET Tasks, T!Cancel(S) PROVE TaskTypes'
  BY <1>3 DEF TaskTypes, T!Cancel, T!CancelHandles
<1>4. ASSUME NEW t \in Tasks, T!Return(t) \/ T!Raise(t) \/ T!Stop(t) PROVE TaskTypes'
  BY <1>4 DEF TaskTypes, T!Return, T!Raise, T!Stop, T!Ends
<1>5. ASSUME NEW t \in Tasks, NEW r \in {"value", "error"}, T!SettleQuietly(t, r)
      PROVE  TaskTypes'
  BY <1>5 DEF TaskTypes, T!SettleQuietly, T!Ends
<1>6. ASSUME NEW t \in Tasks, T!Read(t) \/ T!Gathered(t) \/ T!Blame(t)
      PROVE  TaskTypes'
  BY <1>6 DEF TaskTypes, T!Read, T!Gathered, T!Blame, T!Say, T!ReadState, T!GatheredState,
     T!Unsuccessful
<1>7. QED
  BY <1>1, <1>2, <1>3, <1>4, <1>5, <1>6 DEF Settling, Saying

-----------------------------------------------------------------------------
(* The dispatcher's queue, entry by entry.                                 *)
LEMMA Fired ==
  ASSUME DispatcherTypes, NEW t \in Tasks, Fires(t)
  PROVE  /\ queue' \in Seq(Entries)
         /\ Len(queue) \in Nat /\ Len(watchers[t]) \in Nat
         /\ DOMAIN queue = 1 .. Len(queue)
         /\ DOMAIN watchers[t] = 1 .. Len(watchers[t])
         /\ DOMAIN queue' = 1 .. Len(queue) + Len(watchers[t])
         /\ \A i \in 1 .. Len(queue) : queue'[i] = queue[i]
         /\ \A i \in 1 .. Len(watchers[t]) : queue'[Len(queue) + i] = <<watchers[t][i], t>>
         /\ \A j \in DOMAIN queue' : j \notin 1 .. Len(queue) =>
              \E i \in 1 .. Len(watchers[t]) : j = Len(queue) + i
<1> DEFINE w == watchers[t]
           f == [i \in DOMAIN w |-> <<w[i], t>>]
           n == Len(queue)
           m == Len(w)
<1>1. w \in Seq(Whats) /\ queue \in Seq(Entries)
  BY DEF DispatcherTypes
<1>2. /\ n \in Nat /\ m \in Nat /\ DOMAIN queue = 1 .. n /\ DOMAIN w = 1 .. m
      /\ \A i \in 1 .. m : w[i] \in Whats
  BY <1>1, LenProperties, ElementOfSeq
<1>3. f \in [1 .. m -> Entries]
  <2>1. \A i \in 1 .. m : <<w[i], t>> \in Entries
    BY <1>2 DEF Entries, Whats
  <2> HIDE DEF w
  <2>2. QED
    BY <1>2, <2>1
<1>4. f \in Seq(Entries)
  BY <1>2, <1>3, SeqDef
<1>5. Len(f) = m /\ \A i \in 1 .. m : f[i] = <<w[i], t>>
  <2> HIDE DEF w
  <2>1. DOMAIN f = 1 .. m
    BY <1>2
  <2>2. QED
    BY <1>2, <1>4, <2>1, LenProperties
<1>6. queue' = queue \o f
  BY DEF Fires
<1> HIDE DEF w, f, n, m
<1>7. /\ queue \o f \in Seq(Entries) /\ Len(queue \o f) = n + m
      /\ \A i \in 1 .. n + m : (queue \o f)[i] = IF i <= n THEN queue[i] ELSE f[i - n]
  BY <1>1, <1>4, <1>5, ConcatProperties DEF n
<1>8. DOMAIN queue' = 1 .. n + m /\ queue' \in Seq(Entries)
  BY <1>6, <1>7, LenProperties
<1>9. \A i \in 1 .. n : queue'[i] = queue[i]
  BY <1>2, <1>6, <1>7
<1>10. \A i \in 1 .. m : queue'[n + i] = <<w[i], t>>
  <2> SUFFICES ASSUME NEW i \in 1 .. m PROVE queue'[n + i] = <<w[i], t>>
    OBVIOUS
  <2> DEFINE j == n + i
  <2>1. j \in 1 .. n + m /\ ~(j <= n) /\ j - n = i
    BY <1>2
  <2> HIDE DEF j
  <2>2. (queue \o f)[j] = f[j - n]
    BY <1>7, <2>1
  <2>3. queue'[j] = <<w[i], t>>
    BY <1>5, <1>6, <2>1, <2>2
  <2>4. QED
    BY <2>3 DEF j
<1>11. \A j \in 1 .. n + m : j \notin 1 .. n => j - n \in 1 .. m /\ j = n + (j - n)
  BY <1>2
<1>12. QED
  BY <1>2, <1>8, <1>9, <1>10, <1>11 DEF w, n, m

(* The first entry leaves.                                                 *)
LEMMA Dequeued ==
  ASSUME DispatcherTypes, polling, queue' = Tail(queue)
  PROVE  /\ queue' \in Seq(Entries) /\ Head(queue) \in Entries
         /\ Len(queue) \in Nat \ {0}
         /\ DOMAIN queue = 1 .. Len(queue) /\ Head(queue) = queue[1]
         /\ DOMAIN queue' = 1 .. Len(queue) - 1
         /\ \A i \in 1 .. Len(queue) - 1 : queue'[i] = queue[i + 1]
<1>1. queue \in Seq(Entries) /\ queue # <<>>
  BY DEF DispatcherTypes
<1>2. Len(queue) \in Nat /\ DOMAIN queue = 1 .. Len(queue) /\ Len(queue) # 0
  BY <1>1, LenProperties, EmptySeq
<1>3. /\ Head(queue) \in Entries /\ Tail(queue) \in Seq(Entries)
      /\ Len(Tail(queue)) = Len(queue) - 1
      /\ \A i \in 1 .. Len(queue) - 1 : Tail(queue)[i] = queue[i + 1]
  BY <1>1, HeadTailProperties
<1>4. QED
  BY <1>1, <1>2, <1>3, LenProperties

(* An entry comes to the end.                                              *)
LEMMA Enqueued ==
  ASSUME DispatcherTypes, NEW x \in Entries, queue' = Append(queue, x)
  PROVE  /\ queue' \in Seq(Entries) /\ Len(queue) \in Nat
         /\ DOMAIN queue = 1 .. Len(queue)
         /\ DOMAIN queue' = 1 .. Len(queue) + 1
         /\ \A i \in 1 .. Len(queue) : queue'[i] = queue[i]
         /\ queue'[Len(queue) + 1] = x
<1>1. queue \in Seq(Entries)
  BY DEF DispatcherTypes
<1>2. Len(queue) \in Nat /\ DOMAIN queue = 1 .. Len(queue)
  BY <1>1, LenProperties
<1>3. /\ Append(queue, x) \in Seq(Entries) /\ Len(Append(queue, x)) = Len(queue) + 1
      /\ \A i \in 1 .. Len(queue) : Append(queue, x)[i] = queue[i]
      /\ Append(queue, x)[Len(queue) + 1] = x
  BY <1>1, AppendProperties
<1>4. QED
  BY <1>2, <1>3, LenProperties

(* The items that settled before the call, in the block's order.           *)
LEMMA BlockOrder ==
  ASSUME NEW S \in SUBSET Tasks
  PROVE  /\ Cardinality(S) \in Nat
         /\ InBlockOrder(S) \in [1 .. Cardinality(S) -> S]
         /\ \A i, j \in 1 .. Cardinality(S) : i < j => InBlockOrder(S)[i] < InBlockOrder(S)[j]
<1>1. IsFiniteSet(S) /\ S \subseteq Nat /\ Cardinality(S) \in Nat
  <2>1. IsFiniteSet(S) /\ Cardinality(S) \in Nat
    BY TasksAssumption, FS_Subset, FS_CardinalityType
  <2>2. S \subseteq Nat
    BY TasksAreNumbers
  <2>3. QED
    BY <2>1, <2>2
<1>2. \E q \in [1 .. Cardinality(S) -> S] : \A i, j \in DOMAIN q : i < j => q[i] < q[j]
  <2>1. PICK q : Listed(S, q)
    BY <1>1, CanBeListed
  <2>2. QED
    BY <2>1 DEF Listed
<1>3. /\ InBlockOrder(S) \in [1 .. Cardinality(S) -> S]
      /\ \A i, j \in DOMAIN InBlockOrder(S) : i < j => InBlockOrder(S)[i] < InBlockOrder(S)[j]
  BY <1>2 DEF InBlockOrder
<1>4. QED
  BY <1>1, <1>3

(* It names each of them, and each once.                                   *)
LEMMA BlockOrderOnce ==
  ASSUME NEW S \in SUBSET Tasks
  PROVE  /\ \A i, j \in 1 .. Cardinality(S) : InBlockOrder(S)[i] = InBlockOrder(S)[j] => i = j
         /\ \A t \in S : \E i \in 1 .. Cardinality(S) : InBlockOrder(S)[i] = t
<1> DEFINE q == InBlockOrder(S)
           n == Cardinality(S)
           I == 1 .. n
<1>1. /\ n \in Nat /\ q \in [I -> S] /\ S \subseteq Nat
      /\ \A i, j \in I : i < j => q[i] < q[j]
  BY BlockOrder, TasksAreNumbers
<1>2. IsFiniteSet(S)
  BY TasksAssumption, FS_Subset
<1> HIDE DEF q, n
<1>a. IsFiniteSet(I) /\ Cardinality(I) = n
  BY <1>1, FS_Interval
<1>3. \A i, j \in I : q[i] = q[j] => i = j
  <2> SUFFICES ASSUME NEW i \in I, NEW j \in I, q[i] = q[j], i # j PROVE FALSE
    OBVIOUS
  <2>1. q[i] \in S /\ q[j] \in S
    BY <1>1
  <2>2. q[i] \in Nat /\ q[j] \in Nat
    BY <1>1, <2>1
  <2>3. i < j \/ j < i
    BY <1>1
  <2>4. QED
    BY <1>1, <2>2, <2>3
<1> HIDE DEF I
<1>4. q \in Injection(I, S)
  BY <1>1, <1>3 DEF Injection, IsInjective
<1>5. q \in Surjection(I, S)
  BY <1>2, <1>a, <1>4, FS_Injection DEF n
<1>6. QED
  BY <1>3, <1>5 DEF Surjection, q, n, I

-----------------------------------------------------------------------------
(* What each action does to the tasks.                                     *)

(* The first entry of the queue, when it is run.                           *)
LEMMA FirstEntry ==
  ASSUME TypeOK, QueueNamed, polling
  PROVE  /\ Head(queue) \in Entries /\ queue # <<>> /\ 1 \in DOMAIN queue /\ Head(queue) = queue[1]
         /\ Head(queue)[1] # "timeout" => Head(queue)[2] \in Tasks
<1>1. queue \in Seq(Entries) /\ queue # <<>>
  BY TypeParts DEF DispatcherTypes
<1>2. Len(queue) \in Nat /\ Len(queue) # 0 /\ DOMAIN queue = 1 .. Len(queue)
  BY <1>1, LenProperties, EmptySeq
<1>3. Head(queue) = queue[1] /\ queue[1] \in Entries
  BY <1>1, <1>2, ElementOfSeq
<1>4. QED
  BY <1>1, <1>2, <1>3 DEF QueueNamed

LEMMA FirstIsRace ==
  ASSUME TypeOK, QueueNamed, polling, Head(queue)[1] = "race"
  PROVE  /\ Head(queue)[2] \in Tasks /\ 1 \in DOMAIN queue
         /\ queue[1] = <<"race", Head(queue)[2]>> /\ RaceQueued(Head(queue)[2])
<1>1. \A x \in Entries : x = <<x[1], x[2]>>
  BY DEF Entries
<1>2. Head(queue) \in Entries /\ 1 \in DOMAIN queue /\ Head(queue) = queue[1] /\ Head(queue)[2] \in Tasks
  BY FirstEntry
<1>3. queue[1] = <<"race", Head(queue)[2]>>
  BY <1>1, <1>2
<1>4. QED
  BY <1>2, <1>3 DEF RaceQueued

(* The next item is one that the short circuit may spawn.                  *)
LEMMA NextItem ==
  ASSUME TypeOK, pSpawn < call.len
  PROVE  pSpawn + 1 \in Items /\ pSpawn + 1 \in Tasks /\ pSpawn \in Nat
<1>1. pSpawn \in Nat
  <2>1. {t \in Tasks : Born(t)} \subseteq Tasks
    OBVIOUS
  <2>2. QED
    BY <2>1, TasksAssumption, FS_Subset, FS_CardinalityType DEF pSpawn
<1>2. call.len \in Nat /\ Items = 1 .. call.len /\ Items \subseteq Tasks
  BY CallFacts, TasksAreNumbers DEF TypeOK
<1>3. QED
  BY <1>1, <1>2

LEMMA CallbackMoves ==
  ASSUME TypeOK, QueueNamed, RunCallback
  PROVE  \/ UNCHANGED tasks
         \/ T!Spawn({pSpawn + 1}) /\ call.op = "every" /\ pSpawn + 1 \in Items
         \/ \E t \in Tasks : T!Gathered(t) /\ call.op # "every"
<1> DEFINE t == Head(queue)[2]
<1>1. CASE UNCHANGED tasks
  BY <1>1
<1>2. CASE Head(queue)[1] = "race" /\ RaceCallback(t)
  <2>1. t \in Tasks
    BY <1>2, FirstEntry DEF RunCallback
  <2>2. CASE call.op = "every" /\ ShortCircuit(t)
    <3>1. UNCHANGED tasks \/ (pSpawn < call.len /\ T!Spawn({pSpawn + 1}))
      BY <2>2 DEF ShortCircuit, Spawns
    <3>2. QED
      BY <2>2, <3>1, NextItem
  <2>3. CASE call.op # "every" /\ Collect(t)
    BY <2>1, <2>3 DEF Collect
  <2>4. CASE UNCHANGED tasks
    BY <2>4
  <2>5. QED
    BY <1>2, <2>2, <2>3, <2>4 DEF RaceCallback
<1>3. QED
  BY <1>1, <1>2 DEF RunCallback

(* Where the caller stands is an item.                                     *)
LEMMA AtItems ==
  ASSUME TypeOK, at <= call.len
  PROVE  at \in Items /\ at \in Tasks /\ at + 1 \in 1 .. Cardinality(Tasks) + 1
<1>1. /\ call.len \in 0 .. Cardinality(Tasks) /\ Items = 1 .. call.len /\ Items \subseteq Tasks
      /\ Cardinality(Tasks) \in Nat /\ at \in 1 .. Cardinality(Tasks) + 1
  BY CallFacts, TasksAreNumbers DEF TypeOK
<1>2. QED
  BY <1>1

LEMMA CallerMovesTasks ==
  ASSUME TypeOK, QueueNamed, CallerPlaces, BeforeCall, Turn \/ Caller
  PROVE  \/ UNCHANGED tasks
         \/ \E S \in SUBSET Items :
              /\ T!Spawn(S) /\ call.op \in Iterators /\ phase' # "before"
              /\ call.op = "every" => S = {pSpawn + 1} \/ (S = InitialWindow /\ phase = "before")
         \/ T!Cancel(T!Pending(Tasks))
         \/ \E t \in Tasks : Saying(t) /\ (call.op \in {"first", "any"} => T!Gathered(t))
                             /\ call.op # "every"
<1>1. CASE RunCallback
  <2>1. phase' = phase
    BY <1>1 DEF RunCallback
  <2>2. CASE phase = "before"
    <3>1. Head(queue)[1] # "race"
      BY <1>1, <2>2, FirstEntry DEF RunCallback, BeforeCall
    <3>3. QED
      BY <1>1, <3>1 DEF RunCallback
  <2>3. CASE phase # "before"
    BY <1>1, <2>1, <2>3, CallbackMoves DEF Saying, Iterators
  <2>4. QED
    BY <2>2, <2>3
<1>2. CASE MainGivesUp
  BY <1>2, AtItems DEF MainGivesUp, CallerPlaces, Saying, Races
<1>3. CASE BeginShortCircuit
  <2>1. T!Spawn(InitialWindow) /\ call.op = "every" /\ phase' = "in" /\ phase = "before"
    BY <1>3 DEF BeginShortCircuit, Spawns, Begins
  <2>2. InitialWindow \subseteq Items
    <3>1. call.n \in Nat /\ call.len \in Nat /\ Items = 1 .. call.len
      BY CallFacts, TasksAreNumbers DEF TypeOK
    <3>2. QED
      BY <3>1 DEF InitialWindow
  <2>3. QED
    BY <2>1, <2>2 DEF Iterators
<1>4. CASE FillWindow
  <2>1. T!Spawn(Window) /\ call.op = "map" /\ phase' = "in"
    BY <1>4 DEF FillWindow, Spawns, InLoop, CallerMoves, Executing, caller
  <2>2. Window \subseteq Items
    BY DEF Window
  <2>3. QED
    BY <2>1, <2>2 DEF Iterators
<1>5. CASE TakeItem
  <2>1. at \in Tasks /\ call.op \notin Races /\ Saying(at)
    BY <1>5, AtItems DEF TakeItem, AtItem, InLoop, Saying
  <2>2. QED
    BY <2>1 DEF Races
<1>6. CASE RaceReturns
  BY <1>6 DEF RaceReturns
<1>7. CASE ReturnsAtOnce \/ BeginLoop \/ BeginRace \/ Back \/ ArmLimit \/ LimitEscapes \/ TimesOut
  BY <1>7 DEF ReturnsAtOnce, BeginLoop, BeginRace, Back, ArmLimit, LimitEscapes, TimesOut
<1>8. CASE PollStart \/ AwaitItem \/ LoopReturns \/ AwaitWinner \/ WinnerEscapes
  BY <1>8 DEF PollStart, AwaitItem, LoopReturns, AwaitWinner, WinnerEscapes
<1>9. QED
  BY <1>1, <1>2, <1>3, <1>4, <1>5, <1>6, <1>7, <1>8 DEF Turn, Caller

LEMMA TaskTypesStep ==
  ASSUME TypeOK, QueueNamed, CallerPlaces, BeforeCall, [Next]_vars
  PROVE  TaskTypes'
<1>1. CASE Turn \/ Caller
  <2>1. TaskTypes /\ Items \subseteq Tasks /\ T!Pending(Tasks) \subseteq Tasks
    BY TypeParts, CallFacts DEF ProgramTypes, T!Pending
  <2>2. QED
    BY <1>1, <2>1, CallerMovesTasks, TaskActionTypes
<1>2. ASSUME NEW t \in Tasks, FiberEnds(t) \/ IoSettles(t) \/ OtherCancels(t)
      PROVE  TaskTypes'
  BY <1>2, TypeParts, TaskActionTypes DEF FiberEnds, IoSettles, OtherCancels, Settling
<1>3. CASE OtherReads \/ OtherBlames
  BY <1>3, TypeParts, TaskActionTypes, WatchedAssumption DEF OtherReads, OtherBlames, Saying
<1>4. CASE TimerFires \/ OtherWaits \/ CancelCaller \/ UNCHANGED vars
  BY <1>4, TypeParts, TaskActionTypes DEF TimerFires, OtherWaits, CancelCaller, vars
<1>5. QED
  BY <1>1, <1>2, <1>3, <1>4 DEF Next

(* Every action leaves the program alone.                                  *)
LEMMA SameProgram == [Next]_vars => UNCHANGED program
<1> SUFFICES ASSUME [Next]_vars PROVE UNCHANGED program
  OBVIOUS
<1>1. CASE Turn
  BY <1>1 DEF Turn, PollStart, RunCallback, MainGivesUp
<1>2. CASE Caller
  BY <1>2 DEF Caller, ReturnsAtOnce, BeginLoop, BeginRace, BeginShortCircuit, Back,
     FillWindow, ArmLimit, LimitEscapes, TimesOut, TakeItem, AwaitItem,
     LoopReturns, AwaitWinner, WinnerEscapes, RaceReturns
<1>3. QED
  BY <1>1, <1>2 DEF Next, TimerFires, FiberEnds, IoSettles, OtherCancels, OtherWaits,
     OtherReads, OtherBlames, CancelCaller, vars

(* The history goes on when a task settles and when a race begins.         *)
LEMMA HistoryMoves ==
  ASSUME [Next]_vars
  PROVE  \/ UNCHANGED history
         \/ BeginRace
         \/ \E t \in Tasks : FiberEnds(t) \/ IoSettles(t)
<1>1. CASE Turn
  BY <1>1 DEF Turn, PollStart, RunCallback, MainGivesUp
<1>2. CASE Caller
  BY <1>2 DEF Caller, ReturnsAtOnce, BeginLoop, BeginShortCircuit, Back,
     FillWindow, ArmLimit, LimitEscapes, TimesOut, TakeItem, AwaitItem,
     LoopReturns, AwaitWinner, WinnerEscapes, RaceReturns
<1>3. QED
  BY <1>1, <1>2 DEF Next, TimerFires, OtherCancels, OtherWaits,
     OtherReads, OtherBlames, CancelCaller, history, vars

(* The caller.                                                             *)
LEMMA CallerTypesStep ==
  ASSUME TypeOK, QueueNamed, CallerPlaces, [Next]_vars
  PROVE  CallerTypes'
<1>0. CallerTypes
  BY TypeParts
<1>1. CASE UNCHANGED caller
  BY <1>0, <1>1 DEF CallerTypes, caller
<1>a. ASSUME NEW outcome, Takes(outcome), at <= call.len,
             UNCHANGED <<phase, woken, flagged>>, parked' \in {parked, "run"}
      PROVE  CallerTypes'
  BY <1>0, <1>a, AtItems DEF Takes, CallerTypes
<1>2. CASE RunCallback
  <2>1. UNCHANGED <<phase, at, parked, flagged, timer>>
    BY <1>2 DEF RunCallback
  <2>2. limit' \in {"idle", "pending", "true", "false", "error"}
    BY <1>0, <1>2 DEF RunCallback, LimitBecomes, CallerTypes
  <2>3. woken' \in BOOLEAN
    BY <1>0, <1>2 DEF RunCallback, LimitBecomes, CallerTypes
  <2>4. QED
    BY <1>0, <2>1, <2>2, <2>3 DEF CallerTypes
<1>3. CASE MainGivesUp
  <2>1. CASE parked = "task" /\ \E o \in {"null", "error"} : Takes(o)
    BY <1>3, <1>a, <2>1 DEF MainGivesUp, CallerPlaces
  <2>2. CASE Raises /\ UNCHANGED <<at, limit, timer>>
    BY <1>0, <1>3, <2>2 DEF MainGivesUp, Raises, CallerTypes
  <2>3. QED
    BY <1>3, <2>1, <2>2 DEF MainGivesUp
<1>4. CASE Caller
  <2>1. CASE ReturnsAtOnce \/ BeginLoop \/ BeginRace \/ BeginShortCircuit \/ Back
    BY <1>0, <2>1 DEF ReturnsAtOnce, BeginLoop, BeginRace, BeginShortCircuit, Back, Begins, CallerTypes
  <2>2. CASE FillWindow
    BY <1>1, <2>2 DEF FillWindow
  <2>3. CASE ArmLimit \/ LimitEscapes
    BY <1>0, <2>3 DEF ArmLimit, LimitEscapes, Raises, Park, CallerTypes
  <2>4. CASE TimesOut
    BY <1>a, <2>4 DEF TimesOut, InLoop
  <2>5. CASE TakeItem
    BY <1>a, <2>5 DEF TakeItem, AtItem, InLoop
  <2>6. CASE AwaitItem \/ LoopReturns \/ AwaitWinner \/ WinnerEscapes \/ RaceReturns
    BY <1>0, <2>6 DEF AwaitItem, LoopReturns, AwaitWinner, WinnerEscapes, RaceReturns, Park,
       Raises, CallerTypes
  <2>7. QED
    BY <1>4, <2>1, <2>2, <2>3, <2>4, <2>5, <2>6 DEF Caller
<1>5. CASE TimerFires \/ CancelCaller
  BY <1>0, <1>5 DEF TimerFires, CancelCaller, CallerTypes
<1>6. QED
  BY <1>1, <1>2, <1>3, <1>4, <1>5 DEF Next, Turn, PollStart, FiberEnds, IoSettles, OtherCancels,
     OtherWaits, OtherReads, OtherBlames, vars

(* The results so far.                                                     *)
LEMMA ResultTypes ==
  ASSUME TypeOK, QueueNamed, CallerPlaces, [Next]_vars
  PROVE  results' \in Seq(Results)
<1>0. results \in Seq(Results)
  BY TypeParts
<1>1. CASE UNCHANGED results
  BY <1>0, <1>1
<1>a. ASSUME NEW outcome \in {"null", "value", "error", "timeout"}, NEW t \in Tasks,
             results' = Append(results, Has(t, outcome))
      PROVE  results' \in Seq(Results)
  <2>1. Has(t, outcome) \in Results
    BY DEF Has, Results
  <2>2. QED
    BY <1>0, <1>a, <2>1, AppendProperties
<1>b. ASSUME NEW outcome \in {"hit", "default", "timeout", "null"}, NEW t \in Tasks \cup {0},
             results' = <<Has(t, outcome)>>
      PROVE  results' \in Seq(Results)
  <2>1. Has(t, outcome) \in Results
    BY DEF Has, Results
  <2>2. QED
    BY <1>b, <2>1
<1>c. \A t \in Tasks : Outcome(t) \in {"value", "null", "error"}
  BY DEF Outcome
<1>2. CASE RunCallback
  <2>1. CASE Head(queue)[1] = "race" /\ RaceCallback(Head(queue)[2])
    <3>1. Head(queue)[2] \in Tasks
      BY <1>2, <2>1, FirstEntry DEF RunCallback
    <3>2. CASE ShortCircuit(Head(queue)[2])
      BY <1>1, <1>b, <3>1, <3>2 DEF ShortCircuit
    <3>3. CASE Collect(Head(queue)[2])
      BY <1>a, <1>c, <3>1, <3>3 DEF Collect
    <3>4. QED
      BY <1>1, <2>1, <3>2, <3>3 DEF RaceCallback
  <2>2. CASE results' = <<Has(0, "timeout")>>
    BY <1>b, <2>2
  <2>3. QED
    BY <1>1, <1>2, <2>1, <2>2 DEF RunCallback
<1>d. ASSUME NEW outcome \in {"null", "value", "error", "timeout"}, Takes(outcome), at <= call.len
      PROVE  results' \in Seq(Results)
  BY <1>a, <1>d, AtItems DEF Takes
<1>3. CASE MainGivesUp
  <2>1. CASE parked = "task" /\ \E o \in {"null", "error"} : Takes(o)
    BY <1>d, <2>1 DEF CallerPlaces
  <2>2. QED
    BY <1>1, <1>3, <2>1 DEF MainGivesUp
<1>4. CASE ReturnsAtOnce
  <2>1. call.op = "wait" => 1 \in Tasks
    BY CallFacts, TasksAreNumbers DEF TypeOK
  <2>2. QED
    BY <1>1, <1>4, <1>b, <2>1 DEF ReturnsAtOnce
<1>5. CASE TimesOut
  BY <1>5, <1>d DEF TimesOut, InLoop
<1>6. CASE TakeItem
  <2>1. at \in Tasks /\ at <= call.len
    BY <1>6, AtItems DEF TakeItem, AtItem, InLoop
  <2>2. QED
    BY <1>6, <1>c, <1>d, <2>1 DEF TakeItem
<1>7. CASE Caller
  BY <1>1, <1>4, <1>5, <1>6, <1>7 DEF Caller, BeginLoop, BeginRace, BeginShortCircuit, Back,
     FillWindow, ArmLimit, LimitEscapes, AwaitItem, LoopReturns, AwaitWinner, WinnerEscapes,
     RaceReturns, caller
<1>8. QED
  BY <1>1, <1>2, <1>3, <1>7 DEF Next, Turn, PollStart, TimerFires, FiberEnds, IoSettles,
     OtherCancels, OtherWaits, OtherReads, OtherBlames, CancelCaller, caller, vars

-----------------------------------------------------------------------------
(* The dispatcher.                                                         *)

(* The callbacks that a race queues for the items that settled before it.  *)
LEMMA Began ==
  ASSUME DispatcherTypes, ProgramTypes, queue' = queue \o Callbacks("race", Answered)
  PROVE  LET m == Cardinality(Answered)
             q == InBlockOrder(Answered)
         IN /\ queue' \in Seq(Entries) /\ Len(queue) \in Nat /\ m \in Nat
            /\ Answered \subseteq Items /\ Answered \subseteq Tasks
            /\ q \in [1 .. m -> Answered]
            /\ DOMAIN queue = 1 .. Len(queue) /\ DOMAIN queue' = 1 .. Len(queue) + m
            /\ \A i \in 1 .. Len(queue) : queue'[i] = queue[i]
            /\ \A i \in 1 .. m : queue'[Len(queue) + i] = <<"race", q[i]>>
            /\ \A j \in DOMAIN queue' : j \notin 1 .. Len(queue) =>
                 \E i \in 1 .. m : j = Len(queue) + i
            /\ m = 0 <=> Answered = {}
<1> DEFINE m == Cardinality(Answered)
           q == InBlockOrder(Answered)
           n == Len(queue)
           f == [i \in 1 .. m |-> <<"race", q[i]>>]
<1>1. queue \in Seq(Entries) /\ Answered \subseteq Items /\ Answered \subseteq Tasks
  BY CallFacts DEF DispatcherTypes, ProgramTypes, Answered
<1>2. n \in Nat /\ DOMAIN queue = 1 .. n
  BY <1>1, LenProperties
<1>3. m \in Nat /\ q \in [1 .. m -> Answered]
  BY <1>1, BlockOrder
<1>4. m = 0 <=> Answered = {}
  BY <1>1, TasksAssumption, FS_Subset, FS_EmptySet
<1>5. Callbacks("race", Answered) = f
  BY DEF Callbacks
<1> HIDE DEF m, q, n
<1>6. f \in [1 .. m -> Entries]
  <2>1. \A i \in 1 .. m : <<"race", q[i]>> \in Entries
    BY <1>1, <1>3 DEF Entries
  <2>2. QED
    BY <2>1
<1>7. f \in Seq(Entries)
  BY <1>3, <1>6, SeqDef
<1>8. Len(f) = m /\ \A i \in 1 .. m : f[i] = <<"race", q[i]>>
  <2>1. DOMAIN f = 1 .. m
    OBVIOUS
  <2>2. QED
    BY <1>3, <1>7, <2>1, LenProperties
<1>9. queue' = queue \o f
  BY <1>5
<1> HIDE DEF f
<1>10. /\ queue \o f \in Seq(Entries) /\ Len(queue \o f) = n + m
       /\ \A i \in 1 .. n + m : (queue \o f)[i] = IF i <= n THEN queue[i] ELSE f[i - n]
  BY <1>1, <1>7, <1>8, ConcatProperties DEF n
<1>11. DOMAIN queue' = 1 .. n + m /\ queue' \in Seq(Entries)
  BY <1>9, <1>10, LenProperties
<1>12. \A i \in 1 .. n : queue'[i] = queue[i]
  BY <1>2, <1>3, <1>9, <1>10
<1>13. \A i \in 1 .. m : queue'[n + i] = <<"race", q[i]>>
  <2> SUFFICES ASSUME NEW i \in 1 .. m PROVE queue'[n + i] = <<"race", q[i]>>
    OBVIOUS
  <2> DEFINE j == n + i
  <2>1. j \in 1 .. n + m /\ ~(j <= n) /\ j - n = i
    BY <1>2, <1>3
  <2> HIDE DEF j
  <2>2. (queue \o f)[j] = f[j - n]
    BY <1>10, <2>1
  <2>3. queue'[j] = <<"race", q[i]>>
    BY <1>8, <1>9, <2>1, <2>2
  <2>4. QED
    BY <2>3 DEF j
<1>14. \A j \in 1 .. n + m : j \notin 1 .. n => j - n \in 1 .. m /\ j = n + (j - n)
  BY <1>2, <1>3
<1>15. QED
  BY <1>1, <1>2, <1>3, <1>4, <1>11, <1>12, <1>13, <1>14 DEF m, q, n

(* Nobody but the dispatcher leaves callbacks to be run.                   *)
LEMMA WatcherTypes ==
  ASSUME DispatcherTypes,
         \/ UNCHANGED watchers
         \/ \E t \in Tasks : watchers' = [watchers EXCEPT ![t] = <<>>]
         \/ \E t \in Tasks : watchers' = [watchers EXCEPT ![t] = <<"limit">>]
         \/ \E t \in Tasks : \E what \in Whats : AddCallback(t, what)
         \/ \E S : watchers' = [t \in Tasks |-> IF t \in S THEN Append(watchers[t], "race")
                                                ELSE watchers[t]]
  PROVE  watchers' \in [Tasks -> Seq(Whats)]
<1>1. watchers \in [Tasks -> Seq(Whats)]
  BY DEF DispatcherTypes
<1>2. \A t \in Tasks : \A what \in Whats : Append(watchers[t], what) \in Seq(Whats)
  BY <1>1, AppendProperties
<1>3. "limit" \in Whats /\ "race" \in Whats
  BY DEF Whats
<1>4. <<>> \in Seq(Whats) /\ <<"limit">> \in Seq(Whats)
  BY <1>3
<1>5. QED
  BY <1>1, <1>2, <1>3, <1>4 DEF AddCallback

LEMMA WatcherTypesStep ==
  ASSUME TypeOK, QueueNamed, CallerPlaces, [Next]_vars
  PROVE  watchers' \in [Tasks -> Seq(Whats)]
<1>0. DispatcherTypes
  BY TypeParts
<1>1. CASE UNCHANGED watchers
  BY <1>0, <1>1, WatcherTypes
<1>a. ASSUME NEW S, Spawns(S) PROVE watchers' \in [Tasks -> Seq(Whats)]
  BY <1>0, <1>1, <1>a, WatcherTypes DEF Spawns
<1>b. "wake" \in Whats /\ "other" \in Whats
  BY DEF Whats
<1>2. CASE RunCallback
  BY <1>1, <1>2, <1>a DEF RunCallback, RaceCallback, ShortCircuit, Collect
<1>3. ASSUME NEW t \in Tasks, FiberEnds(t) \/ IoSettles(t) PROVE watchers' \in [Tasks -> Seq(Whats)]
  BY <1>0, <1>3, WatcherTypes DEF FiberEnds, IoSettles, Fire
<1>4. CASE OtherWaits
  BY <1>0, <1>4, <1>b, WatcherTypes, WatchedAssumption DEF OtherWaits
<1>5. CASE BeginRace
  BY <1>0, <1>5, WatcherTypes DEF BeginRace
<1>6. CASE BeginShortCircuit \/ FillWindow
  BY <1>6, <1>a DEF BeginShortCircuit, FillWindow
<1>7. CASE ArmLimit
  <2>1. at \in Tasks
    BY <1>7, AtItems DEF ArmLimit, InLoop
  <2>2. QED
    BY <1>0, <1>1, <1>7, <2>1, WatcherTypes DEF ArmLimit
<1>8. CASE AwaitItem
  <2>1. at \in Tasks
    BY <1>8, AtItems DEF AwaitItem, AtItem, InLoop
  <2>2. QED
    BY <1>0, <1>1, <1>8, <1>b, <2>1, WatcherTypes DEF AwaitItem
<1>9. CASE Caller
  BY <1>1, <1>5, <1>6, <1>7, <1>8, <1>9 DEF Caller, ReturnsAtOnce, BeginLoop, Back, LimitEscapes,
     TimesOut, TakeItem, LoopReturns, AwaitWinner, WinnerEscapes, RaceReturns, dispatcher
<1>10. QED
  BY <1>1, <1>2, <1>3, <1>4, <1>9 DEF Next, Turn, PollStart, MainGivesUp, TimerFires, OtherCancels,
     OtherReads, OtherBlames, CancelCaller, dispatcher, vars

(* What can happen to the queue.                                           *)
LEMMA QueueMoves ==
  ASSUME TypeOK, [Next]_vars
  PROVE  \/ UNCHANGED queue /\ (polling' => queue # <<>> /\ (polling \/ PollStart))
         \/ \E t \in Tasks : Fires(t) /\ (FiberEnds(t) \/ IoSettles(t)) /\ (polling' => queue' # <<>>)
         \/ \E x \in Entries : /\ queue' = Append(queue, x)
                               /\ x[1] = "timeout" \/ (x[1] = "limit" /\ x[2] \in Tasks)
         \/ RunCallback
         \/ BeginRace
<1>0. DispatcherTypes
  BY TypeParts
<1>1. CASE UNCHANGED <<queue, polling>>
  BY <1>0, <1>1 DEF DispatcherTypes
<1>2. CASE PollStart
  BY <1>2 DEF PollStart
<1>3. ASSUME NEW t \in Tasks, FiberEnds(t) \/ IoSettles(t)
      PROVE  Fires(t) /\ (polling' => queue' # <<>>)
  BY <1>3 DEF FiberEnds, IoSettles, Fire
<1>4. CASE TimerFires
  <2>1. at \in Tasks \cup {Cardinality(Tasks) + 1}
    <3>1. at \in 1 .. Cardinality(Tasks) + 1 /\ Cardinality(Tasks) \in Nat
          /\ Tasks = 1 .. Cardinality(Tasks)
      BY TasksAreNumbers, TasksAssumption DEF TypeOK
    <3>2. QED
      BY <3>1
  <2>2. <<"timeout", at>> \in Entries
    BY <2>1 DEF Entries
  <2>3. QED
    BY <1>4, <2>2 DEF TimerFires
<1>5. CASE ArmLimit
  <2>1. at \in Tasks
    BY <1>5, AtItems DEF ArmLimit, InLoop
  <2>2. <<"limit", at>> \in Entries
    BY <2>1 DEF Entries
  <2>3. QED
    BY <1>1, <1>5, <2>1, <2>2 DEF ArmLimit
<1>6. CASE Caller
  BY <1>1, <1>5, <1>6 DEF Caller, ReturnsAtOnce, BeginLoop, BeginShortCircuit, Back, FillWindow,
     LimitEscapes, TimesOut, TakeItem, AwaitItem, LoopReturns, AwaitWinner, WinnerEscapes,
     RaceReturns, dispatcher
<1>7. QED
  BY <1>1, <1>2, <1>3, <1>4, <1>6 DEF Next, Turn, MainGivesUp, OtherCancels, OtherWaits, OtherReads, OtherBlames,
     CancelCaller, dispatcher, vars

LEMMA QueueTypesStep ==
  ASSUME TypeOK, QueueNamed, [Next]_vars
  PROVE  /\ queue' \in Seq(Entries) /\ (polling' => queue' # <<>>)
         /\ QueueNamed'
<1>0. DispatcherTypes /\ ProgramTypes /\ queue \in Seq(Entries)
  BY TypeParts DEF DispatcherTypes
<1>1. CASE UNCHANGED queue /\ (polling' => queue # <<>>)
  BY <1>0, <1>1 DEF QueueNamed
<1>2. ASSUME NEW t \in Tasks, Fires(t), polling' => queue' # <<>>
      PROVE  queue' \in Seq(Entries) /\ (polling' => queue' # <<>>) /\ QueueNamed'
  BY <1>0, <1>2, Fired DEF QueueNamed
<1>3. ASSUME NEW x \in Entries, queue' = Append(queue, x),
             x[1] = "timeout" \/ (x[1] = "limit" /\ x[2] \in Tasks)
      PROVE  queue' \in Seq(Entries) /\ (polling' => queue' # <<>>) /\ QueueNamed'
  <2>1. /\ queue' \in Seq(Entries) /\ Len(queue) \in Nat
        /\ DOMAIN queue = 1 .. Len(queue) /\ DOMAIN queue' = 1 .. Len(queue) + 1
        /\ \A i \in 1 .. Len(queue) : queue'[i] = queue[i]
        /\ queue'[Len(queue) + 1] = x
    BY <1>0, <1>3, Enqueued
  <2>2. QueueNamed'
    BY <1>3, <2>1 DEF QueueNamed
  <2>3. queue' # <<>>
    <3>1. 1 \in DOMAIN queue' /\ DOMAIN <<>> = {}
      BY <2>1
    <3>2. QED
      BY <3>1
  <2>4. QED
    BY <2>1, <2>2, <2>3
<1>4. CASE RunCallback
  <2>1. queue' = Tail(queue) /\ polling /\ (polling' => queue' # <<>>)
    BY <1>4 DEF RunCallback
  <2>2. /\ queue' \in Seq(Entries) /\ Len(queue) \in Nat \ {0}
        /\ DOMAIN queue = 1 .. Len(queue) /\ DOMAIN queue' = 1 .. Len(queue) - 1
        /\ \A i \in 1 .. Len(queue) - 1 : queue'[i] = queue[i + 1]
    BY <1>0, <2>1, Dequeued
  <2>3. QueueNamed'
    <3> SUFFICES ASSUME NEW i \in DOMAIN queue', queue'[i][1] # "timeout"
                 PROVE  queue'[i][2] \in Tasks
      BY DEF QueueNamed
    <3>1. i + 1 \in DOMAIN queue /\ queue'[i] = queue[i + 1]
      BY <2>2
    <3>2. QED
      BY <3>1 DEF QueueNamed
  <2>4. QED
    BY <2>1, <2>2, <2>3
<1>5. CASE BeginRace
  <2>1. queue' = queue \o Callbacks("race", Answered) /\ (polling' => Answered # {})
    BY <1>5 DEF BeginRace
  <2> DEFINE m == Cardinality(Answered)
             q == InBlockOrder(Answered)
  <2>2. /\ queue' \in Seq(Entries) /\ Len(queue) \in Nat /\ m \in Nat
        /\ Answered \subseteq Items /\ Answered \subseteq Tasks
        /\ q \in [1 .. m -> Answered]
        /\ DOMAIN queue = 1 .. Len(queue) /\ DOMAIN queue' = 1 .. Len(queue) + m
        /\ \A i \in 1 .. Len(queue) : queue'[i] = queue[i]
        /\ \A i \in 1 .. m : queue'[Len(queue) + i] = <<"race", q[i]>>
        /\ \A j \in DOMAIN queue' : j \notin 1 .. Len(queue) =>
             \E i \in 1 .. m : j = Len(queue) + i
        /\ m = 0 <=> Answered = {}
    BY <1>0, <2>1, Began
  <2> HIDE DEF m, q
  <2>3. QueueNamed'
    <3> SUFFICES ASSUME NEW j \in DOMAIN queue', queue'[j][1] # "timeout"
                 PROVE  queue'[j][2] \in Tasks
      BY DEF QueueNamed
    <3>1. CASE j \in 1 .. Len(queue)
      BY <2>2, <3>1 DEF QueueNamed
    <3>2. CASE j \notin 1 .. Len(queue)
      <4>1. PICK i \in 1 .. m : j = Len(queue) + i
        BY <2>2, <3>2
      <4>2. queue'[j] = <<"race", q[i]>> /\ q[i] \in Tasks
        BY <2>2, <4>1
      <4>3. QED
        BY <4>2
    <3>3. QED
      BY <3>1, <3>2
  <2>4. Answered # {} => queue' # <<>>
    <3>1. Answered # {} => Len(queue) + 1 \in DOMAIN queue'
      BY <2>2
    <3>2. DOMAIN <<>> = {}
      OBVIOUS
    <3>3. QED
      BY <3>1, <3>2
  <2>5. QED
    BY <2>1, <2>2, <2>3, <2>4
<1>6. QED
  BY <1>1, <1>2, <1>3, <1>4, <1>5, QueueMoves

LEMMA OtherTypesStep ==
  ASSUME TypeOK, [Next]_vars
  PROVE  OtherTypes'
<1>0. OtherTypes /\ order \in Seq(Tasks) /\ early \in Nat /\ Len(order) \in Nat
  BY TypeParts, LenProperties DEF OtherTypes
<1>1. CASE UNCHANGED history
  BY <1>0, <1>1 DEF OtherTypes, history, Next, Turn, PollStart, RunCallback, MainGivesUp,
     Caller, ReturnsAtOnce, BeginLoop, BeginRace, BeginShortCircuit, Back, FillWindow, ArmLimit,
     LimitEscapes, TimesOut, TakeItem, AwaitItem, LoopReturns, AwaitWinner, WinnerEscapes,
     RaceReturns, TimerFires, FiberEnds, IoSettles, OtherCancels, OtherWaits, OtherReads,
     OtherBlames, CancelCaller, vars
<1>2. ASSUME NEW t \in Tasks, FiberEnds(t) \/ IoSettles(t) PROVE OtherTypes'
  <2>1. order' \in {order, Append(order, t)} /\ UNCHANGED <<early, other>>
    BY <1>2 DEF FiberEnds, IoSettles, Settles
  <2>2. Append(order, t) \in Seq(Tasks)
    BY <1>0, AppendProperties
  <2>3. QED
    BY <1>0, <2>1, <2>2 DEF OtherTypes
<1>3. CASE BeginRace
  BY <1>0, <1>3 DEF BeginRace, OtherTypes
<1>4. QED
  BY <1>1, <1>2, <1>3, HistoryMoves

(* The caller is parked as its call demands.                               *)
LEMMA CallerPlacesStep ==
  ASSUME TypeOK, CallerPlaces, [Next]_vars
  PROVE  CallerPlaces'
<1>0. call' = call
  BY SameProgram DEF program
<1>1. CASE UNCHANGED <<phase, at, parked>>
  BY <1>0, <1>1 DEF CallerPlaces
<1>2. CASE MainGivesUp
  BY <1>0, <1>2 DEF MainGivesUp, CallerPlaces, Takes, Raises
<1>3. CASE ReturnsAtOnce \/ BeginLoop \/ BeginRace \/ BeginShortCircuit
  BY <1>0, <1>3 DEF ReturnsAtOnce, BeginLoop, BeginRace, BeginShortCircuit, Begins, CallerPlaces
<1>4. CASE Back
  BY <1>0, <1>4 DEF Back, CallerPlaces
<1>5. CASE ArmLimit \/ LimitEscapes \/ TimesOut
  BY <1>0, <1>5 DEF ArmLimit, LimitEscapes, TimesOut, InLoop, CallerMoves, Executing, Raises, Park,
     Takes, CallerPlaces
<1>6. CASE TakeItem \/ AwaitItem
  BY <1>0, <1>6 DEF TakeItem, AwaitItem, AtItem, InLoop, CallerMoves, Executing, Park, Takes,
     CallerPlaces
<1>7. CASE LoopReturns \/ AwaitWinner \/ WinnerEscapes \/ RaceReturns
  BY <1>0, <1>7 DEF LoopReturns, AwaitWinner, WinnerEscapes, RaceReturns, CallerMoves, Executing,
     Raises, Park, CallerPlaces
<1>8. CASE FillWindow
  BY <1>1, <1>8 DEF FillWindow, caller
<1>9. QED
  BY <1>1, <1>2, <1>3, <1>4, <1>5, <1>6, <1>7, <1>8 DEF Next, Turn, PollStart, RunCallback, Caller,
     TimerFires, FiberEnds, IoSettles, OtherCancels, OtherWaits, OtherReads, OtherBlames, CancelCaller,
     caller, vars

(* The next item of a short circuit is the first that is not spawned.      *)
LEMMA NextIsFirst ==
  ASSUME TypeOK, NEW k \in 0 .. call.len, \A t \in Tasks : Born(t) <=> t <= k
  PROVE  pSpawn = k
<1>1. call.len \in Nat /\ call.len <= Cardinality(Tasks) /\ Cardinality(Tasks) \in Nat
      /\ Tasks = 1 .. Cardinality(Tasks)
  BY CallFacts, TasksAreNumbers DEF TypeOK
<1> DEFINE n == Cardinality(Tasks)
<1> HIDE DEF n
<1>2. n \in Nat /\ Tasks = 1 .. n /\ k \in Nat /\ k <= n
  BY <1>1 DEF n
<1>3. {t \in Tasks : Born(t)} = 1 .. k
  BY <1>2
<1>4. Cardinality(1 .. k) = k
  BY <1>2, FS_Interval
<1>5. QED
  BY <1>3, <1>4 DEF pSpawn

(* Born once, in their order, for good.                                    *)
LEMMA BirthsStep ==
  ASSUME GatherInv, [Next]_vars
  PROVE  Births'
<1>0. TypeOK /\ QueueNamed /\ CallerPlaces /\ BeforeCall /\ Births /\ TaskTypes
  BY TypeParts DEF GatherInv
<1>1. /\ call' = call
      /\ call.op \in Waits \cup Iterators /\ call.len \in Nat /\ Items \subseteq Tasks
      /\ Items = 1 .. call.len /\ Tasks \subseteq Nat /\ Items' = Items
  BY <1>0, SameProgram, CallFacts, TasksAreNumbers DEF program, TypeOK, Items
<1>2. ASSUME \A t \in Tasks : Born(t)' <=> Born(t), \A t \in Tasks : fut'[t] = "idle" <=> fut[t] = "idle"
      PROVE  Births'
  BY <1>0, <1>1, <1>2 DEF Births
<1>3. CASE UNCHANGED tasks
  BY <1>2, <1>3 DEF tasks, Born
<1>4. ASSUME NEW t \in Tasks, Settling(t) PROVE Births'
  <2>1. fut[t] = "pending" /\ state[t] # "none"
    BY <1>0, <1>4 DEF Settling, T!Return, T!Raise, T!Stop, T!SettleQuietly, T!Ends, Births, Born
  <2>2. \A u \in Tasks : (state'[u] = "none" <=> state[u] = "none") /\ (fut'[u] = "idle" <=> fut[u] = "idle")
    BY <1>0, <1>4, <2>1 DEF Settling, T!Return, T!Raise, T!Stop, T!SettleQuietly, T!Ends, TaskTypes
  <2>3. QED
    BY <1>2, <2>2 DEF Born
<1>5. ASSUME NEW t \in Tasks, Saying(t) PROVE Births'
  <2>1. state[t] # "none" /\ fut' = fut
    BY <1>0, <1>5 DEF Saying, T!Read, T!Gathered, T!Blame, T!Say, T!Settled, Births, Born
  <2>2. \A u \in Tasks : state'[u] = "none" <=> state[u] = "none"
    BY <1>0, <1>5, <2>1 DEF Saying, T!Read, T!Gathered, T!Blame, T!Say, T!ReadState, T!GatheredState,
       T!Unsuccessful, TaskTypes
  <2>3. QED
    BY <1>2, <2>1, <2>2 DEF Born
<1>6. ASSUME NEW S \in SUBSET Tasks, T!Cancel(S), \A t \in S : state[t] = "pending" PROVE Births'
  <2>1. fut' = fut /\ \A u \in Tasks : state'[u] = "none" <=> state[u] = "none"
    BY <1>0, <1>6 DEF T!Cancel, TaskTypes
  <2>2. QED
    BY <1>2, <2>1 DEF Born
<1>7. ASSUME NEW S \in SUBSET Items, T!Spawn(S), call.op \in Iterators,
             call.op = "every" => S = {pSpawn + 1} \/ (S = InitialWindow /\ phase = "before")
      PROVE  Births'
  <2>1. /\ \A t \in Tasks : Born(t)' <=> Born(t) \/ t \in S
        /\ \A t \in Tasks : fut'[t] = "idle" <=> fut[t] = "idle" /\ t \notin S
    BY <1>0, <1>7 DEF T!Spawn, Born, TaskTypes
  <2>2. call.op \notin Waits
    BY <1>7 DEF Waits, Iterators
  <2>3. ASSUME call.op = "every"
        PROVE  \E k \in 0 .. call.len : \A t \in Tasks : Born(t)' <=> t <= k
    <3>1. PICK k \in 0 .. call.len : \A t \in Tasks : Born(t) <=> t <= k
      BY <1>0, <2>3 DEF Births
    <3>2. CASE S = {pSpawn + 1}
      <4>1. pSpawn = k /\ k + 1 \in Items
        BY <1>0, <1>7, <3>1, <3>2, NextIsFirst
      <4>2. k + 1 \in 0 .. call.len /\ \A t \in Tasks : Born(t)' <=> t <= k + 1
        BY <1>1, <2>1, <3>1, <3>2, <4>1
      <4>3. QED
        BY <4>2
    <3>3. CASE S = InitialWindow /\ phase = "before"
      <4>1. \A t \in Tasks : ~Born(t)
        BY <1>0, <1>7, <3>3 DEF BeforeCall
      <4>2. call.n \in Nat
        BY <1>0, CallFacts, TasksAreNumbers DEF TypeOK
      <4> DEFINE m == IF call.n < call.len THEN call.n ELSE call.len
      <4>3. S = 1 .. m /\ m \in 0 .. call.len
        BY <1>1, <3>3, <4>2 DEF InitialWindow
      <4>4. \A t \in Tasks : t \in Nat /\ t # 0
        <5>1. Tasks = 1 .. Cardinality(Tasks) /\ Cardinality(Tasks) \in Nat
          BY TasksAssumption, TasksAreNumbers
        <5>2. QED
          BY <5>1
      <4> HIDE DEF m
      <4>5. \A t \in Tasks : Born(t)' <=> t <= m
        BY <2>1, <4>1, <4>3, <4>4
      <4>6. QED
        BY <4>3, <4>5
    <3>4. QED
      BY <1>7, <2>3, <3>2, <3>3
  <2>4. \A t \in Tasks : Born(t)' <=> fut'[t] # "idle"
    BY <1>0, <2>1 DEF Births
  <2>5. \A t \in Tasks : Born(t)' => t \in Items
    BY <1>0, <1>7, <2>1 DEF Births
  <2>6. QED
    BY <1>1, <1>7, <2>2, <2>3, <2>4, <2>5 DEF Births
<1>8. CASE Turn \/ Caller
  <2>1. T!Pending(Tasks) \in SUBSET Tasks /\ \A t \in T!Pending(Tasks) : state[t] = "pending"
    BY DEF T!Pending
  <2>2. QED
    BY <1>0, <1>3, <1>5, <1>6, <1>7, <1>8, <2>1, CallerMovesTasks
<1>9. ASSUME NEW t \in Tasks, FiberEnds(t) \/ IoSettles(t) \/ OtherCancels(t)
      PROVE  Births'
  <2>1. CASE FiberEnds(t) \/ IoSettles(t)
    BY <1>4, <2>1 DEF FiberEnds, IoSettles, Settling
  <2>2. CASE OtherCancels(t)
    BY <1>6, <2>2 DEF OtherCancels
  <2>3. QED
    BY <1>9, <2>1, <2>2
<1>10. CASE OtherReads \/ OtherBlames
  BY <1>5, <1>10, WatchedAssumption DEF OtherReads, OtherBlames, Saying
<1>11. CASE TimerFires \/ OtherWaits \/ CancelCaller \/ UNCHANGED vars
  BY <1>3, <1>11 DEF TimerFires, OtherWaits, CancelCaller, vars
<1>12. QED
  BY <1>8, <1>9, <1>10, <1>11 DEF Next

(* The steps before the call: others settle, cancel, wait and are called   *)
(* back.                                                                   *)
LEMMA StepsBefore ==
  ASSUME TypeOK, CallerPlaces, BeforeCall, [Next]_vars, phase' = "before"
  PROVE  /\ phase = "before" /\ UNCHANGED <<at, timer>>
         /\ \/ RunCallback \/ OtherWaits \/ OtherReads \/ OtherBlames
            \/ UNCHANGED <<tasks, queue, watchers, results, early, pSettled>>
            \/ \E t \in Tasks : FiberEnds(t) \/ IoSettles(t) \/ OtherCancels(t)
<1>1. CASE Caller
  BY <1>1 DEF Caller, ReturnsAtOnce, BeginLoop, BeginRace, BeginShortCircuit, Begins, Back,
     FillWindow, ArmLimit, LimitEscapes, TimesOut, TakeItem, AwaitItem, LoopReturns, AwaitWinner,
     WinnerEscapes, RaceReturns, AtItem, InLoop, CallerMoves, Executing, Raises, caller
<1>2. CASE PollStart \/ CancelCaller \/ UNCHANGED vars
  BY <1>2 DEF PollStart, CancelCaller, caller, dispatcher, history, vars
<1>3. CASE MainGivesUp
  BY <1>3 DEF MainGivesUp, Raises
<1>4. CASE TimerFires
  BY <1>4 DEF TimerFires, BeforeCall
<1>5. CASE RunCallback \/ OtherWaits \/ OtherReads \/ OtherBlames
  BY <1>5 DEF RunCallback, OtherWaits, OtherReads, OtherBlames, caller
<1>6. ASSUME NEW t \in Tasks, FiberEnds(t) \/ IoSettles(t) \/ OtherCancels(t)
      PROVE  phase = "before" /\ UNCHANGED <<at, timer>>
  BY <1>6 DEF FiberEnds, IoSettles, OtherCancels, caller
<1>7. QED
  BY <1>1, <1>2, <1>3, <1>4, <1>5, <1>6 DEF Next, Turn

LEMMA BeforeStep ==
  ASSUME GatherInv, [Next]_vars
  PROVE  BeforeCall'
<1>0. TypeOK /\ QueueNamed /\ CallerPlaces /\ BeforeCall /\ Births /\ TaskTypes /\ DispatcherTypes
  BY TypeParts DEF GatherInv
<1> SUFFICES ASSUME phase' = "before" PROVE BeforeCall'
  BY DEF BeforeCall
<1>1. /\ phase = "before" /\ UNCHANGED <<at, timer>>
      /\ \/ RunCallback \/ OtherWaits \/ OtherReads \/ OtherBlames
         \/ UNCHANGED <<tasks, queue, watchers, results, early, pSettled>>
         \/ \E t \in Tasks : FiberEnds(t) \/ IoSettles(t) \/ OtherCancels(t)
  BY <1>0, StepsBefore
<1>2. /\ call' = call
      /\ results = <<>> /\ early = 0 /\ pSettled = 0 /\ at' = 1 /\ timer' = "idle"
      /\ call.op \in Iterators => \A t \in Tasks : ~Born(t) /\ fut[t] = "idle"
      /\ \A t \in Tasks : \A i \in DOMAIN watchers[t] : watchers[t][i] = "other"
      /\ \A i \in DOMAIN queue : queue[i][1] = "other"
  BY <1>0, <1>1, SameProgram DEF BeforeCall, Births, program
<1>3. CASE UNCHANGED <<tasks, queue, watchers, results, early, pSettled>>
  BY <1>1, <1>2, <1>3 DEF BeforeCall, tasks, Born
<1>4. CASE RunCallback
  <2>1. UNCHANGED <<tasks, watchers, results, pSettled, early>> /\ polling /\ queue' = Tail(queue)
    <3>1. Head(queue)[1] = "other"
      BY <1>0, <1>2, <1>4, FirstEntry DEF RunCallback
    <3>2. QED
      BY <1>4, <3>1 DEF RunCallback, history
  <2>2. \A i \in DOMAIN queue' : i + 1 \in DOMAIN queue /\ queue'[i] = queue[i + 1]
    BY <1>0, <2>1, Dequeued
  <2>3. \A i \in DOMAIN queue' : queue'[i][1] = "other"
    BY <1>2, <2>2
  <2>4. QED
    BY <1>1, <1>2, <2>1, <2>3 DEF BeforeCall, tasks, Born
<1>5. CASE OtherWaits
  <2>1. UNCHANGED <<tasks, queue, results, pSettled, early>>
        /\ watchers' = [watchers EXCEPT ![Watched] = Append(@, "other")]
    BY <1>5 DEF OtherWaits, AddCallback, caller, history
  <2>2. \A t \in Tasks : \A i \in DOMAIN watchers'[t] : watchers'[t][i] = "other"
    <3> SUFFICES ASSUME NEW t \in Tasks, NEW i \in DOMAIN watchers'[t]
                 PROVE  watchers'[t][i] = "other"
      OBVIOUS
    <3>1. CASE t # Watched
      BY <1>0, <1>2, <2>1, <3>1 DEF DispatcherTypes
    <3>2. CASE t = Watched
      <4> DEFINE w == watchers[t]
      <4>1. w \in Seq(Whats) /\ "other" \in Whats
        BY <1>0 DEF DispatcherTypes, Whats
      <4>2. watchers'[t] = Append(w, "other")
        BY <1>0, <2>1, <3>2 DEF DispatcherTypes
      <4>a. \A j \in DOMAIN w : w[j] = "other"
        BY <1>2
      <4> HIDE DEF w
      <4>3. Len(w) \in Nat /\ DOMAIN w = 1 .. Len(w)
        BY <4>1, LenProperties
      <4>4. /\ Append(w, "other") \in Seq(Whats)
            /\ Len(Append(w, "other")) = Len(w) + 1
            /\ \A j \in 1 .. Len(w) : Append(w, "other")[j] = w[j]
            /\ Append(w, "other")[Len(w) + 1] = "other"
        BY <4>1, AppendProperties
      <4>5. DOMAIN Append(w, "other") = 1 .. Len(w) + 1
        BY <4>4, LenProperties
      <4>6. QED
        BY <4>2, <4>a, <4>3, <4>4, <4>5
    <3>3. QED
      BY <3>1, <3>2
  <2>3. QED
    BY <1>1, <1>2, <2>1, <2>2 DEF BeforeCall, tasks, Born
<1>6. CASE OtherReads \/ OtherBlames
  <2>1. UNCHANGED <<queue, watchers, results, pSettled, early>> /\ call.op \notin Iterators
    BY <1>2, <1>6, WatchedAssumption DEF OtherReads, OtherBlames, T!Read, T!Blame, T!Settled, caller, dispatcher, history
  <2>2. QED
    BY <1>1, <1>2, <2>1 DEF BeforeCall
<1>7. ASSUME NEW t \in Tasks, FiberEnds(t) \/ IoSettles(t)
      PROVE  BeforeCall'
  <2>1. /\ UNCHANGED <<results, pSettled, early>> /\ Fires(t)
        /\ watchers' = [watchers EXCEPT ![t] = <<>>]
    BY <1>1, <1>7 DEF FiberEnds, IoSettles, Fire, Settles, caller
  <2>2. call.op \notin Iterators
    BY <1>2, <1>7 DEF FiberEnds, IoSettles, T!Return, T!Raise, T!Stop, T!SettleQuietly, T!Ends
  <2>3. \A u \in Tasks : \A i \in DOMAIN watchers'[u] : watchers'[u][i] = "other"
    <3>1. DOMAIN <<>> = {}
      OBVIOUS
    <3>2. QED
      BY <1>0, <1>2, <2>1, <3>1 DEF DispatcherTypes
  <2>4. \A i \in DOMAIN queue' : queue'[i][1] = "other"
    <3> DEFINE n == Len(queue)
               w == watchers[t]
               m == Len(w)
    <3>1. /\ DOMAIN queue = 1 .. n /\ DOMAIN w = 1 .. m
          /\ \A i \in 1 .. n : queue'[i] = queue[i]
          /\ \A i \in 1 .. m : queue'[n + i] = <<w[i], t>>
          /\ \A j \in DOMAIN queue' : j \notin 1 .. n => \E i \in 1 .. m : j = n + i
      BY <1>0, <2>1, Fired
    <3>2. \A i \in DOMAIN w : w[i] = "other"
      BY <1>2
    <3> HIDE DEF n, m, w
    <3>3. ASSUME NEW j \in DOMAIN queue', j \notin 1 .. n PROVE queue'[j][1] = "other"
      <4>1. PICK i \in 1 .. m : j = n + i
        BY <3>1, <3>3
      <4>2. queue'[j] = <<w[i], t>> /\ w[i] = "other"
        BY <3>1, <3>2, <4>1
      <4>3. QED
        BY <4>2
    <3>4. QED
      BY <1>2, <3>1, <3>3
  <2>5. QED
    BY <1>1, <1>2, <2>1, <2>2, <2>3, <2>4 DEF BeforeCall
<1>8. ASSUME NEW t \in Tasks, OtherCancels(t)
      PROVE  BeforeCall'
  <2>1. UNCHANGED <<queue, watchers, results, pSettled, early>> /\ call.op \notin Iterators
    BY <1>2, <1>8 DEF OtherCancels, caller, dispatcher, history, Waits, Iterators
  <2>2. QED
    BY <1>1, <1>2, <2>1 DEF BeforeCall
<1>9. QED
  BY <1>1, <1>3, <1>4, <1>5, <1>6, <1>7, <1>8

-----------------------------------------------------------------------------
(* Futures and states.                                                     *)

(* A future settles once, and a task that is not pending never is again.   *)
LEMMA SettledStays ==
  ASSUME GatherInv, [Next]_vars, NEW t \in Tasks
  PROVE  /\ T!Settled(t) => fut'[t] = fut[t]
         /\ state[t] \notin {"none", "pending"} => state'[t] \notin {"none", "pending"}
<1>0. TypeOK /\ QueueNamed /\ CallerPlaces /\ BeforeCall /\ Births /\ TaskTypes /\ Items \subseteq Tasks
  BY TypeParts, CallFacts DEF GatherInv, ProgramTypes
<1> DEFINE Stays == /\ T!Settled(t) => fut'[t] = fut[t]
                    /\ state[t] \notin {"none", "pending"} => state'[t] \notin {"none", "pending"}
<1>1. CASE UNCHANGED tasks
  BY <1>1 DEF tasks
<1>2. ASSUME NEW S \in SUBSET Items, T!Spawn(S) PROVE Stays
  <2>1. T!Settled(t) => t \notin S
    BY <1>0, <1>2 DEF T!Spawn, T!Settled, Births, Born
  <2>2. QED
    BY <1>0, <1>2, <2>1 DEF T!Spawn, TaskTypes
<1>3. ASSUME NEW S \in SUBSET Tasks, T!Cancel(S) PROVE Stays
  BY <1>0, <1>3 DEF T!Cancel, TaskTypes
<1>4. ASSUME NEW u \in Tasks, Settling(u) PROVE Stays
  <2>1. CASE T!Return(u) \/ T!Raise(u) \/ T!Stop(u)
    BY <1>0, <2>1 DEF T!Return, T!Raise, T!Stop, T!Ends, T!Settled, TaskTypes
  <2>2. ASSUME NEW r \in {"value", "error"}, T!SettleQuietly(u, r) PROVE Stays
    BY <1>0, <2>2 DEF T!SettleQuietly, T!Ends, T!Settled, TaskTypes
  <2>3. QED
    BY <1>4, <2>1, <2>2 DEF Settling
<1>5. ASSUME NEW u \in Tasks, Saying(u) PROVE Stays
  BY <1>0, <1>5 DEF Saying, T!Read, T!Gathered, T!Blame, T!Say, T!ReadState, T!GatheredState,
     T!Unsuccessful, TaskTypes
<1>6. CASE Turn \/ Caller
  <2>1. T!Pending(Tasks) \in SUBSET Tasks
    BY DEF T!Pending
  <2>2. QED
    BY <1>0, <1>1, <1>2, <1>3, <1>5, <1>6, <2>1, CallerMovesTasks
<1>7. ASSUME NEW u \in Tasks, FiberEnds(u) \/ IoSettles(u) \/ OtherCancels(u) PROVE Stays
  BY <1>3, <1>4, <1>7 DEF FiberEnds, IoSettles, OtherCancels, Settling
<1>8. CASE OtherReads \/ OtherBlames
  BY <1>5, <1>8, WatchedAssumption DEF OtherReads, OtherBlames, Saying
<1>9. CASE TimerFires \/ OtherWaits \/ CancelCaller \/ UNCHANGED vars
  BY <1>1, <1>9 DEF TimerFires, OtherWaits, CancelCaller, vars
<1>10. QED
  BY <1>6, <1>7, <1>8, <1>9 DEF Next

(* What the end of a task does to its future, its state and its callbacks. *)
LEMMA Settled1 ==
  ASSUME GatherInv, NEW t \in Tasks, FiberEnds(t) \/ IoSettles(t)
  PROVE  /\ fut[t] = "pending" /\ fut'[t] \in {"value", "error"}
         /\ \A u \in Tasks : u # t => fut'[u] = fut[u]
         /\ Born(t) /\ t \in Items
         /\ Fires(t) /\ watchers' = [watchers EXCEPT ![t] = <<>>]
         /\ UNCHANGED <<phase, results, pSettled, call, hits>>
         /\ order' = IF call.op \in {"first", "any"} THEN Append(order, t) ELSE order
         /\ early' = early
<1>0. TypeOK /\ Births /\ TaskTypes
  BY TypeParts DEF GatherInv
<1>1. Settling(t)
  BY DEF FiberEnds, IoSettles, Settling
<1>2. /\ fut[t] = "pending" /\ fut'[t] \in {"value", "error"}
      /\ \A u \in Tasks : u # t => fut'[u] = fut[u]
  BY <1>0, <1>1 DEF Settling, T!Return, T!Raise, T!Stop, T!SettleQuietly, T!Ends, TaskTypes
<1>3. Born(t) /\ t \in Items
  <2>1. call.op \in Waits \cup Iterators
    BY <1>0, CallFacts DEF TypeOK
  <2>2. QED
    BY <1>0, <1>2, <2>1 DEF Births
<1>4. /\ Fires(t) /\ watchers' = [watchers EXCEPT ![t] = <<>>]
      /\ UNCHANGED <<phase, results, pSettled, call, hits>>
      /\ order' = IF call.op \in {"first", "any"} THEN Append(order, t) ELSE order
      /\ early' = early
  BY DEF FiberEnds, IoSettles, Fire, Settles, caller, program
<1>5. QED
  BY <1>2, <1>3, <1>4

-----------------------------------------------------------------------------
(* The line.                                                               *)

(* A list without repetitions names as many tasks as it is long.           *)
LEMMA Distinct ==
  ASSUME NEW q \in Seq(Tasks), NEW m \in Nat, m <= Len(q),
         \A k, l \in DOMAIN q : q[k] = q[l] => k = l
  PROVE  /\ Cardinality({q[i] : i \in 1 .. m}) = m
         /\ {q[i] : i \in 1 .. m} \subseteq Tasks
<1> DEFINE S == {q[i] : i \in 1 .. m}
           f == [i \in 1 .. m |-> q[i]]
<1>1. Len(q) \in Nat /\ DOMAIN q = 1 .. Len(q) /\ \A i \in 1 .. Len(q) : q[i] \in Tasks
  BY LenProperties, ElementOfSeq
<1>2. 1 .. m \subseteq 1 .. Len(q)
  BY <1>1
<1>3. /\ f \in [1 .. m -> S]
      /\ \A k, l \in 1 .. m : f[k] = f[l] => k = l
      /\ \A t \in S : \E k \in 1 .. m : f[k] = t
  BY <1>1, <1>2
<1>4. ExistsBijection(1 .. m, S)
  <2> HIDE DEF f, S
  <2>1. f \in Injection(1 .. m, S) /\ f \in Surjection(1 .. m, S)
    BY <1>3, SMT DEF Injection, Surjection, IsInjective
  <2>2. QED
    BY <2>1 DEF Bijection, ExistsBijection
<1>5. Cardinality(S) = m
  <2> HIDE DEF S
  <2>1. QED
    BY <1>4, FS_CountingElements
<1>6. S \subseteq Tasks
  BY <1>1, <1>2
<1>7. QED
  BY <1>5, <1>6

LEMMA DueType ==
  ASSUME GatherInv, call.op \in {"first", "any"}
  PROVE  /\ Due \in Seq(Tasks) /\ DOMAIN Due = DOMAIN order /\ Len(Due) = Len(order)
         /\ Len(order) \in Nat /\ DOMAIN order = 1 .. Len(order)
<1>1. /\ order \in Seq(Tasks) /\ early \in Nat /\ early <= Len(order)
      /\ \A k, l \in DOMAIN order : order[k] = order[l] => k = l
  BY TypeParts DEF GatherInv, Recorded, OtherTypes
<1>2. Len(order) \in Nat /\ DOMAIN order = 1 .. Len(order) /\ \A i \in 1 .. Len(order) : order[i] \in Tasks
  BY <1>1, LenProperties, ElementOfSeq
<1>3. Cardinality(Early) = early /\ Early \subseteq Tasks
  BY <1>1, Distinct DEF Early
<1> DEFINE q == InBlockOrder(Early)
<1>4. q \in [1 .. early -> Early]
  BY <1>3, BlockOrder
<1> HIDE DEF q
<1>5. Due = [i \in 1 .. Len(order) |-> IF i <= early THEN q[i] ELSE order[i]]
  BY <1>2 DEF Due, q
<1>6. ASSUME NEW i \in 1 .. Len(order) PROVE (IF i <= early THEN q[i] ELSE order[i]) \in Tasks
  <2>1. CASE i <= early
    <3>1. i \in 1 .. early
      BY <1>1, <1>2, <2>1
    <3>2. QED
      BY <1>3, <1>4, <2>1, <3>1
  <2>2. CASE ~(i <= early)
    BY <1>2, <2>2
  <2>3. QED
    BY <2>1, <2>2
<1>7. Due \in [1 .. Len(order) -> Tasks]
  BY <1>5, <1>6
<1>8. Due \in Seq(Tasks)
  BY <1>2, <1>7, SeqDef
<1>9. DOMAIN Due = 1 .. Len(order)
  BY <1>7
<1>10. Len(Due) = Len(order)
  BY <1>2, <1>8, <1>9, LenProperties
<1>11. QED
  BY <1>2, <1>8, <1>9, <1>10

LEMMA LineType == GatherInv => Line \in Seq(Tasks)
<1>1. <<>> \in Seq(Tasks)
  OBVIOUS
<1>2. QED
  BY <1>1, DueType DEF Line

(* It stays as long as the history does and the race does not begin.       *)
LEMMA LineStays ==
  ASSUME GatherInv, [Next]_vars, UNCHANGED history, ~BeginRace
  PROVE  Line' = Line
<1>0. TypeOK /\ CallerPlaces /\ BeforeCall /\ call' = call
  BY SameProgram DEF GatherInv, program
<1>1. Due' = Due
  BY DEF Due, Early, history
<1>2. CASE call.op \notin {"first", "any"}
  BY <1>0, <1>2 DEF Line
<1>3. CASE call.op \in {"first", "any"} /\ phase = "before"
  <2>1. phase' = "before"
    <3>1. CASE Caller
      BY <1>0, <1>3, <3>1 DEF Caller, ReturnsAtOnce, BeginLoop, BeginShortCircuit, Back,
         FillWindow, ArmLimit, LimitEscapes, TimesOut, TakeItem, AwaitItem, LoopReturns,
         AwaitWinner, WinnerEscapes, RaceReturns, AtItem, InLoop, CallerMoves, Executing
    <3>2. CASE Turn \/ TimerFires
      BY <1>3, <3>2 DEF Turn, PollStart, RunCallback, MainGivesUp, TimerFires, caller
    <3>3. QED
      BY <1>3, <3>1, <3>2 DEF Next, FiberEnds, IoSettles, OtherCancels, OtherWaits, OtherReads,
         OtherBlames, CancelCaller, caller, vars
  <2>2. QED
    BY <1>0, <1>3, <2>1 DEF Line
<1>4. CASE call.op \in {"first", "any"} /\ phase # "before"
  <2>1. phase' # "before"
    BY <1>0, <1>4, StepsBefore
  <2>2. QED
    BY <1>0, <1>1, <1>4, <2>1 DEF Line
<1>5. QED
  BY <1>2, <1>3, <1>4

(* When it forms it has the tasks that settled before, in the block's      *)
(* order.                                                                  *)
LEMMA LineForms ==
  ASSUME GatherInv, BeginRace
  PROVE  Line' = InBlockOrder(Answered)
<1>0. /\ TypeOK /\ Births /\ Recorded /\ order \in Seq(Tasks)
      /\ call.op \in {"first", "any"} /\ call' = call /\ phase' = "in"
      /\ order' = order /\ early' = Len(order) /\ UNCHANGED tasks /\ Items \subseteq Tasks
  BY TypeParts, CallFacts DEF GatherInv, OtherTypes, BeginRace, Begins, program, TypeOK
<1>1. /\ Len(order) \in Nat /\ DOMAIN order = 1 .. Len(order)
      /\ \A i \in 1 .. Len(order) : order[i] \in Tasks
  BY <1>0, LenProperties, ElementOfSeq
<1>2. Early' = {order[i] : i \in 1 .. Len(order)}
  BY <1>0 DEF Early
<1>3. Answered = {order[i] : i \in 1 .. Len(order)}
  <2>1. \A t \in Tasks : T!Settled(t) => t \in Items
    BY <1>0 DEF Births, T!Settled, Waits
  <2>2. \A t \in Tasks : T!Settled(t) <=> \E k \in DOMAIN order : order[k] = t
    BY <1>0 DEF Recorded
  <2>3. \A t \in Answered : \E k \in 1 .. Len(order) : order[k] = t
    BY <1>0, <1>1, <2>2 DEF Answered
  <2>4. \A k \in 1 .. Len(order) : order[k] \in Answered
    BY <1>0, <1>1, <2>1, <2>2 DEF Answered
  <2>5. QED
    BY <2>3, <2>4
<1>4. Cardinality(Answered) = Len(order) /\ Answered \subseteq Tasks
  BY <1>0, <1>1, <1>3, Distinct DEF Recorded
<1> DEFINE q == InBlockOrder(Answered)
<1>5. q \in [1 .. Len(order) -> Answered]
  BY <1>4, BlockOrder
<1> HIDE DEF q
<1>6. Due' = [i \in 1 .. Len(order) |-> IF i <= Len(order) THEN q[i] ELSE order[i]]
  BY <1>0, <1>1, <1>2, <1>3 DEF Due, q
<1>7. Due' = [i \in 1 .. Len(order) |-> q[i]]
  <2>1. \A i \in 1 .. Len(order) : i <= Len(order)
    BY <1>1
  <2>2. QED
    BY <1>6, <2>1
<1>8. Due' = q
  BY <1>5, <1>7
<1>9. QED
  BY <1>0, <1>8 DEF Line, q

(* A task that settles later comes to its end.                             *)
LEMMA LineGrows ==
  ASSUME GatherInv, NEW t \in Tasks, FiberEnds(t) \/ IoSettles(t)
  PROVE  Line' = IF call.op \in {"first", "any"} /\ phase # "before"
                 THEN Append(Line, t) ELSE Line
<1>0. /\ call' = call /\ phase' = phase /\ early' = early
      /\ order' = IF call.op \in {"first", "any"} THEN Append(order, t) ELSE order
  BY Settled1
<1>1. CASE ~(call.op \in {"first", "any"} /\ phase # "before")
  BY <1>0, <1>1 DEF Line
<1>2. CASE call.op \in {"first", "any"} /\ phase # "before"
  <2> DEFINE n == Len(order)
  <2>1. /\ order \in Seq(Tasks) /\ early \in Nat /\ early <= n
        /\ order' = Append(order, t)
    BY <1>0, <1>2, TypeParts DEF GatherInv, Recorded, OtherTypes
  <2>2. /\ Due \in Seq(Tasks) /\ DOMAIN Due = 1 .. n /\ Len(Due) = n
        /\ n \in Nat /\ DOMAIN order = 1 .. n
    BY <1>2, DueType
  <2>3. /\ order' \in Seq(Tasks) /\ Len(order') = n + 1 /\ DOMAIN order' = 1 .. n + 1
        /\ \A i \in 1 .. n : order'[i] = order[i]
        /\ order'[n + 1] = t
    BY <2>1, AppendProperties, LenProperties
  <2> HIDE DEF n
  <2>4. Early' = Early
    <3>1. \A i \in 1 .. early : i \in 1 .. n
      BY <2>1, <2>2
    <3>2. \A i \in 1 .. early : order'[i] = order[i]
      BY <2>3, <3>1
    <3>3. {order'[i] : i \in 1 .. early} = {order[i] : i \in 1 .. early}
      BY <3>2
    <3>4. QED
      BY <1>0, <3>3 DEF Early
  <2> DEFINE q == InBlockOrder(Early)
  <2>5. Due = [i \in 1 .. n |-> IF i <= early THEN q[i] ELSE order[i]]
    BY <2>2 DEF Due
  <2>6. Due' = [i \in 1 .. n + 1 |-> IF i <= early THEN q[i] ELSE order'[i]]
    BY <1>0, <2>3, <2>4 DEF Due
  <2> HIDE DEF q
  <2>7. \A i \in 1 .. n : i \in 1 .. n + 1 /\ Due'[i] = Due[i]
    BY <2>2, <2>3, <2>5, <2>6
  <2>8. Due'[n + 1] = t
    <3>1. n + 1 \in 1 .. n + 1 /\ ~(n + 1 <= early)
      BY <2>1, <2>2
    <3>2. QED
      BY <2>3, <2>6, <3>1
  <2>9. /\ Append(Due, t) \in Seq(Tasks) /\ Len(Append(Due, t)) = n + 1
        /\ \A i \in 1 .. n : Append(Due, t)[i] = Due[i]
        /\ Append(Due, t)[n + 1] = t
    BY <2>2, AppendProperties
  <2>10. \A i \in 1 .. n + 1 : i \in 1 .. n \/ i = n + 1
    BY <2>2
  <2>11. \A i \in 1 .. n + 1 : Due'[i] \in Tasks /\ Due'[i] = Append(Due, t)[i]
    <3>1. \A i \in 1 .. n : Due[i] \in Tasks
      BY <2>2, ElementOfSeq
    <3>2. QED
      BY <2>7, <2>8, <2>9, <2>10, <3>1
  <2>12. Due' \in Seq(Tasks) /\ Len(Due') = n + 1
    <3>1. n + 1 \in Nat /\ DOMAIN Due' = 1 .. n + 1
      BY <2>2, <2>6
    <3>2. Due' \in [1 .. n + 1 -> Tasks]
      BY <2>6, <2>11
    <3>3. Due' \in Seq(Tasks)
      BY <3>1, <3>2, SeqDef
    <3>4. QED
      BY <3>1, <3>3, LenProperties
  <2>13. Due' = Append(Due, t)
    BY <2>9, <2>11, <2>12, SeqEqual
  <2>14. QED
    BY <1>0, <1>2, <2>13 DEF Line
<1>3. QED
  BY <1>1, <1>2

(* A race does not spawn: only the end of a task changes a future.         *)
LEMMA FuturesStay ==
  ASSUME GatherInv, call.op \in {"first", "any"}, [Next]_vars,
         \A t \in Tasks : ~(FiberEnds(t) \/ IoSettles(t))
  PROVE  fut' = fut
<1>0. TypeOK /\ QueueNamed /\ CallerPlaces /\ BeforeCall /\ call.op \notin Iterators
  BY DEF GatherInv, Iterators
<1>1. CASE Turn \/ Caller
  <2>1. \/ UNCHANGED tasks \/ T!Cancel(T!Pending(Tasks))
        \/ \E t \in Tasks : Saying(t)
    BY <1>0, <1>1, CallerMovesTasks
  <2>2. QED
    BY <2>1 DEF tasks, T!Cancel, Saying, T!Read, T!Gathered, T!Blame, T!Say
<1>2. QED
  BY <1>1 DEF Next, TimerFires, OtherCancels, OtherWaits, OtherReads, OtherBlames, CancelCaller,
     T!Cancel, T!Read, T!Blame, T!Say, tasks, vars

LEMMA RecordedStep ==
  ASSUME GatherInv, [Next]_vars
  PROVE  Recorded'
<1> SUFFICES ASSUME call.op \in {"first", "any"} PROVE Recorded'
  BY SameProgram DEF program, Recorded
<1>0. /\ Recorded /\ order \in Seq(Tasks) /\ early \in Nat /\ call' = call
      /\ Len(order) \in Nat /\ DOMAIN order = 1 .. Len(order)
  BY TypeParts, SameProgram, LenProperties DEF GatherInv, OtherTypes, program
<1>1. ASSUME NEW t \in Tasks, FiberEnds(t) \/ IoSettles(t) PROVE Recorded'
  <2>1. /\ fut[t] = "pending" /\ fut'[t] \in {"value", "error"}
        /\ \A u \in Tasks : u # t => fut'[u] = fut[u]
        /\ order' = Append(order, t) /\ early' = early
    BY <1>1, Settled1
  <2> DEFINE n == Len(order)
  <2>2. /\ Len(order') = n + 1 /\ DOMAIN order' = 1 .. n + 1
        /\ \A i \in 1 .. n : order'[i] = order[i]
        /\ order'[n + 1] = t
    BY <1>0, <2>1, AppendProperties, LenProperties
  <2>3. /\ early <= n /\ n \in Nat /\ DOMAIN order = 1 .. n
        /\ \A k, l \in DOMAIN order : order[k] = order[l] => k = l
        /\ \A u \in Tasks : T!Settled(u) <=> \E k \in DOMAIN order : order[k] = u
    BY <1>0 DEF Recorded
  <2> HIDE DEF n
  <2>4. \A i \in 1 .. n + 1 : i \in 1 .. n \/ i = n + 1
    BY <2>3
  <2>5. \A i \in 1 .. n : order[i] # t
    BY <2>1, <2>3 DEF T!Settled
  <2>6. \A k, l \in DOMAIN order' : order'[k] = order'[l] => k = l
    BY <2>2, <2>3, <2>4, <2>5
  <2>7. ASSUME NEW u \in Tasks PROVE T!Settled(u)' <=> \E k \in DOMAIN order' : order'[k] = u
    <3>1. n + 1 \in 1 .. n + 1 /\ \A i \in 1 .. n : i \in 1 .. n + 1
      BY <2>3
    <3>2. CASE u = t
      BY <2>1, <2>2, <3>1, <3>2 DEF T!Settled
    <3>3. CASE u # t
      <4>1. T!Settled(u)' <=> T!Settled(u)
        BY <2>1, <3>3 DEF T!Settled
      <4>2. QED
        BY <2>2, <2>3, <2>4, <3>1, <3>3, <4>1
    <3>4. QED
      BY <3>2, <3>3
  <2>8. early' <= Len(order')
    BY <2>1, <2>2, <2>3, <1>0
  <2>9. QED
    BY <1>0, <2>6, <2>7, <2>8 DEF Recorded
<1>2. CASE \A t \in Tasks : ~(FiberEnds(t) \/ IoSettles(t))
  <2>1. order' = order /\ early' \in {early, Len(order)}
    BY <1>2, HistoryMoves DEF BeginRace, history
  <2>2. fut' = fut
    BY <1>2, FuturesStay
  <2>3. QED
    BY <1>0, <2>1, <2>2 DEF Recorded, T!Settled
<1>3. QED
  BY <1>1, <1>2

-----------------------------------------------------------------------------
(* Races: what the steps of a call do to the callbacks.                    *)

(* One more callback on a future.                                          *)
LEMMA OneMore ==
  ASSUME NEW w \in Seq(Whats), NEW what \in Whats
  PROVE  /\ HasRace(Append(w, what)) <=> HasRace(w) \/ what = "race"
         /\ OneRace(w) /\ (what = "race" => ~HasRace(w)) => OneRace(Append(w, what))
<1>1. Len(w) \in Nat /\ DOMAIN w = 1 .. Len(w)
  BY LenProperties
<1>2. /\ Append(w, what) \in Seq(Whats)
      /\ Len(Append(w, what)) = Len(w) + 1
      /\ \A j \in 1 .. Len(w) : Append(w, what)[j] = w[j]
      /\ Append(w, what)[Len(w) + 1] = what
  BY AppendProperties
<1>3. DOMAIN Append(w, what) = 1 .. Len(w) + 1
  BY <1>2, LenProperties
<1>4. QED
  BY <1>1, <1>2, <1>3 DEF HasRace, OneRace

(* The entries of races left in the queue are where they were, or one      *)
(* place ahead.                                                            *)
Shifts(d) == \A i \in DOMAIN queue' : queue'[i][1] = "race" =>
               i + d \in DOMAIN queue /\ queue'[i] = queue[i + d]

(* The steps that leave a race where it is.                                *)
Elsewhere ==
  /\ UNCHANGED <<call, hits, fut, results, Line, pSettled>>
  /\ phase = "before" => phase' = "before" \/ (call.op = "every" /\ call.len = 0)
  /\ \A t \in Tasks : HasRace(watchers'[t]) <=> HasRace(watchers[t])
  /\ \A t \in Tasks : OneRace(watchers[t]) => OneRace(watchers'[t])
  /\ \E d \in {0, 1} : Shifts(d)
  /\ ~Complete => \A t \in Tasks : RaceQueued(t) => RaceQueued(t)'

(* The queue of such a step.                                               *)
LEMMA QueueElsewhere ==
  ASSUME TypeOK,
         \/ UNCHANGED queue
         \/ \E x \in Entries : queue' = Append(queue, x) /\ x[1] # "race"
         \/ polling /\ queue' = Tail(queue) /\ (Head(queue)[1] # "race" \/ Complete)
  PROVE  /\ \E d \in {0, 1} : Shifts(d)
         /\ ~Complete => \A t \in Tasks : RaceQueued(t) => RaceQueued(t)'
<1>0. DispatcherTypes
  BY TypeParts
<1>1. CASE UNCHANGED queue
  <2>1. \A i \in DOMAIN queue : i + 0 = i
    BY <1>0, LenProperties DEF DispatcherTypes
  <2>2. Shifts(0)
    BY <1>1, <2>1 DEF Shifts
  <2>3. QED
    BY <1>1, <2>2 DEF RaceQueued
<1>2. ASSUME NEW x \in Entries, queue' = Append(queue, x), x[1] # "race"
      PROVE  Shifts(0) /\ \A t \in Tasks : RaceQueued(t) => RaceQueued(t)'
  <2>1. /\ Len(queue) \in Nat /\ DOMAIN queue = 1 .. Len(queue)
        /\ DOMAIN queue' = 1 .. Len(queue) + 1
        /\ \A i \in 1 .. Len(queue) : queue'[i] = queue[i]
        /\ queue'[Len(queue) + 1] = x
    BY <1>0, <1>2, Enqueued
  <2> DEFINE n == Len(queue)
  <2> HIDE DEF n
  <2>a. /\ n \in Nat /\ DOMAIN queue = 1 .. n /\ DOMAIN queue' = 1 .. n + 1
        /\ \A i \in 1 .. n : queue'[i] = queue[i]
        /\ queue'[n + 1] = x
    BY <2>1 DEF n
  <2>2. \A i \in DOMAIN queue : i \in DOMAIN queue' /\ queue'[i] = queue[i]
    BY <2>a
  <2>3. \A i \in DOMAIN queue' : queue'[i][1] = "race" => i \in DOMAIN queue /\ i + 0 = i
    <3>1. \A i \in 1 .. n + 1 : (i = n + 1 \/ i \in 1 .. n) /\ i + 0 = i
      BY <2>a
    <3>2. QED
      BY <1>2, <2>a, <3>1
  <2>4. Shifts(0)
    BY <2>2, <2>3 DEF Shifts
  <2>5. QED
    BY <2>2, <2>4 DEF RaceQueued
<1>3. CASE polling /\ queue' = Tail(queue) /\ (Head(queue)[1] # "race" \/ Complete)
  <2>1. /\ Len(queue) \in Nat \ {0}
        /\ DOMAIN queue = 1 .. Len(queue) /\ Head(queue) = queue[1]
        /\ DOMAIN queue' = 1 .. Len(queue) - 1
        /\ \A i \in 1 .. Len(queue) - 1 : queue'[i] = queue[i + 1]
    BY <1>0, <1>3, Dequeued
  <2> DEFINE n == Len(queue)
  <2> HIDE DEF n
  <2>2. /\ n \in Nat \ {0} /\ DOMAIN queue = 1 .. n /\ DOMAIN queue' = 1 .. n - 1
        /\ \A i \in 1 .. n - 1 : queue'[i] = queue[i + 1]
    BY <2>1 DEF n
  <2>3. Shifts(1)
    <3>1. \A i \in 1 .. n - 1 : i + 1 \in 1 .. n
      BY <2>2
    <3>2. QED
      BY <2>2, <3>1 DEF Shifts
  <2>4. ASSUME ~Complete, NEW t \in Tasks, RaceQueued(t) PROVE RaceQueued(t)'
    <3>1. PICK i \in DOMAIN queue : queue[i] = <<"race", t>>
      BY <2>4 DEF RaceQueued
    <3>2. i # 1
      <4>1. Head(queue)[1] # "race" /\ Head(queue) = queue[1]
        BY <1>3, <2>1, <2>4
      <4>2. <<"race", t>>[1] = "race"
        OBVIOUS
      <4>3. QED
        BY <3>1, <4>1, <4>2
    <3> DEFINE j == i - 1
    <3>3. j \in 1 .. n - 1 /\ j + 1 = i
      BY <2>2, <3>2
    <3> HIDE DEF j
    <3>4. j \in DOMAIN queue' /\ queue'[j] = <<"race", t>>
      BY <2>2, <3>1, <3>3
    <3>5. QED
      BY <3>4 DEF RaceQueued
  <2>5. QED
    BY <2>3, <2>4
<1>4. QED
  BY <1>1, <1>2, <1>3

(* The steps that do not.                                                  *)
Called == RunCallback /\ Head(queue)[1] = "race" /\ ~Complete
Expires == RunCallback /\ Head(queue)[1] = "timeout" /\ call.op = "first" /\ ~Complete

LEMMA RaceMoves ==
  ASSUME GatherInv, call.op \in Races, [Next]_vars
  PROVE  \/ Elsewhere \/ Called \/ Expires \/ BeginRace \/ BeginShortCircuit
         \/ \E t \in Tasks : FiberEnds(t) \/ IoSettles(t)
<1>0. TypeOK /\ QueueNamed /\ CallerPlaces /\ BeforeCall /\ Births /\ DispatcherTypes
  BY TypeParts DEF GatherInv
<1>1. UNCHANGED <<call, hits>>
  BY SameProgram DEF program
<1>2. ASSUME UNCHANGED <<fut, results, history, pSettled>>,
             phase = "before" => phase' = "before" \/ (call.op = "every" /\ call.len = 0),
             \/ UNCHANGED watchers
             \/ \E t \in Tasks : AddCallback(t, "other"),
             \/ UNCHANGED queue
             \/ \E x \in Entries : queue' = Append(queue, x) /\ x[1] # "race"
             \/ polling /\ queue' = Tail(queue) /\ (Head(queue)[1] # "race" \/ Complete)
      PROVE  Elsewhere
  <2>1. ASSUME NEW t \in Tasks
        PROVE  /\ HasRace(watchers'[t]) <=> HasRace(watchers[t])
               /\ OneRace(watchers[t]) => OneRace(watchers'[t])
    <3>1. CASE watchers'[t] = watchers[t]
      BY <3>1
    <3>2. CASE watchers'[t] = Append(watchers[t], "other")
      <4>1. watchers[t] \in Seq(Whats) /\ "other" \in Whats
        BY <1>0 DEF DispatcherTypes, Whats
      <4>2. QED
        BY <3>2, <4>1, OneMore
    <3>3. watchers \in [Tasks -> Seq(Whats)]
      BY <1>0 DEF DispatcherTypes
    <3>4. QED
      BY <1>2, <3>1, <3>2, <3>3 DEF AddCallback
  <2>2. /\ \E d \in {0, 1} : Shifts(d)
        /\ ~Complete => \A t \in Tasks : RaceQueued(t) => RaceQueued(t)'
    BY <1>0, <1>2, QueueElsewhere
  <2>3. Line' = Line
    <3>1. ~BeginRace
      BY <1>2 DEF BeginRace, Begins
    <3>2. QED
      BY <1>2, <3>1, LineStays
  <2>4. QED
    BY <1>1, <1>2, <2>1, <2>2, <2>3 DEF Elsewhere
<1>3. CASE PollStart \/ CancelCaller \/ UNCHANGED vars
  BY <1>2, <1>3 DEF PollStart, CancelCaller, tasks, caller, dispatcher, vars
<1>4. CASE RunCallback
  <2>1. polling /\ queue' = Tail(queue) /\ UNCHANGED <<phase, history>>
    BY <1>4 DEF RunCallback
  <2>2. Called \/ Expires \/ (UNCHANGED <<tasks, watchers, results, pSettled>>
                              /\ (Head(queue)[1] # "race" \/ Complete))
    BY <1>4 DEF RunCallback, RaceCallback, MayStillAnswer, Called, Expires
  <2>3. QED
    BY <1>2, <2>1, <2>2 DEF tasks
<1>5. CASE MainGivesUp
  <2>1. parked # "task"
    BY <1>0 DEF CallerPlaces
  <2>2. QED
    BY <1>2, <1>5, <2>1 DEF MainGivesUp, Raises, tasks
<1>6. CASE TimerFires
  <2>1. PICK x \in Entries : queue' = Append(queue, x) /\ x[1] = "timeout"
    <3>1. <<"timeout", at>> \in Entries
      <4>1. at \in Tasks \cup {Cardinality(Tasks) + 1}
        <5>1. at \in 1 .. Cardinality(Tasks) + 1 /\ Cardinality(Tasks) \in Nat
              /\ Tasks = 1 .. Cardinality(Tasks)
          BY <1>0, TasksAreNumbers, TasksAssumption DEF TypeOK
        <5>2. QED
          BY <5>1
      <4>2. QED
        BY <4>1 DEF Entries
    <3>2. QED
      BY <1>6, <3>1 DEF TimerFires
  <2>2. QED
    BY <1>2, <1>6, <2>1 DEF TimerFires, tasks
<1>7. CASE OtherWaits
  BY <1>2, <1>7, WatchedAssumption DEF OtherWaits, tasks, caller
<1>8. CASE OtherReads \/ OtherBlames
  BY <1>2, <1>8 DEF OtherReads, OtherBlames, T!Read, T!Blame, T!Say, caller, dispatcher
<1>9. ASSUME NEW t \in Tasks, OtherCancels(t) PROVE Elsewhere
  BY <1>2, <1>9 DEF OtherCancels, T!Cancel, caller, dispatcher
<1>10. CASE Caller
  <2>1. CASE ReturnsAtOnce
    BY <1>2, <2>1 DEF ReturnsAtOnce, Races, tasks, dispatcher
  <2>2. CASE BeginLoop
    BY <2>2 DEF BeginLoop, Races
  <2>3. CASE Back \/ AwaitWinner \/ WinnerEscapes
    BY <1>2, <2>3 DEF Back, AwaitWinner, WinnerEscapes, CallerMoves, Executing, tasks, dispatcher
  <2>4. CASE RaceReturns
    BY <1>2, <2>4 DEF RaceReturns, CallerMoves, Executing, T!Cancel, tasks, dispatcher
  <2>5. CASE FillWindow \/ ArmLimit \/ LimitEscapes \/ TimesOut \/ TakeItem \/ AwaitItem \/ LoopReturns
    BY <2>5 DEF FillWindow, ArmLimit, LimitEscapes, TimesOut, TakeItem, AwaitItem, AtItem, InLoop,
       LoopReturns
  <2>6. QED
    BY <1>10, <2>1, <2>2, <2>3, <2>4, <2>5 DEF Caller
<1>11. QED
  BY <1>3, <1>4, <1>5, <1>6, <1>7, <1>8, <1>9, <1>10 DEF Next, Turn

-----------------------------------------------------------------------------
(* The steps of a race, one by one.                                        *)

(* A callback is run.                                                      *)
LEMMA CalledMoves ==
  ASSUME GatherInv, QueueOnce, QueueSettled, Called, NEW t, t = Head(queue)[2]
  PROVE  /\ t \in Tasks /\ t \in Items /\ T!Settled(t)
         /\ 1 \in DOMAIN queue /\ queue[1] = <<"race", t>> /\ RaceQueued(t)
         /\ UNCHANGED <<call, hits, phase, Line>>
         /\ IF call.op = "every" THEN ShortCircuit(t) ELSE Collect(t)
         /\ Shifts(1) /\ ~RaceQueued(t)'
         /\ \A u \in Tasks : u # t => (RaceQueued(u)' <=> RaceQueued(u))
<1>0. TypeOK /\ QueueNamed /\ DispatcherTypes
  BY TypeParts DEF GatherInv
<1>1. polling /\ queue' = Tail(queue) /\ UNCHANGED <<call, hits, phase, Line>>
  <2>1. polling /\ queue' = Tail(queue) /\ UNCHANGED <<call, hits, phase, history>>
    BY DEF Called, RunCallback, program
  <2>2. [Next]_vars /\ ~BeginRace
    BY <2>1 DEF Called, Turn, Next, BeginRace, Begins
  <2>3. QED
    BY <2>1, <2>2, LineStays
<1>2. t \in Tasks /\ 1 \in DOMAIN queue /\ queue[1] = <<"race", t>> /\ RaceQueued(t)
  BY <1>0, <1>1, FirstIsRace DEF Called
<1>3. t \in Items /\ T!Settled(t)
  BY <1>2 DEF QueueSettled
<1>4. IF call.op = "every" THEN ShortCircuit(t) ELSE Collect(t)
  BY DEF Called, RunCallback, RaceCallback, MayStillAnswer
<1> DEFINE n == Len(queue)
<1>5. /\ n \in Nat \ {0} /\ DOMAIN queue = 1 .. n /\ DOMAIN queue' = 1 .. n - 1
      /\ \A i \in 1 .. n - 1 : queue'[i] = queue[i + 1]
  BY <1>0, <1>1, Dequeued
<1> HIDE DEF n
<1>6. \A i \in 1 .. n - 1 : i + 1 \in 1 .. n /\ i + 1 # 1
  BY <1>5
<1>7. Shifts(1)
  BY <1>5, <1>6 DEF Shifts
<1>8. ~RaceQueued(t)'
  <2> SUFFICES ASSUME NEW i \in DOMAIN queue', queue'[i] = <<"race", t>> PROVE FALSE
    BY DEF RaceQueued
  <2>1. queue[i + 1] = <<"race", t>> /\ i + 1 \in DOMAIN queue /\ i + 1 # 1
    BY <1>5, <1>6
  <2>2. QED
    BY <1>2, <2>1 DEF QueueOnce
<1>9. ASSUME NEW u \in Tasks, u # t PROVE RaceQueued(u)' <=> RaceQueued(u)
  <2>1. ASSUME RaceQueued(u)' PROVE RaceQueued(u)
    BY <1>5, <1>6, <2>1 DEF RaceQueued
  <2>2. ASSUME RaceQueued(u) PROVE RaceQueued(u)'
    <3>1. PICK i \in DOMAIN queue : queue[i] = <<"race", u>>
      BY <2>2 DEF RaceQueued
    <3>2. i # 1
      BY <1>2, <1>9, <3>1
    <3> DEFINE j == i - 1
    <3>3. j \in 1 .. n - 1 /\ j + 1 = i
      BY <1>5, <3>2
    <3> HIDE DEF j
    <3>4. j \in DOMAIN queue' /\ queue'[j] = <<"race", u>>
      BY <1>5, <3>1, <3>3
    <3>5. QED
      BY <3>4 DEF RaceQueued
  <2>3. QED
    BY <2>1, <2>2
<1>10. QED
  BY <1>1, <1>2, <1>3, <1>4, <1>7, <1>8, <1>9

(* A task settles: its callback comes to the end of the queue.             *)
LEMMA SettlesQueue ==
  ASSUME GatherInv, RaceWatched, QueueSettled, call.op \in Races,
         NEW t \in Tasks, FiberEnds(t) \/ IoSettles(t)
  PROVE  /\ Len(queue) \in Nat /\ DOMAIN queue = 1 .. Len(queue)
         /\ \A i \in DOMAIN queue : i \in DOMAIN queue' /\ queue'[i] = queue[i]
         /\ \A i \in DOMAIN queue' : i \notin DOMAIN queue => i > Len(queue) /\ queue'[i][2] = t
         /\ \A i, j \in DOMAIN queue' :
              queue'[i] = <<"race", t>> /\ queue'[j] = <<"race", t>> => i = j
         /\ ~RaceQueued(t)
         /\ phase # "before" => RaceQueued(t)'
         /\ \A u \in Tasks : u # t => (RaceQueued(u)' <=> RaceQueued(u))
<1>0. TypeOK /\ DispatcherTypes
  BY TypeParts DEF GatherInv
<1>1. fut[t] = "pending" /\ t \in Items /\ Fires(t)
  BY Settled1
<1> DEFINE n == Len(queue)
           w == watchers[t]
           m == Len(w)
<1>2. /\ n \in Nat /\ m \in Nat
      /\ DOMAIN queue = 1 .. n /\ DOMAIN w = 1 .. m /\ DOMAIN queue' = 1 .. n + m
      /\ \A i \in 1 .. n : queue'[i] = queue[i]
      /\ \A i \in 1 .. m : queue'[n + i] = <<w[i], t>>
      /\ \A j \in DOMAIN queue' : j \notin 1 .. n => \E i \in 1 .. m : j = n + i
  BY <1>0, <1>1, Fired
<1>3. OneRace(w) /\ (phase # "before" => HasRace(w))
  BY <1>1 DEF RaceWatched
<1> HIDE DEF n, w, m
<1>4. \A i \in DOMAIN queue : i \in DOMAIN queue' /\ queue'[i] = queue[i]
  BY <1>2
<1>5. ~RaceQueued(t)
  <2> SUFFICES ASSUME NEW i \in DOMAIN queue, queue[i] = <<"race", t>> PROVE FALSE
    BY DEF RaceQueued
  <2>1. T!Settled(t)
    BY DEF QueueSettled
  <2>2. QED
    BY <1>1, <2>1 DEF T!Settled
<1>6. \A i \in DOMAIN queue' : i \notin DOMAIN queue => i > n /\ queue'[i][2] = t
  <2> SUFFICES ASSUME NEW j \in DOMAIN queue', j \notin DOMAIN queue
               PROVE  j > n /\ queue'[j][2] = t
    OBVIOUS
  <2>1. PICK i \in 1 .. m : j = n + i
    BY <1>2
  <2>2. j > n
    BY <1>2, <2>1
  <2>3. queue'[j] = <<w[i], t>>
    BY <1>2, <2>1
  <2>4. QED
    BY <2>2, <2>3
<1>7. ASSUME NEW j \in DOMAIN queue', queue'[j] = <<"race", t>>
      PROVE  \E i \in 1 .. m : j = n + i /\ w[i] = "race"
  <2>1. j \notin 1 .. n
    BY <1>2, <1>5, <1>7 DEF RaceQueued
  <2>2. PICK i \in 1 .. m : j = n + i
    BY <1>2, <2>1
  <2>3. QED
    BY <1>2, <1>7, <2>2
<1>8. \A i, j \in DOMAIN queue' :
        queue'[i] = <<"race", t>> /\ queue'[j] = <<"race", t>> => i = j
  <2> SUFFICES ASSUME NEW i \in DOMAIN queue', NEW j \in DOMAIN queue',
                      queue'[i] = <<"race", t>>, queue'[j] = <<"race", t>>
               PROVE  i = j
    OBVIOUS
  <2>1. PICK k \in 1 .. m : i = n + k /\ w[k] = "race"
    BY <1>7
  <2>2. PICK l \in 1 .. m : j = n + l /\ w[l] = "race"
    BY <1>7
  <2>3. k = l
    BY <1>2, <1>3, <2>1, <2>2 DEF OneRace
  <2>4. QED
    BY <2>1, <2>2, <2>3
<1>9. ASSUME phase # "before" PROVE RaceQueued(t)'
  <2>1. PICK i \in 1 .. m : w[i] = "race"
    BY <1>2, <1>3, <1>9 DEF HasRace
  <2> DEFINE j == n + i
  <2>2. j \in 1 .. n + m
    BY <1>2
  <2>3. queue'[j] = <<"race", t>>
    BY <1>2, <2>1
  <2> HIDE DEF j
  <2>4. QED
    BY <1>2, <2>2, <2>3 DEF RaceQueued
<1>10. ASSUME NEW u \in Tasks, u # t PROVE RaceQueued(u)' <=> RaceQueued(u)
  <2>1. \A i \in DOMAIN queue' : i \notin DOMAIN queue => queue'[i] # <<"race", u>>
    BY <1>6, <1>10
  <2>2. QED
    BY <1>4, <2>1 DEF RaceQueued
<1>11. QED
  BY <1>2, <1>4, <1>5, <1>6, <1>8, <1>9, <1>10 DEF n

(* A race begins: the items that settled before it are queued, in order.   *)
LEMMA BeganRace ==
  ASSUME GatherInv, BeginRace
  PROVE  /\ UNCHANGED <<call, hits, tasks, results, pSettled>> /\ results = <<>>
         /\ call.op \in {"first", "any"} /\ phase = "before"
         /\ Answered \subseteq Items /\ Answered \subseteq Tasks
         /\ Len(queue) \in Nat
         /\ DOMAIN Line' = 1 .. Cardinality(Answered) /\ Cardinality(Answered) \in Nat
         /\ Len(Line') = Cardinality(Answered)
         /\ \A k \in DOMAIN Line' : Line'[k] \in Answered
         /\ \A k, l \in DOMAIN Line' : Line'[k] = Line'[l] => k = l
         /\ \A t \in Answered : \E k \in DOMAIN Line' : Line'[k] = t
         /\ \A i \in DOMAIN queue' : queue'[i][1] = "race" =>
              \E k \in DOMAIN Line' : i = Len(queue) + k /\ queue'[i] = <<"race", Line'[k]>>
         /\ \A k \in DOMAIN Line' : \E i \in DOMAIN queue' : queue'[i] = <<"race", Line'[k]>>
<1>0. DispatcherTypes /\ ProgramTypes /\ TypeOK /\ BeforeCall
  BY TypeParts DEF GatherInv
<1>1. /\ UNCHANGED <<call, hits, tasks, results, pSettled>> /\ results = <<>>
      /\ call.op \in {"first", "any"} /\ phase = "before"
      /\ \A i \in DOMAIN queue : queue[i][1] = "other"
      /\ queue' = queue \o Callbacks("race", Answered) /\ Line' = InBlockOrder(Answered)
  BY <1>0, LineForms DEF BeginRace, Begins, BeforeCall, program
<1> DEFINE m == Cardinality(Answered)
           q == InBlockOrder(Answered)
           n == Len(queue)
<1>2. /\ n \in Nat /\ m \in Nat
      /\ Answered \subseteq Items /\ Answered \subseteq Tasks
      /\ q \in [1 .. m -> Answered]
      /\ DOMAIN queue = 1 .. n /\ DOMAIN queue' = 1 .. n + m
      /\ \A i \in 1 .. n : queue'[i] = queue[i]
      /\ \A i \in 1 .. m : queue'[n + i] = <<"race", q[i]>>
      /\ \A j \in DOMAIN queue' : j \notin 1 .. n => \E i \in 1 .. m : j = n + i
  BY <1>0, <1>1, Began
<1>3. /\ \A i, j \in 1 .. m : q[i] = q[j] => i = j
      /\ \A t \in Answered : \E i \in 1 .. m : q[i] = t
  BY <1>2, BlockOrderOnce
<1>4. Len(q) = m
  <2> HIDE DEF q, m
  <2>1. q \in Seq(Answered)
    BY <1>2, SeqDef
  <2>2. QED
    BY <1>2, <2>1, LenProperties
<1>5. Line' = q
  BY <1>1
<1> HIDE DEF q, m, n
<1>6. ASSUME NEW i \in DOMAIN queue', queue'[i][1] = "race"
      PROVE  \E k \in DOMAIN q : i = n + k /\ queue'[i] = <<"race", q[k]>>
  <2>1. i \notin 1 .. n
    BY <1>1, <1>2, <1>6
  <2>2. PICK k \in 1 .. m : i = n + k
    BY <1>2, <2>1
  <2>3. QED
    BY <1>2, <2>2
<1>7. ASSUME NEW k \in 1 .. m PROVE \E i \in DOMAIN queue' : queue'[i] = <<"race", q[k]>>
  <2> DEFINE j == n + k
  <2>1. j \in 1 .. n + m
    BY <1>2
  <2>2. queue'[j] = <<"race", q[k]>>
    BY <1>2
  <2> HIDE DEF j
  <2>3. QED
    BY <1>2, <2>1, <2>2
<1>8. \A k \in 1 .. m : \E i \in DOMAIN queue' : queue'[i] = <<"race", Line'[k]>>
  BY <1>5, <1>7
<1>9. DOMAIN q = 1 .. m
  BY <1>2
<1>10. /\ DOMAIN Line' = 1 .. m /\ Len(Line') = m /\ n \in Nat /\ m \in Nat
       /\ \A k \in DOMAIN Line' : Line'[k] \in Answered
       /\ \A k, l \in DOMAIN Line' : Line'[k] = Line'[l] => k = l
       /\ \A t \in Answered : \E k \in DOMAIN Line' : Line'[k] = t
  BY <1>2, <1>3, <1>4, <1>5, <1>9
<1>11. \A i \in DOMAIN queue' : queue'[i][1] = "race" =>
         \E k \in DOMAIN Line' : i = n + k /\ queue'[i] = <<"race", Line'[k]>>
  BY <1>5, <1>6
<1>12. \A k \in DOMAIN Line' : \E i \in DOMAIN queue' : queue'[i] = <<"race", Line'[k]>>
  BY <1>8, <1>10
<1>13. QED
  BY <1>1, <1>2, <1>10, <1>11, <1>12 DEF n, m

(* A short circuit begins.                                                 *)
LEMMA BeganShort ==
  ASSUME GatherInv, BeginShortCircuit
  PROVE  /\ UNCHANGED <<call, hits, results, pSettled, queue>> /\ results = <<>> /\ pSettled = 0
         /\ call.op = "every" /\ phase = "before" /\ T!Spawn(InitialWindow) /\ Spawns(InitialWindow)
         /\ \A i \in DOMAIN queue : queue[i][1] # "race"
         /\ \A t \in Tasks : ~Born(t) /\ fut[t] = "idle"
<1>1. BeforeCall /\ Births
  BY DEF GatherInv
<1>2. QED
  BY <1>1 DEF BeginShortCircuit, Begins, Spawns, program, BeforeCall, Iterators, Births

(* What is queued has settled, and is queued once.                         *)
LEMMA QueueRacesStep ==
  ASSUME GatherInv, QueueSettled, QueueOnce, RaceWatched, call.op \in Races, [Next]_vars
  PROVE  QueueSettled' /\ QueueOnce'
<1>0. TypeOK /\ Items \subseteq Tasks /\ call' = call /\ Items' = Items
  BY CallFacts, SameProgram DEF GatherInv, TypeOK, program, Items
<1>1. ASSUME NEW d \in {0, 1}, Shifts(d) PROVE QueueSettled' /\ QueueOnce'
  <2>1. QueueSettled'
    <3> SUFFICES ASSUME NEW i \in DOMAIN queue', queue'[i][1] = "race"
                 PROVE  queue'[i][2] \in Items /\ fut'[queue'[i][2]] \in {"value", "error"}
      BY <1>0 DEF QueueSettled, T!Settled
    <3>1. queue'[i][2] \in Items /\ T!Settled(queue'[i][2])
      BY <1>1 DEF Shifts, QueueSettled
    <3>a. fut'[queue'[i][2]] = fut[queue'[i][2]]
      BY <1>0, <3>1, SettledStays
    <3>2. QED
      BY <3>1, <3>a DEF T!Settled
  <2>2. QueueOnce'
    <3> SUFFICES ASSUME NEW i \in DOMAIN queue', NEW j \in DOMAIN queue', queue'[i][1] = "race",
                        queue'[j] = queue'[i]
                 PROVE  i = j
      BY DEF QueueOnce
    <3>1. i + d \in DOMAIN queue /\ j + d \in DOMAIN queue /\ queue[i + d] = queue'[i]
          /\ queue[j + d] = queue'[i]
      BY <1>1 DEF Shifts
    <3>2. i + d = j + d
      BY <3>1 DEF QueueOnce
    <3>3. queue' \in Seq(Entries)
      BY <1>0, QueueTypesStep DEF GatherInv
    <3>4. Len(queue') \in Nat /\ DOMAIN queue' = 1 .. Len(queue')
      BY <3>3, LenProperties
    <3>5. i \in Nat /\ j \in Nat /\ d \in Nat
      BY <3>4
    <3>6. QED
      BY <3>2, <3>5
  <2>3. QED
    BY <2>1, <2>2
<1>2. CASE Elsewhere
  BY <1>1, <1>2 DEF Elsewhere
<1>3. CASE Called
  BY <1>1, <1>3, CalledMoves
<1>4. CASE Expires
  <2>1. polling /\ queue' = Tail(queue) /\ Head(queue)[1] # "race"
    BY <1>4 DEF Expires, RunCallback
  <2>2. QED
    BY <1>0, <1>1, <2>1, QueueElsewhere
<1>5. CASE BeginShortCircuit
  BY <1>5, BeganShort DEF QueueSettled, QueueOnce
<1>6. CASE BeginRace
  <2>1. QueueSettled'
    <3> SUFFICES ASSUME NEW i \in DOMAIN queue', queue'[i][1] = "race"
                 PROVE  queue'[i][2] \in Items /\ fut'[queue'[i][2]] \in {"value", "error"}
      BY <1>0 DEF QueueSettled, T!Settled
    <3>1. PICK k \in DOMAIN Line' : queue'[i] = <<"race", Line'[k]>>
      BY <1>6, BeganRace
    <3>2. Line'[k] \in Answered /\ Answered \subseteq Items /\ fut' = fut
      BY <1>6, BeganRace DEF tasks
    <3>3. QED
      BY <3>1, <3>2 DEF T!Settled, Answered
  <2>2. QueueOnce'
    <3> SUFFICES ASSUME NEW i \in DOMAIN queue', NEW j \in DOMAIN queue', queue'[i][1] = "race",
                        queue'[j] = queue'[i]
                 PROVE  i = j
      BY DEF QueueOnce
    <3>1. PICK k \in DOMAIN Line' : i = Len(queue) + k /\ queue'[i] = <<"race", Line'[k]>>
      BY <1>6, BeganRace
    <3>2. PICK l \in DOMAIN Line' : j = Len(queue) + l /\ queue'[j] = <<"race", Line'[l]>>
      BY <1>6, BeganRace
    <3>3. Line'[k] = Line'[l]
      BY <3>1, <3>2
    <3>4. k = l
      BY <1>6, <3>3, BeganRace
    <3>5. QED
      BY <3>1, <3>2, <3>4
  <2>3. QED
    BY <2>1, <2>2
<1>7. ASSUME NEW t \in Tasks, FiberEnds(t) \/ IoSettles(t) PROVE QueueSettled' /\ QueueOnce'
  <2>1. /\ \A i \in DOMAIN queue : i \in DOMAIN queue' /\ queue'[i] = queue[i]
        /\ \A i \in DOMAIN queue' : i \notin DOMAIN queue => queue'[i][2] = t
        /\ \A i, j \in DOMAIN queue' :
             queue'[i] = <<"race", t>> /\ queue'[j] = <<"race", t>> => i = j
        /\ ~RaceQueued(t)
    BY <1>7, SettlesQueue
  <2>2. t \in Items /\ T!Settled(t)'
    BY <1>7, Settled1 DEF T!Settled
  <2>3. \A i \in DOMAIN queue' : queue'[i] = <<queue'[i][1], queue'[i][2]>>
    <3>1. queue' \in Seq(Entries)
      BY <1>0, QueueTypesStep DEF GatherInv
    <3>2. \A i \in DOMAIN queue' : queue'[i] \in Entries
      BY <3>1, ElementOfSeq, LenProperties
    <3>3. QED
      BY <3>2 DEF Entries
  <2>4. QueueSettled'
    <3> SUFFICES ASSUME NEW i \in DOMAIN queue', queue'[i][1] = "race"
                 PROVE  queue'[i][2] \in Items /\ fut'[queue'[i][2]] \in {"value", "error"}
      BY <1>0 DEF QueueSettled, T!Settled
    <3>1. CASE i \notin DOMAIN queue
      BY <2>1, <2>2, <3>1 DEF T!Settled
    <3>2. CASE i \in DOMAIN queue
      <4>1. queue'[i][2] \in Items /\ T!Settled(queue'[i][2])
        BY <2>1, <3>2 DEF QueueSettled
      <4>a. fut'[queue'[i][2]] = fut[queue'[i][2]]
        BY <1>0, <4>1, SettledStays
      <4>2. QED
        BY <4>1, <4>a DEF T!Settled
    <3>3. QED
      BY <3>1, <3>2
  <2>5. QueueOnce'
    <3> SUFFICES ASSUME NEW i \in DOMAIN queue', NEW j \in DOMAIN queue', queue'[i][1] = "race",
                        queue'[j] = queue'[i]
                 PROVE  i = j
      BY DEF QueueOnce
    <3>1. CASE queue'[i][2] = t
      BY <2>1, <2>3, <3>1
    <3>2. CASE queue'[i][2] # t
      BY <2>1, <3>2 DEF QueueOnce
    <3>3. QED
      BY <3>1, <3>2
  <2>6. QED
    BY <2>4, <2>5
<1>8. QED
  BY <1>2, <1>3, <1>4, <1>5, <1>6, <1>7, RaceMoves

(* A spawned item has the callback.                                        *)
LEMMA SpawnsRaces ==
  ASSUME GatherInv, RaceWatched, call.op = "every", NEW S \in SUBSET Items, Spawns(S),
         [Next]_vars, phase = "before" => \A t \in Tasks : fut[t] = "idle"
  PROVE  RaceWatched'
<1>0. /\ DispatcherTypes /\ TaskTypes /\ Births /\ Births' /\ call' = call /\ Items' = Items
      /\ Items \subseteq Tasks /\ watchers \in [Tasks -> Seq(Whats)] /\ "race" \in Whats
  BY TypeParts, CallFacts, BirthsStep, SameProgram
     DEF GatherInv, TypeOK, DispatcherTypes, program, Items, Whats
<1>1. /\ \A t \in S : state[t] = "none" /\ fut'[t] = "pending"
      /\ \A t \in Tasks \ S : fut'[t] = fut[t]
      /\ \A t \in S : watchers'[t] = Append(watchers[t], "race")
      /\ \A t \in Tasks \ S : watchers'[t] = watchers[t]
  BY <1>0 DEF Spawns, T!Spawn
<1>2. /\ \A t \in Tasks : OneRace(watchers[t])
      /\ \A t \in Tasks : ~Born(t) => ~HasRace(watchers[t])
      /\ phase # "before" => \A t \in Items : fut[t] = "pending" => HasRace(watchers[t])
  BY DEF RaceWatched, Races
<1>3. ASSUME NEW t \in S PROVE OneRace(watchers'[t]) /\ HasRace(watchers'[t])
  <2>1. t \in Tasks /\ ~HasRace(watchers[t]) /\ OneRace(watchers[t]) /\ watchers[t] \in Seq(Whats)
    BY <1>0, <1>1, <1>2 DEF Born
  <2>2. HasRace(Append(watchers[t], "race")) /\ OneRace(Append(watchers[t], "race"))
    BY <1>0, <2>1, OneMore
  <2>3. QED
    BY <1>1, <2>2
<1>4. \A t \in Tasks : OneRace(watchers'[t])
  BY <1>1, <1>2, <1>3
<1>5. ASSUME NEW t \in Tasks, ~Born(t)' PROVE ~HasRace(watchers'[t])
  <2>1. fut'[t] = "idle" /\ t \notin S
    BY <1>0, <1>1, <1>5 DEF Births
  <2>2. ~Born(t)
    BY <1>0, <1>1, <2>1 DEF Births
  <2>3. QED
    BY <1>1, <1>2, <2>1, <2>2
<1>6. ASSUME NEW t \in Items, fut'[t] = "pending" PROVE HasRace(watchers'[t])
  <2>1. CASE t \in S
    BY <1>3, <2>1
  <2>2. CASE t \notin S
    <3>1. fut[t] = "pending" /\ watchers'[t] = watchers[t] /\ t \in Tasks
      BY <1>0, <1>1, <1>6, <2>2
    <3>2. phase # "before"
      BY <3>1
    <3>3. QED
      BY <1>2, <3>1, <3>2
  <2>3. QED
    BY <2>1, <2>2
<1>7. QED
  BY <1>0, <1>4, <1>5, <1>6 DEF RaceWatched

LEMMA RaceWatchedStep ==
  ASSUME GatherInv, RaceWatched, QueueSettled, QueueOnce, call.op \in Races, [Next]_vars
  PROVE  RaceWatched'
<1>0. /\ TypeOK /\ DispatcherTypes /\ Births /\ Births' /\ call' = call /\ Items' = Items
      /\ Items \subseteq Tasks /\ watchers \in [Tasks -> Seq(Whats)] /\ "race" \in Whats
  BY TypeParts, CallFacts, BirthsStep, SameProgram
     DEF GatherInv, TypeOK, DispatcherTypes, program, Items, Whats
<1>1. /\ \A t \in Tasks : OneRace(watchers[t])
      /\ \A t \in Tasks : ~Born(t) => ~HasRace(watchers[t])
      /\ phase # "before" => \A t \in Items : fut[t] = "pending" => HasRace(watchers[t])
  BY DEF RaceWatched
<1>2. ASSUME fut' = fut, \A t \in Tasks : HasRace(watchers'[t]) <=> HasRace(watchers[t]),
             \A t \in Tasks : OneRace(watchers'[t]),
             phase = "before" => phase' = "before" \/ (call.op = "every" /\ call.len = 0)
      PROVE  RaceWatched'
  <2>1. \A t \in Tasks : ~Born(t)' => ~Born(t)
    BY <1>0, <1>2 DEF Births
  <2>2. phase' # "before" => phase # "before" \/ Items = {}
    <3>1. Items = 1 .. call.len
      BY DEF Items
    <3>2. call.len = 0 => Items = {}
      BY <3>1
    <3>3. QED
      BY <1>2, <3>2
  <2>3. phase' # "before" => \A t \in Items : fut'[t] = "pending" => HasRace(watchers'[t])
    BY <1>0, <1>1, <1>2, <2>2
  <2>4. QED
    BY <1>0, <1>1, <1>2, <2>1, <2>3 DEF RaceWatched
<1>3. CASE Elsewhere
  BY <1>1, <1>2, <1>3 DEF Elsewhere
<1>4. CASE Called
  <2>0. PICK t : t = Head(queue)[2]
    OBVIOUS
  <2>1. phase' = phase /\ IF call.op = "every" THEN ShortCircuit(t) ELSE Collect(t)
    BY <1>4, <2>0, CalledMoves
  <2>2. CASE UNCHANGED <<fut, watchers>>
    BY <1>1, <1>2, <2>1, <2>2
  <2>3. CASE call.op = "every" /\ pSpawn < call.len /\ Spawns({pSpawn + 1})
    <3>1. pSpawn + 1 \in Items
      BY <1>0, <2>3, NextItem
    <3>2. phase # "before"
      BY <1>0, <1>4, FirstEntry DEF GatherInv, Called, RunCallback, BeforeCall
    <3>3. QED
      BY <2>3, <3>1, <3>2, SpawnsRaces
  <2>4. QED
    BY <2>1, <2>2, <2>3 DEF ShortCircuit, Collect, T!Gathered, T!Say, tasks
<1>5. CASE Expires
  BY <1>1, <1>2, <1>5 DEF Expires, RunCallback, tasks
<1>6. CASE BeginShortCircuit
  <2>1. InitialWindow \subseteq Items
    <3>1. call.n \in Nat /\ call.len \in Nat /\ Items = 1 .. call.len
      BY <1>0, CallFacts, TasksAreNumbers DEF TypeOK
    <3>2. QED
      BY <3>1 DEF InitialWindow
  <2>2. QED
    BY <1>6, <2>1, BeganShort, SpawnsRaces
<1>7. CASE BeginRace
  <2>1. /\ fut' = fut /\ call.op \in {"first", "any"} /\ phase = "before"
        /\ watchers' = [t \in Tasks |-> IF t \in Items \ Answered
                                        THEN Append(watchers[t], "race") ELSE watchers[t]]
    BY <1>7, BeganRace DEF BeginRace, tasks
  <2>2. \A t \in Tasks : ~HasRace(watchers[t])
    BY <2>1 DEF GatherInv, BeforeCall, HasRace
  <2>3. ASSUME NEW t \in Tasks
        PROVE  OneRace(watchers'[t]) /\ (HasRace(watchers'[t]) <=> t \in Items \ Answered)
    <3>1. CASE t \in Items \ Answered
      <4>1. watchers'[t] = Append(watchers[t], "race") /\ watchers[t] \in Seq(Whats)
        BY <1>0, <2>1, <3>1
      <4>2. HasRace(Append(watchers[t], "race")) /\ OneRace(Append(watchers[t], "race"))
        BY <1>0, <1>1, <2>2, <4>1, OneMore
      <4>3. QED
        BY <3>1, <4>1, <4>2
    <3>2. CASE t \notin Items \ Answered
      <4>1. watchers'[t] = watchers[t]
        BY <2>1, <3>2
      <4>2. QED
        BY <1>1, <2>2, <3>2, <4>1
    <3>3. QED
      BY <3>1, <3>2
  <2>4. \A t \in Tasks : ~Born(t)' => t \notin Items
    <3>1. call.op \in Waits
      BY <2>1 DEF Waits
    <3>2. QED
      BY <1>0, <2>1, <3>1 DEF Births
  <2>5. \A t \in Items : fut'[t] = "pending" => t \notin Answered
    BY <2>1 DEF Answered, T!Settled
  <2>6. QED
    BY <1>0, <2>3, <2>4, <2>5 DEF RaceWatched
<1>8. ASSUME NEW t \in Tasks, FiberEnds(t) \/ IoSettles(t) PROVE RaceWatched'
  <2>1. /\ fut[t] = "pending" /\ fut'[t] \in {"value", "error"}
        /\ \A u \in Tasks : u # t => fut'[u] = fut[u] /\ watchers'[u] = watchers[u]
        /\ watchers'[t] = <<>> /\ phase' = phase
    BY <1>0, <1>8, Settled1
  <2>2. ~HasRace(<<>>) /\ OneRace(<<>>)
    <3>1. DOMAIN <<>> = {}
      OBVIOUS
    <3>2. QED
      BY <3>1 DEF HasRace, OneRace
  <2>3. \A u \in Tasks : ~Born(u)' => ~Born(u)
    BY <1>0, <2>1 DEF Births
  <2>4. \A u \in Tasks : OneRace(watchers'[u])
    BY <1>1, <2>1, <2>2
  <2>5. \A u \in Tasks : ~Born(u)' => ~HasRace(watchers'[u])
    BY <1>1, <2>1, <2>2, <2>3
  <2>6. phase' # "before" => \A u \in Items : fut'[u] = "pending" => HasRace(watchers'[u])
    BY <1>0, <1>1, <2>1
  <2>7. QED
    BY <1>0, <2>4, <2>5, <2>6 DEF RaceWatched
<1>9. QED
  BY <1>3, <1>4, <1>5, <1>6, <1>7, <1>8, RaceMoves

(* The order of what is queued is kept when the queue only loses entries.  *)
InOrderNext ==
  \A i, j \in DOMAIN queue' : \A k, l \in DOMAIN Line' :
    i < j /\ queue'[i] = <<"race", Line'[k]>> /\ queue'[j] = <<"race", Line'[l]>> => k < l

LEMMA ShiftsKeepOrder ==
  ASSUME TypeOK, TypeOK', NEW d \in {0, 1}, Shifts(d), Line' = Line,
         \A i, j \in DOMAIN queue : \A k, l \in DOMAIN Line :
           i < j /\ queue[i] = <<"race", Line[k]>> /\ queue[j] = <<"race", Line[l]>> => k < l
  PROVE  InOrderNext /\ \A t \in Tasks : RaceQueued(t)' => RaceQueued(t)
<1>1. queue' \in Seq(Entries)
  BY TypePartsNext DEF DispatcherTypes
<1>2. Len(queue') \in Nat /\ DOMAIN queue' = 1 .. Len(queue')
  BY <1>1, LenProperties
<1>3. \A i \in DOMAIN queue' : i \in Nat
  BY <1>2
<1>4. ASSUME NEW i \in DOMAIN queue', NEW t, queue'[i] = <<"race", t>>
      PROVE  i + d \in DOMAIN queue /\ queue[i + d] = <<"race", t>>
  BY <1>4 DEF Shifts
<1>5. InOrderNext
  <2> SUFFICES ASSUME NEW i \in DOMAIN queue', NEW j \in DOMAIN queue',
                      NEW k \in DOMAIN Line, NEW l \in DOMAIN Line, i < j,
                      queue'[i] = <<"race", Line[k]>>, queue'[j] = <<"race", Line[l]>>
               PROVE  k < l
    BY DEF InOrderNext
  <2>1. i + d \in DOMAIN queue /\ queue[i + d] = <<"race", Line[k]>>
    BY <1>4
  <2>2. j + d \in DOMAIN queue /\ queue[j + d] = <<"race", Line[l]>>
    BY <1>4
  <2>3. i + d < j + d
    BY <1>3
  <2>4. QED
    BY <2>1, <2>2, <2>3
<1>6. \A t \in Tasks : RaceQueued(t)' => RaceQueued(t)
  BY <1>4 DEF RaceQueued
<1>7. QED
  BY <1>5, <1>6

(* The first task in the queue is the one that settled first.              *)
LEMMA FirstSettled ==
  ASSUME GatherInv, OrderKept, call.op \in {"first", "any"}, phase # "before", ~Complete,
         NEW t \in Items, T!Settled(t), 1 \in DOMAIN queue, queue[1] = <<"race", t>>, RaceQueued(t)
  PROVE  /\ Len(results) \in Nat /\ Len(Line) \in Nat /\ DOMAIN Line = 1 .. Len(Line)
         /\ Len(results) + 1 \in DOMAIN Line /\ Line[Len(results) + 1] = t
<1>1. results \in Seq(Results) /\ Line \in Seq(Tasks) /\ queue \in Seq(Entries)
  BY TypeParts, LineType DEF GatherInv, OtherTypes, DispatcherTypes
<1> DEFINE n == Len(results)
           m == Len(Line)
<1>2. n \in Nat /\ m \in Nat /\ DOMAIN Line = 1 .. m /\ DOMAIN queue = 1 .. Len(queue)
      /\ Len(queue) \in Nat
  BY <1>1, LenProperties
<1>3. /\ n <= m
      /\ \A k \in DOMAIN Line : k > n <=> RaceQueued(Line[k])
      /\ \A i, j \in DOMAIN queue : \A k, l \in DOMAIN Line :
           i < j /\ queue[i] = <<"race", Line[k]>> /\ queue[j] = <<"race", Line[l]>> => k < l
  BY DEF OrderKept
<1>4. PICK k \in DOMAIN Line : Line[k] = t
  <2>1. t \in Tasks
    BY CallFacts DEF GatherInv, TypeOK
  <2>2. QED
    BY <2>1 DEF OrderKept
<1> HIDE DEF n, m
<1>5. k > n /\ k \in 1 .. m
  BY <1>2, <1>3, <1>4
<1> DEFINE l == n + 1
<1>6. l \in DOMAIN Line /\ l > n /\ l <= k
  BY <1>2, <1>5
<1>7. ASSUME l # k PROVE FALSE
  <2> HIDE DEF l
  <2>1. RaceQueued(Line[l])
    BY <1>3, <1>6
  <2>2. PICK i \in DOMAIN queue : queue[i] = <<"race", Line[l]>>
    BY <2>1 DEF RaceQueued
  <2>3. Line[l] # Line[k]
    BY <1>6, <1>7 DEF OrderKept
  <2>4. i # 1
    BY <1>4, <2>2, <2>3
  <2>5. 1 < i
    BY <1>2, <2>4
  <2>6. k < l
    BY <1>3, <1>4, <1>6, <2>2, <2>5
  <2>7. QED
    BY <1>2, <1>5, <1>6, <2>6
<1>8. QED
  BY <1>2, <1>4, <1>6, <1>7 DEF n, m

LEMMA OrderKeptStep ==
  ASSUME GatherInv, GatherInv', QueueSettled, QueueOnce, RaceWatched, OrderKept,
         call.op \in {"first", "any"}, [Next]_vars
  PROVE  OrderKept'
<1>0. /\ TypeOK /\ TypeOK' /\ call' = call /\ Items' = Items /\ call.op \in Races
      /\ Items \subseteq Tasks /\ results \in Seq(Results) /\ Line \in Seq(Tasks)
  BY TypeParts, LineType, CallFacts, SameProgram DEF GatherInv, TypeOK, program, Items, Races
<1>1. Len(results) \in Nat /\ Len(Line) \in Nat /\ DOMAIN Line = 1 .. Len(Line)
  BY <1>0, LenProperties
<1> SUFFICES ASSUME phase' # "before" PROVE OrderKept'
  BY DEF OrderKept
<1>2. ASSUME phase # "before"
      PROVE  /\ \A t \in Tasks : T!Settled(t) <=> \E k \in DOMAIN Line : Line[k] = t
             /\ \A k, l \in DOMAIN Line : Line[k] = Line[l] => k = l
             /\ \A i, j \in DOMAIN queue : \A k, l \in DOMAIN Line :
                  i < j /\ queue[i] = <<"race", Line[k]>> /\ queue[j] = <<"race", Line[l]>> => k < l
             /\ ~Complete => /\ Len(results) <= Len(Line)
                             /\ \A k \in DOMAIN Line : k > Len(results) <=> RaceQueued(Line[k])
  BY <1>2 DEF OrderKept
<1>3. CASE Elsewhere
  <2>1. phase # "before" /\ UNCHANGED <<fut, results, Line>> /\ (Complete' <=> Complete)
    BY <1>0, <1>3 DEF Elsewhere, Complete, Decides
  <2>2. PICK d \in {0, 1} : Shifts(d)
    BY <1>3 DEF Elsewhere
  <2>3. InOrderNext /\ \A t \in Tasks : RaceQueued(t)' => RaceQueued(t)
    BY <1>0, <1>2, <2>1, <2>2, ShiftsKeepOrder
  <2>4. ASSUME ~Complete, NEW k \in DOMAIN Line
        PROVE  k > Len(results) <=> \E i \in DOMAIN queue' : queue'[i] = <<"race", Line[k]>>
    <3>1. PICK t \in Tasks : t = Line[k]
      BY <1>0, ElementOfSeq, <1>1
    <3>2. RaceQueued(t)' <=> RaceQueued(t)
      BY <1>3, <2>3, <2>4, <3>1 DEF Elsewhere
    <3>3. k > Len(results) <=> RaceQueued(t)
      BY <1>2, <2>1, <2>4, <3>1
    <3>4. QED
      BY <3>1, <3>2, <3>3 DEF RaceQueued
  <2>5. QED
    BY <1>0, <1>2, <2>1, <2>3, <2>4 DEF OrderKept, InOrderNext, T!Settled, RaceQueued
<1>4. CASE Called
  <2>0. PICK t : t = Head(queue)[2]
    OBVIOUS
  <2>1. /\ t \in Tasks /\ t \in Items /\ T!Settled(t)
        /\ 1 \in DOMAIN queue /\ queue[1] = <<"race", t>> /\ RaceQueued(t)
        /\ UNCHANGED <<phase, Line>>
        /\ Collect(t) /\ ~Complete
        /\ Shifts(1) /\ ~RaceQueued(t)'
        /\ \A u \in Tasks : u # t => (RaceQueued(u)' <=> RaceQueued(u))
    BY <1>0, <1>4, <2>0, CalledMoves DEF Called
  <2>2. /\ phase # "before" /\ fut' = fut
        /\ results' = Append(results, Has(t, Outcome(t)))
    BY <2>1 DEF Collect, T!Gathered, T!Say
  <2>3. Len(results) + 1 \in DOMAIN Line /\ Line[Len(results) + 1] = t
    BY <1>0, <2>1, <2>2, FirstSettled
  <2>4. Len(results') = Len(results) + 1
    <3>1. results' \in Seq(Results)
      BY <1>0, TypePartsNext
    <3>2. Has(t, Outcome(t)) \in Results
      BY <2>1 DEF Has, Outcome, Results
    <3>3. QED
      BY <1>0, <2>2, <3>2, AppendProperties
  <2>5. InOrderNext
    BY <1>0, <1>2, <2>1, <2>2, ShiftsKeepOrder
  <2>6. ASSUME NEW k \in DOMAIN Line
        PROVE  k > Len(results') <=> \E i \in DOMAIN queue' : queue'[i] = <<"race", Line[k]>>
    <3>1. PICK u \in Tasks : u = Line[k]
      BY <1>0, ElementOfSeq, <1>1
    <3>2. k > Len(results) <=> RaceQueued(u)
      BY <1>2, <2>1, <2>2, <3>1
    <3>3. u = t => k = Len(results) + 1
      BY <1>2, <2>2, <2>3, <3>1
    <3>4. k = Len(results) + 1 => u = t
      BY <2>3, <3>1
    <3>5. k > Len(results) + 1 <=> RaceQueued(u)'
      <4>1. k \in Nat
        BY <1>1
      <4>2. CASE u = t
        BY <1>1, <2>1, <3>3, <4>1, <4>2
      <4>3. CASE u # t
        BY <1>1, <2>1, <3>1, <3>2, <3>4, <4>1, <4>3
      <4>4. QED
        BY <4>2, <4>3
    <3>6. QED
      BY <2>4, <3>1, <3>5 DEF RaceQueued
  <2>7. Len(results') <= Len(Line)
    BY <1>1, <2>3, <2>4
  <2>8. QED
    BY <1>0, <1>2, <2>1, <2>2, <2>5, <2>6, <2>7 DEF OrderKept, InOrderNext, T!Settled, RaceQueued
<1>5. CASE Expires
  <2>1. /\ polling /\ queue' = Tail(queue) /\ Head(queue)[1] # "race"
        /\ UNCHANGED <<phase, Line, fut>> /\ results' = <<Has(0, "timeout")>>
    <3>1. /\ polling /\ queue' = Tail(queue) /\ Head(queue)[1] # "race"
          /\ UNCHANGED <<phase, history, fut>> /\ results' = <<Has(0, "timeout")>>
      BY <1>5 DEF Expires, RunCallback, tasks
    <3>2. ~BeginRace
      BY <3>1 DEF BeginRace, Begins
    <3>3. QED
      BY <3>1, <3>2, LineStays
  <2>2. PICK d \in {0, 1} : Shifts(d)
    BY <1>0, <2>1, QueueElsewhere
  <2>3. InOrderNext
    BY <1>0, <1>2, <2>1, <2>2, ShiftsKeepOrder
  <2>4. Complete'
    <3>1. <<Has(0, "timeout")>> # <<>>
      OBVIOUS
    <3>2. QED
      BY <1>0, <1>5, <2>1, <3>1 DEF Complete, Decides, Expires
  <2>5. QED
    BY <1>0, <1>2, <2>1, <2>3, <2>4 DEF OrderKept, InOrderNext, T!Settled
<1>6. CASE BeginRace
  <2>1. /\ UNCHANGED <<tasks, results>> /\ results = <<>>
        /\ Answered \subseteq Items
        /\ DOMAIN Line' = 1 .. Cardinality(Answered) /\ Cardinality(Answered) \in Nat
        /\ Len(Line') = Cardinality(Answered)
        /\ \A k \in DOMAIN Line' : Line'[k] \in Answered
        /\ \A k, l \in DOMAIN Line' : Line'[k] = Line'[l] => k = l
        /\ \A t \in Answered : \E k \in DOMAIN Line' : Line'[k] = t
        /\ \A i \in DOMAIN queue' : queue'[i][1] = "race" =>
             \E k \in DOMAIN Line' : i = Len(queue) + k /\ queue'[i] = <<"race", Line'[k]>>
        /\ \A k \in DOMAIN Line' : \E i \in DOMAIN queue' : queue'[i] = <<"race", Line'[k]>>
        /\ Len(queue) \in Nat
    BY <1>6, BeganRace
  <2>2. \A t \in Tasks : T!Settled(t)' <=> \E k \in DOMAIN Line' : Line'[k] = t
    <3>1. \A t \in Tasks : T!Settled(t) => t \in Items
      <4>1. call.op \in Waits /\ Births
        BY DEF Waits, GatherInv
      <4>2. QED
        BY <4>1 DEF Births, T!Settled
    <3>2. \A t \in Tasks : T!Settled(t)' <=> t \in Answered
      BY <1>0, <2>1, <3>1 DEF Answered, T!Settled, tasks
    <3>3. QED
      BY <2>1, <3>2
  <2>3. InOrderNext
    <3> SUFFICES ASSUME NEW i \in DOMAIN queue', NEW j \in DOMAIN queue',
                        NEW k \in DOMAIN Line', NEW l \in DOMAIN Line', i < j,
                        queue'[i] = <<"race", Line'[k]>>, queue'[j] = <<"race", Line'[l]>>
                 PROVE  k < l
      BY DEF InOrderNext
    <3>1. PICK k1 \in DOMAIN Line' : i = Len(queue) + k1 /\ queue'[i] = <<"race", Line'[k1]>>
      BY <2>1
    <3>2. PICK l1 \in DOMAIN Line' : j = Len(queue) + l1 /\ queue'[j] = <<"race", Line'[l1]>>
      BY <2>1
    <3>3. k = k1 /\ l = l1
      BY <2>1, <3>1, <3>2
    <3>4. k \in Nat /\ l \in Nat
      BY <2>1
    <3>5. QED
      BY <2>1, <3>1, <3>2, <3>3, <3>4
  <2>4. Len(results') = 0 /\ \A k \in DOMAIN Line' : k > 0
    BY <2>1
  <2>5. QED
    BY <1>0, <2>1, <2>2, <2>3, <2>4 DEF OrderKept, InOrderNext, RaceQueued
<1>7. ASSUME NEW t \in Tasks, FiberEnds(t) \/ IoSettles(t) PROVE OrderKept'
  <2>1. /\ fut[t] = "pending" /\ fut'[t] \in {"value", "error"}
        /\ \A u \in Tasks : u # t => fut'[u] = fut[u]
        /\ t \in Items /\ UNCHANGED <<phase, results>>
        /\ Line' = Append(Line, t) /\ phase # "before" /\ (Complete' <=> Complete)
    BY <1>0, <1>7, Settled1, LineGrows DEF Complete, Decides
  <2>2. /\ Len(queue) \in Nat /\ DOMAIN queue = 1 .. Len(queue)
        /\ \A i \in DOMAIN queue : i \in DOMAIN queue' /\ queue'[i] = queue[i]
        /\ \A i \in DOMAIN queue' : i \notin DOMAIN queue => i > Len(queue) /\ queue'[i][2] = t
        /\ \A i, j \in DOMAIN queue' :
             queue'[i] = <<"race", t>> /\ queue'[j] = <<"race", t>> => i = j
        /\ ~RaceQueued(t) /\ RaceQueued(t)'
        /\ \A u \in Tasks : u # t => (RaceQueued(u)' <=> RaceQueued(u))
    BY <1>0, <1>7, <2>1, SettlesQueue
  <2> DEFINE m == Len(Line)
  <2>3. /\ m \in Nat /\ DOMAIN Line' = 1 .. m + 1 /\ DOMAIN Line = 1 .. m /\ Len(Line') = m + 1
        /\ \A k \in 1 .. m : Line'[k] = Line[k] /\ Line[k] \in Tasks
        /\ Line'[m + 1] = t
    <3>1. /\ Append(Line, t) \in Seq(Tasks) /\ Len(Append(Line, t)) = m + 1
          /\ \A k \in 1 .. m : Append(Line, t)[k] = Line[k]
          /\ Append(Line, t)[m + 1] = t
      BY <1>0, AppendProperties
    <3>2. \A k \in 1 .. m : Line[k] \in Tasks
      BY <1>0, ElementOfSeq
    <3>3. QED
      BY <1>1, <2>1, <3>1, <3>2, LenProperties
  <2> HIDE DEF m
  <2>4. \A k \in 1 .. m + 1 : k \in 1 .. m \/ k = m + 1
    BY <2>3
  <2>5. \A k \in 1 .. m : Line[k] # t
    BY <1>2, <2>1, <2>3 DEF T!Settled
  <2>6. ASSUME NEW u \in Tasks PROVE T!Settled(u)' <=> \E k \in DOMAIN Line' : Line'[k] = u
    <3>1. CASE u = t
      <4>1. m + 1 \in 1 .. m + 1
        BY <2>3
      <4>2. QED
        BY <2>1, <2>3, <3>1, <4>1 DEF T!Settled
    <3>2. CASE u # t
      <4>1. T!Settled(u)' <=> T!Settled(u)
        BY <1>0, <2>1, <3>2 DEF T!Settled
      <4>2. (\E k \in DOMAIN Line' : Line'[k] = u) <=> \E k \in DOMAIN Line : Line[k] = u
        <5>1. \A k \in 1 .. m : k \in 1 .. m + 1
          BY <2>3
        <5>2. QED
          BY <2>3, <2>4, <3>2, <5>1
      <4>3. QED
        BY <1>2, <2>1, <4>1, <4>2
    <3>3. QED
      BY <3>1, <3>2
  <2>7. \A k, l \in DOMAIN Line' : Line'[k] = Line'[l] => k = l
    BY <1>2, <2>1, <2>3, <2>4, <2>5
  <2>8. InOrderNext
    <3> SUFFICES ASSUME NEW i \in DOMAIN queue', NEW j \in DOMAIN queue',
                        NEW k \in DOMAIN Line', NEW l \in DOMAIN Line', i < j,
                        queue'[i] = <<"race", Line'[k]>>, queue'[j] = <<"race", Line'[l]>>
                 PROVE  k < l
      BY DEF InOrderNext
    <3>1. CASE j \in DOMAIN queue
      <4>1. i \in DOMAIN queue
        <5>1. i \notin DOMAIN queue => i > Len(queue)
          BY <2>2
        <5>2. i \in Nat \/ i \in DOMAIN queue
          <6>1. DOMAIN queue' \subseteq Nat
            <7>1. queue' \in Seq(Entries)
              BY <1>0, TypePartsNext DEF DispatcherTypes
            <7>2. DOMAIN queue' = 1 .. Len(queue') /\ Len(queue') \in Nat
              BY <7>1, LenProperties
            <7>3. QED
              BY <7>2
          <6>2. QED
            BY <6>1
        <5>3. QED
          BY <2>2, <3>1, <5>1, <5>2
      <4>2. queue[i] = <<"race", Line'[k]>> /\ queue[j] = <<"race", Line'[l]>>
        BY <2>2, <3>1, <4>1
      <4>3. Line'[k] # t /\ Line'[l] # t
        BY <2>2, <3>1, <4>1, <4>2 DEF RaceQueued
      <4>4. k \in 1 .. m /\ l \in 1 .. m
        BY <2>3, <2>4, <4>3
      <4>5. QED
        BY <1>2, <2>1, <2>3, <3>1, <4>1, <4>2, <4>4
    <3>2. CASE j \notin DOMAIN queue
      <4>1. Line'[l] = t
        <5>1. queue'[j][2] = t
          BY <2>2, <3>2
        <5>2. QED
          BY <5>1
      <4>2. l = m + 1
        BY <2>3, <2>4, <2>5, <4>1
      <4>3. Line'[k] # t
        <5>1. i # j
          <6>1. DOMAIN queue' \subseteq Nat
            <7>1. queue' \in Seq(Entries)
              BY <1>0, TypePartsNext DEF DispatcherTypes
            <7>2. DOMAIN queue' = 1 .. Len(queue') /\ Len(queue') \in Nat
              BY <7>1, LenProperties
            <7>3. QED
              BY <7>2
          <6>2. QED
            BY <6>1
        <5>2. QED
          BY <2>2, <4>1, <5>1
      <4>4. k \in 1 .. m
        BY <2>3, <2>4, <4>3
      <4>5. QED
        BY <2>3, <4>2, <4>4
    <3>3. QED
      BY <3>1, <3>2
  <2>9. ASSUME ~Complete
        PROVE  /\ Len(results') <= Len(Line')
               /\ \A k \in DOMAIN Line' : k > Len(results') <=>
                    \E i \in DOMAIN queue' : queue'[i] = <<"race", Line'[k]>>
    <3>1. /\ Len(results) \in Nat /\ Len(results) <= m
          /\ \A k \in 1 .. m : k > Len(results) <=> RaceQueued(Line[k])
      BY <1>1, <1>2, <2>1, <2>3, <2>9 DEF m
    <3>2. Len(results') = Len(results)
      BY <2>1
    <3>3. ASSUME NEW k \in 1 .. m
          PROVE  k > Len(results) <=> \E i \in DOMAIN queue' : queue'[i] = <<"race", Line'[k]>>
      <4>1. PICK u \in Tasks : u = Line[k] /\ u # t /\ Line'[k] = u
                               /\ (k > Len(results) <=> RaceQueued(u))
        BY <2>3, <2>5, <3>1
      <4>2. RaceQueued(u)' <=> RaceQueued(u)
        BY <2>2, <4>1
      <4>3. QED
        BY <4>1, <4>2 DEF RaceQueued
    <3>4. m + 1 > Len(results) /\ \E i \in DOMAIN queue' : queue'[i] = <<"race", Line'[m + 1]>>
      BY <2>2, <2>3, <3>1 DEF RaceQueued
    <3>5. Len(results) <= m + 1
      BY <2>3, <3>1
    <3>6. QED
      BY <2>3, <2>4, <3>2, <3>3, <3>4, <3>5
  <2>10. QED
    BY <1>0, <2>1, <2>6, <2>7, <2>8, <2>9 DEF OrderKept, InOrderNext, RaceQueued
<1>8. CASE BeginShortCircuit
  BY <1>8 DEF BeginShortCircuit
<1>9. QED
  BY <1>0, <1>3, <1>4, <1>5, <1>6, <1>7, <1>8, RaceMoves

(* What has been handed out stays true.                                    *)
LEMMA CollectedStays ==
  ASSUME GatherInv, [Next]_vars, OrderKept, HandedOut, UNCHANGED <<call, results>>,
         call.op \in {"first", "any"},
         Len(Line) <= Len(Line'), Len(Line') \in Nat,
         \A k \in 1 .. Len(Line) : Line'[k] = Line[k]
  PROVE  /\ Len(results) <= call.n
         /\ \A i \in DOMAIN results :
              results[i].is # "timeout" =>
                /\ i <= Len(Line') /\ results[i].of = Line'[i]
                /\ (results[i].is = "value") = (fut'[Line'[i]] = "value")
                /\ state'[Line'[i]] # "pending"
<1>0. TypeOK /\ BeforeCall /\ Births /\ Line \in Seq(Tasks) /\ results \in Seq(Results) /\ TaskTypes
  BY TypeParts, LineType DEF GatherInv
<1>1. Len(Line) \in Nat /\ DOMAIN Line = 1 .. Len(Line) /\ \A k \in DOMAIN Line : Line[k] \in Tasks
  BY <1>0, LenProperties, ElementOfSeq
<1>2. DOMAIN results = 1 .. Len(results) /\ Len(results) \in Nat
  BY <1>0, LenProperties
<1>3. Len(results) <= call.n
  BY DEF HandedOut
<1>4. ASSUME NEW i \in DOMAIN results, results[i].is # "timeout"
      PROVE  /\ i <= Len(Line') /\ results[i].of = Line'[i]
             /\ (results[i].is = "value") = (fut'[Line'[i]] = "value")
             /\ state'[Line'[i]] # "pending"
  <2>1. /\ i <= Len(Line) /\ results[i].of = Line[i]
        /\ (results[i].is = "value") = (fut[Line[i]] = "value")
        /\ state[Line[i]] # "pending"
    BY <1>4 DEF HandedOut
  <2>2. i \in 1 .. Len(Line)
    BY <1>1, <1>2, <2>1
  <2>3. PICK t \in Tasks : t = Line[i] /\ t = Line'[i]
    BY <1>1, <2>2
  <2>4. phase # "before"
    <3>1. results # <<>>
      BY <1>4
    <3>2. QED
      BY <1>0, <3>1 DEF BeforeCall
  <2>5. T!Settled(t)
    BY <1>1, <2>2, <2>3, <2>4 DEF OrderKept
  <2>6. state[t] \notin {"none", "pending"}
    BY <1>0, <2>1, <2>3, <2>5 DEF Births, Born, T!Settled
  <2>7. fut'[t] = fut[t] /\ state'[t] # "pending"
    BY <2>5, <2>6, SettledStays
  <2>8. i <= Len(Line')
    BY <1>1, <1>2, <2>2
  <2>9. QED
    BY <2>1, <2>3, <2>7, <2>8
<1>5. QED
  BY <1>3, <1>4

LEMMA CollectedStep ==
  ASSUME GatherInv, GatherInv', QueueSettled, QueueOnce, RaceWatched, OrderKept,
         HandedOut, call.op \in {"first", "any"}, [Next]_vars
  PROVE  HandedOut'
<1>0. /\ TypeOK /\ TypeOK' /\ TaskTypes /\ call' = call /\ call.op \in Races /\ Births
      /\ results \in Seq(Results) /\ Line \in Seq(Tasks)
  BY TypeParts, LineType, SameProgram DEF GatherInv, program, Races
<1>1. /\ Len(results) \in Nat /\ Len(Line) \in Nat /\ DOMAIN Line = 1 .. Len(Line)
      /\ DOMAIN results = 1 .. Len(results)
  BY <1>0, LenProperties
<1>n. call.n \in Nat \ {0} /\ (call.op = "first" => call.n = 1)
  <2>1. /\ call.n \in Tasks /\ Tasks = 1 .. Cardinality(Tasks) /\ Cardinality(Tasks) \in Nat
        /\ call.op = "first" => call.n = 1
    BY <1>0, CallFacts DEF TypeOK
  <2>2. QED
    BY <2>1
<1>2. ASSUME UNCHANGED results, Len(Line) <= Len(Line'), Len(Line') \in Nat,
             \A k \in 1 .. Len(Line) : Line'[k] = Line[k]
      PROVE  HandedOut'
  BY <1>0, <1>2, CollectedStays DEF HandedOut
<1>3. CASE Elsewhere
  BY <1>1, <1>2, <1>3 DEF Elsewhere
<1>4. CASE Called
  <2>0. PICK t : t = Head(queue)[2]
    OBVIOUS
  <2>1. /\ t \in Tasks /\ t \in Items /\ T!Settled(t)
        /\ 1 \in DOMAIN queue /\ queue[1] = <<"race", t>> /\ RaceQueued(t)
        /\ Line' = Line /\ Collect(t) /\ ~Complete
    BY <1>0, <1>4, <2>0, CalledMoves DEF Called
  <2>2. /\ fut' = fut /\ T!Gathered(t)
        /\ results' = Append(results, Has(t, Outcome(t)))
    BY <2>1 DEF Collect, T!Gathered, T!Say
  <2>a. phase # "before"
    BY <2>1 DEF GatherInv, BeforeCall
  <2> DEFINE n == Len(results)
             x == Has(t, Outcome(t))
  <2>3. n + 1 \in DOMAIN Line /\ Line[n + 1] = t
    BY <1>0, <2>1, <2>a, FirstSettled
  <2>4. /\ Len(results') = n + 1 /\ DOMAIN results' = 1 .. n + 1
        /\ \A i \in 1 .. n : results'[i] = results[i]
        /\ results'[n + 1] = x
    <3>1. x \in Results
      BY <2>1 DEF Has, Outcome, Results
    <3> HIDE DEF x
    <3>2. /\ Append(results, x) \in Seq(Results) /\ Len(Append(results, x)) = n + 1
          /\ \A i \in 1 .. n : Append(results, x)[i] = results[i]
          /\ Append(results, x)[n + 1] = x
      BY <1>0, <3>1, AppendProperties
    <3>3. results' = Append(results, x)
      BY <2>2 DEF x
    <3>4. QED
      BY <3>2, <3>3, LenProperties
  <2>5. /\ x.of = t /\ x.is # "timeout"
        /\ (x.is = "value") = (fut[t] = "value")
    BY DEF Has, Outcome
  <2>6. state'[t] # "pending"
    BY <1>0, <2>1, <2>2 DEF T!Gathered, T!Say, T!GatheredState, T!ReadState, T!Unsuccessful, TaskTypes
  <2> HIDE DEF x, n
  <2>7. \A i \in DOMAIN results :
          results[i].is # "timeout" =>
            /\ i <= Len(Line) /\ results[i].of = Line[i]
            /\ (results[i].is = "value") = (fut'[Line[i]] = "value")
            /\ state'[Line[i]] # "pending"
    <3>1. \A i \in DOMAIN results :
            results[i].is # "timeout" => i \in DOMAIN Line /\ results[i].of = Line[i]
      BY <1>0, <1>1 DEF HandedOut
    <3>2. ASSUME NEW i \in DOMAIN results, results[i].is # "timeout"
          PROVE  /\ i <= Len(Line) /\ results[i].of = Line[i]
                 /\ (results[i].is = "value") = (fut'[Line[i]] = "value")
                 /\ state'[Line[i]] # "pending"
      <4>1. /\ i <= Len(Line) /\ results[i].of = Line[i]
            /\ (results[i].is = "value") = (fut[Line[i]] = "value")
            /\ state[Line[i]] # "pending"
        BY <1>0, <3>2 DEF HandedOut
      <4>2. PICK u \in Tasks : u = Line[i] /\ \E k \in DOMAIN Line : Line[k] = u
        BY <1>0, <3>1, <3>2, <1>1, ElementOfSeq
      <4>3. T!Settled(u)
        BY <2>a, <4>2 DEF OrderKept
      <4>4. state[u] \notin {"none", "pending"}
        BY <1>0, <4>1, <4>2, <4>3 DEF Births, Born, T!Settled
      <4>5. state'[u] # "pending"
        BY <4>4, SettledStays
      <4>6. QED
        BY <2>2, <4>1, <4>2, <4>5
    <3>3. QED
      BY <3>2
  <2>8. n < call.n
    BY <1>n, <1>0, <1>1, <2>1 DEF Complete, Decides, n
  <2>9. \A i \in 1 .. n + 1 :
          results'[i].is # "timeout" =>
            /\ i <= Len(Line) /\ results'[i].of = Line[i]
            /\ (results'[i].is = "value") = (fut'[Line[i]] = "value")
            /\ state'[Line[i]] # "pending"
    <3>1. \A i \in 1 .. n + 1 : i = n + 1 \/ (i \in 1 .. n /\ i \in DOMAIN results)
      BY <1>1 DEF n
    <3>2. n + 1 <= Len(Line)
      BY <1>1, <2>3
    <3>3. QED
      BY <2>2, <2>3, <2>4, <2>5, <2>6, <2>7, <3>1, <3>2
  <2>10. n + 1 <= call.n
    BY <1>n, <1>1, <2>8 DEF n
  <2>11. QED
    BY <1>0, <2>1, <2>4, <2>9, <2>10 DEF HandedOut
<1>5. CASE Expires
  <2>1. call.op = "first" /\ results' = <<Has(0, "timeout")>>
    BY <1>5 DEF Expires, RunCallback
  <2>2. \A i \in DOMAIN results' : results'[i].is = "timeout"
    BY <2>1 DEF Has
  <2>3. Len(results') = 1
    BY <2>1
  <2>4. QED
    BY <1>0, <1>n, <2>1, <2>2, <2>3 DEF HandedOut
<1>6. CASE BeginRace
  <2>1. results' = <<>>
    BY <1>6, BeganRace
  <2>2. Len(results') = 0 /\ DOMAIN results' = {}
    BY <2>1
  <2>3. QED
    BY <1>0, <1>n, <2>2 DEF HandedOut
<1>7. ASSUME NEW t \in Tasks, FiberEnds(t) \/ IoSettles(t) PROVE HandedOut'
  <2>1. results' = results /\ (Line' = Line \/ Line' = Append(Line, t))
    BY <1>7, Settled1, LineGrows
  <2>2. /\ Append(Line, t) \in Seq(Tasks) /\ Len(Append(Line, t)) = Len(Line) + 1
        /\ \A k \in 1 .. Len(Line) : Append(Line, t)[k] = Line[k]
    BY <1>0, AppendProperties
  <2>3. QED
    BY <1>1, <1>2, <2>1, <2>2
<1>8. CASE BeginShortCircuit
  BY <1>8 DEF BeginShortCircuit
<1>9. QED
  BY <1>0, <1>3, <1>4, <1>5, <1>6, <1>7, <1>8, RaceMoves

(* Sets of items are finite.                                               *)
LEMMA ItemsFinite ==
  ASSUME TypeOK
  PROVE  /\ IsFiniteSet(Items) /\ Cardinality(Items) = call.len
         /\ \A S \in SUBSET Items : /\ IsFiniteSet(S) /\ Cardinality(S) \in Nat
                                    /\ Cardinality(S) <= call.len
                                    /\ Cardinality(S) = call.len => S = Items
<1>1. Items = 1 .. call.len /\ call.len \in Nat
  BY CallFacts DEF TypeOK
<1>2. IsFiniteSet(Items) /\ Cardinality(Items) = call.len
  BY <1>1, FS_Interval
<1>3. ASSUME NEW S \in SUBSET Items
      PROVE  /\ IsFiniteSet(S) /\ Cardinality(S) \in Nat /\ Cardinality(S) <= call.len
             /\ Cardinality(S) = call.len => S = Items
  <2>1. IsFiniteSet(S) /\ Cardinality(S) <= Cardinality(Items)
        /\ (Cardinality(Items) = Cardinality(S) => S = Items)
    BY <1>2, <1>3, FS_Subset
  <2>2. Cardinality(S) \in Nat
    BY <2>1, FS_CardinalityType
  <2>3. QED
    BY <1>2, <2>1, <2>2
<1>4. QED
  BY <1>2, <1>3

(* A callback of a short circuit: the item is over, and the next one is in *)
(* flight in its place, or none.                                           *)
LEMMA ShortMoves ==
  ASSUME GatherInv, QueueSettled, QueueOnce, Called, call.op = "every", [Next]_vars,
         NEW t, t = Head(queue)[2]
  PROVE  /\ t \in Items /\ T!Settled(t) /\ t \in Unprocessed /\ t \notin Processed
         /\ \E s \in Items :
              \/ Unprocessed' = Unprocessed \ {t}
              \/ s # t /\ Unprocessed' = (Unprocessed \ {t}) \cup {s}
         /\ Processed' = Processed \cup {t}
         /\ \A u \in Processed' : fut'[u] = fut[u]
         /\ pSettled' = pSettled + 1
<1>0. TypeOK /\ Births /\ TaskTypes /\ Items' = Items /\ Items \subseteq Tasks
  BY TypeParts, CallFacts, SameProgram DEF GatherInv, TypeOK, program, Items
<1>1. /\ t \in Tasks /\ t \in Items /\ T!Settled(t) /\ RaceQueued(t)
      /\ ShortCircuit(t) /\ ~RaceQueued(t)'
      /\ \A u \in Tasks : u # t => (RaceQueued(u)' <=> RaceQueued(u))
  BY CalledMoves
<1>2. t \in Unprocessed /\ t \notin Processed
  BY <1>1 DEF Unprocessed, Processed
<1>3. pSettled' = pSettled + 1
  BY <1>1 DEF ShortCircuit
<1>4. CASE UNCHANGED tasks
  <2>1. fut' = fut
    BY <1>4 DEF tasks
  <2>2. Unprocessed' = Unprocessed \ {t}
    BY <1>0, <1>1, <2>1 DEF Unprocessed, T!Settled
  <2>3. Processed' = Processed \cup {t}
    BY <1>0, <1>1, <2>1 DEF Processed, T!Settled
  <2>4. QED
    BY <1>1, <1>2, <1>3, <2>1, <2>2, <2>3
<1>5. CASE pSpawn < call.len /\ T!Spawn({pSpawn + 1})
  <2>1. PICK s \in Items : T!Spawn({s})
    BY <1>0, <1>5, NextItem
  <2>2. /\ fut[s] = "idle" /\ fut'[s] = "pending" /\ s # t
        /\ \A u \in Tasks : u # s => fut'[u] = fut[u]
    BY <1>0, <1>1, <2>1 DEF T!Spawn, Births, Born, T!Settled
  <2>3. Unprocessed' = (Unprocessed \ {t}) \cup {s}
    BY <1>0, <1>1, <2>2 DEF Unprocessed, T!Settled
  <2>4. Processed' = Processed \cup {t}
    BY <1>0, <1>1, <2>2 DEF Processed, T!Settled
  <2>5. \A u \in Processed' : fut'[u] = fut[u]
    BY <1>0, <2>2 DEF Processed, T!Settled
  <2>6. QED
    BY <1>1, <1>2, <1>3, <2>2, <2>3, <2>4, <2>5
<1>6. QED
  BY <1>1, <1>4, <1>5 DEF ShortCircuit, Spawns

LEMMA EveryKeptStep ==
  ASSUME GatherInv, QueueSettled, QueueOnce, RaceWatched, EveryKept, call.op = "every", [Next]_vars
  PROVE  EveryKept' /\ pSettled' \in 0 .. Cardinality(Tasks)
<1>0. /\ TypeOK /\ Births /\ BeforeCall /\ TaskTypes /\ call' = call /\ hits' = hits
      /\ Items' = Items /\ Items \subseteq Tasks
      /\ call.op \in Races /\ call.op \notin {"first", "any"}
      /\ pSettled \in 0 .. Cardinality(Tasks) /\ Cardinality(Tasks) \in Nat
      /\ call.n \in Nat /\ call.len \in 0 .. Cardinality(Tasks)
  BY TypeParts, CallFacts, TasksAreNumbers, SameProgram
     DEF GatherInv, TypeOK, program, Items, Races
<1>1. /\ Cardinality(Unprocessed) <= call.n
      /\ Len(results) <= 1
      /\ results = <<>> => /\ Cardinality(Processed) = pSettled
                           /\ \A t \in Processed : t \in hits => fut[t] # "value"
      /\ Complete <=> results # <<>>
  BY DEF EveryKept, Complete, Decides
<1>2. Unprocessed \in SUBSET Items /\ Processed \in SUBSET Items
  BY DEF Unprocessed, Processed
<1>3. /\ IsFiniteSet(Unprocessed) /\ Cardinality(Unprocessed) \in Nat
      /\ IsFiniteSet(Processed) /\ Cardinality(Processed) \in Nat
  BY <1>0, <1>2, ItemsFinite
<1>4. ASSUME UNCHANGED <<results, pSettled>>, Unprocessed' \subseteq Unprocessed,
             results = <<>> => /\ Processed' = Processed
                               /\ \A t \in Processed : fut'[t] = fut[t]
      PROVE  EveryKept' /\ pSettled' \in 0 .. Cardinality(Tasks)
  <2>1. Cardinality(Unprocessed') <= Cardinality(Unprocessed) /\ IsFiniteSet(Unprocessed')
    BY <1>3, <1>4, FS_Subset
  <2>2. Cardinality(Unprocessed') \in Nat
    BY <2>1, FS_CardinalityType
  <2>3. Cardinality(Unprocessed') <= call.n
    BY <1>0, <1>1, <1>3, <2>1, <2>2
  <2>4. QED
    BY <1>0, <1>1, <1>4, <2>3 DEF EveryKept
<1>5. CASE Elsewhere
  <2>1. PICK d \in {0, 1} : Shifts(d)
    BY <1>5 DEF Elsewhere
  <2>2. \A u \in Tasks : RaceQueued(u)' => RaceQueued(u)
    BY <2>1 DEF Shifts, RaceQueued
  <2>3. fut' = fut
    BY <1>5 DEF Elsewhere
  <2>4. Unprocessed' \subseteq Unprocessed
    BY <1>0, <2>2, <2>3 DEF Unprocessed
  <2>5. ASSUME results = <<>> PROVE Processed' = Processed
    <3>1. \A u \in Tasks : RaceQueued(u)' <=> RaceQueued(u)
      BY <1>1, <1>5, <2>2, <2>5 DEF Elsewhere
    <3>2. QED
      BY <1>0, <2>3, <3>1 DEF Processed, T!Settled
  <2>6. QED
    BY <1>4, <1>5, <2>3, <2>4, <2>5 DEF Elsewhere
<1>6. CASE Called
  <2>0. PICK t : t = Head(queue)[2]
    OBVIOUS
  <2>1. /\ t \in Items /\ t \in Unprocessed /\ t \notin Processed
        /\ \E s \in Items :
             \/ Unprocessed' = Unprocessed \ {t}
             \/ s # t /\ Unprocessed' = (Unprocessed \ {t}) \cup {s}
        /\ Processed' = Processed \cup {t}
        /\ \A u \in Processed' : fut'[u] = fut[u]
        /\ pSettled' = pSettled + 1
    BY <1>6, <2>0, ShortMoves
  <2>2. ShortCircuit(t) /\ results = <<>>
    BY <1>0, <1>1, <1>6, <2>0, CalledMoves DEF Called
  <2>3. Cardinality(Unprocessed') <= call.n
    <3>1. IsFiniteSet(Unprocessed \ {t}) /\ Cardinality(Unprocessed \ {t}) = Cardinality(Unprocessed) - 1
      BY <1>3, <2>1, FS_RemoveElement
    <3>2. CASE Unprocessed' = Unprocessed \ {t}
      BY <1>0, <1>1, <1>3, <3>1, <3>2
    <3>3. ASSUME NEW s, Unprocessed' = (Unprocessed \ {t}) \cup {s}
          PROVE  Cardinality(Unprocessed') <= call.n
      <4> DEFINE R == Unprocessed \ {t}
      <4>0. \/ Cardinality(R \cup {s}) = Cardinality(R)
            \/ Cardinality(R \cup {s}) = Cardinality(R) + 1
        <5> HIDE DEF R
        <5>1. IsFiniteSet(R)
          BY <3>1 DEF R
        <5>2. QED
          BY <5>1, FS_AddElement
      <4>1. \/ Cardinality(Unprocessed') = Cardinality(Unprocessed) - 1
            \/ Cardinality(Unprocessed') = Cardinality(Unprocessed) - 1 + 1
        BY <3>1, <3>3, <4>0
      <4>2. Cardinality(Unprocessed) \in Nat /\ Cardinality(Unprocessed) <= call.n /\ call.n \in Nat
        BY <1>0, <1>1, <1>3
      <4>3. QED
        BY <4>1, <4>2
    <3>4. QED
      BY <2>1, <3>2, <3>3
  <2>4. Cardinality(Processed') = Cardinality(Processed) + 1
    BY <1>3, <2>1, FS_AddElement
  <2>5. Cardinality(Processed') = pSettled'
    BY <1>1, <2>1, <2>2, <2>4
  <2>6. pSettled' \in 0 .. Cardinality(Tasks)
    <3>1. Processed' \in SUBSET Items
      BY <1>2, <2>1
    <3>2. Cardinality(Processed') \in Nat /\ Cardinality(Processed') <= call.len
      BY <1>0, <3>1, ItemsFinite
    <3>3. QED
      BY <1>0, <2>5, <3>2
  <2>7. Len(results') <= 1
    <3>1. results' = <<>> \/ results' = <<Has(t, "hit")>> \/ results' = <<Has(t, "default")>>
      BY <2>2 DEF ShortCircuit
    <3>2. CASE results' = <<>>
      BY <3>2
    <3>3. ASSUME NEW x, results' = <<x>> PROVE Len(results') <= 1
      BY <3>3
    <3>4. QED
      BY <3>1, <3>2, <3>3
  <2>8. ASSUME results' = <<>> PROVE \A u \in Processed' : u \in hits => fut'[u] # "value"
    <3>1. ~(fut[t] = "value" /\ t \in hits)
      BY <2>2, <2>8 DEF ShortCircuit
    <3>2. QED
      BY <1>1, <2>1, <2>2, <3>1
  <2>9. QED
    BY <1>0, <2>3, <2>5, <2>6, <2>7, <2>8 DEF EveryKept
<1>7. ASSUME NEW t \in Tasks, FiberEnds(t) \/ IoSettles(t)
      PROVE  EveryKept' /\ pSettled' \in 0 .. Cardinality(Tasks)
  <2>1. /\ fut[t] = "pending" /\ fut'[t] \in {"value", "error"}
        /\ \A u \in Tasks : u # t => fut'[u] = fut[u]
        /\ t \in Items /\ UNCHANGED <<results, pSettled>>
    BY <1>7, Settled1
  <2>2. phase # "before"
    BY <1>0, <2>1 DEF BeforeCall, Iterators, Births
  <2>3. /\ ~RaceQueued(t) /\ RaceQueued(t)'
        /\ \A u \in Tasks : u # t => (RaceQueued(u)' <=> RaceQueued(u))
    BY <1>0, <1>7, <2>2, SettlesQueue
  <2>4. Unprocessed' = Unprocessed
    BY <1>0, <2>1, <2>3 DEF Unprocessed
  <2>5. Processed' = Processed /\ \A u \in Processed : fut'[u] = fut[u]
    BY <1>0, <2>1, <2>3 DEF Processed, T!Settled
  <2>6. QED
    BY <1>4, <2>1, <2>4, <2>5
<1>8. CASE BeginShortCircuit
  <2>1. /\ UNCHANGED <<results, pSettled, queue>> /\ results = <<>> /\ pSettled = 0
        /\ T!Spawn(InitialWindow)
        /\ \A i \in DOMAIN queue : queue[i][1] # "race"
        /\ \A t \in Tasks : fut[t] = "idle"
    BY <1>8, BeganShort
  <2>2. \A t \in Tasks : ~RaceQueued(t)'
    BY <2>1 DEF RaceQueued
  <2>3. /\ \A t \in Tasks : t \in InitialWindow => fut'[t] = "pending"
        /\ \A t \in Tasks : t \notin InitialWindow => fut'[t] = "idle"
    BY <2>1 DEF T!Spawn
  <2> DEFINE m == IF call.n < call.len THEN call.n ELSE call.len
  <2>4. InitialWindow = 1 .. m /\ m \in Nat /\ m <= call.n /\ m <= call.len /\ Items = 1 .. call.len
    BY <1>0 DEF InitialWindow, Items
  <2> HIDE DEF m
  <2>5. InitialWindow \subseteq Items
    BY <1>0, <2>4
  <2>6. Unprocessed' = InitialWindow
    BY <1>0, <2>2, <2>3, <2>5 DEF Unprocessed
  <2>7. Cardinality(Unprocessed') <= call.n
    <3>1. Cardinality(1 .. m) = m
      BY <2>4, FS_Interval
    <3>2. QED
      BY <2>4, <2>6, <3>1
  <2>8. Processed' = {}
    BY <1>0, <2>2, <2>3 DEF Processed, T!Settled
  <2>9. Cardinality(Processed') = 0
    BY <2>8, FS_EmptySet
  <2>10. QED
    BY <1>0, <1>1, <2>1, <2>7, <2>8, <2>9 DEF EveryKept
<1>9. CASE Expires \/ BeginRace
  BY <1>0, <1>9 DEF Expires, BeginRace
<1>10. QED
  BY <1>0, <1>5, <1>6, <1>7, <1>8, <1>9, RaceMoves

(* The answers of a short circuit stay justified.                          *)
LEMMA ShortCircuitStep ==
  ASSUME GatherInv, QueueSettled, QueueOnce, EveryKept, ShortCircuitSound, call.op = "every",
         [Next]_vars
  PROVE  ShortCircuitSound'
<1>0. /\ TypeOK /\ TaskTypes /\ call' = call /\ hits' = hits /\ hits \subseteq Tasks
      /\ Items' = Items /\ Items \subseteq Tasks /\ call.op \in Races
      /\ call.len \in Nat /\ pSettled \in Nat
  BY TypeParts, CallFacts, TasksAreNumbers, SameProgram
     DEF GatherInv, TypeOK, program, Items, Races
<1>1. \A i \in DOMAIN results :
        IF results[i].is = "hit"
        THEN \E t \in hits : fut[t] = "value"
        ELSE \A t \in Items : T!Settled(t) /\ (t \in hits => fut[t] = "error")
  BY DEF ShortCircuitSound
<1>2. \A t \in Tasks : T!Settled(t) => fut'[t] = fut[t]
  BY SettledStays
<1>3. CASE results' = results
  <2>1. ASSUME NEW i \in DOMAIN results
        PROVE  IF results[i].is = "hit"
               THEN \E t \in hits : fut'[t] = "value"
               ELSE \A t \in Items : fut'[t] \in {"value", "error"} /\ (t \in hits => fut'[t] = "error")
    BY <1>0, <1>1, <1>2 DEF T!Settled
  <2>2. QED
    BY <1>0, <1>3, <2>1 DEF ShortCircuitSound, T!Settled
<1>4. CASE Called
  <2>0. PICK t : t = Head(queue)[2]
    OBVIOUS
  <2>1. /\ t \in Items /\ T!Settled(t) /\ Processed' = Processed \cup {t}
        /\ \A u \in Processed' : fut'[u] = fut[u]
        /\ t \notin Processed /\ pSettled' = pSettled + 1
    BY <1>4, <2>0, ShortMoves
  <2>2. ShortCircuit(t) /\ results = <<>>
    BY <1>0, <1>4, <2>0, CalledMoves DEF Called, Complete, Decides
  <2>3. CASE fut[t] = "value" /\ t \in hits /\ results' = <<Has(t, "hit")>>
    <3>1. \A i \in DOMAIN results' : results'[i].is = "hit"
      BY <2>3 DEF Has
    <3>2. \E u \in hits : fut'[u] = "value"
      BY <1>0, <1>2, <2>1, <2>3
    <3>3. QED
      BY <1>0, <3>1, <3>2 DEF ShortCircuitSound
  <2>4. CASE ~(fut[t] = "value" /\ t \in hits) /\ AllSettled
    <3>1. /\ Processed \in SUBSET Items /\ Cardinality(Processed) = pSettled
          /\ \A u \in Processed : u \in hits => fut[u] # "value"
      BY <2>2 DEF EveryKept, Processed
    <3>2. Cardinality(Processed') = pSettled + 1 /\ Processed' \in SUBSET Items
      <4>1. IsFiniteSet(Processed)
        BY <1>0, <3>1, ItemsFinite
      <4>2. QED
        BY <2>1, <3>1, <4>1, FS_AddElement
    <3>3. Cardinality(Processed') = call.len
      <4>1. Cardinality(Processed') <= call.len
        BY <1>0, <3>2, ItemsFinite
      <4>2. QED
        BY <1>0, <2>4, <3>2, <4>1 DEF AllSettled
    <3>4. Processed' = Items
      BY <1>0, <3>2, <3>3, ItemsFinite
    <3>5. \A u \in Items : T!Settled(u)' /\ (u \in hits => fut'[u] = "error")
      <4>1. \A u \in Items : T!Settled(u)'
        BY <3>4 DEF Processed
      <4>2. \A u \in Items : u \in hits => fut'[u] # "value"
        BY <2>1, <2>4, <3>1, <3>4
      <4>3. QED
        BY <4>1, <4>2 DEF T!Settled
    <3>6. \A i \in DOMAIN results' : results'[i].is = "default"
      <4>1. results' = <<>> \/ results' = <<Has(t, "default")>>
        BY <2>2, <2>4 DEF ShortCircuit
      <4>2. QED
        BY <4>1 DEF Has
    <3>7. QED
      BY <1>0, <3>5, <3>6 DEF ShortCircuitSound
  <2>5. QED
    BY <1>3, <2>2, <2>3, <2>4 DEF ShortCircuit
<1>5. CASE Expires \/ BeginRace
  BY <1>0, <1>5 DEF Expires, BeginRace
<1>6. QED
  BY <1>0, <1>3, <1>4, <1>5, RaceMoves, BeganShort, Settled1 DEF Elsewhere

-----------------------------------------------------------------------------
(* The calls that are no races.                                            *)
LEMMA NoRaceStep ==
  ASSUME GatherInv, NoRace, call.op \notin Races, [Next]_vars
  PROVE  NoRace'
<1>0. /\ TypeOK /\ DispatcherTypes /\ CallerPlaces /\ QueueNamed /\ call' = call
      /\ watchers \in [Tasks -> Seq(Whats)] /\ queue \in Seq(Entries)
  BY TypeParts, SameProgram DEF GatherInv, DispatcherTypes, program
<1>1. /\ \A t \in Tasks : ~HasRace(watchers[t])
      /\ \A i \in DOMAIN queue : queue[i][1] # "race"
  BY DEF NoRace
<1>2. call.op # "every" /\ call.op \notin {"first", "any"}
  BY DEF Races
<1>3. ~HasRace(<<>>) /\ ~HasRace(<<"limit">>)
  <2>1. DOMAIN <<>> = {} /\ DOMAIN <<"limit">> = {1} /\ <<"limit">>[1] = "limit"
    OBVIOUS
  <2>2. QED
    BY <2>1 DEF HasRace
<1>4. ASSUME NEW t \in Tasks, NEW what \in Whats \ {"race"}
      PROVE  ~HasRace(Append(watchers[t], what))
  BY <1>0, <1>1, OneMore
<1>5. ASSUME NEW t \in Tasks, NEW what \in Whats \ {"race"}, AddCallback(t, what)
      PROVE  \A u \in Tasks : ~HasRace(watchers'[u])
  BY <1>0, <1>1, <1>4, <1>5 DEF AddCallback
<1>a. "wake" \in Whats \ {"race"} /\ "other" \in Whats \ {"race"}
  BY DEF Whats
<1>6. ASSUME UNCHANGED watchers PROVE \A t \in Tasks : ~HasRace(watchers'[t])
  BY <1>1, <1>6
<1>7. ASSUME RunCallback PROVE \A t \in Tasks : ~HasRace(watchers'[t])
  <2>1. Head(queue)[1] # "race"
    BY <1>0, <1>1, <1>7, FirstEntry DEF RunCallback
  <2>2. QED
    BY <1>6, <1>7, <2>1 DEF RunCallback
<1>8. \A t \in Tasks : ~HasRace(watchers'[t])
  <2>1. ASSUME NEW t \in Tasks, FiberEnds(t) \/ IoSettles(t)
        PROVE  \A u \in Tasks : ~HasRace(watchers'[u])
    BY <1>0, <1>1, <1>3, <2>1 DEF FiberEnds, IoSettles, Fire
  <2>2. CASE ArmLimit
    <3>1. at \in Tasks
      BY <1>0, <2>2, AtItems DEF ArmLimit, InLoop
    <3>2. QED
      BY <1>0, <1>1, <1>3, <1>6, <2>2, <3>1 DEF ArmLimit
  <2>3. CASE AwaitItem
    <3>1. at \in Tasks
      BY <1>0, <2>3, AtItems DEF AwaitItem, AtItem, InLoop
    <3>2. QED
      BY <1>5, <1>6, <1>a, <2>3, <3>1 DEF AwaitItem
  <2>4. CASE OtherWaits
    BY <1>5, <1>a, <2>4, WatchedAssumption DEF OtherWaits
  <2>5. CASE BeginRace \/ BeginShortCircuit
    BY <1>2, <2>5 DEF BeginRace, BeginShortCircuit
  <2>6. CASE FillWindow
    BY <1>2, <1>6, <2>6 DEF FillWindow, Spawns
  <2>7. CASE Caller
    BY <1>6, <2>2, <2>3, <2>5, <2>6, <2>7 DEF Caller, ReturnsAtOnce, BeginLoop, Back, LimitEscapes,
       TimesOut, TakeItem, LoopReturns, AwaitWinner, WinnerEscapes, RaceReturns, dispatcher
  <2>8. QED
    BY <1>6, <1>7, <2>1, <2>4, <2>7 DEF Next, Turn, PollStart, MainGivesUp, TimerFires,
       OtherCancels, OtherReads, OtherBlames, CancelCaller, dispatcher, vars
<1>9. \A i \in DOMAIN queue' : queue'[i][1] # "race"
  <2>1. CASE UNCHANGED queue
    BY <1>1, <2>1
  <2>2. ASSUME NEW t \in Tasks, Fires(t) PROVE \A i \in DOMAIN queue' : queue'[i][1] # "race"
    <3> DEFINE n == Len(queue)
               w == watchers[t]
               m == Len(w)
    <3>1. /\ n \in Nat /\ m \in Nat /\ DOMAIN queue = 1 .. n /\ DOMAIN w = 1 .. m
          /\ \A i \in 1 .. n : queue'[i] = queue[i]
          /\ \A i \in 1 .. m : queue'[n + i] = <<w[i], t>>
          /\ \A j \in DOMAIN queue' : j \notin 1 .. n => \E i \in 1 .. m : j = n + i
      BY <1>0, <2>2, Fired
    <3>2. \A i \in DOMAIN w : w[i] # "race"
      BY <1>1 DEF HasRace
    <3> HIDE DEF n, m, w
    <3>3. ASSUME NEW j \in DOMAIN queue', j \notin 1 .. n PROVE queue'[j][1] # "race"
      <4>1. PICK i \in 1 .. m : j = n + i
        BY <3>1, <3>3
      <4>2. queue'[j] = <<w[i], t>>
        BY <3>1, <4>1
      <4>3. QED
        BY <3>1, <3>2, <4>2
    <3>4. QED
      BY <1>1, <3>1, <3>3
  <2>3. ASSUME NEW x \in Entries, queue' = Append(queue, x), x[1] # "race"
        PROVE  \A i \in DOMAIN queue' : queue'[i][1] # "race"
    <3> DEFINE n == Len(queue)
    <3>1. /\ n \in Nat /\ DOMAIN queue = 1 .. n /\ DOMAIN queue' = 1 .. n + 1
          /\ \A i \in 1 .. n : queue'[i] = queue[i]
          /\ queue'[n + 1] = x
      BY <1>0, <2>3, Enqueued
    <3> HIDE DEF n
    <3>2. \A i \in 1 .. n + 1 : i \in 1 .. n \/ i = n + 1
      BY <3>1
    <3>3. QED
      BY <1>1, <2>3, <3>1, <3>2
  <2>4. CASE RunCallback
    <3> DEFINE n == Len(queue)
    <3>1. polling /\ queue' = Tail(queue)
      BY <2>4 DEF RunCallback
    <3>2. /\ n \in Nat \ {0} /\ DOMAIN queue = 1 .. n /\ DOMAIN queue' = 1 .. n - 1
          /\ \A i \in 1 .. n - 1 : queue'[i] = queue[i + 1]
      BY <1>0, <3>1, Dequeued
    <3> HIDE DEF n
    <3>3. \A i \in 1 .. n - 1 : i + 1 \in 1 .. n
      BY <3>2
    <3>4. QED
      BY <1>1, <3>2, <3>3
  <2>5. CASE BeginRace
    BY <1>2, <2>5 DEF BeginRace
  <2>6. QED
    BY <1>0, <2>1, <2>2, <2>3, <2>4, <2>5, QueueMoves
<1>10. QED
  BY <1>0, <1>8, <1>9 DEF NoRace

(* What map does to its items, its results and its place in the block.     *)
LEMMA MapMoves ==
  ASSUME GatherInv, NoRace, call.op = "map", [Next]_vars
  PROVE  \/ /\ UNCHANGED <<results, at>>
            /\ \A t \in Tasks : fut'[t] = "idle" <=> fut[t] = "idle"
         \/ UNCHANGED <<results, at>> /\ T!Spawn(Window)
         \/ /\ \E outcome : Takes(outcome)
            /\ fut' = fut
<1>0. TypeOK /\ QueueNamed /\ CallerPlaces /\ BeforeCall /\ Births /\ call.op \notin Races
  BY DEF GatherInv, Races
<1>1. CASE RunCallback
  <2>1. Head(queue)[1] # "race"
    BY <1>0, <1>1, FirstEntry DEF RunCallback, NoRace
  <2>2. QED
    BY <1>1, <2>1 DEF RunCallback, tasks
<1>2. CASE PollStart \/ TimerFires \/ OtherWaits \/ CancelCaller \/ UNCHANGED vars
  BY <1>2 DEF PollStart, TimerFires, OtherWaits, CancelCaller, tasks, caller, vars
<1>3. CASE MainGivesUp
  BY <1>0, <1>3 DEF MainGivesUp, CallerPlaces, T!Blame, T!Say
<1>4. ASSUME NEW t \in Tasks, FiberEnds(t) \/ IoSettles(t)
      PROVE  UNCHANGED <<results, at>> /\ \A u \in Tasks : fut'[u] = "idle" <=> fut[u] = "idle"
  <2>1. UNCHANGED <<results, at>>
    BY <1>4 DEF FiberEnds, IoSettles, caller
  <2>2. QED
    BY <1>4, <2>1, Settled1
<1>5. ASSUME NEW t \in Tasks, OtherCancels(t) PROVE UNCHANGED <<results, at, fut>>
  BY <1>5 DEF OtherCancels, T!Cancel, caller
<1>6. CASE OtherReads \/ OtherBlames
  BY <1>6 DEF OtherReads, OtherBlames, T!Read, T!Blame, T!Say, caller
<1>7. CASE Caller
  <2>1. CASE ReturnsAtOnce \/ BeginLoop \/ Back \/ ArmLimit \/ LimitEscapes \/ AwaitItem \/ LoopReturns
    BY <2>1 DEF ReturnsAtOnce, BeginLoop, Back, ArmLimit, LimitEscapes, AwaitItem, LoopReturns, tasks
  <2>2. CASE FillWindow
    BY <2>2 DEF FillWindow, Spawns, caller
  <2>3. CASE TimesOut
    BY <2>3 DEF TimesOut, tasks
  <2>4. CASE TakeItem
    BY <2>4 DEF TakeItem, T!Blame, T!Read, T!Gathered, T!Say
  <2>5. QED
    BY <1>0, <1>7, <2>1, <2>2, <2>3, <2>4 DEF Caller, BeginRace, BeginShortCircuit, AwaitWinner,
       WinnerEscapes, RaceReturns
<1>8. QED
  BY <1>1, <1>2, <1>3, <1>4, <1>5, <1>6, <1>7 DEF Next, Turn

LEMMA MapKeptStep ==
  ASSUME GatherInv, NoRace, MapKept, call.op = "map", [Next]_vars
  PROVE  MapKept'
<1>0. /\ TypeOK /\ Births /\ Births' /\ call' = call /\ results \in Seq(Results)
      /\ Tasks \subseteq Nat /\ call.n \in Nat /\ at \in Nat /\ TaskTypes /\ Items \subseteq Tasks
  <2>1. TypeOK /\ Births /\ Births' /\ call' = call /\ results \in Seq(Results) /\ TaskTypes
    BY TypeParts, BirthsStep, SameProgram DEF GatherInv, program
  <2>2. at \in 1 .. Cardinality(Tasks) + 1 /\ Cardinality(Tasks) \in Nat /\ Tasks \subseteq Nat
    BY <2>1, TasksAreNumbers DEF TypeOK
  <2>3. call.n \in Tasks /\ Items \subseteq Tasks
    BY <2>1, CallFacts DEF TypeOK
  <2>4. call.n \in Nat /\ at \in Nat
    <3>1. call.n \in Nat
      BY <2>2, <2>3
    <3> DEFINE m == Cardinality(Tasks)
    <3>2. m \in Nat /\ at \in 1 .. m + 1
      BY <2>2
    <3> HIDE DEF m
    <3>3. at \in Nat
      BY <3>2
    <3>4. QED
      BY <3>1, <3>3
  <2>5. QED
    BY <2>1, <2>2, <2>3, <2>4
<1>1. /\ \A t \in Tasks : fut[t] # "idle" => t < at + call.n
      /\ \A t \in 1 .. at - 1 : \E i \in DOMAIN results : results[i].of = t
  BY <1>0 DEF MapKept, Births
<1>2. ASSUME /\ \A t \in Tasks : fut'[t] # "idle" => t < at' + call.n
             /\ \A t \in 1 .. at' - 1 : \E i \in DOMAIN results' : results'[i].of = t
      PROVE  MapKept'
  BY <1>0, <1>2 DEF MapKept, Births
<1>3. CASE UNCHANGED <<results, at>> /\ \A t \in Tasks : fut'[t] = "idle" <=> fut[t] = "idle"
  BY <1>1, <1>2, <1>3
<1>4. CASE UNCHANGED <<results, at>> /\ T!Spawn(Window)
  <2>1. \A t \in Tasks : fut'[t] # "idle" => fut[t] # "idle" \/ t \in Window
    BY <1>0, <1>4 DEF T!Spawn
  <2>2. \A t \in Window : t < at + call.n
    BY <1>0 DEF Window
  <2>3. QED
    BY <1>1, <1>2, <1>4, <2>1, <2>2
<1>5. ASSUME NEW outcome, Takes(outcome), fut' = fut PROVE MapKept'
  <2> DEFINE x == Has(at, outcome)
             n == Len(results)
  <2>1. results' = Append(results, x) /\ at' = at + 1 /\ x.of = at
    BY <1>5 DEF Takes, Has
  <2> HIDE DEF x
  <2>2. n \in Nat /\ DOMAIN results = 1 .. n
    BY <1>0, LenProperties
  <2>3. /\ DOMAIN results' = 1 .. n + 1
        /\ \A i \in 1 .. n : results'[i] = results[i]
        /\ results'[n + 1] = x
    <3> DEFINE R == Results \cup {x}
    <3>1. results \in Seq(R) /\ x \in R
      <4>1. results \in [1 .. n -> R]
        BY <1>0, <2>2, ElementOfSeq, SeqDef
      <4>2. QED
        BY <2>2, <4>1, SeqDef
    <3> HIDE DEF R
    <3>2. /\ Append(results, x) \in Seq(R) /\ Len(Append(results, x)) = n + 1
          /\ \A i \in 1 .. n : Append(results, x)[i] = results[i]
          /\ Append(results, x)[n + 1] = x
      BY <3>1, AppendProperties
    <3>3. QED
      BY <2>1, <3>2, LenProperties
  <2> HIDE DEF n
  <2>4. \A t \in Tasks : fut'[t] # "idle" => t < at' + call.n
    <3>1. \A t \in Tasks : t < at + call.n => t < at + 1 + call.n
      BY <1>0
    <3>2. QED
      BY <1>1, <1>5, <2>1, <3>1
  <2>5. \A t \in 1 .. at' - 1 : \E i \in DOMAIN results' : results'[i].of = t
    <3>1. \A t \in 1 .. at' - 1 : t \in 1 .. at - 1 \/ t = at
      BY <1>0, <2>1
    <3>2. \A i \in 1 .. n : i \in 1 .. n + 1
      BY <2>2
    <3>3. n + 1 \in 1 .. n + 1
      BY <2>2
    <3>4. QED
      BY <1>1, <2>1, <2>2, <2>3, <3>1, <3>2, <3>3
  <2>6. QED
    BY <1>2, <2>4, <2>5
<1>6. QED
  BY <1>3, <1>4, <1>5, MapMoves

-----------------------------------------------------------------------------
(* What an iterator gives up.                                              *)

(* A limit is for wait.                                                    *)
LEMMA NoLimit ==
  ASSUME TypeOK, call.op \in Iterators, limit = "idle", [Next]_vars
  PROVE  limit' = "idle" /\ ~TimesOut
<1>1. ~call.timeout
  BY DEF TypeOK, Calls, Iterators
<1>2. CASE Caller
  BY <1>1, <1>2 DEF Caller, ReturnsAtOnce, BeginLoop, BeginRace, BeginShortCircuit, Back,
     FillWindow, ArmLimit, LimitEscapes, TimesOut, TakeItem, AwaitItem, Takes, LoopReturns,
     AwaitWinner, WinnerEscapes, RaceReturns, caller
<1>3. CASE Turn \/ TimerFires
  <2>1. CASE PollStart \/ TimerFires
    BY <2>1 DEF PollStart, TimerFires, TimesOut, caller
  <2>2. CASE RunCallback
    <3>1. ASSUME NEW i, NEW answer, LimitBecomes(i, answer)
          PROVE  limit' = limit
      BY <3>1 DEF LimitBecomes
    <3>2. QED
      BY <2>2, <3>1 DEF RunCallback, TimesOut
  <2>3. CASE MainGivesUp
    BY <2>3 DEF MainGivesUp, Takes, TimesOut
  <2>4. QED
    BY <1>3, <2>1, <2>2, <2>3 DEF Turn
<1>4. limit' = "idle"
  BY <1>2, <1>3 DEF Next, FiberEnds, IoSettles, OtherCancels, OtherWaits, OtherReads, OtherBlames,
     CancelCaller, caller, vars
<1>5. QED
  BY <1>4 DEF TimesOut

LEMMA IteratorResults ==
  ASSUME GatherInv, QueueSettled, QueueOnce, NoRace, GivenUpKept, call.op \in Iterators,
         [Next]_vars
  PROVE  \/ UNCHANGED results
         \/ \E t \in Tasks : \E o :
              /\ results' = Append(results, Has(t, o)) \/ results' = <<Has(t, o)>>
              /\ Excused(t)
<1>0. /\ TypeOK /\ QueueNamed /\ CallerPlaces /\ TaskTypes /\ ProgramTypes
      /\ \A t \in Tasks : kind[t] # "io"
      /\ call.op \notin {"wait", "first", "any"}
  BY TypeParts DEF GatherInv, GivenUpKept, Iterators
<1> DEFINE Taken == \E t \in Tasks : \E o :
                      /\ results' = Append(results, Has(t, o)) \/ results' = <<Has(t, o)>>
                      /\ Excused(t)
<1>1. CASE RunCallback
  <2>1. CASE Called
    <3>1. PICK t : t = Head(queue)[2]
      OBVIOUS
    <3>2. t \in Tasks /\ T!Settled(t)
          /\ IF call.op = "every" THEN ShortCircuit(t) ELSE Collect(t)
      BY <2>1, <3>1, CalledMoves
    <3>3. call.op = "every"
      <4>1. Head(queue)[1] = "race" /\ 1 \in DOMAIN queue /\ Head(queue) = queue[1]
        <5>1. DispatcherTypes /\ polling /\ queue' = Tail(queue)
          BY <1>0, <2>1, TypeParts DEF Called, RunCallback
        <5>2. Len(queue) \in Nat \ {0} /\ DOMAIN queue = 1 .. Len(queue) /\ Head(queue) = queue[1]
          BY <5>1, Dequeued
        <5>3. 1 \in DOMAIN queue
          BY <5>2
        <5>4. QED
          BY <2>1, <5>2, <5>3 DEF Called
      <4>2. QED
        BY <4>1 DEF NoRace, Races, Iterators
    <3>4. QED
      BY <3>2, <3>3 DEF ShortCircuit, Excused
  <2>2. CASE ~Called
    BY <1>0, <1>1, <2>2 DEF RunCallback, RaceCallback, MayStillAnswer, Called
  <2>3. QED
    BY <2>1, <2>2
<1>2. CASE MainGivesUp
  <2>1. CASE parked = "task"
    <3>1. /\ call.onMain /\ ~T!Settled(at) /\ fut[at] # "idle" /\ ~CanEnd(at) /\ at \in Tasks
          /\ \E o : results' = Append(results, Has(at, o))
      BY <1>0, <1>2, <2>1, AtItems DEF MainGivesUp, Arrived, T!Blame, Takes, CallerPlaces
    <3>2. fut[at] = "pending"
      BY <1>0, <3>1 DEF TaskTypes, T!Settled
    <3>3. kind[at] = "stuck"
      BY <1>0, <3>1, <3>2 DEF CanEnd, ProgramTypes
    <3>4. QED
      BY <3>1, <3>3 DEF Excused
  <2>2. CASE parked # "task"
    BY <1>2, <2>2 DEF MainGivesUp
  <2>3. QED
    BY <2>1, <2>2
<1>3. CASE TakeItem
  <2>1. at \in Tasks
    BY <1>0, <1>3, AtItems DEF TakeItem, AtItem, InLoop
  <2>2. Excused(at)
    BY <1>3 DEF TakeItem, T!Read, T!Gathered, Excused
  <2>3. \E o : results' = Append(results, Has(at, o))
    BY <1>3 DEF TakeItem, Takes
  <2>4. QED
    BY <2>1, <2>2, <2>3
<1>4. CASE Caller /\ ~TakeItem
  <2>1. ~TimesOut
    BY <1>0, NoLimit DEF GivenUpKept
  <2>2. QED
    BY <1>0, <1>4, <2>1 DEF Caller, ReturnsAtOnce, BeginLoop, BeginRace, BeginShortCircuit, Back,
       FillWindow, ArmLimit, LimitEscapes, AwaitItem, LoopReturns, AwaitWinner, WinnerEscapes,
       RaceReturns, caller
<1>5. QED
  BY <1>1, <1>2, <1>3, <1>4 DEF Next, Turn, PollStart, TimerFires, FiberEnds, IoSettles,
     OtherCancels, OtherWaits, OtherReads, OtherBlames, CancelCaller, caller, vars

LEMMA GivenUpStep ==
  ASSUME GatherInv, QueueSettled, QueueOnce, NoRace, GivenUpKept, [Next]_vars
  PROVE  GivenUpKept'
<1> SUFFICES ASSUME call.op \in Iterators PROVE GivenUpKept'
  BY SameProgram DEF program, GivenUpKept
<1>0. /\ TypeOK /\ UNCHANGED <<call, kind>> /\ results \in Seq(Results)
      /\ Len(results) \in Nat /\ DOMAIN results = 1 .. Len(results)
  BY TypeParts, SameProgram, LenProperties DEF GatherInv, program
<1>1. flagged => flagged'
  <2>1. CASE Caller
    BY <2>1 DEF Caller, ReturnsAtOnce, BeginLoop, BeginRace, BeginShortCircuit, Back, FillWindow,
       ArmLimit, LimitEscapes, TimesOut, TakeItem, AwaitItem, LoopReturns, AwaitWinner,
       WinnerEscapes, RaceReturns, caller
  <2>2. QED
    BY <2>1 DEF Next, Turn, PollStart, RunCallback, MainGivesUp, TimerFires, FiberEnds, IoSettles,
       OtherCancels, OtherWaits, OtherReads, OtherBlames, CancelCaller, caller, vars
<1>2. ASSUME NEW t \in Tasks, Excused(t) PROVE Excused(t)'
  <2>1. T!Settled(t) => fut'[t] = fut[t]
    BY SettledStays
  <2>2. QED
    BY <1>0, <1>1, <1>2, <2>1 DEF Excused, T!Settled
<1>3. \A i \in DOMAIN results : results[i].of \in Tasks /\ Excused(results[i].of)
  BY DEF GivenUpKept
<1>4. \A i \in DOMAIN results : \E t \in Tasks : t = results[i].of /\ Excused(t)'
  BY <1>2, <1>3
<1>5. \A i \in DOMAIN results' : results'[i].of \in Tasks /\ Excused(results[i].of)'
  <2>1. CASE UNCHANGED results
    BY <1>4, <2>1 DEF Excused, T!Settled
  <2>2. ASSUME NEW t \in Tasks, NEW o, Excused(t), results' = <<Has(t, o)>>
        PROVE  \A i \in DOMAIN results' : results'[i].of \in Tasks /\ Excused(results[i].of)'
    <3>1. DOMAIN results' = {1} /\ results'[1].of = t
      BY <2>2 DEF Has
    <3>2. Excused(t)'
      BY <1>2, <2>2
    <3>3. QED
      BY <3>1, <3>2 DEF Excused, T!Settled
  <2>3. ASSUME NEW t \in Tasks, NEW o, Excused(t), results' = Append(results, Has(t, o))
        PROVE  \A i \in DOMAIN results' : results'[i].of \in Tasks /\ Excused(results[i].of)'
    <3> DEFINE n == Len(results)
               x == Has(t, o)
    <3>1. x.of = t
      BY DEF Has
    <3>2. results \in Seq(Results \cup {x}) /\ x \in Results \cup {x}
      <4>1. results \in [1 .. n -> Results] /\ n \in Nat
        BY <1>0, LenProperties
      <4> HIDE DEF x, n
      <4>2. results \in [1 .. n -> Results \cup {x}]
        BY <4>1
      <4>3. QED
        BY <4>1, <4>2, SeqDef
    <3> HIDE DEF x
    <3>3. /\ Append(results, x) \in Seq(Results \cup {x}) /\ Len(Append(results, x)) = n + 1
          /\ \A i \in 1 .. n : Append(results, x)[i] = results[i]
          /\ Append(results, x)[n + 1] = x
      BY <3>2, AppendProperties
    <3>4. results' = Append(results, x) /\ DOMAIN results' = 1 .. n + 1
      BY <2>3, <3>3, LenProperties DEF x
    <3>5. \A i \in 1 .. n : results'[i] = results[i] /\ i \in DOMAIN results
      BY <1>0, <3>3, <3>4
    <3>6. results'[n + 1] = x
      BY <3>3, <3>4
    <3>7. Excused(t)'
      BY <1>2, <2>3
    <3>8. n \in Nat
      BY <1>0
    <3> HIDE DEF n
    <3>9. \A i \in 1 .. n + 1 : i \in 1 .. n \/ i = n + 1
      BY <3>8
    <3>10. QED
      BY <1>4, <3>1, <3>4, <3>5, <3>6, <3>7, <3>9 DEF Excused, T!Settled
  <2>4. QED
    BY <2>1, <2>2, <2>3, IteratorResults
<1>6. limit' = "idle"
  BY <1>0, NoLimit DEF GivenUpKept
<1>7. QED
  BY <1>0, <1>5, <1>6 DEF GivenUpKept


-----------------------------------------------------------------------------
(* The invariant holds.                                                    *)
CallInv == GatherInv /\ RaceInv /\ MapKept /\ GivenUpKept

(* At the start nothing is queued, watched or collected.                   *)
LEMMA CallInit == Init => CallInv
<1> SUFFICES ASSUME Init PROVE CallInv
  OBVIOUS
<1>1. /\ call \in Calls /\ call.op \in Waits \cup Iterators /\ Items \subseteq Tasks
      /\ Cardinality(Tasks) \in Nat /\ Tasks \subseteq Nat /\ call.n \in Tasks
      /\ call.len \in Nat /\ Items = 1 .. call.len
      /\ Tasks = 1 .. Cardinality(Tasks)
  BY CallFacts, TasksAreNumbers DEF Init
<1>2. ProgramTypes
  <2>1. call.op \in DOMAIN Kinds
    BY <1>1, KindsAssumption DEF Calls
  <2>2. Kinds[call.op] \cup {"fiber"} \subseteq {"fiber", "stuck", "io"}
    BY <2>1, KindsAssumption
  <2>3. kind \in [Tasks -> Kinds[call.op] \cup {"fiber"}] /\ hits \subseteq Tasks
    BY DEF Init
  <2>4. kind \in [Tasks -> {"fiber", "stuck", "io"}]
    BY <2>2, <2>3
  <2>5. QED
    BY <1>1, <2>3, <2>4 DEF ProgramTypes
<1>3. TaskTypes
  BY DEF Init, TaskTypes
<1>4. CallerTypes /\ pSettled \in 0 .. Cardinality(Tasks)
  <2>1. 1 \in 1 .. Cardinality(Tasks) + 1 /\ 0 \in 0 .. Cardinality(Tasks)
    BY <1>1
  <2>2. woken = FALSE /\ flagged = FALSE /\ at = 1 /\ pSettled = 0
    BY DEF Init
  <2>3. phase = "before" /\ parked = "run" /\ limit = "idle" /\ timer = "idle"
    BY DEF Init
  <2>4. QED
    BY <2>1, <2>2, <2>3 DEF CallerTypes
<1>5. DispatcherTypes
  <2>1. \A S : <<>> \in Seq(S)
    OBVIOUS
  <2>2. watchers \in [Tasks -> Seq(Whats)] /\ queue \in Seq(Entries)
    BY <2>1 DEF Init
  <2>3. QED
    BY <2>2 DEF Init, DispatcherTypes
<1>6. OtherTypes /\ results \in Seq(Results)
  BY DEF Init, OtherTypes
<1>7. TypeOK
  BY <1>2, <1>3, <1>4, <1>5, <1>6, TypeParts
<1>8. /\ phase = "before" /\ queue = <<>> /\ DOMAIN queue = {} /\ parked = "run" /\ at = 1
      /\ results = <<>> /\ DOMAIN results = {} /\ Len(results) = 0 /\ pSettled = 0
      /\ order = <<>> /\ early = 0 /\ timer = "idle"
      /\ \A t \in Tasks : watchers[t] = <<>> /\ DOMAIN watchers[t] = {}
  BY DEF Init
<1>9. \A t \in Tasks : /\ Born(t) <=> call.op \in Waits /\ t \in Items
                       /\ fut[t] = IF call.op \in Waits /\ t \in Items THEN "pending" ELSE "idle"
  BY DEF Init, Born
<1>10. Waits \cap Iterators = {} /\ "every" \in Iterators /\ "map" \in Iterators
  BY DEF Waits, Iterators
<1>11. QueueNamed /\ CallerPlaces /\ QueueSettled /\ QueueOnce
  BY <1>8 DEF QueueNamed, CallerPlaces, QueueSettled, QueueOnce
<1>12. BeforeCall
  BY <1>8, <1>9, <1>10 DEF BeforeCall
<1>13. Births
  <2>1. call.op = "every" => \E k \in 0 .. call.len : \A t \in Tasks : Born(t) <=> t <= k
    <3>1. \A t \in Tasks : ~(t <= 0)
      BY <1>1
    <3>2. 0 \in 0 .. call.len
      BY <1>1
    <3>3. QED
      BY <1>9, <1>10, <3>1, <3>2
  <2>2. \A t \in Tasks : Born(t) <=> fut[t] # "idle"
    BY <1>9
  <2>3. QED
    BY <1>9, <1>10, <2>1, <2>2 DEF Births
<1>14. RaceWatched /\ NoRace /\ OrderKept
  BY <1>8 DEF RaceWatched, NoRace, OrderKept, HasRace, OneRace
<1>15. EveryKept
  <2>1. call.op = "every" => Unprocessed = {} /\ Processed = {}
    BY <1>1, <1>8, <1>9, <1>10 DEF Unprocessed, Processed, RaceQueued, T!Settled
  <2>2. Cardinality({}) = 0
    BY FS_EmptySet
  <2>3. call.n \in Nat /\ 0 <= call.n
    BY <1>1
  <2>4. call.op = "every" => Cardinality(Unprocessed) = 0 /\ Cardinality(Processed) = 0
    BY <2>1, <2>2
  <2>5. QED
    BY <1>8, <2>1, <2>3, <2>4 DEF EveryKept
<1>16. HandedOut /\ ShortCircuitSound
  <2>1. 0 <= call.n
    BY <1>1
  <2>2. QED
    BY <1>8, <2>1 DEF HandedOut, ShortCircuitSound
<1>17. MapKept
  <2>1. 1 .. at - 1 = {}
    BY <1>8
  <2>2. QED
    BY <1>8, <1>9, <1>10, <2>1 DEF MapKept
<1>18. Recorded
  <2>1. DOMAIN order = {} /\ Len(order) = 0
    BY <1>8
  <2>2. \A t \in Tasks : ~T!Settled(t)
    BY <1>9 DEF T!Settled
  <2>3. QED
    BY <1>8, <2>1, <2>2 DEF Recorded
<1>19. GivenUpKept
  <2>1. \A t \in Tasks : call.op \in Iterators => kind[t] # "io"
    <3>1. call.op \in DOMAIN Kinds /\ kind \in [Tasks -> Kinds[call.op] \cup {"fiber"}]
      BY KindsAssumption DEF Init, Calls
    <3>2. call.op \in Iterators => Kinds[call.op] \subseteq {"fiber", "stuck"}
      BY <1>10, <3>1, KindsAssumption DEF Waits, Iterators
    <3>3. QED
      BY <3>1, <3>2
  <2>2. limit = "idle" /\ DOMAIN results = {}
    BY <1>8 DEF Init
  <2>3. QED
    BY <2>1, <2>2 DEF GivenUpKept
<1>20. QED
  BY <1>7, <1>11, <1>12, <1>13, <1>14, <1>15, <1>16, <1>17, <1>18, <1>19
     DEF CallInv, GatherInv, RaceInv

(* The flags of the dispatcher.                                            *)
LEMMA FlagsStep ==
  ASSUME TypeOK, [Next]_vars
  PROVE  polling' \in BOOLEAN /\ up' \in BOOLEAN
<1>0. polling \in BOOLEAN /\ up \in BOOLEAN /\ call.timeout \in BOOLEAN
  BY CallFacts DEF TypeOK
<1>1. CASE Caller
  <2>1. CASE BeginRace
    BY <1>0, <2>1 DEF BeginRace
  <2>2. QED
    BY <1>0, <1>1, <2>1 DEF Caller, ReturnsAtOnce, BeginLoop, BeginShortCircuit, Back, FillWindow,
       ArmLimit, LimitEscapes, TimesOut, TakeItem, AwaitItem, LoopReturns, AwaitWinner,
       WinnerEscapes, RaceReturns, dispatcher
<1>2. CASE Turn \/ TimerFires
  BY <1>0, <1>2 DEF Turn, PollStart, RunCallback, MainGivesUp, TimerFires
<1>3. ASSUME NEW t \in Tasks, FiberEnds(t) \/ IoSettles(t)
      PROVE  polling' \in BOOLEAN /\ up' \in BOOLEAN
  BY <1>0, <1>3 DEF FiberEnds, IoSettles, Fire
<1>4. QED
  BY <1>0, <1>1, <1>2, <1>3 DEF Next, OtherCancels, OtherWaits, OtherReads, OtherBlames, CancelCaller,
     dispatcher, vars

(* Only a short circuit counts.                                            *)
LEMMA CountStep ==
  ASSUME call.op # "every", [Next]_vars
  PROVE  pSettled' = pSettled
<1>1. CASE RunCallback
  BY <1>1 DEF RunCallback, RaceCallback, Collect
<1>2. CASE Caller
  BY <1>2 DEF Caller, ReturnsAtOnce, BeginLoop, BeginRace, BeginShortCircuit, Back, FillWindow,
     ArmLimit, LimitEscapes, TimesOut, TakeItem, AwaitItem, LoopReturns, AwaitWinner,
     WinnerEscapes, RaceReturns, caller
<1>3. QED
  BY <1>1, <1>2 DEF Next, Turn, PollStart, MainGivesUp, TimerFires, FiberEnds, IoSettles,
     OtherCancels, OtherWaits, OtherReads, OtherBlames, CancelCaller, caller, vars

LEMMA GatherStep ==
  ASSUME GatherInv, QueueSettled, QueueOnce, RaceWatched, EveryKept, [Next]_vars
  PROVE  GatherInv'
<1>0. TypeOK /\ QueueNamed /\ CallerPlaces /\ BeforeCall
  BY DEF GatherInv
<1>1. TaskTypes' /\ CallerTypes' /\ OtherTypes' /\ results' \in Seq(Results)
  BY <1>0, TaskTypesStep, CallerTypesStep, OtherTypesStep, ResultTypes
<1>2. ProgramTypes'
  <2>1. ProgramTypes /\ UNCHANGED program
    BY <1>0, TypeParts, SameProgram
  <2>2. QED
    BY <2>1 DEF ProgramTypes, program, Calls
<1>3. DispatcherTypes' /\ QueueNamed'
  <2>1. queue' \in Seq(Entries) /\ (polling' => queue' # <<>>) /\ QueueNamed'
    BY <1>0, QueueTypesStep
  <2>2. watchers' \in [Tasks -> Seq(Whats)]
    BY <1>0, WatcherTypesStep
  <2>3. polling' \in BOOLEAN /\ up' \in BOOLEAN
    BY <1>0, FlagsStep
  <2>4. QED
    BY <2>1, <2>2, <2>3 DEF DispatcherTypes
<1>4. pSettled' \in 0 .. Cardinality(Tasks)
  <2>1. CASE call.op = "every"
    BY <2>1, EveryKeptStep
  <2>2. CASE call.op # "every"
    BY <1>0, <2>2, CountStep DEF TypeOK
  <2>3. QED
    BY <2>1, <2>2
<1>5. TypeOK'
  BY <1>1, <1>2, <1>3, <1>4, TypePartsNext
<1>6. CallerPlaces' /\ BeforeCall' /\ Births' /\ Recorded'
  BY <1>0, CallerPlacesStep, BeforeStep, BirthsStep, RecordedStep
<1>7. QED
  BY <1>3, <1>5, <1>6 DEF GatherInv

LEMMA CallStep == CallInv /\ [Next]_vars => CallInv'
<1> SUFFICES ASSUME CallInv, [Next]_vars PROVE CallInv'
  OBVIOUS
<1>0. /\ GatherInv /\ QueueSettled /\ QueueOnce /\ RaceWatched /\ NoRace /\ OrderKept /\ EveryKept
      /\ HandedOut /\ ShortCircuitSound /\ MapKept /\ GivenUpKept /\ TypeOK
  BY DEF CallInv, RaceInv, GatherInv
<1>1. GatherInv' /\ call' = call /\ hits' = hits
  BY <1>0, GatherStep, SameProgram DEF program
<1>2. QueueSettled' /\ QueueOnce' /\ RaceWatched' /\ NoRace'
  <2>1. CASE call.op \in Races
    BY <1>0, <1>1, <2>1, QueueRacesStep, RaceWatchedStep DEF NoRace
  <2>2. CASE call.op \notin Races
    <3>1. NoRace'
      BY <1>0, <2>2, NoRaceStep
    <3>2. QED
      BY <1>1, <2>2, <3>1 DEF NoRace, QueueSettled, QueueOnce, RaceWatched
  <2>3. QED
    BY <2>1, <2>2
<1>3. OrderKept' /\ HandedOut'
  <2>1. CASE call.op \in {"first", "any"}
    BY <1>0, <1>1, <2>1, OrderKeptStep, CollectedStep
  <2>2. CASE call.op \notin {"first", "any"}
    BY <1>1, <2>2 DEF OrderKept, HandedOut
  <2>3. QED
    BY <2>1, <2>2
<1>4. EveryKept' /\ ShortCircuitSound'
  <2>1. CASE call.op = "every"
    BY <1>0, <2>1, EveryKeptStep, ShortCircuitStep
  <2>2. CASE call.op # "every"
    BY <1>1, <2>2 DEF EveryKept, ShortCircuitSound
  <2>3. QED
    BY <2>1, <2>2
<1>5. MapKept'
  <2>1. CASE call.op = "map"
    BY <1>0, <2>1, MapKeptStep
  <2>2. CASE call.op # "map"
    BY <1>1, <2>2 DEF MapKept
  <2>3. QED
    BY <2>1, <2>2
<1>6. GivenUpKept'
  BY <1>0, GivenUpStep
<1>7. QED
  BY <1>1, <1>2, <1>3, <1>4, <1>5, <1>6 DEF CallInv, RaceInv

(* Every variable of a call keeps its type: the short circuit's count is   *)
(* never above the number of the items.                                    *)
THEOREM TypeCorrect == Spec => []TypeOK
<1>1. CallInv => TypeOK
  BY DEF CallInv, GatherInv
<1>2. QED
  BY <1>1, CallInit, CallStep, PTL DEF Spec

(* wait.first and wait.any hand out the tasks in the order in which they   *)
(* settled, but for those that had settled when the call began: these come *)
(* first, in the block's order.  Each comes with its own outcome, and      *)
(* there are no more than were asked for.                                  *)
THEOREM CollectedInOrderCorrect == Spec => []CollectedInOrder
<1>1. ASSUME CallInv PROVE CollectedInOrder
  <2> SUFFICES ASSUME call.op \in {"first", "any"} PROVE CollectedInOrder
    BY DEF CollectedInOrder
  <2>1. GatherInv /\ HandedOut /\ BeforeCall
    BY <1>1 DEF CallInv, RaceInv, GatherInv
  <2>2. CASE phase = "before"
    <3>1. DOMAIN results = {}
      BY <2>1, <2>2 DEF BeforeCall
    <3>2. QED
      BY <2>1, <3>1 DEF HandedOut, CollectedInOrder
  <2>3. CASE phase # "before"
    <3>1. Line = Due /\ Len(Line) = Len(order)
      BY <2>1, <2>3, DueType DEF Line
    <3>2. QED
      BY <2>1, <3>1 DEF HandedOut, CollectedInOrder
  <2>4. QED
    BY <2>2, <2>3
<1>a. CallInv => CollectedInOrder
  BY <1>1
<1>2. QED
  BY <1>a, CallInit, CallStep, PTL DEF Spec

(* every? and some? give an answer only when the items justify it.         *)
THEOREM ShortCircuitSoundCorrect == Spec => []ShortCircuitSound
<1>1. CallInv => ShortCircuitSound
  BY DEF CallInv, RaceInv
<1>2. QED
  BY <1>1, CallInit, CallStep, PTL DEF Spec

(* A parallel iterator waits for no more fibers in flight than its cap,    *)
(* and has given up others only when it was asked to stop or, on Main, was *)
(* stuck.                                                                  *)
THEOREM WindowKeptCorrect == Spec => []WindowKept
<1>1. ASSUME CallInv PROVE WindowKept
  <2> DEFINE S == InFlight \ GivenUp
  <2>0. TypeOK /\ Births /\ EveryKept /\ MapKept /\ GivenUpKept
    BY <1>1 DEF CallInv, GatherInv, RaceInv
  <2>1. /\ call.n \in Nat \ {0} /\ at \in Nat \ {0} /\ Items \subseteq Tasks /\ Tasks \subseteq Nat
        /\ \A t \in Tasks : t # 0
    <3>1. /\ call.n \in Tasks /\ Tasks = 1 .. Cardinality(Tasks) /\ Cardinality(Tasks) \in Nat
          /\ at \in 1 .. Cardinality(Tasks) + 1 /\ Items \subseteq Tasks
      BY <2>0, CallFacts DEF TypeOK
    <3>2. QED
      BY <3>1
  <2>a. CASE call.op \notin Iterators
    BY <2>a DEF WindowKept
  <2>b. call.op \in Iterators => \A t \in GivenUp : flagged \/ (call.onMain /\ kind[t] = "stuck")
    BY <2>0 DEF GivenUpKept, Excused, GivenUp, InFlight, T!Settled
  <2>2. CASE call.op = "every"
    <3>1. S \subseteq Unprocessed
      BY DEF Unprocessed, InFlight
    <3>2. IsFiniteSet(Unprocessed) /\ Cardinality(Unprocessed) \in Nat
      <4>1. Unprocessed \in SUBSET Items
        BY DEF Unprocessed
      <4>2. QED
        BY <2>0, <4>1, ItemsFinite
    <3>3. IsFiniteSet(S) /\ Cardinality(S) <= Cardinality(Unprocessed)
      BY <3>1, <3>2, FS_Subset
    <3>4. Cardinality(S) \in Nat
      BY <3>3, FS_CardinalityType
    <3> HIDE DEF S
    <3>5. Cardinality(Unprocessed) <= call.n
      BY <2>0, <2>2 DEF EveryKept
    <3>6. Cardinality(S) <= call.n
      BY <2>1, <3>2, <3>3, <3>4, <3>5
    <3>7. QED
      BY <3>6, <2>b DEF WindowKept, S
  <2>3. CASE call.op = "map"
    <3> DEFINE W == at .. at + call.n - 1
    <3>1. ASSUME NEW t \in S PROVE t \in W
      <4>1. t \in Nat /\ t # 0 /\ t \in Tasks /\ Born(t)
        BY <2>0, <2>1 DEF Births, InFlight
      <4>2. t < at + call.n
        BY <2>0, <2>3, <4>1 DEF MapKept
      <4>3. t \notin 1 .. at - 1
        BY <2>0, <2>3 DEF MapKept, GivenUp
      <4>4. QED
        BY <2>1, <4>1, <4>2, <4>3
    <3>2. IsFiniteSet(W) /\ Cardinality(W) = call.n
      <4> DEFINE b == at + call.n - 1
      <4>1. at \in Int /\ b \in Int /\ ~(at > b) /\ b - at + 1 = call.n
        BY <2>1
      <4> HIDE DEF b
      <4>2. IsFiniteSet(at .. b) /\ Cardinality(at .. b) = call.n
        BY <4>1, FS_Interval
      <4>3. QED
        BY <4>2 DEF b
    <3> HIDE DEF W, S
    <3>3. S \subseteq W
      BY <3>1
    <3>4. Cardinality(S) <= call.n
      BY <3>2, <3>3, FS_Subset
    <3>5. QED
      BY <3>4, <2>b DEF WindowKept, S
  <2>4. QED
    BY <2>a, <2>2, <2>3 DEF Iterators
<1>2. CallInv => WindowKept
  BY <1>1
<1>3. QED
  BY <1>2, CallInit, CallStep, PTL DEF Spec
=============================================================================
