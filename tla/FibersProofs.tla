---------------------------- MODULE FibersProofs ----------------------------
(***************************************************************************)
(* Theorems about Fibers for any number of tasks and calls.                *)
(***************************************************************************)
EXTENDS Fibers, TLAPS, SequenceTheorems, FiniteSetTheorems

-----------------------------------------------------------------------------
(* Futures and queues.                                                     *)

(* The futures of tasks, timers and gates are all different, and none of   *)
(* them is one of the other places a strand can be at.                     *)
LEMMA FutureKinds ==
  /\ \A t \in Tasks : /\ TaskOf(t) \in Futures /\ GateOf(t) \in Futures
                      /\ TaskOf(t) \in TaskFutures
  /\ \A s \in Strands : TimerOf(s) \in Futures
  /\ \A t \in Tasks : t \in Strands /\ t # Main
  /\ Main \in Strands
  /\ \A t, b \in Tasks : /\ TaskOf(t) = TaskOf(b) => t = b
                         /\ GateOf(t) = GateOf(b) => t = b
                         /\ TaskOf(t) # GateOf(b)
  /\ \A s, r \in Strands : TimerOf(s) = TimerOf(r) => s = r
  /\ \A t \in Tasks, s \in Strands : TaskOf(t) # TimerOf(s) /\ GateOf(t) # TimerOf(s)
  /\ \A t \in Tasks, s \in Strands : GateOf(t) \notin TaskFutures /\ TimerOf(s) \notin TaskFutures
  /\ Start \notin Futures /\ Nothing \notin Futures /\ Start # Nothing
  /\ \A f \in Futures : \/ \E t \in Tasks : f = TaskOf(t) \/ f = GateOf(t)
                        \/ \E s \in Strands : f = TimerOf(s)
  BY MainAssumption DEF TaskOf, GateOf, TimerOf, Futures, TaskFutures, Timers,
     Gates, Strands, Start, Nothing

(* Who is in a queue after the queue operations.                           *)
LEMMA Appended ==
  ASSUME NEW q \in Seq(Tasks), NEW b \in Tasks
  PROVE  /\ Append(q, b) \in Seq(Tasks)
         /\ InQueue(b, Append(q, b))
         /\ \A t \in Tasks : InQueue(t, Append(q, b)) <=> InQueue(t, q) \/ t = b
<1>1. /\ Append(q, b) \in Seq(Tasks) /\ Len(Append(q, b)) = Len(q) + 1
      /\ \A i \in 1 .. Len(q) : Append(q, b)[i] = q[i]
      /\ Append(q, b)[Len(q) + 1] = b
  BY AppendProperties
<1>2. DOMAIN q = 1 .. Len(q) /\ Len(q) \in Nat /\ DOMAIN Append(q, b) = 1 .. Len(q) + 1
  BY <1>1, LenProperties
<1>3. QED
  BY <1>1, <1>2 DEF InQueue

(* Joining queues loses nobody.                                            *)
LEMMA Joined ==
  ASSUME NEW p \in Seq(Tasks), NEW q \in Seq(Tasks)
  PROVE  /\ p \o q \in Seq(Tasks)
         /\ \A t \in Tasks : InQueue(t, p \o q) <=> InQueue(t, p) \/ InQueue(t, q)
<1>1. /\ p \o q \in Seq(Tasks) /\ Len(p \o q) = Len(p) + Len(q)
      /\ \A i \in 1 .. Len(p) + Len(q) :
           (p \o q)[i] = IF i <= Len(p) THEN p[i] ELSE q[i - Len(p)]
  BY ConcatProperties
<1>2. /\ DOMAIN p = 1 .. Len(p) /\ Len(p) \in Nat
      /\ DOMAIN q = 1 .. Len(q) /\ Len(q) \in Nat
      /\ DOMAIN (p \o q) = 1 .. Len(p) + Len(q)
  BY <1>1, LenProperties
<1>3. ASSUME NEW t \in Tasks, NEW i \in 1 .. Len(p), p[i] = t
      PROVE  InQueue(t, p \o q)
  <2>1. i \in 1 .. Len(p) + Len(q) /\ (p \o q)[i] = t
    BY <1>1, <1>2, <1>3
  <2>2. QED
    BY <1>2, <2>1 DEF InQueue
<1>4. ASSUME NEW t \in Tasks, NEW i \in 1 .. Len(q), q[i] = t
      PROVE  InQueue(t, p \o q)
  <2>1. Len(p) + i \in 1 .. Len(p) + Len(q) /\ (p \o q)[Len(p) + i] = t
    BY <1>1, <1>2, <1>4
  <2>2. QED
    BY <1>2, <2>1 DEF InQueue
<1>5. ASSUME NEW t \in Tasks, NEW i \in 1 .. Len(p) + Len(q), (p \o q)[i] = t
      PROVE  InQueue(t, p) \/ InQueue(t, q)
  <2>1. CASE i <= Len(p)
    BY <1>1, <1>2, <1>5, <2>1 DEF InQueue
  <2>2. CASE i > Len(p)
    <3>1. i - Len(p) \in 1 .. Len(q) /\ q[i - Len(p)] = t
      BY <1>1, <1>2, <1>5, <2>2
    <3>2. QED
      BY <1>2, <3>1 DEF InQueue
  <2>3. QED
    BY <1>2, <2>1, <2>2
<1>6. QED
  BY <1>1, <1>2, <1>3, <1>4, <1>5 DEF InQueue

(* Taking the head of a queue leaves everybody else in it.                 *)
LEMMA Beheaded ==
  ASSUME NEW q \in Seq(Tasks), q # <<>>
  PROVE  /\ Head(q) \in Tasks /\ Tail(q) \in Seq(Tasks)
         /\ InQueue(Head(q), q)
         /\ \A t \in Tasks : InQueue(t, q) => t = Head(q) \/ InQueue(t, Tail(q))
         /\ \A t \in Tasks : InQueue(t, Tail(q)) => InQueue(t, q)
<1>1. /\ Head(q) \in Tasks /\ Tail(q) \in Seq(Tasks)
      /\ Len(Tail(q)) = Len(q) - 1
      /\ \A i \in 1 .. Len(q) - 1 : Tail(q)[i] = q[i + 1]
  BY HeadTailProperties
<1>2. /\ DOMAIN q = 1 .. Len(q) /\ Len(q) \in Nat /\ Head(q) = q[1]
      /\ DOMAIN Tail(q) = 1 .. Len(q) - 1
  BY <1>1, LenProperties
<1>3. ASSUME NEW t \in Tasks, NEW i \in 1 .. Len(q), q[i] = t, t # Head(q)
      PROVE  InQueue(t, Tail(q))
  <2>1. i - 1 \in 1 .. Len(q) - 1 /\ Tail(q)[i - 1] = t
    BY <1>1, <1>2, <1>3
  <2>2. QED
    BY <1>2, <2>1 DEF InQueue
<1>4. ASSUME NEW t \in Tasks, NEW i \in 1 .. Len(q) - 1, Tail(q)[i] = t
      PROVE  InQueue(t, q)
  <2>1. i + 1 \in 1 .. Len(q) /\ q[i + 1] = t
    BY <1>1, <1>2, <1>4
  <2>2. QED
    BY <1>2, <2>1 DEF InQueue
<1>5. Len(q) > 0 /\ InQueue(Head(q), q)
  BY <1>2, EmptySeq DEF InQueue
<1>6. QED
  BY <1>1, <1>2, <1>3, <1>4, <1>5 DEF InQueue

-----------------------------------------------------------------------------
(* Types.                                                                  *)

(* The scheduler starts well-typed.                                        *)
LEMMA TypeInit == Init => TypeOK
<1>1. <<>> \in Seq(Tasks)
  BY EmptySeq
<1>2. /\ [f \in Futures |-> <<>>] \in [Futures -> Seq(Tasks)]
      /\ [t \in Tasks |-> Start] \in [Tasks -> {Start, Nothing} \cup Futures]
      /\ [s \in Strands |-> 0] \in [Strands -> Nat]
  BY <1>1
<1>3. Main \in Strands /\ Free \in {Free, Pump} \cup Futures
  BY FutureKinds
<1>4. SUFFICES ASSUME Init PROVE TypeOK
  OBVIOUS
<1>5. ready \in Seq(Tasks) /\ callbacks \in Seq(Tasks) /\ current \in Strands
  BY <1>1, <1>3, <1>4 DEF Init
<1>6. /\ co \in [Tasks -> {"none", "alive", "dead"}]
      /\ cancelRequested \in [Tasks -> BOOLEAN]
      /\ state \in [Tasks -> {"none", "pending", "done", "failed", "cancelled"}]
      /\ fut \in [Futures -> {"idle", "pending", "value", "error"}]
  BY <1>4 DEF Init
<1>7. /\ waiters \in [Futures -> Seq(Tasks)]
      /\ awaits \in [Tasks -> {Start, Nothing} \cup Futures]
      /\ spent \in [Strands -> Nat]
  BY <1>2, <1>4 DEF Init
<1>8. dispatcherUp \in BOOLEAN /\ main \in {Free, Pump} \cup Futures
  BY <1>3, <1>4 DEF Init
<1>9. QED
  BY <1>5, <1>6, <1>7, <1>8 DEF TypeOK

(* Resuming the head of a queue keeps the types.                           *)
LEMMA ResumeType ==
  ASSUME TypeOK, NEW q \in Seq(Tasks), q # <<>>, ResumeHead(q)
  PROVE  /\ ready' \in Seq(Tasks)
         /\ current' \in Strands
         /\ awaits' \in [Tasks -> {Start, Nothing} \cup Futures]
<1>1. Head(q) \in Tasks /\ Tail(q) \in Seq(Tasks) /\ Head(q) \in Strands
  BY Beheaded, FutureKinds
<1>2. QED
  BY <1>1 DEF ResumeHead, TypeOK

(* Waking a queue of fibers keeps the types.                               *)
LEMMA WakeType ==
  ASSUME TypeOK, NEW q \in Seq(Tasks), Wake(q)
  PROVE  ready' \in Seq(Tasks) /\ callbacks' \in Seq(Tasks)
  BY Joined DEF Wake, TypeOK

(* Registering a callback keeps the types.                                 *)
LEMMA SuspendType ==
  ASSUME TypeOK, NEW t \in Tasks, NEW f \in Futures, SuspendOn(t, f)
  PROVE  /\ waiters' \in [Futures -> Seq(Tasks)]
         /\ awaits' \in [Tasks -> {Start, Nothing} \cup Futures]
         /\ current' \in Strands
<1>1. Append(waiters[f], t) \in Seq(Tasks)
  BY Appended DEF TypeOK
<1>2. QED
  BY <1>1, FutureKinds DEF SuspendOn, AddCallback, TypeOK

(* The callbacks of expired timers form a queue of fibers.                 *)
LEMMA DueType ==
  ASSUME TypeOK, NEW S \in SUBSET Armed, NEW q \in Orders(Due(S))
  PROVE  /\ q \in Seq(Tasks)
         /\ \A t \in Due(S) : InQueue(t, q)
<1>1. IsFiniteSet(Due(S)) /\ Due(S) \subseteq Tasks
  BY TasksAssumption, FS_Subset DEF Due
<1>2. Cardinality(Due(S)) \in Nat
  BY <1>1, FS_CardinalityType
<1>3. q \in [1 .. Cardinality(Due(S)) -> Tasks]
  BY <1>1 DEF Orders
<1>4. QED
  BY <1>2, <1>3, SeqDef DEF Orders

(* fiberEntry's end of a fiber keeps the types.                            *)
LEMMA EndsType ==
  ASSUME TypeOK, NEW t \in Tasks, NEW st \in {"done", "failed", "cancelled"},
         NEW result \in {"value", "error"}, Ends(t, st, result),
         UNCHANGED <<cancelRequested, dispatcherUp, main, spent>>
  PROVE  TypeOK'
<1>1. waiters[TaskOf(t)] \in Seq(Tasks) /\ <<>> \in Seq(Tasks)
  BY FutureKinds, EmptySeq DEF TypeOK
<1>2. ready' \in Seq(Tasks) /\ callbacks' \in Seq(Tasks)
  BY <1>1, WakeType DEF Ends
<1>3. QED
  BY <1>1, <1>2, FutureKinds DEF Ends, Settles, TypeOK

(* The calls that both Main and a block make keep the types.               *)
LEMMA CallsType ==
  ASSUME TypeOK, NEW s \in Strands, NEW b \in Tasks,
         Spawn(s, b) \/ Cancel(s, b) \/ Send(s, b)
  PROVE  TypeOK'
<1>1. spent' \in [Strands -> Nat]
  <2>1. ASSUME NEW r \in Strands, NEW n, Call(r, n) PROVE spent' \in [Strands -> Nat]
    BY <2>1 DEF Call, TypeOK
  <2>2. QED
    BY <2>1, FutureKinds DEF Spawn, Cancel, Send, Acting
<1>2. CASE Spawn(s, b)
  <2>1. ready' \in Seq(Tasks)
    BY <1>2, Appended DEF Spawn, TypeOK
  <2>2. QED
    BY <1>1, <1>2, <2>1, FutureKinds DEF Spawn, Created, TypeOK
<1>3. CASE Cancel(s, b)
  <2>1. ready' \in Seq(Tasks)
    BY <1>3, Appended DEF Cancel, MakeReady, TypeOK
  <2>2. QED
    BY <1>1, <1>3, <2>1 DEF Cancel, RaiseFlag, TypeOK
<1>4. CASE Send(s, b)
  <2>1. waiters[GateOf(b)] \in Seq(Tasks) /\ <<>> \in Seq(Tasks)
    BY FutureKinds, EmptySeq DEF TypeOK
  <2>2. ready' \in Seq(Tasks) /\ callbacks' \in Seq(Tasks)
    BY <1>4, <2>1, WakeType DEF Send
  <2>3. QED
    BY <1>1, <1>4, <2>1, <2>2 DEF Send, TypeOK
<1>5. QED
  BY <1>2, <1>3, <1>4

(* No step of the scheduler, of a block or of Main breaks the types.       *)
LEMMA TypeStep == TypeOK /\ [Next]_vars => TypeOK'
<1> SUFFICES ASSUME TypeOK, [Next]_vars PROVE TypeOK'
  OBVIOUS
<1>a. \A s \in Strands : \A n : Call(s, n) => spent' \in [Strands -> Nat]
  BY DEF Call, TypeOK
<1>1. CASE RunFiber
  BY <1>1, ResumeType DEF RunFiber, TypeOK
<1>2. CASE Poll
  <2>1. PICK S \in SUBSET Armed :
          /\ \E q \in Orders(Due(S)) : ready' = callbacks \o q
          /\ fut' = [f \in Futures |-> IF f \in {TimerOf(s) : s \in S} THEN "value" ELSE fut[f]]
          /\ waiters' = [f \in Futures |-> IF f \in {TimerOf(s) : s \in S} THEN <<>> ELSE waiters[f]]
    BY <1>2 DEF Poll
  <2>2. PICK q \in Orders(Due(S)) : ready' = callbacks \o q
    BY <2>1
  <2>3. ready' \in Seq(Tasks)
    BY <2>2, DueType, Joined DEF TypeOK
  <2>4. <<>> \in Seq(Tasks)
    BY EmptySeq
  <2>5. /\ fut' \in [Futures -> {"idle", "pending", "value", "error"}]
        /\ waiters' \in [Futures -> Seq(Tasks)]
    BY <2>1, <2>4 DEF TypeOK
  <2>6. QED
    BY <1>2, <2>3, <2>4, <2>5 DEF Poll, TypeOK
<1>3. CASE PumpStart \/ PumpEnd
  BY <1>3 DEF PumpStart, PumpEnd, TypeOK
<1>4. CASE MainWaited
  BY <1>4 DEF MainWaited, Classified, TypeOK
<1>5. CASE MainGivesUp
  BY <1>5 DEF MainGivesUp, Blamed, TypeOK
<1>6. ASSUME NEW t \in Tasks, Block(t) PROVE TypeOK'
  <2>1. CASE FiberPause(t)
    <3>1. TimerOf(t) \in Futures /\ t \in Strands
      BY FutureKinds
    <3>2. /\ fut' \in [Futures -> {"idle", "pending", "value", "error"}]
          /\ spent' \in [Strands -> Nat]
      BY <2>1, <3>1, <1>a DEF FiberPause, TypeOK
    <3>3. /\ waiters' \in [Futures -> Seq(Tasks)]
          /\ awaits' \in [Tasks -> {Start, Nothing} \cup Futures]
          /\ current' \in Strands
      <4>1. CASE SuspendOn(t, TimerOf(t))
        BY <4>1, <3>1, SuspendType
      <4>2. CASE ~SuspendOn(t, TimerOf(t))
        BY <2>1, <4>2, <3>1 DEF FiberPause, TypeOK
      <4>3. QED
        BY <4>1, <4>2
    <3>4. QED
      BY <2>1, <3>2, <3>3 DEF FiberPause, TypeOK
  <2>2. CASE FiberPark(t)
    <3>1. GateOf(t) \in Futures /\ t \in Strands
      BY FutureKinds
    <3>2. /\ fut' \in [Futures -> {"idle", "pending", "value", "error"}]
          /\ spent' \in [Strands -> Nat]
      BY <2>2, <3>1, <1>a DEF FiberPark, TypeOK
    <3>3. /\ waiters' \in [Futures -> Seq(Tasks)]
          /\ awaits' \in [Tasks -> {Start, Nothing} \cup Futures]
          /\ current' \in Strands
      <4>1. CASE SuspendOn(t, GateOf(t))
        BY <4>1, <3>1, SuspendType
      <4>2. CASE ~SuspendOn(t, GateOf(t))
        BY <2>2, <4>2, <3>1 DEF FiberPark, TypeOK
      <4>3. QED
        BY <4>1, <4>2
    <3>4. QED
      BY <2>2, <3>2, <3>3 DEF FiberPark, TypeOK
  <2>3. ASSUME NEW b \in Tasks, FiberWait(t, b) PROVE TypeOK'
    BY <2>3, <1>a, SuspendType, FutureKinds DEF FiberWait, Blamed, Classified, TypeOK
  <2>4. CASE FinishAwait(t)
    BY <2>4 DEF FinishAwait, Classified, TypeOK
  <2>5. CASE AwaitCancelled(t)
    <3>1. CASE Ends(t, "cancelled", "error") /\ UNCHANGED <<cancelRequested, dispatcherUp, main, spent>>
      BY <3>1, EndsType
    <3>2. CASE ~Ends(t, "cancelled", "error")
      BY <2>5, <3>2 DEF AwaitCancelled, Blamed, TypeOK
    <3>3. QED
      BY <2>5, <3>1, <3>2 DEF AwaitCancelled, TypeOK, Ends
  <2>6. CASE FiberReturn(t) \/ FiberRaise(t)
    BY <2>6, EndsType DEF FiberReturn, FiberRaise
  <2>7. ASSUME NEW b \in Tasks, Spawn(t, b) \/ Cancel(t, b) \/ Send(t, b) PROVE TypeOK'
    BY <2>7, CallsType, FutureKinds
  <2>8. QED
    BY <1>6, <2>1, <2>2, <2>3, <2>4, <2>5, <2>6, <2>7 DEF Block
<1>7. CASE MainCall
  <2>1. ASSUME NEW b \in Tasks, Spawn(Main, b) \/ Cancel(Main, b) \/ Send(Main, b)
        PROVE  TypeOK'
    BY <2>1, CallsType, FutureKinds
  <2>2. ASSUME NEW b \in Tasks, SpawnEager(b) PROVE TypeOK'
    <3>1. Append(ready, b) \in Seq(Tasks) /\ Append(ready, b) # <<>>
      BY AppendProperties DEF TypeOK
    <3>2. /\ ready' \in Seq(Tasks) /\ current' \in Strands
          /\ awaits' \in [Tasks -> {Start, Nothing} \cup Futures]
      BY <2>2, <3>1, ResumeType DEF SpawnEager
    <3>3. QED
      BY <2>2, <3>2, <1>a, FutureKinds DEF SpawnEager, Acting, Created, TypeOK
  <2>3. ASSUME NEW b \in Tasks, MainWait(b) PROVE TypeOK'
    BY <2>3, <1>a, FutureKinds DEF MainWait, Acting, TypeOK
  <2>4. CASE MainPause
    BY <2>4, <1>a, FutureKinds DEF MainPause, Acting, TypeOK
  <2>5. QED
    BY <1>7, <2>1, <2>2, <2>3, <2>4 DEF MainCall
<1>8. CASE UNCHANGED vars
  BY <1>8 DEF vars, TypeOK
<1>9. QED
  BY <1>1, <1>2, <1>3, <1>4, <1>5, <1>6, <1>7, <1>8 DEF Next, Scheduler

(* Every variable stays in its type, for any number of tasks and calls.    *)
THEOREM TypeCorrect == Spec => []TypeOK
  BY TypeInit, TypeStep, PTL DEF Spec
-----------------------------------------------------------------------------
(* Results.                                                                *)

(* What the future of a task says, and what the state says of the future.  *)
ResultInv == TypeOK /\ SettledIffDead /\ DoneMeansValue

(* Steps that leave the futures of tasks and the coroutines alone, and set *)
(* states to done only by reading a value, keep the results right.         *)
LEMMA SameResults ==
  ASSUME ResultInv, TypeOK', co' = co,
         \A t \in Tasks : fut'[TaskOf(t)] = fut[TaskOf(t)],
         \A t \in Tasks : state'[t] = "done" =>
                             state[t] = "done" \/ fut[TaskOf(t)] = "value"
  PROVE  ResultInv'
  BY DEF ResultInv, SettledIffDead, DoneMeansValue, Finished

(* The end of a fiber settles the future it has to settle.                 *)
LEMMA EndsResults ==
  ASSUME ResultInv, TypeOK', NEW t \in Tasks, NEW st, NEW result \in {"value", "error"},
         Ends(t, st, result), st = "done" => result = "value"
  PROVE  ResultInv'
<1>1. /\ \A b \in Tasks : b # t => fut'[TaskOf(b)] = fut[TaskOf(b)]
      /\ fut'[TaskOf(t)] = result
  BY FutureKinds DEF Ends, Settles, ResultInv, TypeOK
<1>2. /\ \A b \in Tasks : b # t => co'[b] = co[b] /\ state'[b] = state[b]
      /\ co'[t] = "dead" /\ state'[t] = st
  BY DEF Ends, ResultInv, TypeOK
<1>3. QED
  BY <1>1, <1>2 DEF ResultInv, SettledIffDead, DoneMeansValue, Finished

(* A new task is alive and unanswered.                                     *)
LEMMA CreatedResults ==
  ASSUME ResultInv, TypeOK', NEW t \in Tasks, Created(t)
  PROVE  ResultInv'
<1>1. /\ \A b \in Tasks : b # t => fut'[TaskOf(b)] = fut[TaskOf(b)]
      /\ fut'[TaskOf(t)] = "pending"
  BY FutureKinds DEF Created, ResultInv, TypeOK
<1>2. /\ \A b \in Tasks : b # t => co'[b] = co[b] /\ state'[b] = state[b]
      /\ co'[t] = "alive" /\ state'[t] = "pending"
  BY DEF Created, ResultInv, TypeOK
<1>3. QED
  BY <1>1, <1>2 DEF ResultInv, SettledIffDead, DoneMeansValue, Finished

(* Nothing is answered before the first spawn.                             *)
LEMMA ResultInit == Init => ResultInv
<1>1. Init => TypeOK
  BY TypeInit
<1>2. Init => \A t \in Tasks : fut[TaskOf(t)] = "idle" /\ co[t] = "none" /\ state[t] = "none"
  BY FutureKinds DEF Init
<1>3. QED
  BY <1>1, <1>2 DEF ResultInv, SettledIffDead, DoneMeansValue, Finished

(* Every step keeps the results right.                                     *)
LEMMA ResultStep == ResultInv /\ [Next]_vars => ResultInv'
<1> SUFFICES ASSUME ResultInv, [Next]_vars PROVE ResultInv'
  OBVIOUS
<1>a. TypeOK /\ TypeOK'
  BY TypeStep DEF ResultInv
<1>b. /\ \A t \in Tasks, s \in Strands : TaskOf(t) \in Futures /\ TaskOf(t) # TimerOf(s)
      /\ \A t, b \in Tasks : TaskOf(t) # GateOf(b)
      /\ Main \in Strands /\ Tasks \subseteq Strands
  BY FutureKinds
<1>c. \A b \in Tasks : Classified(b) = "done" => fut[TaskOf(b)] = "value"
  BY DEF Classified
<1>d. \A b \in Tasks : Blamed(b) # "done"
  BY DEF Blamed
<1>1. CASE RunFiber
  BY <1>1, <1>a, SameResults DEF RunFiber
<1>2. CASE Poll
  <2>1. \A t \in Tasks : fut'[TaskOf(t)] = fut[TaskOf(t)]
    BY <1>2, <1>b DEF Poll, Armed
  <2>2. QED
    BY <1>2, <1>a, <2>1, SameResults DEF Poll
<1>3. CASE PumpStart \/ PumpEnd
  BY <1>3, <1>a, SameResults DEF PumpStart, PumpEnd
<1>4. CASE MainWaited
  BY <1>4, <1>a, <1>c, SameResults DEF MainWaited, TypeOK
<1>5. CASE MainGivesUp
  BY <1>5, <1>a, <1>d, SameResults DEF MainGivesUp, TypeOK
<1>6. ASSUME NEW t \in Tasks, Block(t) PROVE ResultInv'
  <2>1. CASE FiberPause(t)
    BY <2>1, <1>a, <1>b, SameResults DEF FiberPause, TypeOK
  <2>2. CASE FiberPark(t)
    BY <2>2, <1>a, <1>b, SameResults DEF FiberPark, TypeOK
  <2>3. ASSUME NEW b \in Tasks, FiberWait(t, b) PROVE ResultInv'
    BY <2>3, <1>a, <1>c, <1>d, SameResults DEF FiberWait, TypeOK
  <2>4. CASE FinishAwait(t)
    BY <2>4, <1>a, <1>c, SameResults DEF FinishAwait, TypeOK
  <2>5. CASE AwaitCancelled(t)
    <3>1. CASE Ends(t, "cancelled", "error")
      BY <3>1, <1>a, EndsResults
    <3>2. CASE ~Ends(t, "cancelled", "error")
      BY <2>5, <3>2, <1>a, <1>d, SameResults DEF AwaitCancelled, TypeOK
    <3>3. QED
      BY <3>1, <3>2
  <2>6. CASE FiberReturn(t) \/ FiberRaise(t)
    BY <2>6, <1>a, EndsResults DEF FiberReturn, FiberRaise
  <2>7. ASSUME NEW b \in Tasks, Spawn(t, b) PROVE ResultInv'
    BY <2>7, <1>a, CreatedResults DEF Spawn
  <2>8. ASSUME NEW b \in Tasks, Cancel(t, b) PROVE ResultInv'
    BY <2>8, <1>a, SameResults DEF Cancel, TypeOK
  <2>9. ASSUME NEW b \in Tasks, Send(t, b) PROVE ResultInv'
    BY <2>9, <1>a, <1>b, SameResults DEF Send, TypeOK
  <2>10. QED
    BY <1>6, <2>1, <2>2, <2>3, <2>4, <2>5, <2>6, <2>7, <2>8, <2>9 DEF Block
<1>7. CASE MainCall
  <2>1. ASSUME NEW b \in Tasks, Spawn(Main, b) \/ SpawnEager(b) PROVE ResultInv'
    BY <2>1, <1>a, CreatedResults DEF Spawn, SpawnEager
  <2>2. ASSUME NEW b \in Tasks, Cancel(Main, b) PROVE ResultInv'
    BY <2>2, <1>a, SameResults DEF Cancel, TypeOK
  <2>3. ASSUME NEW b \in Tasks, Send(Main, b) PROVE ResultInv'
    BY <2>3, <1>a, <1>b, SameResults DEF Send, TypeOK
  <2>4. ASSUME NEW b \in Tasks, MainWait(b) PROVE ResultInv'
    BY <2>4, <1>a, SameResults DEF MainWait
  <2>5. CASE MainPause
    BY <2>5, <1>a, <1>b, SameResults DEF MainPause, TypeOK
  <2>6. QED
    BY <1>7, <2>1, <2>2, <2>3, <2>4, <2>5 DEF MainCall
<1>8. CASE UNCHANGED vars
  BY <1>8, <1>a, SameResults DEF vars
<1>9. QED
  BY <1>1, <1>2, <1>3, <1>4, <1>5, <1>6, <1>7, <1>8 DEF Next, Scheduler

(* A task's future is settled exactly when its fiber is over, however      *)
(* spawns, waits and cancels interleave.                                   *)
THEOREM SettledIffDeadCorrect == Spec => []SettledIffDead
<1>1. Spec => []ResultInv
  BY ResultInit, ResultStep, PTL DEF Spec
<1>2. ResultInv => SettledIffDead
  BY DEF ResultInv
<1>3. QED
  BY <1>1, <1>2, PTL

(* A task in state taskDone always has a value to read.                    *)
THEOREM DoneMeansValueCorrect == Spec => []DoneMeansValue
<1>1. Spec => []ResultInv
  BY ResultInit, ResultStep, PTL DEF Spec
<1>2. ResultInv => DoneMeansValue
  BY DEF ResultInv
<1>3. QED
  BY <1>1, <1>2, PTL
-----------------------------------------------------------------------------
(* Wake-ups.                                                               *)

(* Only spawned fibers are queued, each waits on its own timer or gate or  *)
(* on a spawned task, and nobody else is called back by a timer.           *)
QueuedIsSpawned ==
  \A t \in Tasks :
    \/ InQueue(t, ready) \/ InQueue(t, callbacks) \/ current = t
    \/ \E f \in Futures : InQueue(t, waiters[f])
    => co[t] # "none"
OwnTimers == \A t \in Tasks, s \in Strands : InQueue(t, waiters[TimerOf(s)]) => s = t
OwnPlace ==
  \A t \in Tasks :
    /\ co[t] = "none" => awaits[t] = Start
    /\ awaits[t] \in Futures =>
         \/ awaits[t] \in {TimerOf(t), GateOf(t)}
         \/ \E b \in Tasks : co[b] # "none" /\ awaits[t] = TaskOf(b)

WakeInv == TypeOK /\ QueuedIsSpawned /\ OwnTimers /\ OwnPlace /\ NoLostWakeup

(* Nobody waits before the first spawn.                                    *)
LEMMA WakeInit == Init => WakeInv
<1> SUFFICES ASSUME Init PROVE WakeInv
  OBVIOUS
<1>1. TypeOK
  BY TypeInit
<1>2. \A t \in Tasks : ~InQueue(t, <<>>)
  BY DEF InQueue
<1>3. \A f \in Futures : waiters[f] = <<>>
  BY DEF Init
<1>4. QueuedIsSpawned /\ OwnTimers
  BY <1>2, <1>3, FutureKinds DEF Init, QueuedIsSpawned, OwnTimers
<1>5. OwnPlace /\ NoLostWakeup
  BY FutureKinds DEF Init, OwnPlace, NoLostWakeup
<1>6. QED
  BY <1>1, <1>4, <1>5 DEF WakeInv

(* A step that moves no fiber keeps every wake-up.                         *)
LEMMA SameWakeups ==
  ASSUME WakeInv, TypeOK',
         UNCHANGED <<ready, current, co, awaits, waiters, callbacks>>,
         \A f \in Futures : fut'[f] = fut[f] \/ f = TimerOf(Main)
  PROVE  WakeInv'
<1>1. /\ QueuedIsSpawned' /\ OwnTimers' /\ OwnPlace'
  BY DEF WakeInv, QueuedIsSpawned, OwnTimers, OwnPlace
<1>2. \A t \in Tasks : awaits[t] \in Futures => awaits[t] # TimerOf(Main)
  BY FutureKinds DEF WakeInv, OwnPlace
<1>3. \A t \in Tasks : awaits[t] \in Futures => fut'[awaits[t]] = fut[awaits[t]]
  BY <1>2
<1>4. NoLostWakeup'
  BY <1>3 DEF WakeInv, NoLostWakeup, Finished
<1>5. QED
  BY <1>1, <1>4 DEF WakeInv

(* Resuming the head of a queue takes nobody else out of it.               *)
LEMMA ResumeWakeups ==
  ASSUME WakeInv, TypeOK', ready # <<>>, current = Main, ResumeHead(ready),
         UNCHANGED <<co, fut, waiters, callbacks>>
  PROVE  WakeInv'
<1> DEFINE h == Head(ready)
<1>1. /\ h \in Tasks /\ InQueue(h, ready) /\ ready' = Tail(ready)
      /\ \A t \in Tasks : InQueue(t, ready) => t = h \/ InQueue(t, ready')
      /\ \A t \in Tasks : InQueue(t, ready') => InQueue(t, ready)
  BY Beheaded DEF WakeInv, TypeOK, ResumeHead
<1>2. co[h] # "none" /\ h # Main
  BY <1>1, FutureKinds DEF WakeInv, QueuedIsSpawned
<1>3. /\ \A t \in Tasks : t # h => awaits'[t] = awaits[t]
      /\ awaits'[h] \in {awaits[h], Nothing}
      /\ current' = h \/ (current' = Main /\ co[h] = "dead")
  BY <1>1 DEF ResumeHead, Resumable, WakeInv, TypeOK
<1> HIDE DEF h
<1>4. QueuedIsSpawned' /\ OwnTimers'
  BY <1>1, <1>2, <1>3, FutureKinds DEF WakeInv, QueuedIsSpawned, OwnTimers
<1>5. OwnPlace'
  BY <1>1, <1>2, <1>3, FutureKinds DEF WakeInv, OwnPlace
<1>6. ASSUME NEW t \in Tasks, co'[t] = "alive", current' # t
      PROVE  IF awaits'[t] \in Futures /\ ~Finished(awaits[t])'
             THEN InQueue(t, waiters[awaits[t]])'
             ELSE InQueue(t, ready') \/ InQueue(t, callbacks')
  <2>1. t # h /\ current # t /\ co[t] = "alive" /\ awaits'[t] = awaits[t]
    BY <1>3, <1>6, FutureKinds
  <2>2. QED
    BY <1>1, <2>1 DEF WakeInv, NoLostWakeup, Finished
<1>7. QED
  BY <1>4, <1>5, <1>6 DEF WakeInv, NoLostWakeup, Finished
(* Strands know, await and cancel tasks that were spawned only.            *)
SpawnedInv ==
  /\ TypeOK
  /\ \A b \in Tasks :
       co[b] = "none" => /\ state[b] = "none"
                         /\ main # TaskOf(b)
                         /\ \A t \in Tasks : awaits[t] # TaskOf(b)

(* Nothing is known before the first spawn.                                *)
LEMMA SpawnedInit == Init => SpawnedInv
  BY TypeInit, FutureKinds DEF Init, SpawnedInv, Free, TaskOf, Start

(* A task stays spawned, and is known to nobody before.                    *)
LEMMA SpawnedStep == SpawnedInv /\ [Next]_vars => SpawnedInv'
<1> SUFFICES ASSUME SpawnedInv, [Next]_vars PROVE SpawnedInv'
  OBVIOUS
<1>a. TypeOK /\ TypeOK'
  BY TypeStep DEF SpawnedInv
<1>b. /\ \A b, t \in Tasks : TaskOf(b) # TimerOf(t) /\ TaskOf(b) # GateOf(t)
      /\ \A b \in Tasks : /\ TaskOf(b) # TimerOf(Main) /\ TaskOf(b) \in TaskFutures
                           /\ TaskOf(b) # Nothing /\ TaskOf(b) # Free /\ TaskOf(b) # Pump
      /\ \A b, t \in Tasks : TaskOf(b) = TaskOf(t) => b = t
  BY FutureKinds DEF TaskOf, Free, Pump, Nothing
<1>c. ASSUME NEW q \in Seq(Tasks), ResumeHead(q)
      PROVE  \A t \in Tasks : awaits'[t] \in {awaits[t], Nothing}
  BY <1>c, <1>a DEF ResumeHead, TypeOK
<1>1. CASE RunFiber
  BY <1>1, <1>a, <1>b, <1>c DEF RunFiber, SpawnedInv, TypeOK
<1>2. CASE Poll
  BY <1>2, <1>a, <1>b DEF Poll, SpawnedInv
<1>3. CASE PumpStart \/ PumpEnd
  BY <1>3, <1>a, <1>b DEF PumpStart, PumpEnd, SpawnedInv
<1>4. CASE MainWaited
  BY <1>4, <1>a, <1>b DEF MainWaited, SpawnedInv, TypeOK
<1>5. CASE MainGivesUp
  BY <1>5, <1>a, <1>b DEF MainGivesUp, SpawnedInv, TypeOK
<1>6. ASSUME NEW t \in Tasks, Block(t) PROVE SpawnedInv'
  <2>1. CASE FiberPause(t)
    BY <2>1, <1>a, <1>b DEF FiberPause, SuspendOn, SpawnedInv, TypeOK
  <2>2. CASE FiberPark(t)
    BY <2>2, <1>a, <1>b DEF FiberPark, SuspendOn, SpawnedInv, TypeOK
  <2>3. ASSUME NEW b \in Tasks, FiberWait(t, b) PROVE SpawnedInv'
    BY <2>3, <1>a, <1>b DEF FiberWait, SuspendOn, SpawnedInv, TypeOK
  <2>4. CASE FinishAwait(t)
    BY <2>4, <1>a, <1>b DEF FinishAwait, SpawnedInv, TypeOK
  <2>5. ASSUME NEW st, NEW r, Ends(t, st, r), UNCHANGED main
        PROVE  SpawnedInv'
    BY <2>5, <1>a, <1>b DEF Ends, SpawnedInv, TypeOK
  <2>6. CASE AwaitCancelled(t)
    <3>1. CASE \E b \in Tasks : awaits[t] = TaskOf(b)
      BY <2>6, <3>1, <1>a, <1>b DEF AwaitCancelled, SpawnedInv, TypeOK
    <3>2. CASE Ends(t, "cancelled", "error") /\ UNCHANGED main
      BY <3>2, <2>5
    <3>3. CASE awaits' = [awaits EXCEPT ![t] = Nothing] /\ UNCHANGED <<co, state, main>>
      BY <3>3, <1>a, <1>b DEF SpawnedInv, TypeOK
    <3>4. QED
      BY <2>6, <3>1, <3>2, <3>3 DEF AwaitCancelled
  <2>7. CASE FiberReturn(t) \/ FiberRaise(t)
    BY <2>7, <2>5 DEF FiberReturn, FiberRaise
  <2>8. ASSUME NEW b \in Tasks, Spawn(t, b) PROVE SpawnedInv'
    BY <2>8, <1>a DEF Spawn, Created, SpawnedInv, TypeOK
  <2>9. ASSUME NEW b \in Tasks, Cancel(t, b) PROVE SpawnedInv'
    BY <2>9, <1>a DEF Cancel, SpawnedInv, TypeOK
  <2>10. ASSUME NEW b \in Tasks, Send(t, b) PROVE SpawnedInv'
    BY <2>10, <1>a DEF Send, SpawnedInv
  <2>11. QED
    BY <1>6, <2>1, <2>2, <2>3, <2>4, <2>6, <2>7, <2>8, <2>9, <2>10 DEF Block
<1>7. CASE MainCall
  <2>1. ASSUME NEW b \in Tasks, Spawn(Main, b) PROVE SpawnedInv'
    BY <2>1, <1>a DEF Spawn, Created, SpawnedInv, TypeOK
  <2>2. ASSUME NEW b \in Tasks, SpawnEager(b) PROVE SpawnedInv'
    <3>1. Append(ready, b) \in Seq(Tasks)
      BY <1>a, Appended DEF TypeOK
    <3>2. \A t \in Tasks : awaits'[t] \in {awaits[t], Nothing}
      BY <2>2, <3>1, <1>c DEF SpawnEager
    <3>3. QED
      BY <2>2, <3>2, <1>a, <1>b DEF SpawnEager, Created, SpawnedInv, TypeOK
  <2>3. ASSUME NEW b \in Tasks, Cancel(Main, b) PROVE SpawnedInv'
    BY <2>3, <1>a DEF Cancel, SpawnedInv, TypeOK
  <2>4. ASSUME NEW b \in Tasks, Send(Main, b) PROVE SpawnedInv'
    BY <2>4, <1>a DEF Send, SpawnedInv
  <2>5. ASSUME NEW b \in Tasks, MainWait(b) PROVE SpawnedInv'
    BY <2>5, <1>a, <1>b DEF MainWait, SpawnedInv
  <2>6. CASE MainPause
    BY <2>6, <1>a, <1>b DEF MainPause, SpawnedInv
  <2>7. QED
    BY <1>7, <2>1, <2>2, <2>3, <2>4, <2>5, <2>6 DEF MainCall
<1>8. CASE UNCHANGED vars
  BY <1>8, <1>a DEF vars, SpawnedInv
<1>9. QED
  BY <1>1, <1>2, <1>3, <1>4, <1>5, <1>6, <1>7, <1>8 DEF Next, Scheduler
(* A running fiber that suspends has left its callback behind.             *)
LEMMA SuspendWakeups ==
  ASSUME WakeInv, TypeOK', NEW t \in Tasks, current = t, NEW f \in Futures,
         f \in {TimerOf(t), GateOf(t)} \/ \E b \in Tasks : co[b] # "none" /\ f = TaskOf(b),
         SuspendOn(t, f), fut'[f] \notin {"value", "error"},
         \A g \in Futures : fut'[g] = fut[g] \/ g \in {TimerOf(t), GateOf(t)},
         UNCHANGED <<ready, co, callbacks>>
  PROVE  WakeInv'
<1>1. /\ \A g \in Futures : g # f => waiters'[g] = waiters[g]
      /\ \A u \in Tasks : InQueue(u, waiters'[f]) <=> InQueue(u, waiters[f]) \/ u = t
      /\ \A u \in Tasks : u # t => awaits'[u] = awaits[u]
      /\ awaits'[t] = f /\ current' = Main
  BY Appended DEF SuspendOn, AddCallback, WakeInv, TypeOK
<1>2. co[t] # "none"
  BY DEF WakeInv, QueuedIsSpawned
<1>3. QueuedIsSpawned'
  BY <1>1, <1>2, FutureKinds DEF WakeInv, QueuedIsSpawned
<1>4. OwnTimers'
  BY <1>1, FutureKinds DEF WakeInv, OwnTimers
<1>5. OwnPlace'
  BY <1>1, <1>2 DEF WakeInv, OwnPlace
<1>6. \A u \in Tasks : u # t /\ awaits[u] \in Futures => fut'[awaits[u]] = fut[awaits[u]]
  BY FutureKinds DEF WakeInv, OwnPlace
<1>7. NoLostWakeup'
  BY <1>1, <1>6 DEF WakeInv, NoLostWakeup, Finished
<1>8. QED
  BY <1>3, <1>4, <1>5, <1>7 DEF WakeInv

(* A running fiber needs no wake-up, whatever it is about to wait for.     *)
LEMMA RunningWakeups ==
  ASSUME WakeInv, TypeOK', NEW t \in Tasks, current = t, current' = t,
         NEW x \in {Nothing, TimerOf(t), GateOf(t)},
         awaits' = [awaits EXCEPT ![t] = x],
         \A g \in Futures : fut'[g] = fut[g] \/ g \in {TimerOf(t), GateOf(t)},
         UNCHANGED <<ready, co, waiters, callbacks>>
  PROVE  WakeInv'
<1>1. /\ \A u \in Tasks : u # t => awaits'[u] = awaits[u]
      /\ awaits'[t] = x
  BY DEF WakeInv, TypeOK
<1>2. co[t] # "none"
  BY DEF WakeInv, QueuedIsSpawned
<1>3. QueuedIsSpawned' /\ OwnTimers' /\ OwnPlace'
  BY <1>1, <1>2, FutureKinds DEF WakeInv, QueuedIsSpawned, OwnTimers, OwnPlace
<1>4. \A u \in Tasks : u # t /\ awaits[u] \in Futures => fut'[awaits[u]] = fut[awaits[u]]
  BY FutureKinds DEF WakeInv, OwnPlace
<1>5. NoLostWakeup'
  BY <1>1, <1>4 DEF WakeInv, NoLostWakeup, Finished
<1>6. QED
  BY <1>3, <1>5 DEF WakeInv

(* A future that settles hands all its waiters to the ready queue, now or  *)
(* by way of the dispatcher.                                               *)
LEMMA SettleWakeups ==
  ASSUME WakeInv, TypeOK', NEW f \in Futures, Wake(waiters[f]),
         waiters' = [waiters EXCEPT ![f] = <<>>],
         fut'[f] \in {"value", "error"},
         \A g \in Futures : g # f => fut'[g] = fut[g],
         current' \in {current, Main},
         \A u \in Tasks : co'[u] = co[u] \/ (co[u] # "none" /\ co'[u] = "dead"),
         \A u \in Tasks : awaits'[u] = awaits[u] \/ (co'[u] = "dead" /\ awaits'[u] = Nothing),
         \A u \in Tasks : co'[u] = "alive" /\ current' # u => current # u
  PROVE  WakeInv'
<1>1. waiters[f] \in Seq(Tasks) /\ ready \in Seq(Tasks) /\ callbacks \in Seq(Tasks)
  BY DEF WakeInv, TypeOK
<1>2. /\ \A u \in Tasks : InQueue(u, ready') \/ InQueue(u, callbacks')
                             <=> InQueue(u, ready) \/ InQueue(u, callbacks) \/ InQueue(u, waiters[f])
  <2> DEFINE q == waiters[f]
  <2>1. /\ \A u \in Tasks : InQueue(u, callbacks \o q) <=> InQueue(u, callbacks) \/ InQueue(u, q)
        /\ \A u \in Tasks : InQueue(u, ready \o q) <=> InQueue(u, ready) \/ InQueue(u, q)
    BY <1>1, Joined
  <2>2. \/ callbacks' = callbacks \o q /\ ready' = ready
        \/ callbacks' = callbacks /\ ready' = ready \o q
    BY DEF Wake
  <2> HIDE DEF q
  <2>3. CASE callbacks' = callbacks \o q /\ ready' = ready
    BY <2>1, <2>3 DEF q
  <2>4. CASE callbacks' = callbacks /\ ready' = ready \o q
    BY <2>1, <2>4 DEF q
  <2>5. QED
    BY <2>2, <2>3, <2>4
<1>3. /\ \A g \in Futures : g # f => waiters'[g] = waiters[g]
      /\ waiters'[f] = <<>>
      /\ \A u \in Tasks : ~InQueue(u, <<>>)
  BY DEF WakeInv, TypeOK, InQueue
<1>4. QueuedIsSpawned'
  BY <1>2, <1>3, FutureKinds DEF WakeInv, QueuedIsSpawned
<1>5. OwnTimers'
  BY <1>3, FutureKinds DEF WakeInv, OwnTimers
<1>6. OwnPlace'
  BY FutureKinds DEF WakeInv, OwnPlace
<1>7. ASSUME NEW u \in Tasks, co'[u] = "alive", current' # u
      PROVE  IF awaits'[u] \in Futures /\ ~Finished(awaits[u])'
             THEN InQueue(u, waiters[awaits[u]])'
             ELSE InQueue(u, ready') \/ InQueue(u, callbacks')
  <2>1. co[u] = "alive" /\ current # u /\ awaits'[u] = awaits[u]
    BY <1>7
  <2>2. CASE awaits[u] = f
    BY <1>2, <2>1, <2>2 DEF WakeInv, NoLostWakeup, Finished
  <2>3. CASE awaits[u] # f
    BY <1>2, <1>3, <2>1, <2>3 DEF WakeInv, NoLostWakeup, Finished
  <2>4. QED
    BY <2>2, <2>3
<1>8. QED
  BY <1>4, <1>5, <1>6, <1>7 DEF WakeInv, NoLostWakeup, Finished

(* A fiber that is queued once more is queued; so is a new one.            *)
LEMMA QueueWakeups ==
  ASSUME WakeInv, TypeOK', NEW b \in Tasks, ready' = Append(ready, b), co'[b] # "none",
         \A u \in Tasks : u # b => co'[u] = co[u],
         co'[b] = co[b] \/ co[b] = "none",
         \A g \in Futures : fut'[g] = fut[g] \/ (g = TaskOf(b) /\ co[b] = "none"),
         \A u \in Tasks : co[b] = "none" => awaits[u] # TaskOf(b),
         UNCHANGED <<current, awaits, waiters, callbacks>>
  PROVE  WakeInv'
<1>1. \A u \in Tasks : InQueue(u, ready') <=> InQueue(u, ready) \/ u = b
  BY Appended DEF WakeInv, TypeOK
<1>2. QueuedIsSpawned' /\ OwnTimers'
  BY <1>1 DEF WakeInv, QueuedIsSpawned, OwnTimers
<1>3. OwnPlace'
  BY DEF WakeInv, OwnPlace
<1>4. \A u \in Tasks : awaits[u] \in Futures => fut'[awaits[u]] = fut[awaits[u]]
  OBVIOUS
<1>5. co[b] = "none" => awaits[b] \notin Futures
  BY FutureKinds DEF WakeInv, OwnPlace
<1>6. NoLostWakeup'
  BY <1>1, <1>4, <1>5 DEF WakeInv, NoLostWakeup, Finished
<1>7. QED
  BY <1>2, <1>3, <1>6 DEF WakeInv
(* do.async on Main: the new fiber is queued, and the head of the queue,   *)
(* the new fiber or another, is resumed.                                   *)
LEMMA EagerWakeups ==
  ASSUME WakeInv, SpawnedInv, TypeOK', NEW b \in Tasks, current = Main, Created(b),
         ResumeHead(Append(ready, b)), UNCHANGED <<waiters, callbacks>>
  PROVE  WakeInv'
<1> DEFINE q == Append(ready, b)
           h == Head(q)
<1>0. /\ q \in Seq(Tasks) /\ q # <<>>
      /\ \A t \in Tasks : InQueue(t, q) <=> InQueue(t, ready) \/ t = b
  BY Appended, AppendProperties DEF WakeInv, TypeOK
<1>1. /\ h \in Tasks /\ InQueue(h, q) /\ ready' = Tail(q)
      /\ \A t \in Tasks : InQueue(t, q) => t = h \/ InQueue(t, ready')
      /\ \A t \in Tasks : InQueue(t, ready') => InQueue(t, q)
  BY <1>0, Beheaded DEF ResumeHead
<1>2. /\ co[b] = "none" /\ co'[b] = "alive"
      /\ \A t \in Tasks : t # b => co'[t] = co[t]
      /\ \A f \in Futures : f # TaskOf(b) => fut'[f] = fut[f]
  BY DEF Created, WakeInv, TypeOK
<1>3. /\ \A t \in Tasks : t # h => awaits'[t] = awaits[t]
      /\ awaits'[h] \in {awaits[h], Nothing}
      /\ current' = h \/ (current' = Main /\ co[h] = "dead")
  BY <1>1 DEF ResumeHead, Resumable, WakeInv, TypeOK
<1>4. \A t \in Tasks : InQueue(t, ready) \/ InQueue(t, callbacks) => co[t] # "none"
  BY DEF WakeInv, QueuedIsSpawned
<1>5. co'[h] # "none" /\ h # Main
  BY <1>0, <1>1, <1>2, <1>4, FutureKinds
<1> HIDE DEF h, q
<1>6. QueuedIsSpawned'
  <2>1. ASSUME NEW t \in Tasks, InQueue(t, ready') \/ InQueue(t, callbacks') \/ current' = t
        PROVE  co'[t] # "none"
    BY <1>0, <1>1, <1>2, <1>3, <1>4, <1>5, <2>1, FutureKinds
  <2>2. ASSUME NEW t \in Tasks, NEW f \in Futures, InQueue(t, waiters[f])
        PROVE  co'[t] # "none"
    BY <1>2, <2>2 DEF WakeInv, QueuedIsSpawned
  <2>3. QED
    BY <2>1, <2>2 DEF QueuedIsSpawned
<1>7. OwnTimers'
  BY DEF WakeInv, OwnTimers
<1>8. OwnPlace'
  BY <1>2, <1>3, <1>5, FutureKinds DEF WakeInv, OwnPlace
<1>9. ASSUME NEW t \in Tasks, co'[t] = "alive", current' # t
      PROVE  IF awaits'[t] \in Futures /\ ~Finished(awaits[t])'
             THEN InQueue(t, waiters[awaits[t]])'
             ELSE InQueue(t, ready') \/ InQueue(t, callbacks')
  <2>1. t # h
    BY <1>0, <1>1, <1>2, <1>3, <1>4, <1>9
  <2>2. awaits'[t] = awaits[t] /\ awaits[t] # TaskOf(b)
    BY <1>2, <1>3, <2>1 DEF SpawnedInv
  <2>3. CASE t = b
    <3>1. awaits'[t] \notin Futures
      BY <1>2, <2>2, <2>3, FutureKinds DEF WakeInv, OwnPlace
    <3>2. InQueue(t, ready')
      BY <1>0, <1>1, <2>1, <2>3
    <3>3. QED
      BY <3>1, <3>2
  <2>4. CASE t # b
    <3>1. co[t] = "alive" /\ current # t
      BY <1>2, <1>9, <2>4, FutureKinds
    <3>2. InQueue(t, ready) => InQueue(t, ready')
      BY <1>0, <1>1, <2>1
    <3>3. awaits[t] \in Futures => fut'[awaits[t]] = fut[awaits[t]]
      BY <1>2, <2>2
    <3>4. QED
      BY <2>2, <3>1, <3>2, <3>3 DEF WakeInv, NoLostWakeup, Finished
  <2>5. QED
    BY <2>3, <2>4
<1>10. QED
  BY <1>6, <1>7, <1>8, <1>9 DEF WakeInv, NoLostWakeup, Finished

(* poll: every queued callback runs, and those of the timers that expired. *)
LEMMA PollWakeups ==
  ASSUME WakeInv, TypeOK', Poll
  PROVE  WakeInv'
<1>1. PICK S \in SUBSET Armed :
        /\ \E q \in Orders(Due(S)) : ready' = callbacks \o q
        /\ fut' = [f \in Futures |-> IF f \in {TimerOf(s) : s \in S} THEN "value" ELSE fut[f]]
        /\ waiters' = [f \in Futures |-> IF f \in {TimerOf(s) : s \in S} THEN <<>> ELSE waiters[f]]
  BY DEF Poll
<1>2. PICK q \in Orders(Due(S)) : ready' = callbacks \o q
  BY <1>1
<1>3. /\ q \in Seq(Tasks)
      /\ \A t \in Due(S) : InQueue(t, q)
  BY <1>2, DueType DEF WakeInv
<1>4. \A t \in Tasks : InQueue(t, ready') <=> InQueue(t, callbacks) \/ InQueue(t, q)
  BY <1>2, <1>3, Joined DEF WakeInv, TypeOK
<1>5. \A t \in Tasks : InQueue(t, q) => t \in Due(S)
  BY <1>2 DEF Orders, InQueue
<1>6. S \subseteq Strands /\ \A s \in S : TimerOf(s) \in Futures
  BY FutureKinds DEF Armed
<1>7. ready = <<>> /\ callbacks' = <<>> /\ UNCHANGED <<current, co, awaits>>
  BY DEF Poll
<1>8. \A t \in Tasks : ~InQueue(t, <<>>)
  BY DEF InQueue
<1>9. \A t \in Due(S) : InQueue(t, waiters[TimerOf(t)])
  <2>1. ASSUME NEW t \in Due(S) PROVE InQueue(t, waiters[TimerOf(t)])
    <3>1. t \in Tasks /\ t \in Strands /\ waiters[TimerOf(t)] \in Seq(Tasks) /\ waiters[TimerOf(t)] # <<>>
      BY FutureKinds DEF Due, WakeInv, TypeOK
    <3>2. PICK u \in Tasks : InQueue(u, waiters[TimerOf(t)])
      BY <3>1, Beheaded
    <3>3. u = t
      BY <3>1, <3>2 DEF WakeInv, OwnTimers
    <3>4. QED
      BY <3>2, <3>3
  <2>2. QED
    BY <2>1
<1>10. QueuedIsSpawned'
  <2>1. ASSUME NEW t \in Tasks, InQueue(t, ready') PROVE co[t] # "none"
    BY <1>4, <1>5, <1>6, <1>9, <2>1, FutureKinds DEF WakeInv, QueuedIsSpawned
  <2>2. ASSUME NEW t \in Tasks, NEW f \in Futures, InQueue(t, waiters'[f]) PROVE co[t] # "none"
    BY <1>1, <1>8, <2>2 DEF WakeInv, QueuedIsSpawned
  <2>3. QED
    BY <1>7, <1>8, <2>1, <2>2 DEF WakeInv, QueuedIsSpawned
<1>11. OwnTimers'
  BY <1>1, <1>8, FutureKinds DEF WakeInv, OwnTimers
<1>12. OwnPlace'
  BY <1>7 DEF WakeInv, OwnPlace
<1>13. ASSUME NEW t \in Tasks, co'[t] = "alive", current' # t
       PROVE  IF awaits'[t] \in Futures /\ ~Finished(awaits[t])'
              THEN InQueue(t, waiters[awaits[t]])'
              ELSE InQueue(t, ready') \/ InQueue(t, callbacks')
  <2>1. co[t] = "alive" /\ current # t /\ awaits'[t] = awaits[t] /\ ~InQueue(t, ready)
    BY <1>7, <1>8, <1>13
  <2>2. CASE awaits[t] \in Futures /\ awaits[t] \in {TimerOf(s) : s \in S}
    <3>1. awaits[t] = TimerOf(t) /\ t \in S
      BY <1>6, <2>2, FutureKinds DEF WakeInv, OwnPlace
    <3>2. fut[TimerOf(t)] = "pending" /\ fut'[TimerOf(t)] = "value"
      BY <1>1, <1>6, <3>1 DEF Armed
    <3>3. InQueue(t, waiters[TimerOf(t)])
      BY <2>1, <2>2, <3>1, <3>2 DEF WakeInv, NoLostWakeup, Finished
    <3>4. t \in Due(S)
      BY <1>8, <3>1, <3>3 DEF Due
    <3>5. QED
      BY <1>3, <1>4, <2>1, <3>1, <3>2, <3>4 DEF Finished
  <2>3. CASE awaits[t] \in Futures /\ awaits[t] \notin {TimerOf(s) : s \in S}
    <3>1. fut'[awaits[t]] = fut[awaits[t]] /\ waiters'[awaits[t]] = waiters[awaits[t]]
      BY <1>1, <2>3
    <3>2. QED
      BY <1>4, <2>1, <2>3, <3>1 DEF WakeInv, NoLostWakeup, Finished
  <2>4. CASE awaits[t] \notin Futures
    BY <1>4, <2>1, <2>4 DEF WakeInv, NoLostWakeup
  <2>5. QED
    BY <2>2, <2>3, <2>4
<1>14. QED
  BY <1>10, <1>11, <1>12, <1>13 DEF WakeInv, NoLostWakeup, Finished
(* The end of a fiber wakes everybody who waits for its task.              *)
LEMMA EndsWakeups ==
  ASSUME WakeInv, TypeOK', NEW t \in Tasks, current = t, NEW st,
         NEW result \in {"value", "error"}, Ends(t, st, result)
  PROVE  WakeInv'
<1>1. /\ TaskOf(t) \in Futures /\ fut'[TaskOf(t)] = result
      /\ \A g \in Futures : g # TaskOf(t) => fut'[g] = fut[g]
  BY FutureKinds DEF Ends, Settles, WakeInv, TypeOK
<1>2. /\ \A u \in Tasks : u # t => co'[u] = co[u] /\ awaits'[u] = awaits[u]
      /\ co'[t] = "dead" /\ awaits'[t] = Nothing /\ co[t] # "none"
  BY DEF Ends, WakeInv, TypeOK, QueuedIsSpawned
<1>3. \A u \in Tasks : co'[u] = "alive" /\ current' # u => current # u
  BY <1>2
<1>4. QED
  BY <1>1, <1>2, <1>3, SettleWakeups DEF Ends

(* The calls that Main and a block share lose no wake-up.                  *)
LEMMA CallsWakeups ==
  ASSUME WakeInv, SpawnedInv, TypeOK', NEW s \in Strands, NEW b \in Tasks,
         Spawn(s, b) \/ Cancel(s, b) \/ Send(s, b)
  PROVE  WakeInv'
<1>a. TypeOK
  BY DEF WakeInv
<1>1. CASE Spawn(s, b)
  <2>1. /\ ready' = Append(ready, b) /\ co[b] = "none" /\ co'[b] = "alive"
        /\ \A u \in Tasks : u # b => co'[u] = co[u]
        /\ \A g \in Futures : g # TaskOf(b) => fut'[g] = fut[g]
        /\ UNCHANGED <<current, awaits, waiters, callbacks>>
    BY <1>1, <1>a DEF Spawn, Created, TypeOK
  <2>2. \A u \in Tasks : awaits[u] # TaskOf(b)
    BY <2>1 DEF SpawnedInv
  <2>3. QED
    BY <2>1, <2>2, QueueWakeups
<1>2. CASE Cancel(s, b)
  <2>1. co[b] # "none" /\ UNCHANGED <<current, co, awaits, fut, waiters, callbacks>>
    BY <1>2 DEF Cancel, SpawnedInv
  <2>2. CASE ready' = Append(ready, b)
    BY <2>1, <2>2, QueueWakeups
  <2>3. CASE ready' = ready
    BY <2>1, <2>3, SameWakeups
  <2>4. QED
    BY <1>2, <2>2, <2>3 DEF Cancel, MakeReady
<1>3. CASE Send(s, b)
  <2>1. /\ GateOf(b) \in Futures /\ fut'[GateOf(b)] = "value"
        /\ \A g \in Futures : g # GateOf(b) => fut'[g] = fut[g]
    BY <1>3, <1>a, FutureKinds DEF Send, TypeOK
  <2>2. QED
    BY <1>3, <2>1, SettleWakeups DEF Send
<1>4. QED
  BY <1>1, <1>2, <1>3

(* No step of the scheduler, of a block or of Main loses a wake-up.        *)
LEMMA WakeStep == WakeInv /\ SpawnedInv /\ [Next]_vars => WakeInv'
<1> SUFFICES ASSUME WakeInv, SpawnedInv, [Next]_vars PROVE WakeInv'
  OBVIOUS
<1>a. TypeOK /\ TypeOK'
  BY TypeStep DEF WakeInv
<1>1. CASE RunFiber
  BY <1>1, <1>a, ResumeWakeups DEF RunFiber, Turning
<1>2. CASE Poll
  BY <1>2, <1>a, PollWakeups
<1>3. CASE PumpStart \/ PumpEnd
  BY <1>3, <1>a, SameWakeups DEF PumpStart, PumpEnd
<1>4. CASE MainWaited
  BY <1>4, <1>a, SameWakeups DEF MainWaited
<1>5. CASE MainGivesUp
  BY <1>5, <1>a, SameWakeups DEF MainGivesUp
<1>6. ASSUME NEW t \in Tasks, Block(t) PROVE WakeInv'
  <2>a. /\ TimerOf(t) \in Futures /\ GateOf(t) \in Futures
        /\ \A b \in Tasks : TaskOf(b) \in Futures
    BY FutureKinds
  <2>1. CASE FiberPause(t)
    <3>1. /\ current = t /\ UNCHANGED <<ready, co, callbacks>>
          /\ fut'[TimerOf(t)] = "pending"
          /\ \A g \in Futures : g # TimerOf(t) => fut'[g] = fut[g]
      BY <2>1, <2>a, <1>a DEF FiberPause, Runs, TypeOK
    <3>2. CASE SuspendOn(t, TimerOf(t))
      BY <1>a, <2>a, <3>1, <3>2, SuspendWakeups
    <3>3. CASE awaits' = [awaits EXCEPT ![t] = TimerOf(t)] /\ UNCHANGED <<waiters, current>>
      BY <1>a, <3>1, <3>3, RunningWakeups
    <3>4. QED
      BY <2>1, <3>2, <3>3 DEF FiberPause
  <2>2. CASE FiberPark(t)
    <3>1. /\ current = t /\ UNCHANGED <<ready, co, callbacks>>
          /\ fut'[GateOf(t)] = "pending"
          /\ \A g \in Futures : g # GateOf(t) => fut'[g] = fut[g]
      BY <2>2, <2>a, <1>a DEF FiberPark, Runs, TypeOK
    <3>2. CASE SuspendOn(t, GateOf(t))
      BY <1>a, <2>a, <3>1, <3>2, SuspendWakeups
    <3>3. CASE awaits' = [awaits EXCEPT ![t] = GateOf(t)] /\ UNCHANGED <<waiters, current>>
      BY <1>a, <3>1, <3>3, RunningWakeups
    <3>4. QED
      BY <2>2, <3>2, <3>3 DEF FiberPark
  <2>3. ASSUME NEW b \in Tasks, FiberWait(t, b) PROVE WakeInv'
    <3>1. current = t /\ co[b] # "none" /\ UNCHANGED <<ready, co, callbacks, fut>>
      BY <2>3 DEF FiberWait, Runs
    <3>2. CASE SuspendOn(t, TaskOf(b)) /\ ~Finished(TaskOf(b))
      BY <1>a, <2>a, <3>1, <3>2, SuspendWakeups DEF Finished
    <3>3. CASE UNCHANGED <<current, awaits, waiters>>
      BY <1>a, <3>1, <3>3, SameWakeups
    <3>4. QED
      BY <2>3, <3>2, <3>3 DEF FiberWait
  <2>4. CASE FinishAwait(t)
    BY <2>4, <1>a, RunningWakeups DEF FinishAwait, Resumed
  <2>5. CASE AwaitCancelled(t)
    <3>1. CASE Ends(t, "cancelled", "error")
      BY <2>5, <3>1, <1>a, EndsWakeups DEF AwaitCancelled, Resumed
    <3>2. CASE ~Ends(t, "cancelled", "error")
      BY <2>5, <3>2, <1>a, RunningWakeups DEF AwaitCancelled, Resumed
    <3>3. QED
      BY <3>1, <3>2
  <2>6. CASE FiberReturn(t) \/ FiberRaise(t)
    BY <2>6, <1>a, EndsWakeups DEF FiberReturn, FiberRaise, Runs
  <2>7. ASSUME NEW b \in Tasks, Spawn(t, b) \/ Cancel(t, b) \/ Send(t, b) PROVE WakeInv'
    BY <2>7, <1>a, CallsWakeups, FutureKinds
  <2>8. QED
    BY <1>6, <2>1, <2>2, <2>3, <2>4, <2>5, <2>6, <2>7 DEF Block
<1>7. CASE MainCall
  <2>1. ASSUME NEW b \in Tasks, Spawn(Main, b) \/ Cancel(Main, b) \/ Send(Main, b)
        PROVE  WakeInv'
    BY <2>1, <1>a, CallsWakeups, FutureKinds
  <2>2. ASSUME NEW b \in Tasks, SpawnEager(b) PROVE WakeInv'
    BY <2>2, <1>a, EagerWakeups DEF SpawnEager, Acting
  <2>3. ASSUME NEW b \in Tasks, MainWait(b) PROVE WakeInv'
    BY <2>3, <1>a, SameWakeups DEF MainWait
  <2>4. CASE MainPause
    BY <2>4, <1>a, SameWakeups DEF MainPause, TypeOK
  <2>5. QED
    BY <1>7, <2>1, <2>2, <2>3, <2>4 DEF MainCall
<1>8. CASE UNCHANGED vars
  BY <1>8, <1>a, SameWakeups DEF vars
<1>9. QED
  BY <1>1, <1>2, <1>3, <1>4, <1>5, <1>6, <1>7, <1>8 DEF Next, Scheduler

(* No fiber is ever forgotten: one that is alive and not running is in the *)
(* ready queue or about to be, or the future it awaits will put it there.  *)
THEOREM NoLostWakeupCorrect == Spec => []NoLostWakeup
<1>1. Init => WakeInv /\ SpawnedInv
  BY WakeInit, SpawnedInit
<1>2. WakeInv /\ SpawnedInv /\ [Next]_vars => (WakeInv /\ SpawnedInv)'
  BY WakeStep, SpawnedStep
<1>3. WakeInv => NoLostWakeup
  BY DEF WakeInv
<1>4. QED
  BY <1>1, <1>2, <1>3, PTL DEF Spec

-----------------------------------------------------------------------------
(* Resuming.  A fiber that nobody asked to stop is at one place only: it   *)
(* runs, or it is queued once and has a reason to be, or its one callback  *)
(* is registered with the unfinished future it awaits.  So the entry of    *)
(* the ready queue that resumes it is its last.                            *)
Once(t, q) == \A i, j \in DOMAIN q : q[i] = t /\ q[j] = t => i = j
Queued(t) == InQueue(t, ready) \/ InQueue(t, callbacks)
HasReason(t) == awaits[t] = Start \/ (awaits[t] \in Futures /\ Finished(awaits[t]))

OnePlace(t) ==
  /\ Once(t, ready) /\ Once(t, callbacks)
  /\ ~(InQueue(t, ready) /\ InQueue(t, callbacks))
  /\ Queued(t) => current # t /\ HasReason(t)
  /\ \A f \in Futures :
       InQueue(t, waiters[f]) =>
         current # t /\ awaits[t] = f /\ ~Finished(f) /\ Once(t, waiters[f])

ResumeInv ==
  \A t \in Tasks : co[t] # "dead" /\ ~cancelRequested[t] => OnePlace(t)

(* The queue operations keep a fiber that is queued once queued once.      *)
LEMMA AppendedOnce ==
  ASSUME NEW q \in Seq(Tasks), NEW b \in Tasks, NEW t \in Tasks, Once(t, q),
         t = b => ~InQueue(t, q)
  PROVE  Once(t, Append(q, b))
<1>1. /\ Len(Append(q, b)) = Len(q) + 1 /\ Append(q, b) \in Seq(Tasks)
      /\ \A i \in 1 .. Len(q) : Append(q, b)[i] = q[i]
      /\ Append(q, b)[Len(q) + 1] = b
  BY AppendProperties
<1>2. DOMAIN q = 1 .. Len(q) /\ Len(q) \in Nat /\ DOMAIN Append(q, b) = 1 .. Len(q) + 1
  BY <1>1, LenProperties
<1>3. QED
  BY <1>1, <1>2 DEF Once, InQueue

LEMMA JoinedOnce ==
  ASSUME NEW p \in Seq(Tasks), NEW q \in Seq(Tasks), NEW t \in Tasks,
         Once(t, p), Once(t, q), ~(InQueue(t, p) /\ InQueue(t, q))
  PROVE  Once(t, p \o q)
<1> DEFINE r == p \o q
<1>1. /\ r \in Seq(Tasks) /\ Len(r) = Len(p) + Len(q)
      /\ \A i \in 1 .. Len(p) + Len(q) : r[i] = IF i <= Len(p) THEN p[i] ELSE q[i - Len(p)]
  BY ConcatProperties
<1>2. /\ DOMAIN p = 1 .. Len(p) /\ Len(p) \in Nat
      /\ DOMAIN q = 1 .. Len(q) /\ Len(q) \in Nat
      /\ DOMAIN r = 1 .. Len(p) + Len(q)
  BY <1>1, LenProperties
<1> HIDE DEF r
<1>3. ASSUME NEW i \in DOMAIN r, NEW j \in DOMAIN r, r[i] = t, r[j] = t
      PROVE  i = j
  <2>1. CASE i <= Len(p) /\ j <= Len(p)
    <3>1. i \in DOMAIN p /\ j \in DOMAIN p /\ p[i] = t /\ p[j] = t
      BY <1>1, <1>2, <1>3, <2>1
    <3>2. QED
      BY <3>1 DEF Once
  <2>2. CASE i > Len(p) /\ j > Len(p)
    <3>1. /\ i - Len(p) \in DOMAIN q /\ j - Len(p) \in DOMAIN q
          /\ q[i - Len(p)] = t /\ q[j - Len(p)] = t
      BY <1>1, <1>2, <1>3, <2>2
    <3>2. i - Len(p) = j - Len(p)
      BY <3>1 DEF Once
    <3>3. QED
      BY <1>2, <3>2
  <2>3. CASE i <= Len(p) /\ j > Len(p)
    <3>1. i \in DOMAIN p /\ j - Len(p) \in DOMAIN q /\ p[i] = t /\ q[j - Len(p)] = t
      BY <1>1, <1>2, <1>3, <2>3
    <3>2. QED
      BY <3>1 DEF InQueue
  <2>4. CASE i > Len(p) /\ j <= Len(p)
    <3>1. j \in DOMAIN p /\ i - Len(p) \in DOMAIN q /\ p[j] = t /\ q[i - Len(p)] = t
      BY <1>1, <1>2, <1>3, <2>4
    <3>2. QED
      BY <3>1 DEF InQueue
  <2>5. QED
    BY <1>2, <2>1, <2>2, <2>3, <2>4
<1>4. Once(t, r)
  BY <1>3 DEF Once
<1>5. QED
  BY <1>4 DEF r

LEMMA BeheadedOnce ==
  ASSUME NEW q \in Seq(Tasks), q # <<>>, NEW t \in Tasks, Once(t, q)
  PROVE  Once(t, Tail(q)) /\ (t = Head(q) => ~InQueue(t, Tail(q)))
<1>1. /\ Tail(q) \in Seq(Tasks) /\ Len(Tail(q)) = Len(q) - 1
      /\ \A i \in 1 .. Len(q) - 1 : Tail(q)[i] = q[i + 1]
  BY HeadTailProperties
<1>2. /\ DOMAIN q = 1 .. Len(q) /\ Len(q) \in Nat /\ Len(q) # 0 /\ Head(q) = q[1]
      /\ DOMAIN Tail(q) = 1 .. Len(q) - 1
  BY <1>1, LenProperties, EmptySeq
<1>3. ASSUME NEW i \in DOMAIN Tail(q), NEW j \in DOMAIN Tail(q), Tail(q)[i] = t, Tail(q)[j] = t
      PROVE  i = j
  <2>1. /\ i + 1 \in DOMAIN q /\ j + 1 \in DOMAIN q /\ q[i + 1] = t /\ q[j + 1] = t
    BY <1>1, <1>2, <1>3
  <2>2. i + 1 = j + 1
    BY <2>1 DEF Once
  <2>3. QED
    BY <1>2, <2>2
<1>4. ASSUME NEW i \in DOMAIN Tail(q), Tail(q)[i] = t, t = Head(q)
      PROVE  FALSE
  <2>1. i + 1 \in DOMAIN q /\ 1 \in DOMAIN q /\ q[i + 1] = t /\ q[1] = t
    BY <1>1, <1>2, <1>4
  <2>2. i + 1 = 1
    BY <2>1 DEF Once
  <2>3. QED
    BY <1>2, <2>2
<1>5. QED
  BY <1>3, <1>4 DEF Once, InQueue

(* The orders in which a poll may run callbacks name everybody once.       *)
LEMMA OrdersOnce ==
  ASSUME NEW S \in SUBSET Tasks, NEW q \in Orders(S), NEW t \in Tasks
  PROVE  Once(t, q)
<1>1. IsFiniteSet(S) /\ Cardinality(S) \in Nat
  BY TasksAssumption, FS_Subset, FS_CardinalityType
<1> DEFINE I == 1 .. Cardinality(S)
<1>2. IsFiniteSet(I) /\ Cardinality(I) = Cardinality(S)
  BY <1>1, FS_Interval
<1>3. q \in [I -> S] /\ \A u \in S : \E i \in I : q[i] = u
  BY DEF Orders, InQueue
<1>4. q \in Surjection(I, S)
  BY <1>3 DEF Surjection
<1> HIDE DEF I
<1>5. q \in Injection(I, S)
  BY <1>1, <1>2, <1>4, FS_SurjSameCardinalityImpliesInj
<1>6. QED
  BY <1>3, <1>5 DEF Once, Injection, IsInjective

-----------------------------------------------------------------------------
(* Nobody is anywhere before the first spawn.                              *)
LEMMA ResumeInit == Init => ResumeInv
<1> SUFFICES ASSUME Init PROVE ResumeInv
  OBVIOUS
<1>1. DOMAIN <<>> = {}
  OBVIOUS
<1>2. \A t \in Tasks : ~InQueue(t, <<>>) /\ Once(t, <<>>)
  BY <1>1 DEF InQueue, Once
<1>3. \A f \in Futures : waiters[f] = <<>>
  BY DEF Init
<1>4. QED
  BY <1>2, <1>3 DEF Init, ResumeInv, OnePlace, Queued

(* A fiber that did not move, and whose future neither settled nor opened, *)
(* is where it was.                                                        *)
LEMMA SamePlace ==
  ASSUME NEW t \in Tasks, OnePlace(t), UNCHANGED <<ready, callbacks, waiters>>,
         awaits'[t] = awaits[t], current' # t \/ current = t,
         awaits[t] \in Futures => fut'[awaits[t]] = fut[awaits[t]]
  PROVE  OnePlace(t)'
  BY DEF OnePlace, Queued, HasReason, Finished

(* Whatever a running fiber is about to do, it is nowhere else.            *)
LEMMA RunningPlace ==
  ASSUME NEW t \in Tasks, OnePlace(t), UNCHANGED <<ready, callbacks, waiters>>,
         current = t
  PROVE  OnePlace(t)'
  BY DEF OnePlace, Queued

(* Another fiber's callback does not concern a fiber.                      *)
LEMMA OthersCallback ==
  ASSUME TypeOK, NEW t \in Tasks, NEW u \in Tasks, u # t, OnePlace(u), NEW f \in Futures,
         AddCallback(t, f), UNCHANGED <<ready, callbacks>>,
         awaits'[u] = awaits[u], current' # u,
         awaits[u] \in Futures => fut'[awaits[u]] = fut[awaits[u]]
  PROVE  OnePlace(u)'
<1>1. /\ \A g \in Futures : g # f => waiters'[g] = waiters[g]
      /\ waiters'[f] = Append(waiters[f], t) /\ waiters[f] \in Seq(Tasks)
  BY DEF AddCallback, TypeOK
<1>2. InQueue(u, waiters'[f]) <=> InQueue(u, waiters[f])
  BY <1>1, Appended
<1>3. Once(u, waiters[f]) => Once(u, waiters'[f])
  BY <1>1, AppendedOnce
<1>4. ASSUME NEW g \in Futures, InQueue(u, waiters'[g])
      PROVE  awaits'[u] = g /\ ~Finished(g)' /\ Once(u, waiters'[g])
  <2>1. InQueue(u, waiters[g])
    BY <1>1, <1>2, <1>4
  <2>2. awaits[u] = g /\ ~Finished(g) /\ Once(u, waiters[g])
    BY <2>1 DEF OnePlace
  <2>3. fut'[g] = fut[g]
    BY <2>2
  <2>4. QED
    BY <1>1, <1>3, <2>2, <2>3 DEF Finished
<1>5. QED
  BY <1>4 DEF OnePlace, Queued, HasReason, Finished

(* A running fiber that suspends has one callback.                         *)
LEMMA SuspendPlace ==
  ASSUME TypeOK, NEW t \in Tasks, OnePlace(t), current = t, NEW f \in Futures,
         SuspendOn(t, f), fut'[f] \notin {"value", "error"},
         UNCHANGED <<ready, callbacks>>
  PROVE  OnePlace(t)'
<1>1. /\ \A g \in Futures : g # f => waiters'[g] = waiters[g]
      /\ waiters'[f] = Append(waiters[f], t) /\ waiters[f] \in Seq(Tasks)
      /\ awaits'[t] = f /\ current' = Main /\ Main # t
  BY FutureKinds DEF SuspendOn, AddCallback, TypeOK
<1>2. /\ \A g \in Futures : ~InQueue(t, waiters[g])
      /\ ~Queued(t) /\ Once(t, ready) /\ Once(t, callbacks)
  BY DEF OnePlace
<1>3. Once(t, waiters[f])
  BY <1>2 DEF Once, InQueue
<1>4. Once(t, waiters'[f])
  BY <1>1, <1>2, <1>3, AppendedOnce
<1>5. \A g \in Futures : InQueue(t, waiters'[g]) => g = f
  BY <1>1, <1>2
<1>6. QED
  BY <1>1, <1>2, <1>4, <1>5 DEF OnePlace, Queued, Finished

(* A future that settles moves the fibers that wait for it, and nobody     *)
(* else, to one of the queues.                                             *)
LEMMA SettlePlace ==
  ASSUME TypeOK, NEW t \in Tasks, OnePlace(t), NEW f \in Futures, Wake(waiters[f]),
         waiters' = [waiters EXCEPT ![f] = <<>>], fut'[f] \in {"value", "error"},
         \A g \in Futures : g # f => fut'[g] = fut[g],
         awaits'[t] = awaits[t], current' # t \/ current = t
  PROVE  OnePlace(t)'
<1> DEFINE q == waiters[f]
<1>1. q \in Seq(Tasks) /\ ready \in Seq(Tasks) /\ callbacks \in Seq(Tasks)
  BY DEF TypeOK
<1>2. /\ \A g \in Futures : g # f => waiters'[g] = waiters[g]
      /\ waiters'[f] = <<>>
  BY DEF TypeOK
<1>3. ~InQueue(t, <<>>)
  BY DEF InQueue
<1>4. InQueue(t, q) => Once(t, q) /\ awaits[t] = f /\ ~Finished(f) /\ current # t
  BY DEF OnePlace
<1>5. InQueue(t, q) => ~Queued(t)
  BY <1>4, FutureKinds DEF OnePlace, HasReason
<1>6. Once(t, q)
  BY <1>4 DEF Once, InQueue
<1>7. \/ callbacks' = callbacks \o q /\ ready' = ready
      \/ callbacks' = callbacks /\ ready' = ready \o q
  BY DEF Wake
<1> HIDE DEF q
<1>8. /\ Once(t, ready') /\ Once(t, callbacks')
      /\ ~(InQueue(t, ready') /\ InQueue(t, callbacks'))
      /\ Queued(t)' => Queued(t) \/ InQueue(t, q)
  <2>1. CASE callbacks' = callbacks \o q /\ ready' = ready
    BY <1>1, <1>5, <1>6, <2>1, Joined, JoinedOnce DEF OnePlace, Queued
  <2>2. CASE callbacks' = callbacks /\ ready' = ready \o q
    BY <1>1, <1>5, <1>6, <2>2, Joined, JoinedOnce DEF OnePlace, Queued
  <2>3. QED
    BY <1>7, <2>1, <2>2
<1>9. awaits[t] \in Futures /\ Finished(awaits[t]) => Finished(awaits[t])'
  BY DEF Finished
<1>10. Queued(t)' => (current' # t /\ HasReason(t)')
  <2>1. CASE InQueue(t, q)
    BY <1>4, <2>1 DEF HasReason, Finished
  <2>2. CASE Queued(t)
    BY <1>9, <2>2 DEF OnePlace, HasReason, Finished
  <2>3. QED
    BY <1>8, <2>1, <2>2
<1>11. ASSUME NEW g \in Futures, InQueue(t, waiters'[g])
       PROVE  current' # t /\ awaits'[t] = g /\ ~Finished(g)' /\ Once(t, waiters'[g])
  BY <1>2, <1>3, <1>11 DEF OnePlace, Finished
<1>12. QED
  BY <1>8, <1>10, <1>11 DEF OnePlace

(* Resuming the head of a queue in which a fiber has a place of its own.   *)
(* The head runs, and is queued nowhere any more.                          *)
LEMMA ResumePlace ==
  ASSUME TypeOK, NEW q \in Seq(Tasks), q # <<>>, ResumeHead(q), current = Main,
         UNCHANGED <<waiters, callbacks>>,
         NEW t \in Tasks, co[t] # "dead", Once(t, q), Once(t, callbacks),
         ~(InQueue(t, q) /\ InQueue(t, callbacks)),
         InQueue(t, q) \/ InQueue(t, callbacks) => HasReason(t),
         awaits[t] \in Futures => fut'[awaits[t]] = fut[awaits[t]],
         \A f \in Futures :
           InQueue(t, waiters[f]) => awaits[t] = f /\ ~Finished(f) /\ Once(t, waiters[f])
  PROVE  OnePlace(t)'
<1> DEFINE h == Head(q)
<1>1. /\ h \in Tasks /\ InQueue(h, q) /\ ready' = Tail(q)
      /\ InQueue(t, ready') => InQueue(t, q)
      /\ Once(t, ready') /\ (t = h => ~InQueue(t, ready'))
  BY Beheaded, BeheadedOnce DEF ResumeHead
<1>2. CASE t = h
  <2>1. InQueue(t, q) /\ HasReason(t)
    BY <1>1, <1>2
  <2>2. ~InQueue(t, callbacks)
    BY <2>1
  <2>3. \A f \in Futures : ~InQueue(t, waiters[f])
    BY <2>1, FutureKinds DEF HasReason
  <2>4. QED
    BY <1>1, <1>2, <2>2, <2>3 DEF OnePlace, Queued
<1>3. CASE t # h
  <2>1. awaits'[t] = awaits[t] /\ current' # t
    BY <1>1, <1>3, FutureKinds DEF ResumeHead, TypeOK
  <2>2. HasReason(t) => HasReason(t)'
    BY <2>1 DEF HasReason, Finished
  <2>3. Queued(t)' => InQueue(t, q) \/ InQueue(t, callbacks)
    BY <1>1 DEF Queued
  <2>4. ~(InQueue(t, ready') /\ InQueue(t, callbacks'))
    BY <1>1
  <2>5. \A f \in Futures : InQueue(t, waiters'[f]) =>
          awaits'[t] = f /\ ~Finished(f)' /\ Once(t, waiters'[f])
    BY <2>1 DEF Finished
  <2>6. QED
    BY <1>1, <2>1, <2>2, <2>3, <2>4, <2>5 DEF OnePlace
<1>4. QED
  BY <1>2, <1>3

(* poll: the callbacks and the timers that expired move everybody once.    *)
LEMMA PollPlace ==
  ASSUME WakeInv, Poll, NEW t \in Tasks, OnePlace(t)
  PROVE  OnePlace(t)'
<1>1. PICK S \in SUBSET Armed :
        /\ \E q \in Orders(Due(S)) : ready' = callbacks \o q
        /\ fut' = [f \in Futures |-> IF f \in {TimerOf(s) : s \in S} THEN "value" ELSE fut[f]]
        /\ waiters' = [f \in Futures |-> IF f \in {TimerOf(s) : s \in S} THEN <<>> ELSE waiters[f]]
  BY DEF Poll
<1>2. PICK q \in Orders(Due(S)) : ready' = callbacks \o q
  BY <1>1
<1>3. /\ q \in Seq(Tasks) /\ Once(t, q)
      /\ InQueue(t, q) => t \in Due(S)
  <2>1. Due(S) \in SUBSET Tasks
    BY DEF Due
  <2>2. Once(t, q)
    BY <1>2, <2>1, OrdersOnce
  <2>3. q \in Seq(Tasks) /\ (InQueue(t, q) => t \in Due(S))
    BY <1>2, DueType DEF WakeInv, Orders, InQueue
  <2>4. QED
    BY <2>2, <2>3
<1>4. callbacks \in Seq(Tasks)
  BY DEF WakeInv, TypeOK
<1>5. S \subseteq Strands /\ \A s \in S : TimerOf(s) \in Futures /\ fut[TimerOf(s)] = "pending"
  BY FutureKinds DEF Armed
<1>6. callbacks' = <<>> /\ UNCHANGED <<current, awaits>>
  BY DEF Poll
<1>7. ~InQueue(t, <<>>) /\ Once(t, <<>>)
  BY DEF InQueue, Once
<1>8. InQueue(t, q) =>
        t \in S /\ InQueue(t, waiters[TimerOf(t)]) /\ TimerOf(t) \in Futures
  <2>1. ASSUME t \in Due(S) PROVE InQueue(t, waiters[TimerOf(t)]) /\ t \in S /\ TimerOf(t) \in Futures
    <3>1. t \in S /\ waiters[TimerOf(t)] \in Seq(Tasks) /\ waiters[TimerOf(t)] # <<>>
          /\ t \in Strands /\ TimerOf(t) \in Futures
      BY <2>1, FutureKinds DEF Due, WakeInv, TypeOK
    <3>2. PICK u \in Tasks : InQueue(u, waiters[TimerOf(t)])
      BY <3>1, Beheaded
    <3>3. u = t
      BY <3>1, <3>2 DEF WakeInv, OwnTimers
    <3>4. QED
      BY <3>1, <3>2, <3>3
  <2>2. QED
    BY <1>3, <2>1
<1>9. InQueue(t, q) => /\ awaits[t] = TimerOf(t) /\ ~Finished(TimerOf(t)) /\ current # t
                       /\ fut'[TimerOf(t)] = "value" /\ TimerOf(t) \in Futures
  BY <1>1, <1>8 DEF OnePlace
<1>10. ~(InQueue(t, q) /\ InQueue(t, callbacks))
  BY <1>9, FutureKinds DEF OnePlace, Queued, HasReason
<1>11. /\ Once(t, ready') /\ (InQueue(t, ready') <=> InQueue(t, callbacks) \/ InQueue(t, q))
  BY <1>2, <1>3, <1>4, <1>10, Joined, JoinedOnce DEF OnePlace
<1>12. Queued(t)' => current' # t /\ HasReason(t)'
  <2>1. CASE InQueue(t, q)
    BY <1>6, <1>9, <2>1 DEF HasReason, Finished
  <2>2. CASE InQueue(t, callbacks)
    <3>1. current # t /\ HasReason(t)
      BY <2>2 DEF OnePlace, Queued
    <3>2. \A f \in Futures : Finished(f) => Finished(f)'
      BY <1>1 DEF Finished
    <3>3. QED
      BY <1>6, <3>1, <3>2 DEF HasReason, Finished
  <2>3. QED
    BY <1>6, <1>7, <1>11, <2>1, <2>2 DEF Queued
<1>13. ASSUME NEW f \in Futures, InQueue(t, waiters'[f])
       PROVE  current' # t /\ awaits'[t] = f /\ ~Finished(f)' /\ Once(t, waiters'[f])
  <2>1. fut'[f] = fut[f] /\ waiters'[f] = waiters[f]
    BY <1>1, <1>7, <1>13
  <2>2. QED
    BY <1>6, <1>13, <2>1 DEF OnePlace, Finished
<1>14. QED
  BY <1>6, <1>7, <1>11, <1>12, <1>13 DEF OnePlace

(* A fiber that is queued anew, or started, and everybody else.            *)
LEMMA QueuePlace ==
  ASSUME TypeOK, NEW b \in Tasks, NEW t \in Tasks, t # b, OnePlace(t),
         ready' = Append(ready, b), UNCHANGED <<current, callbacks, waiters, awaits>>,
         awaits[t] \in Futures => fut'[awaits[t]] = fut[awaits[t]]
  PROVE  OnePlace(t)'
<1>1. /\ InQueue(t, ready') <=> InQueue(t, ready)
      /\ Once(t, ready')
  BY Appended, AppendedOnce DEF TypeOK, OnePlace
<1>2. QED
  BY <1>1 DEF OnePlace, Queued, HasReason, Finished

(* The calls that Main and a block share.                                  *)
LEMMA CallsPlaces ==
  ASSUME WakeInv, SpawnedInv, ResumeInv, NEW s \in Strands, NEW b \in Tasks,
         Spawn(s, b) \/ Cancel(s, b) \/ Send(s, b)
  PROVE  ResumeInv'
<1>a. TypeOK
  BY DEF WakeInv
<1> SUFFICES ASSUME NEW t \in Tasks, co'[t] # "dead", ~cancelRequested'[t]
             PROVE  OnePlace(t)'
  BY DEF ResumeInv
<1>1. CASE Spawn(s, b)
  <2>1. /\ ready' = Append(ready, b) /\ co[b] = "none" /\ co'[b] = "alive"
        /\ \A u \in Tasks : u # b => co'[u] = co[u]
        /\ \A g \in Futures : g # TaskOf(b) => fut'[g] = fut[g]
        /\ UNCHANGED <<current, awaits, waiters, callbacks, cancelRequested>>
    BY <1>1, <1>a DEF Spawn, Created, TypeOK
  <2>2. awaits[t] # TaskOf(b)
    BY <2>1 DEF SpawnedInv
  <2>3. CASE t # b
    <3>1. OnePlace(t)
      BY <2>1, <2>3 DEF ResumeInv
    <3>2. QED
      BY <1>a, <2>1, <2>2, <2>3, <3>1, QueuePlace
  <2>4. CASE t = b
    <3>1. /\ ~InQueue(t, ready) /\ ~InQueue(t, callbacks) /\ current # t
          /\ \A f \in Futures : ~InQueue(t, waiters[f])
      BY <2>1, <2>4 DEF WakeInv, QueuedIsSpawned
    <3>2. awaits[t] = Start
      BY <2>1, <2>4 DEF WakeInv, OwnPlace
    <3>3. Once(t, ready) /\ Once(t, callbacks)
      BY <3>1 DEF Once, InQueue
    <3>4. Once(t, ready')
      BY <1>a, <2>1, <3>1, <3>3, AppendedOnce DEF TypeOK
    <3>5. QED
      BY <2>1, <3>1, <3>2, <3>3, <3>4 DEF OnePlace, HasReason
  <2>5. QED
    BY <2>3, <2>4
<1>2. CASE Cancel(s, b)
  <2>1. /\ UNCHANGED <<current, co, awaits, fut, waiters, callbacks>>
        /\ t # b /\ ~cancelRequested[t]
    BY <1>2, <1>a DEF Cancel, RaiseFlag, TypeOK
  <2>2. OnePlace(t)
    BY <2>1 DEF ResumeInv
  <2>3. CASE ready' = Append(ready, b)
    BY <1>a, <2>1, <2>2, <2>3, QueuePlace
  <2>4. CASE ready' = ready
    BY <2>1, <2>2, <2>4, SamePlace
  <2>5. QED
    BY <1>2, <2>3, <2>4 DEF Cancel, MakeReady
<1>3. CASE Send(s, b)
  <2>1. /\ GateOf(b) \in Futures /\ fut'[GateOf(b)] = "value"
        /\ \A g \in Futures : g # GateOf(b) => fut'[g] = fut[g]
    BY <1>3, <1>a, FutureKinds DEF Send, TypeOK
  <2>2. OnePlace(t)
    BY <1>3 DEF Send, ResumeInv
  <2>3. QED
    BY <1>3, <1>a, <2>1, <2>2, SettlePlace DEF Send
<1>4. QED
  BY <1>1, <1>2, <1>3

(* The end of a fiber.                                                     *)
LEMMA EndsPlaces ==
  ASSUME TypeOK, ResumeInv, NEW u \in Tasks, current = u, NEW st,
         NEW result \in {"value", "error"}, Ends(u, st, result),
         UNCHANGED cancelRequested
  PROVE  ResumeInv'
<1> SUFFICES ASSUME NEW t \in Tasks, co'[t] # "dead", ~cancelRequested'[t]
             PROVE  OnePlace(t)'
  BY DEF ResumeInv
<1>1. /\ TaskOf(u) \in Futures /\ fut'[TaskOf(u)] = result
      /\ \A g \in Futures : g # TaskOf(u) => fut'[g] = fut[g]
  BY FutureKinds DEF Ends, Settles, TypeOK
<1>2. /\ t # u /\ co'[t] = co[t] /\ awaits'[t] = awaits[t] /\ current' = Main /\ t # Main
      /\ Wake(waiters[TaskOf(u)]) /\ waiters' = [waiters EXCEPT ![TaskOf(u)] = <<>>]
  BY FutureKinds DEF Ends, TypeOK
<1>3. OnePlace(t)
  BY <1>2 DEF ResumeInv
<1>4. QED
  BY <1>1, <1>2, <1>3, SettlePlace

(* A running fiber that goes on, or suspends.                              *)
LEMMA BlockPlaces ==
  ASSUME WakeInv, ResumeInv, NEW u \in Tasks, current = u, NEW f \in Futures,
         UNCHANGED <<ready, callbacks, co, cancelRequested>>,
         \A g \in Futures : fut'[g] = fut[g] \/ g \in {TimerOf(u), GateOf(u)},
         \/ SuspendOn(u, f) /\ fut'[f] \notin {"value", "error"}
         \/ /\ UNCHANGED <<waiters, current>>
            /\ \A t \in Tasks : t # u => awaits'[t] = awaits[t]
  PROVE  ResumeInv'
<1>a. TypeOK
  BY DEF WakeInv
<1> SUFFICES ASSUME NEW t \in Tasks, co'[t] # "dead", ~cancelRequested'[t]
             PROVE  OnePlace(t)'
  BY DEF ResumeInv
<1>1. OnePlace(t)
  BY DEF ResumeInv
<1>2. t # u /\ awaits[t] \in Futures => fut'[awaits[t]] = fut[awaits[t]]
  BY FutureKinds DEF WakeInv, OwnPlace
<1>3. CASE SuspendOn(u, f) /\ fut'[f] \notin {"value", "error"}
  <2>1. AddCallback(u, f) /\ current' = Main /\ t # Main
        /\ (t # u => awaits'[t] = awaits[t])
    BY <1>3, <1>a, FutureKinds DEF SuspendOn, TypeOK
  <2>2. CASE t = u
    BY <1>1, <1>3, <1>a, <2>2, SuspendPlace
  <2>3. CASE t # u
    BY <1>1, <1>2, <1>a, <2>1, <2>3, OthersCallback
  <2>4. QED
    BY <2>2, <2>3
<1>4. CASE UNCHANGED <<waiters, current>> /\ \A v \in Tasks : v # u => awaits'[v] = awaits[v]
  <2>1. CASE t = u
    BY <1>1, <1>4, <2>1, RunningPlace
  <2>2. CASE t # u
    BY <1>1, <1>2, <1>4, <2>2, SamePlace
  <2>3. QED
    BY <2>1, <2>2
<1>5. QED
  BY <1>3, <1>4

(* A step that moves no fiber.                                             *)
LEMMA SamePlaces ==
  ASSUME WakeInv, ResumeInv,
         UNCHANGED <<ready, current, co, awaits, cancelRequested, waiters, callbacks>>,
         \A f \in Futures : fut'[f] = fut[f] \/ f = TimerOf(Main)
  PROVE  ResumeInv'
<1>1. \A t \in Tasks : awaits[t] \in Futures => fut'[awaits[t]] = fut[awaits[t]]
  BY FutureKinds DEF WakeInv, OwnPlace
<1>2. QED
  BY <1>1, SamePlace DEF ResumeInv

(* The scheduler resumes the head of the ready queue, do.async that of the *)
(* queue with the new fiber in it.                                         *)
LEMMA ResumePlaces ==
  ASSUME WakeInv, ResumeInv, current = Main, ready # <<>>, ResumeHead(ready),
         UNCHANGED <<co, cancelRequested, fut, waiters, callbacks>>
  PROVE  ResumeInv'
<1> SUFFICES ASSUME NEW t \in Tasks, co'[t] # "dead", ~cancelRequested'[t]
             PROVE  OnePlace(t)'
  BY DEF ResumeInv
<1>1. OnePlace(t)
  BY DEF ResumeInv
<1>2. TypeOK /\ ready \in Seq(Tasks)
  BY DEF WakeInv, TypeOK
<1>3. QED
  BY <1>1, <1>2, ResumePlace DEF OnePlace, Queued

LEMMA EagerPlaces ==
  ASSUME WakeInv, SpawnedInv, ResumeInv, NEW b \in Tasks, SpawnEager(b)
  PROVE  ResumeInv'
<1> SUFFICES ASSUME NEW t \in Tasks, co'[t] # "dead", ~cancelRequested'[t]
             PROVE  OnePlace(t)'
  BY DEF ResumeInv
<1> DEFINE q == Append(ready, b)
<1>1. TypeOK /\ ready \in Seq(Tasks)
  BY DEF WakeInv, TypeOK
<1>2. /\ q \in Seq(Tasks) /\ q # <<>>
      /\ InQueue(t, q) <=> InQueue(t, ready) \/ t = b
  BY <1>1, Appended, AppendProperties
<1>3. /\ co[b] = "none" /\ current = Main /\ ResumeHead(q)
      /\ \A u \in Tasks : u # b => co'[u] = co[u]
      /\ \A g \in Futures : g # TaskOf(b) => fut'[g] = fut[g]
      /\ UNCHANGED <<waiters, callbacks, cancelRequested>>
  BY <1>1 DEF SpawnEager, Created, Acting, TypeOK
<1>4. awaits[t] # TaskOf(b)
  BY <1>3 DEF SpawnedInv
<1>5. co[t] # "dead" /\ OnePlace(t)
  BY <1>3 DEF ResumeInv
<1>6. t = b => /\ ~InQueue(t, ready) /\ ~InQueue(t, callbacks) /\ awaits[t] = Start
               /\ \A f \in Futures : ~InQueue(t, waiters[f])
  BY <1>3 DEF WakeInv, QueuedIsSpawned, OwnPlace
<1>7. Once(t, q)
  BY <1>1, <1>5, <1>6, AppendedOnce DEF OnePlace
<1> HIDE DEF q
<1>8. /\ Once(t, callbacks) /\ ~(InQueue(t, q) /\ InQueue(t, callbacks))
      /\ InQueue(t, q) \/ InQueue(t, callbacks) => HasReason(t)
      /\ \A f \in Futures :
           InQueue(t, waiters[f]) => awaits[t] = f /\ ~Finished(f) /\ Once(t, waiters[f])
  BY <1>2, <1>5, <1>6 DEF OnePlace, Queued, HasReason
<1>9. awaits[t] \in Futures => fut'[awaits[t]] = fut[awaits[t]]
  BY <1>3, <1>4
<1>10. QED
  BY <1>1, <1>2, <1>3, <1>5, <1>7, <1>8, <1>9, ResumePlace

(* No step takes a fiber to a second place.                                *)
LEMMA ResumeStep == WakeInv /\ SpawnedInv /\ ResumeInv /\ [Next]_vars => ResumeInv'
<1> SUFFICES ASSUME WakeInv, SpawnedInv, ResumeInv, [Next]_vars PROVE ResumeInv'
  OBVIOUS
<1>a. TypeOK
  BY DEF WakeInv
<1>1. CASE RunFiber
  BY <1>1, ResumePlaces DEF RunFiber, Turning
<1>2. CASE Poll
  <2>1. UNCHANGED <<co, cancelRequested>>
    BY <1>2 DEF Poll
  <2>2. QED
    BY <1>2, <2>1, PollPlace DEF ResumeInv
<1>3. CASE PumpStart \/ PumpEnd \/ MainWaited \/ MainGivesUp
  BY <1>3, SamePlaces DEF PumpStart, PumpEnd, MainWaited, MainGivesUp
<1>4. ASSUME NEW t \in Tasks, Block(t) PROVE ResumeInv'
  <2>a. /\ TimerOf(t) \in Futures /\ GateOf(t) \in Futures
        /\ \A b \in Tasks : TaskOf(b) \in Futures
    BY FutureKinds
  <2>1. CASE FiberPause(t)
    <3>1. /\ current = t /\ UNCHANGED <<ready, co, callbacks, cancelRequested>>
          /\ fut'[TimerOf(t)] = "pending"
          /\ \A g \in Futures : g # TimerOf(t) => fut'[g] = fut[g]
      BY <2>1, <2>a, <1>a DEF FiberPause, Runs, TypeOK
    <3>2. CASE SuspendOn(t, TimerOf(t))
      BY <2>a, <3>1, <3>2, BlockPlaces
    <3>3. CASE awaits' = [awaits EXCEPT ![t] = TimerOf(t)] /\ UNCHANGED <<waiters, current>>
      <4>1. \A u \in Tasks : u # t => awaits'[u] = awaits[u]
        BY <1>a, <3>3 DEF TypeOK
      <4>2. QED
        BY <2>a, <3>1, <3>3, <4>1, BlockPlaces
    <3>4. QED
      BY <2>1, <3>2, <3>3 DEF FiberPause
  <2>2. CASE FiberPark(t)
    <3>1. /\ current = t /\ UNCHANGED <<ready, co, callbacks, cancelRequested>>
          /\ fut'[GateOf(t)] = "pending"
          /\ \A g \in Futures : g # GateOf(t) => fut'[g] = fut[g]
      BY <2>2, <2>a, <1>a DEF FiberPark, Runs, TypeOK
    <3>2. CASE SuspendOn(t, GateOf(t))
      BY <2>a, <3>1, <3>2, BlockPlaces
    <3>3. CASE awaits' = [awaits EXCEPT ![t] = GateOf(t)] /\ UNCHANGED <<waiters, current>>
      <4>1. \A u \in Tasks : u # t => awaits'[u] = awaits[u]
        BY <1>a, <3>3 DEF TypeOK
      <4>2. QED
        BY <2>a, <3>1, <3>3, <4>1, BlockPlaces
    <3>4. QED
      BY <2>2, <3>2, <3>3 DEF FiberPark
  <2>3. ASSUME NEW b \in Tasks, FiberWait(t, b) PROVE ResumeInv'
    <3>1. current = t /\ UNCHANGED <<ready, co, callbacks, fut, cancelRequested>>
      BY <2>3 DEF FiberWait, Runs
    <3>2. CASE SuspendOn(t, TaskOf(b)) /\ ~Finished(TaskOf(b))
      BY <2>a, <3>1, <3>2, BlockPlaces DEF Finished
    <3>3. CASE UNCHANGED <<current, awaits, waiters>>
      BY <2>a, <3>1, <3>3, BlockPlaces
    <3>4. QED
      BY <2>3, <3>2, <3>3 DEF FiberWait
  <2>b. ASSUME current = t, awaits' = [awaits EXCEPT ![t] = Nothing],
               UNCHANGED <<ready, co, callbacks, fut, cancelRequested, waiters, current>>
        PROVE  ResumeInv'
    <3>1. \A u \in Tasks : u # t => awaits'[u] = awaits[u]
      BY <1>a, <2>b DEF TypeOK
    <3>2. QED
      BY <2>a, <2>b, <3>1, BlockPlaces
  <2>4. CASE FinishAwait(t)
    BY <2>4, <2>b DEF FinishAwait, Resumed
  <2>5. CASE AwaitCancelled(t)
    <3>1. CASE Ends(t, "cancelled", "error") /\ UNCHANGED cancelRequested
      BY <2>5, <3>1, <1>a, EndsPlaces DEF AwaitCancelled, Resumed
    <3>2. CASE ~(Ends(t, "cancelled", "error") /\ UNCHANGED cancelRequested)
      BY <2>5, <3>2, <2>b DEF AwaitCancelled, Resumed
    <3>3. QED
      BY <3>1, <3>2
  <2>6. CASE FiberReturn(t) \/ FiberRaise(t)
    BY <2>6, <1>a, EndsPlaces DEF FiberReturn, FiberRaise, Runs
  <2>7. ASSUME NEW b \in Tasks, Spawn(t, b) \/ Cancel(t, b) \/ Send(t, b) PROVE ResumeInv'
    BY <2>7, CallsPlaces, FutureKinds
  <2>8. QED
    BY <1>4, <2>1, <2>2, <2>3, <2>4, <2>5, <2>6, <2>7 DEF Block
<1>5. CASE MainCall
  <2>1. ASSUME NEW b \in Tasks, Spawn(Main, b) \/ Cancel(Main, b) \/ Send(Main, b)
        PROVE  ResumeInv'
    BY <2>1, CallsPlaces, FutureKinds
  <2>2. ASSUME NEW b \in Tasks, SpawnEager(b) PROVE ResumeInv'
    BY <2>2, EagerPlaces
  <2>3. ASSUME NEW b \in Tasks, MainWait(b) PROVE ResumeInv'
    BY <2>3, SamePlaces DEF MainWait
  <2>4. CASE MainPause
    BY <2>4, <1>a, SamePlaces DEF MainPause, TypeOK
  <2>5. QED
    BY <1>5, <2>1, <2>2, <2>3, <2>4 DEF MainCall
<1>6. CASE UNCHANGED vars
  BY <1>6, SamePlaces DEF vars
<1>7. QED
  BY <1>1, <1>2, <1>3, <1>4, <1>5, <1>6 DEF Next, Scheduler

(* What runs has been resumed: only RunFiber and an eager do.async change  *)
(* the running fiber from Main to another.                                 *)
LEMMA ResumeSound ==
  WakeInv /\ SpawnedInv /\ ResumeInv /\ [Next]_vars =>
    \A t \in Tasks :
      current = Main /\ current' = t =>
        /\ co'[t] = "alive"
        /\ \/ awaits[t] = Start
           \/ awaits[t] \in Futures /\ Finished(awaits[t])
           \/ cancelRequested[t]
<1> SUFFICES ASSUME WakeInv, SpawnedInv, ResumeInv, [Next]_vars,
                    NEW t \in Tasks, current = Main, current' = t
             PROVE  /\ co'[t] = "alive"
                    /\ HasReason(t) \/ cancelRequested[t]
  BY DEF HasReason
<1>a. TypeOK /\ t # Main /\ ready \in Seq(Tasks)
  BY FutureKinds DEF WakeInv, TypeOK
<1>b. ASSUME InQueue(t, ready), co[t] # "dead"
      PROVE  co[t] = "alive" /\ (HasReason(t) \/ cancelRequested[t])
  BY <1>a, <1>b DEF WakeInv, TypeOK, QueuedIsSpawned, ResumeInv, OnePlace, Queued
<1>1. CASE RunFiber
  <2>1. ready # <<>> /\ ResumeHead(ready) /\ co' = co
    BY <1>1 DEF RunFiber
  <2>2. t = Head(ready) /\ co[t] # "dead" /\ InQueue(t, ready)
    BY <1>a, <2>1, Beheaded DEF ResumeHead, Resumable
  <2>3. QED
    BY <1>b, <2>1, <2>2
<1>2. ASSUME NEW b \in Tasks, SpawnEager(b)
      PROVE  co'[t] = "alive" /\ (HasReason(t) \/ cancelRequested[t])
  <2> DEFINE q == Append(ready, b)
  <2>1. ResumeHead(q) /\ co[b] = "none" /\ co'[b] = "alive" /\ \A u \in Tasks : u # b => co'[u] = co[u]
    BY <1>2, <1>a DEF SpawnEager, Created, TypeOK
  <2>2. q \in Seq(Tasks) /\ q # <<>> /\ (InQueue(t, q) <=> InQueue(t, ready) \/ t = b)
    BY <1>a, Appended, AppendProperties
  <2>3. t = Head(q) /\ co[t] # "dead" /\ InQueue(t, q)
    BY <1>a, <2>1, <2>2, Beheaded DEF ResumeHead, Resumable
  <2> HIDE DEF q
  <2>4. CASE t = b
    BY <2>1, <2>4 DEF WakeInv, OwnPlace, HasReason
  <2>5. CASE t # b
    BY <1>b, <2>1, <2>2, <2>3, <2>5
  <2>6. QED
    BY <2>4, <2>5
<1>3. CASE Poll \/ PumpStart \/ PumpEnd \/ MainWaited \/ MainGivesUp \/ UNCHANGED vars
  BY <1>3, <1>a DEF Poll, PumpStart, PumpEnd, MainWaited, MainGivesUp, vars
<1>4. ASSUME NEW u \in Tasks, Block(u) PROVE FALSE
  <2>1. u # Main
    BY FutureKinds
  <2>2. current = u
    BY <1>4, <2>1 DEF Block, FiberPause, FiberPark, FiberWait, FinishAwait, AwaitCancelled,
       FiberReturn, FiberRaise, Spawn, Cancel, Send, Acting, Runs, Resumed
  <2>3. QED
    BY <2>1, <2>2
<1>5. CASE MainCall
  BY <1>2, <1>5, <1>a DEF MainCall, Spawn, Cancel, Send, MainWait, MainPause
<1>6. QED
  BY <1>1, <1>2, <1>3, <1>4, <1>5 DEF Next, Scheduler

(* The scheduler resumes a fiber only if it is alive and has a reason to   *)
(* be: its start, a settled future, or its cancellation.  A fiber that is  *)
(* queued twice, cancelled and woken, is resumed once too often for        *)
(* neither.                                                                *)
THEOREM NoSpuriousResumeCorrect == Spec => NoSpuriousResume
<1>1. Init => WakeInv /\ SpawnedInv /\ ResumeInv
  BY WakeInit, SpawnedInit, ResumeInit
<1>2. WakeInv /\ SpawnedInv /\ ResumeInv /\ [Next]_vars => (WakeInv /\ SpawnedInv /\ ResumeInv)'
  BY WakeStep, SpawnedStep, ResumeStep
<1>3. QED
  BY <1>1, <1>2, ResumeSound, PTL DEF Spec, NoSpuriousResume

-----------------------------------------------------------------------------
(* Fibers implements TaskSpec for any number of tasks and calls: every     *)
(* step of the scheduler, of a block or of Main is one step of one task's  *)
(* state and future, or none.                                              *)

(* What makes the steps fit: a fiber that runs has not ended yet, and a    *)
(* future is made with its fiber.                                          *)
RunningIsAlive == \A t \in Tasks : current = t => co[t] = "alive"
MadeWithFiber == \A t \in Tasks : fut[TaskOf(t)] = "idle" <=> co[t] = "none"

RunInv == WakeInv /\ SpawnedInv /\ ResultInv /\ RunningIsAlive /\ MadeWithFiber

(* Nothing runs and nothing is made before the first spawn.                *)
LEMMA RunInit == Init => RunInv
<1>1. Init => WakeInv /\ SpawnedInv /\ ResultInv
  BY WakeInit, SpawnedInit, ResultInit
<1>2. Init => RunningIsAlive /\ MadeWithFiber
  BY FutureKinds DEF Init, RunningIsAlive, MadeWithFiber
<1>3. QED
  BY <1>1, <1>2 DEF RunInv

(* Steps that leave the coroutines and the futures of tasks alone.         *)
LEMMA SameRun ==
  ASSUME RunInv, co' = co, current' \in {current, Main},
         \A t \in Tasks : fut'[TaskOf(t)] = fut[TaskOf(t)]
  PROVE  RunningIsAlive' /\ MadeWithFiber'
  BY FutureKinds DEF RunInv, RunningIsAlive, MadeWithFiber

(* The head of the queue is resumed only if it is alive.                   *)
LEMMA ResumedIsAlive ==
  ASSUME TypeOK, QueuedIsSpawned, RunningIsAlive, ready # <<>>, ResumeHead(ready)
  PROVE  \A t \in Tasks : current' = t => co[t] = "alive"
<1>1. Head(ready) \in Tasks /\ InQueue(Head(ready), ready)
  BY Beheaded DEF TypeOK
<1>2. co[Head(ready)] # "none"
  BY <1>1 DEF QueuedIsSpawned
<1>3. QED
  BY <1>1, <1>2 DEF ResumeHead, Resumable, RunningIsAlive, TypeOK

(* The end of a fiber settles its own future, which was made long ago.     *)
LEMMA EndsRun ==
  ASSUME RunInv, NEW t \in Tasks, NEW st, NEW result \in {"value", "error"},
         current = t, Ends(t, st, result)
  PROVE  RunningIsAlive' /\ MadeWithFiber'
<1>1. /\ \A b \in Tasks : b # t => fut'[TaskOf(b)] = fut[TaskOf(b)] /\ co'[b] = co[b]
      /\ fut'[TaskOf(t)] = result /\ co'[t] = "dead" /\ current' = Main
  BY FutureKinds DEF Ends, Settles, RunInv, WakeInv, TypeOK
<1>2. QED
  BY <1>1, FutureKinds DEF RunInv, RunningIsAlive, MadeWithFiber

(* A new fiber is made with its future.                                    *)
LEMMA CreatedRun ==
  ASSUME RunInv, NEW b \in Tasks, Created(b)
  PROVE  /\ MadeWithFiber'
         /\ \A t \in Tasks : co[t] = "alive" => co'[t] = "alive"
         /\ co'[b] = "alive"
<1>1. /\ \A t \in Tasks : t # b => fut'[TaskOf(t)] = fut[TaskOf(t)] /\ co'[t] = co[t]
      /\ fut'[TaskOf(b)] = "pending" /\ co'[b] = "alive"
  BY FutureKinds DEF Created, RunInv, WakeInv, TypeOK
<1>2. QED
  BY <1>1 DEF RunInv, MadeWithFiber

(* do.async on Main resumes the head of the queue with the new fiber in it. *)
LEMMA EagerRun ==
  ASSUME RunInv, NEW b \in Tasks, Created(b), ResumeHead(Append(ready, b))
  PROVE  RunningIsAlive' /\ MadeWithFiber'
<1> DEFINE q == Append(ready, b)
<1>1. q \in Seq(Tasks) /\ q # <<>>
  BY Appended, AppendProperties DEF RunInv, WakeInv, TypeOK
<1>2. /\ Head(q) \in Tasks /\ InQueue(Head(q), q)
  BY <1>1, Beheaded
<1>3. InQueue(Head(q), ready) \/ Head(q) = b
  BY <1>2, Appended DEF RunInv, WakeInv, TypeOK
<1>4. Head(q) # b => co[Head(q)] # "none"
  BY <1>2, <1>3 DEF RunInv, WakeInv, QueuedIsSpawned
<1>5. /\ \A t \in Tasks : co[t] = "alive" => co'[t] = "alive"
      /\ co'[b] = "alive" /\ MadeWithFiber'
  BY CreatedRun
<1>6. co[b] = "none"
  BY DEF Created
<1>7. CASE Resumable(Head(q))
  <2>1. co[Head(q)] = "alive" \/ Head(q) = b
    BY <1>2, <1>4, <1>7 DEF Resumable, RunInv, WakeInv, TypeOK
  <2>2. current' = Head(q)
    BY <1>7 DEF ResumeHead
  <2>3. QED
    BY <1>5, <2>1, <2>2 DEF RunningIsAlive
<1>8. CASE ~Resumable(Head(q))
  BY <1>5, <1>8 DEF ResumeHead, RunningIsAlive, RunInv
<1>9. QED
  BY <1>7, <1>8

(* Every step keeps all of it.                                             *)
LEMMA RunStep == RunInv /\ [Next]_vars => RunInv'
<1> SUFFICES ASSUME RunInv, [Next]_vars PROVE RunInv'
  OBVIOUS
<1>a. WakeInv' /\ SpawnedInv' /\ ResultInv'
  BY WakeStep, SpawnedStep, ResultStep DEF RunInv
<1>b. /\ \A t \in Tasks, s \in Strands : TaskOf(t) \in Futures /\ TaskOf(t) # TimerOf(s)
      /\ \A t, b \in Tasks : TaskOf(t) # GateOf(b)
      /\ Main \in Strands /\ Tasks \subseteq Strands /\ Main \notin Tasks
  BY FutureKinds
<1>c. TypeOK
  BY DEF RunInv, WakeInv
<1> SUFFICES RunningIsAlive' /\ MadeWithFiber'
  BY <1>a DEF RunInv
<1>1. CASE RunFiber
  <2>1. \A t \in Tasks : current' = t => co[t] = "alive"
    BY <1>1, <1>c, ResumedIsAlive DEF RunFiber, RunInv, WakeInv
  <2>2. QED
    BY <1>1, <2>1 DEF RunFiber, RunInv, RunningIsAlive, MadeWithFiber
<1>2. CASE Poll
  <2>1. \A t \in Tasks : fut'[TaskOf(t)] = fut[TaskOf(t)]
    BY <1>2, <1>b DEF Poll, Armed
  <2>2. QED
    BY <1>2, <2>1, SameRun DEF Poll
<1>3. CASE PumpStart \/ PumpEnd \/ MainWaited \/ MainGivesUp
  BY <1>3, SameRun DEF PumpStart, PumpEnd, MainWaited, MainGivesUp
<1>4. ASSUME NEW t \in Tasks, Block(t) PROVE RunningIsAlive' /\ MadeWithFiber'
  <2>1. CASE FiberPause(t) \/ FiberPark(t)
    <3>1. \A b \in Tasks : fut'[TaskOf(b)] = fut[TaskOf(b)]
      BY <2>1, <1>b, <1>c DEF FiberPause, FiberPark, TypeOK
    <3>2. QED
      BY <2>1, <3>1, SameRun DEF FiberPause, FiberPark, SuspendOn
  <2>2. ASSUME NEW b \in Tasks, FiberWait(t, b) PROVE RunningIsAlive' /\ MadeWithFiber'
    BY <2>2, SameRun DEF FiberWait, SuspendOn
  <2>3. CASE FinishAwait(t)
    BY <2>3, SameRun DEF FinishAwait
  <2>4. CASE AwaitCancelled(t)
    <3>1. CASE Ends(t, "cancelled", "error")
      BY <2>4, <3>1, EndsRun DEF AwaitCancelled, Resumed
    <3>2. CASE ~Ends(t, "cancelled", "error")
      BY <2>4, <3>2, SameRun DEF AwaitCancelled
    <3>3. QED
      BY <3>1, <3>2
  <2>5. CASE FiberReturn(t) \/ FiberRaise(t)
    BY <2>5, EndsRun DEF FiberReturn, FiberRaise, Runs
  <2>6. ASSUME NEW b \in Tasks, Spawn(t, b) PROVE RunningIsAlive' /\ MadeWithFiber'
    BY <2>6, CreatedRun DEF Spawn, RunInv, RunningIsAlive
  <2>7. ASSUME NEW b \in Tasks, Cancel(t, b) PROVE RunningIsAlive' /\ MadeWithFiber'
    BY <2>7, SameRun DEF Cancel
  <2>8. ASSUME NEW b \in Tasks, Send(t, b) PROVE RunningIsAlive' /\ MadeWithFiber'
    BY <2>8, <1>b, <1>c, SameRun DEF Send, TypeOK
  <2>9. QED
    BY <1>4, <2>1, <2>2, <2>3, <2>4, <2>5, <2>6, <2>7, <2>8 DEF Block
<1>5. CASE MainCall
  <2>1. ASSUME NEW b \in Tasks, Spawn(Main, b) PROVE RunningIsAlive' /\ MadeWithFiber'
    BY <2>1, CreatedRun DEF Spawn, RunInv, RunningIsAlive
  <2>2. ASSUME NEW b \in Tasks, SpawnEager(b) PROVE RunningIsAlive' /\ MadeWithFiber'
    BY <2>2, EagerRun DEF SpawnEager
  <2>3. ASSUME NEW b \in Tasks, Cancel(Main, b) PROVE RunningIsAlive' /\ MadeWithFiber'
    BY <2>3, SameRun DEF Cancel
  <2>4. ASSUME NEW b \in Tasks, Send(Main, b) PROVE RunningIsAlive' /\ MadeWithFiber'
    BY <2>4, <1>b, <1>c, SameRun DEF Send, TypeOK
  <2>5. ASSUME NEW b \in Tasks, MainWait(b) PROVE RunningIsAlive' /\ MadeWithFiber'
    BY <2>5, SameRun DEF MainWait
  <2>6. CASE MainPause
    BY <2>6, <1>b, <1>c, SameRun DEF MainPause, TypeOK
  <2>7. QED
    BY <1>5, <2>1, <2>2, <2>3, <2>4, <2>5, <2>6 DEF MainCall
<1>6. CASE UNCHANGED vars
  BY <1>6, SameRun DEF vars
<1>7. QED
  BY <1>1, <1>2, <1>3, <1>4, <1>5, <1>6 DEF Next, Scheduler

-----------------------------------------------------------------------------
(* The mapping.                                                            *)
taskFut == [t \in Tasks |-> fut[TaskOf(t)]]

(* Nobody's state, future or flag changes.                                 *)
LEMMA MapsToStutter ==
  ASSUME \A t \in Tasks : fut'[TaskOf(t)] = fut[TaskOf(t)],
         UNCHANGED <<state, cancelRequested>>
  PROVE  UNCHANGED Promise!taskVars
<1>1. taskFut' = taskFut
  BY DEF taskFut
<1>2. QED
  BY <1>1 DEF Promise!taskVars, taskFut

(* A state is written by who has read the future, or blames the task.      *)
LEMMA MapsToSay ==
  ASSUME RunInv, NEW b \in Tasks, co[b] # "none",
         \A t \in Tasks : fut'[TaskOf(t)] = fut[TaskOf(t)], UNCHANGED cancelRequested,
         \/ state' = [state EXCEPT ![b] = Classified(b)]
         \/ state' = [state EXCEPT ![b] = Blamed(b)]
  PROVE  Promise!Next
<1>1. taskFut' = taskFut /\ taskFut[b] = fut[TaskOf(b)] /\ taskFut[b] # "idle"
  BY DEF taskFut, RunInv, MadeWithFiber
<1>2. CASE fut[TaskOf(b)] = "value" /\ state' = [state EXCEPT ![b] = Classified(b)]
  <2>1. Promise!Read(b)
    BY <1>1, <1>2 DEF Promise!Read, Promise!Settled, Promise!Say, Promise!ReadState,
       Classified, taskFut
  <2>2. QED
    BY <2>1 DEF Promise!Next
<1>3. CASE fut[TaskOf(b)] # "value" \/ state' = [state EXCEPT ![b] = Blamed(b)]
  <2>1. state' = [state EXCEPT ![b] = Promise!Unsuccessful(b)]
    BY <1>3 DEF Promise!Unsuccessful, Classified, Blamed
  <2>2. Promise!Blame(b)
    BY <1>1, <2>1 DEF Promise!Blame, Promise!Say, taskFut
  <2>3. QED
    BY <2>2 DEF Promise!Next
<1>4. QED
  BY <1>2, <1>3

(* do.async, in any of its forms.                                          *)
LEMMA MapsToSpawn ==
  ASSUME RunInv, NEW b \in Tasks, Created(b), UNCHANGED cancelRequested
  PROVE  Promise!Next
<1>1. state[b] = "none"
  BY DEF Created, RunInv, SpawnedInv
<1>2. state' = [t \in Tasks |-> IF t \in {b} THEN "pending" ELSE state[t]]
  BY DEF Created, RunInv, WakeInv, TypeOK
<1>3. \A t \in Tasks : fut'[TaskOf(t)] = IF t \in {b} THEN "pending" ELSE fut[TaskOf(t)]
  BY FutureKinds DEF Created, RunInv, WakeInv, TypeOK
<1>4. taskFut' = [t \in Tasks |-> IF t \in {b} THEN "pending" ELSE taskFut[t]]
  BY <1>3 DEF taskFut
<1>5. Promise!Spawn({b})
  BY <1>1, <1>2, <1>4 DEF Promise!Spawn, taskFut
<1>6. QED
  BY <1>5 DEF Promise!Next

(* cancel of a pending task.                                               *)
LEMMA MapsToCancel ==
  ASSUME RunInv, NEW b \in Tasks, state[b] = "pending",
         state' = [state EXCEPT ![b] = "cancelled"], RaiseFlag(b), UNCHANGED fut
  PROVE  Promise!Next
<1>1. state' = [t \in Tasks |-> IF t \in {b} THEN "cancelled" ELSE state[t]]
  BY DEF RunInv, WakeInv, TypeOK
<1>2. cancelRequested' = [t \in Tasks |-> t \in {b} \/ cancelRequested[t]]
  BY DEF RaiseFlag, RunInv, WakeInv, TypeOK
<1>3. taskFut' = taskFut
  BY DEF taskFut
<1>4. Promise!Cancel({b})
  BY <1>1, <1>2, <1>3 DEF Promise!Cancel, Promise!CancelHandles, taskFut
<1>5. QED
  BY <1>4 DEF Promise!Next

(* The endings of a fiber: its future is pending until then.               *)
LEMMA MapsToEnds ==
  ASSUME RunInv, NEW t \in Tasks, NEW st, NEW result, current = t,
         Ends(t, st, result), UNCHANGED cancelRequested
  PROVE  Promise!Ends(t, st, result)
<1>1. co[t] = "alive"
  BY DEF RunInv, RunningIsAlive
<1>2. fut[TaskOf(t)] = "pending"
  BY <1>1, FutureKinds
     DEF RunInv, ResultInv, SettledIffDead, MadeWithFiber, Finished, TypeOK
<1>3. \A b \in Tasks : fut'[TaskOf(b)] = IF b = t THEN result ELSE fut[TaskOf(b)]
  BY FutureKinds DEF Ends, Settles, RunInv, WakeInv, TypeOK
<1>4. taskFut' = [taskFut EXCEPT ![t] = result]
  BY <1>3 DEF taskFut
<1>5. taskFut[t] = "pending"
  BY <1>2 DEF taskFut
<1>6. state' = [state EXCEPT ![t] = st]
  BY DEF Ends
<1>7. QED
  BY <1>4, <1>5, <1>6 DEF Promise!Ends, taskFut

(* Every step maps to a step of TaskSpec or to none.                       *)
LEMMA StepMaps == RunInv /\ [Next]_vars => [Promise!Next]_(Promise!taskVars)
<1> SUFFICES ASSUME RunInv, [Next]_vars
             PROVE  Promise!Next \/ UNCHANGED Promise!taskVars
  OBVIOUS
<1> DEFINE Maps == Promise!Next \/ UNCHANGED Promise!taskVars
<1>b. /\ \A t \in Tasks, s \in Strands : TaskOf(t) \in Futures /\ TaskOf(t) # TimerOf(s)
      /\ \A t, b \in Tasks : TaskOf(t) # GateOf(b)
      /\ Main \in Strands /\ Tasks \subseteq Strands
  BY FutureKinds
<1>c. TypeOK
  BY DEF RunInv, WakeInv
<1>d. \A b \in Tasks : /\ main = TaskOf(b) => co[b] # "none"
                       /\ \A t \in Tasks : awaits[t] = TaskOf(b) => co[b] # "none"
  BY DEF RunInv, SpawnedInv
<1>1. CASE RunFiber \/ PumpStart \/ PumpEnd
  BY <1>1, MapsToStutter DEF RunFiber, PumpStart, PumpEnd
<1>2. CASE Poll
  <2>1. \A t \in Tasks : fut'[TaskOf(t)] = fut[TaskOf(t)]
    BY <1>2, <1>b DEF Poll, Armed
  <2>2. QED
    BY <1>2, <2>1, MapsToStutter DEF Poll
<1>3. CASE MainWaited \/ MainGivesUp
  BY <1>3, <1>d, MapsToSay, MapsToStutter DEF MainWaited, MainGivesUp
<1>4. ASSUME NEW t \in Tasks, Block(t) PROVE Maps
  <2>1. CASE FiberPause(t) \/ FiberPark(t)
    <3>1. \A b \in Tasks : fut'[TaskOf(b)] = fut[TaskOf(b)]
      BY <2>1, <1>b, <1>c DEF FiberPause, FiberPark, TypeOK
    <3>2. QED
      BY <2>1, <3>1, MapsToStutter DEF FiberPause, FiberPark
  <2>2. ASSUME NEW b \in Tasks, FiberWait(t, b) PROVE Maps
    BY <2>2, MapsToSay, MapsToStutter DEF FiberWait
  <2>3. CASE FinishAwait(t)
    BY <2>3, <1>d, MapsToSay, MapsToStutter DEF FinishAwait
  <2>4. CASE AwaitCancelled(t)
    <3>1. CASE Ends(t, "cancelled", "error") /\ UNCHANGED cancelRequested
      <4>1. Promise!Stop(t)
        BY <2>4, <3>1, MapsToEnds DEF AwaitCancelled, Resumed, Promise!Stop
      <4>2. QED
        BY <4>1 DEF Promise!Next
    <3>2. CASE UNCHANGED <<state, fut, cancelRequested>>
      BY <3>2, MapsToStutter
    <3>3. CASE \E b \in Tasks : /\ awaits[t] = TaskOf(b)
                                /\ state' = [state EXCEPT ![b] = Blamed(b)]
                                /\ UNCHANGED <<fut, cancelRequested>>
      BY <3>3, <1>d, MapsToSay
    <3>4. QED
      BY <2>4, <3>1, <3>2, <3>3 DEF AwaitCancelled
  <2>5. CASE FiberReturn(t)
    <3>1. Promise!Return(t)
      BY <2>5, MapsToEnds DEF FiberReturn, Runs, Promise!Return
    <3>2. QED
      BY <3>1 DEF Promise!Next
  <2>6. CASE FiberRaise(t)
    <3>1. Promise!Raise(t)
      BY <2>6, MapsToEnds DEF FiberRaise, Runs, Promise!Raise
    <3>2. QED
      BY <3>1 DEF Promise!Next
  <2>7. ASSUME NEW b \in Tasks, Spawn(t, b) PROVE Maps
    BY <2>7, MapsToSpawn DEF Spawn
  <2>8. ASSUME NEW b \in Tasks, Cancel(t, b) PROVE Maps
    BY <2>8, MapsToCancel DEF Cancel
  <2>9. ASSUME NEW b \in Tasks, Send(t, b) PROVE Maps
    BY <2>9, <1>b, <1>c, MapsToStutter DEF Send, TypeOK
  <2>10. QED
    BY <1>4, <2>1, <2>2, <2>3, <2>4, <2>5, <2>6, <2>7, <2>8, <2>9 DEF Block
<1>5. CASE MainCall
  <2>1. ASSUME NEW b \in Tasks, Spawn(Main, b) \/ SpawnEager(b) PROVE Maps
    BY <2>1, MapsToSpawn DEF Spawn, SpawnEager
  <2>2. ASSUME NEW b \in Tasks, Cancel(Main, b) PROVE Maps
    BY <2>2, MapsToCancel DEF Cancel
  <2>3. ASSUME NEW b \in Tasks, Send(Main, b) PROVE Maps
    BY <2>3, <1>b, <1>c, MapsToStutter DEF Send, TypeOK
  <2>4. ASSUME NEW b \in Tasks, MainWait(b) PROVE Maps
    BY <2>4, MapsToStutter DEF MainWait
  <2>5. CASE MainPause
    BY <2>5, <1>b, <1>c, MapsToStutter DEF MainPause, TypeOK
  <2>6. QED
    BY <1>5, <2>1, <2>2, <2>3, <2>4, <2>5 DEF MainCall
<1>6. CASE UNCHANGED vars
  BY <1>6, MapsToStutter DEF vars
<1>7. QED
  BY <1>1, <1>2, <1>3, <1>4, <1>5, <1>6 DEF Next, Scheduler

(* Whatever the scheduler, the blocks and Main do, and in whatever order,  *)
(* the state and the future of a task change as TaskSpec says.             *)
THEOREM ImplementsTaskSpecCorrect == Spec => ImplementsTaskSpec
<1>1. Init => Promise!Init
  <2>1. \A t \in Tasks : TaskOf(t) \in Futures
    BY FutureKinds
  <2>2. QED
    BY <2>1 DEF Init, Promise!Init, Promise!Unborn
<1>2. Spec => []RunInv
  BY RunInit, RunStep, PTL DEF Spec
<1>3. QED
  BY <1>1, <1>2, StepMaps, PTL DEF Spec, ImplementsTaskSpec, Promise!Spec

=============================================================================
