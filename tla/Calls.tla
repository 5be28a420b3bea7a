------------------------------- MODULE Calls -------------------------------
(***************************************************************************)
(* Function calls and fibers over one global symbol table.                 *)
(*                                                                         *)
(* vm/globals.nim keeps all variables in Syms.  A call pushes a scope      *)
(* frame, an undo log in which SetSym notes what a name was before it is   *)
(* first written; the end of the call, by whatever way, puts that back     *)
(* (execFunction, execMethod).  A function that is executed inline has no  *)
(* frame and saves its parameters (execFunctionInline); so does a loop,    *)
(* which writes its variable past the undo log (Iterators.nim).  Frames    *)
(* are recycled in a pool.  vm/context.nim moves the table and the frames  *)
(* of a strand out and those of another in whenever the scheduler          *)
(* switches, which may be deep inside calls of both.                       *)
(*                                                                         *)
(* The table holds pointers; that two names may share what one of them is  *)
(* then made to contain is left out.                                       *)
(***************************************************************************)
EXTENDS Naturals, Sequences, SequencesExt

CONSTANTS
  Names, Values,
  Absent,          \* nil: the name is not in the table
  Fibers, Main,
  PoolMax,         \* ScopeFramePoolMax
  ExportDepth,     \* `.export` is used by functions called at most so deep
  MaxDepth,        \* bound: calls a strand is inside of
  MaxSteps         \* bound: what all strands do, together

ASSUME MainAssumption == Main \notin Fibers
ASSUME AbsentAssumption == Absent \notin Values
ASSUME BoundsAssumption == {PoolMax, ExportDepth, MaxDepth, MaxSteps} \subseteq Nat

Strands == Fibers \cup {Main}

VARIABLES
  Syms, ScopeStack,   \* the live globals: those of the current strand
  ctx,                \* the VMContext of each strand that is swapped out
  ScopeFramePool,     \* shared by all strands
  current,
  born, over,         \* the strands that were spawned, and those that ended
  calls,              \* the native stack of a strand: the calls and loops it is in
  steps

vars == <<Syms, ScopeStack, ctx, ScopeFramePool, current, born, over, calls, steps>>

Table == [Names -> Values \cup {Absent}]
NoFrame == [n \in {} |-> Absent]
EmptyContext == [syms |-> [n \in Names |-> Absent], scopeStack |-> <<>>]

Init ==
  /\ Syms = [n \in Names |-> Absent]
  /\ ScopeStack = <<>>
  /\ ctx = [s \in Strands |-> EmptyContext]
  /\ ScopeFramePool = <<>>
  /\ current = Main
  /\ born = {Main} /\ over = {}
  /\ calls = [s \in Strands |-> <<>>]
  /\ steps = 0

-----------------------------------------------------------------------------
(* Plausible slips, for the mutation runs.                                 *)
ClearedNot(frame) == frame
SwappedOutWithoutFrames == [syms |-> Syms, scopeStack |-> <<>>]

-----------------------------------------------------------------------------
(* Scope frames.                                                           *)
Recorded(frame, n) ==
  [m \in DOMAIN frame \cup {n} |-> IF m \in DOMAIN frame THEN frame[m] ELSE Syms[n]]

recordScopeWrite(n) ==
  ScopeStack' = IF ScopeStack = <<>> THEN ScopeStack
                ELSE Append(Front(ScopeStack), Recorded(Last(ScopeStack), n))

FreshFrame == IF ScopeFramePool = <<>> THEN NoFrame ELSE Last(ScopeFramePool)
PoolWithoutIt == IF ScopeFramePool = <<>> THEN <<>> ELSE Front(ScopeFramePool)

Cleared(frame) == NoFrame
releaseScopeFrame(frame) ==
  ScopeFramePool' = IF Len(ScopeFramePool) < PoolMax
                    THEN Append(ScopeFramePool, Cleared(frame)) ELSE ScopeFramePool

Write(n, v) == Syms' = [Syms EXCEPT ![n] = v]

Step == steps < MaxSteps /\ steps' = steps + 1
Depth == Len(calls[current])
In(kinds) == Depth > 0 /\ Last(calls[current]).kind \in kinds

-----------------------------------------------------------------------------
(* What code does to variables: SetSym and UnsetSym, and the result of an  *)
(* iterator over a literal, which needs the name to exist and notes        *)
(* nothing.                                                                *)
SetSym(n, v) ==
  /\ Step
  /\ recordScopeWrite(n)
  /\ Write(n, v)
  /\ UNCHANGED <<ctx, ScopeFramePool, current, born, over, calls>>

InPlace(n, v) ==
  /\ Step
  /\ Syms[n] # Absent
  /\ Write(n, v)
  /\ calls' = [calls EXCEPT ![current] =
                 [i \in DOMAIN @ |-> [@[i] EXCEPT !.outer = @ \cup {n}]]]
  /\ UNCHANGED <<ScopeStack, ctx, ScopeFramePool, current, born, over>>

(* Into a call.  History: the table before it, and the names it may change *)
(* for its caller, by exporting them or in place.                          *)
Enters(kind, n, exports) ==
  calls' = [calls EXCEPT ![current] =
              Append(@, [kind |-> kind, param |-> n, exports |-> exports,
                         before |-> Syms, outer |-> exports])]

(* execFunction and execMethod: a frame, then the parameter (or import).   *)
CallScoped(n, v, exports) ==
  /\ Step
  /\ Depth < MaxDepth
  /\ exports # {} => Depth < ExportDepth
  /\ ScopeStack' = Append(ScopeStack, Recorded(FreshFrame, n))
  /\ ScopeFramePool' = PoolWithoutIt
  /\ Write(n, v)
  /\ Enters("scoped", n, exports)
  /\ UNCHANGED <<ctx, current, born, over>>

(* execFunctionInline: no frame of its own, so what it writes is noted in  *)
(* the frame of the function around it.                                    *)
CallInline(n, v) ==
  /\ Step
  /\ Depth < MaxDepth
  /\ Enters("inline", n, {})
  /\ recordScopeWrite(n)
  /\ Write(n, v)
  /\ UNCHANGED <<ctx, ScopeFramePool, current, born, over>>

(* A loop: its variable is written with no note in any frame.              *)
Loop(n, v) ==
  /\ Step
  /\ Depth < MaxDepth
  /\ Enters("loop", n, {})
  /\ Write(n, v)
  /\ UNCHANGED <<ScopeStack, ctx, ScopeFramePool, current, born, over>>

NextItem(v) ==
  /\ Step
  /\ In({"loop"})
  /\ Write(Last(calls[current]).param, v)
  /\ UNCHANGED <<ScopeStack, ctx, ScopeFramePool, current, born, over, calls>>

(* The `finally` of a call: it returned, raised, or its fiber was          *)
(* cancelled inside it.                                                    *)
Undone(frame, exports) ==
  [n \in Names |-> IF n \in DOMAIN frame \ exports THEN frame[n] ELSE Syms[n]]

PopCall == calls' = [calls EXCEPT ![current] = Front(@)]

EndScoped ==
  /\ In({"scoped"})
  /\ Syms' = Undone(Last(ScopeStack), Last(calls[current]).exports)
  /\ ScopeStack' = Front(ScopeStack)
  /\ releaseScopeFrame(Last(ScopeStack))
  /\ PopCall
  /\ UNCHANGED <<ctx, current, born, over, steps>>

(* finalizeLeakless, which a loop gets to after its last item only.        *)
Restore ==
  /\ In({"inline", "loop"})
  /\ LET c == Last(calls[current]) IN Write(c.param, c.before[c.param])
  /\ PopCall
  /\ UNCHANGED <<ScopeStack, ctx, ScopeFramePool, current, born, over, steps>>

(* `break`, `return` or an error.                                          *)
LeaveLoop ==
  /\ In({"loop"})
  /\ PopCall
  /\ UNCHANGED <<Syms, ScopeStack, ctx, ScopeFramePool, current, born, over, steps>>

-----------------------------------------------------------------------------
(* newVMContext: the new fiber gets a copy of the table and no frames.     *)
Spawn(f) ==
  /\ Step
  /\ f \notin born
  /\ born' = born \cup {f}
  /\ ctx' = [ctx EXCEPT ![f] = [syms |-> Syms, scopeStack |-> <<>>]]
  /\ UNCHANGED <<Syms, ScopeStack, ScopeFramePool, current, over, calls>>

SwappedOut == [syms |-> Syms, scopeStack |-> ScopeStack]

SwitchTo(t) ==
  /\ ctx' = [ctx EXCEPT ![current] = SwappedOut]
  /\ Syms' = ctx[t].syms
  /\ ScopeStack' = ctx[t].scopeStack
  /\ current' = t

(* Main waits and resumes a fiber; a fiber suspends.                       *)
Resume(f) ==
  /\ current = Main /\ f \in born \ over
  /\ Step
  /\ SwitchTo(f)
  /\ UNCHANGED <<ScopeFramePool, born, over, calls>>

Suspend ==
  /\ current # Main
  /\ SwitchTo(Main)
  /\ UNCHANGED <<ScopeFramePool, born, over, calls, steps>>

FiberEnds ==
  /\ current # Main /\ Depth = 0
  /\ over' = over \cup {current}
  /\ SwitchTo(Main)
  /\ UNCHANGED <<ScopeFramePool, born, calls, steps>>

-----------------------------------------------------------------------------
Next ==
  \/ \E n \in Names, v \in Values \cup {Absent} : SetSym(n, v)
  \/ \E n \in Names, v \in Values :
       \/ InPlace(n, v) \/ CallInline(n, v) \/ Loop(n, v)
       \/ \E exports \in SUBSET Names : CallScoped(n, v, exports)
  \/ \E v \in Values : NextItem(v)
  \/ EndScoped \/ Restore \/ LeaveLoop
  \/ \E f \in Fibers : Spawn(f) \/ Resume(f)
  \/ Suspend \/ FiberEnds

Spec == Init /\ [][Next]_vars

-----------------------------------------------------------------------------
(* A flat table and undo logs mean the same as a chain of environments: in *)
(* particular a function leaves no trace but its exports and its changes   *)
(* in place, each of which goes where the name was bound; and no strand,   *)
(* wherever it is switched, finds a variable changed by another.           *)
(*                                                                         *)
(* The environment of a call has the names its frame knows, with their     *)
(* values before the calls inside of it.                                   *)
SymsOf(s) == IF s = current THEN Syms ELSE ctx[s].syms
FramesOf(s) == IF s = current THEN ScopeStack ELSE ctx[s].scopeStack

ValueAt(s, k, n) ==
  LET later == {j \in k + 1 .. Len(FramesOf(s)) : n \in DOMAIN FramesOf(s)[j]}
  IN IF later = {} THEN SymsOf(s)[n]
     ELSE FramesOf(s)[CHOOSE j \in later : \A i \in later : j <= i][n]

Environment(s, k) ==
  [n \in IF k = 0 THEN Names ELSE DOMAIN FramesOf(s)[k] |-> ValueAt(s, k, n)]

Chain(s) == IF s \notin born \/ s \in over THEN <<>>
            ELSE [i \in 1 .. Len(FramesOf(s)) + 1 |-> Environment(s, i - 1)]

Meaning == INSTANCE ScopeSpec WITH env <- [s \in Strands |-> Chain(s)]
ImplementsScopeSpec == Meaning!Spec

(* "Symbols re-assigned inside will NOT overwrite the value in the outer   *)
(* scope": when a function ends, the caller's variables are what they were *)
(* before the call, except those it exports or has changed in place.       *)
NoTrace ==
  [][EndScoped => LET c == Last(calls[current])
                  IN \A n \in Names \ c.outer : Syms'[n] = c.before[n]]_vars
=============================================================================
