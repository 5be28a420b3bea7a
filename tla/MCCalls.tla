------------------------------ MODULE MCCalls ------------------------------
(* Calls on a small instance.  Neither names nor values mean anything.     *)
EXTENDS Calls, TLC

Renamings == Permutations(Names) \cup Permutations(Values)

(* What the next steps depend on: `before` and `outer` are history but for *)
(* the saved parameter.                                                    *)
Frame(c) == <<c.kind, c.exports, IF c.kind = "scoped" THEN <<>> ELSE <<c.param, c.before[c.param]>>>>
WithoutHistory ==
  <<Syms, ScopeStack, ctx, ScopeFramePool, current, born, over, steps,
    [s \in Strands |-> [i \in DOMAIN calls[s] |-> Frame(calls[s][i])]]>>
=============================================================================
