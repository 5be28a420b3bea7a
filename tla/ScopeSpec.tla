----------------------------- MODULE ScopeSpec -----------------------------
(***************************************************************************)
(* What variables mean to an Arturo program: a strand has a chain of       *)
(* environments, the globals it started with at the bottom and one for     *)
(* each function it is inside of.  A name means its innermost binding; an  *)
(* assignment binds in the innermost environment, a change in place goes   *)
(* where the binding is.  No strand's variables change by what another     *)
(* does.                                                                   *)
(*                                                                         *)
(* Calls, one flat table with undo logs, implements it.                    *)
(***************************************************************************)
EXTENDS Naturals, Sequences

CONSTANTS Names, Values, Absent, Strands, Main

VARIABLE env   \* the chain of each strand; empty before it is spawned and at its end

Bindings == UNION {[N -> Values \cup {Absent}] : N \in SUBSET Names}

Top(s) == Len(env[s])
Update(b, n, v) == [m \in DOMAIN b \cup {n} |-> IF m = n THEN v ELSE b[m]]
Home(s, n) == CHOOSE i \in 1 .. Top(s) : /\ n \in DOMAIN env[s][i]
                                        /\ \A j \in i + 1 .. Top(s) : n \notin DOMAIN env[s][j]
Means(s, n) == env[s][Home(s, n)][n]

Init == \E globals \in [Names -> Values \cup {Absent}] :
          env = [s \in Strands |-> IF s = Main THEN <<globals>> ELSE <<>>]

(* `n: v`, and `unset` with no value.                                      *)
Assign(s, n, v) ==
  /\ env[s] # <<>>
  /\ env' = [env EXCEPT ![s][Top(s)] = Update(@, n, v)]

(* A write past the innermost environment: by way of a literal, and the    *)
(* variable of a loop.                                                     *)
Modify(s, n, v) ==
  /\ env[s] # <<>>
  /\ env' = [env EXCEPT ![s][Home(s, n)] = Update(@, n, v)]

Enter(s, n, v) ==
  /\ env[s] # <<>>
  /\ env' = [env EXCEPT ![s] = Append(@, Update([m \in {} |-> Absent], n, v))]

(* The exported names that are bound here are bound in the caller.         *)
Leave(s, exports) ==
  /\ Top(s) > 1
  /\ LET over == env[s][Top(s)]
         caller == env[s][Top(s) - 1]
         kept == exports \cap DOMAIN over
     IN env' = [env EXCEPT ![s] =
                  Append(SubSeq(@, 1, Top(s) - 2),
                         [m \in DOMAIN caller \cup kept |->
                            IF m \in kept THEN over[m] ELSE caller[m]])]

(* A new strand starts with what its parent sees.                          *)
Spawn(s, t) ==
  /\ env[s] # <<>> /\ env[t] = <<>>
  /\ env' = [env EXCEPT ![t] = <<[n \in Names |-> Means(s, n)]>>]

End(s) == s # Main /\ env[s] # <<>> /\ env' = [env EXCEPT ![s] = <<>>]

Next == \E s \in Strands :
          \/ \E n \in Names, v \in Values \cup {Absent} :
               Assign(s, n, v) \/ Modify(s, n, v) \/ Enter(s, n, v)
          \/ \E exports \in SUBSET Names : Leave(s, exports)
          \/ \E t \in Strands : Spawn(s, t)
          \/ End(s)

Spec == Init /\ [][Next]_env
=============================================================================
