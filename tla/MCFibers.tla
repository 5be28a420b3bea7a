------------------------------ MODULE MCFibers ------------------------------
(* Fibers on a small instance.  The runs that check liveness (Fibers) do   *)
(* without the symmetry.                                                   *)
EXTENDS Fibers, TLC

Symmetry == Permutations(Tasks)
=============================================================================
