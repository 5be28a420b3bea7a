----------------------------- MODULE MCChannel -----------------------------
(* Channel on a small instance.                                            *)
EXTENDS Channel, TLC

MCCapacities == {-1, 0, 1, 2}
Symmetry == Permutations(Callers) \cup Permutations(Uids)
=============================================================================
