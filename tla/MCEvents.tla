------------------------------ MODULE MCEvents ------------------------------
(* Events on a small instance: one event of the program and the built-in   *)
(* one of the exit.                                                        *)
EXTENDS Events
=============================================================================
