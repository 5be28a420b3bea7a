------------------------------- MODULE MCTail -------------------------------
(* TailFile on the 4-line records of channels, with payloads that codify   *)
(* to one line (Tail, TailExit) and with payloads that do not              *)
(* (TailNewline).                                                          *)
EXTENDS TailFile
=============================================================================
