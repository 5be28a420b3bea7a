---------------------------- MODULE MCChildTask ----------------------------
(* ChildTask with a pipe smaller than what the command writes (ChildTask), *)
(* and for isolated children alone (ChildCancel).                          *)
EXTENDS ChildTask
=============================================================================
