SPECIFICATION Spec
CONSTANTS
  Kinds = {"isolated", "shell"}
  PipeSize = 2
  Output = 3
\* The task settles and nothing is left to do; a command may also hang.
CHECK_DEADLOCK FALSE
INVARIANTS
  TypeOK
  SettledMeansOver
  StateAgrees
PROPERTIES
  SettlesAfterExit
  CancelEndsShell
