SPECIFICATION Spec
CONSTANTS
  Kinds = {"isolated"}
  PipeSize = 2
  Output = 3
CHECK_DEADLOCK FALSE
PROPERTY CancelKillsChild
