SPECIFICATION Spec
CONSTANTS
  Lines = 4
  Payload = 3
  Newlines = {0}
  Records = 2
CHECK_DEADLOCK FALSE
INVARIANT DrainedAtExit
