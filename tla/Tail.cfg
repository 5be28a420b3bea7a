SPECIFICATION Spec
CONSTANTS
  Lines = 4
  Payload = 3
  Newlines = {0}
  Records = 3
\* The tail ends with the child: nothing is left to do.
CHECK_DEADLOCK FALSE
INVARIANTS
  TypeOK
  RecordsIntact
PROPERTIES
  FlushedIsDelivered
  TailEnds
