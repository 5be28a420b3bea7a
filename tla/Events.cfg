SPECIFICATION Spec
CONSTANTS
  Names = {e1, BeforeExit}
  BeforeExit = BeforeExit
  Leaves = {0}
  MaxCalls = 4
  MaxTicks = 2
\* The program ends, or waits for what never comes.
CHECK_DEADLOCK FALSE
INVARIANTS
  TypeOK
  StartedInOrder
  ReportsAgree
PROPERTIES
  OffIsFinal
  HandlersStart
