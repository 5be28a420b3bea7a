SPECIFICATION Spec
CONSTANTS
  Names = {e1, BeforeExit}
  BeforeExit = BeforeExit
  Leaves = {0, 1}
  MaxCalls = 4
  MaxTicks = 2
CHECK_DEADLOCK FALSE
PROPERTY CarriesOn
