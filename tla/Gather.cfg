SPECIFICATION FairSpec
CONSTANTS
  Tasks = {1, 2, 3}
  Shapes <- MCShapes
  Kinds <- MCKinds
  Watched = 1
  Shared = {1}
INVARIANTS
  TypeOK
  CollectedInOrder
  WindowKept
  ShortCircuitSound
PROPERTIES
  LosersEnd
  GatherReturns
CHECK_DEADLOCK FALSE
