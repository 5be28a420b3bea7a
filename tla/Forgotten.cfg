SPECIFICATION Spec
CONSTANTS
  Tasks = {1, 2, 3}
  Shapes <- MCShapes
  Kinds <- MCKinds
  Watched = 1
  Shared = {1}
INVARIANTS
  NobodyForgotten
CHECK_DEADLOCK FALSE
