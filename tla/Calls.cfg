SPECIFICATION Spec
CONSTANTS
  Names = {x, y}
  Values = {v1, v2}
  Absent = Absent
  Fibers = {f1}
  Main = Main
  PoolMax = 1
  ExportDepth = 1
  MaxDepth = 2
  MaxSteps = 5
SYMMETRY Renamings
VIEW WithoutHistory
PROPERTIES
  ImplementsScopeSpec
CHECK_DEADLOCK FALSE
