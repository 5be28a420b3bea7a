SPECIFICATION Spec
CONSTANTS
  Tasks = {t1, t2}
  Main = Main
  MaxSteps = 2
  MaxCalls = 3
SYMMETRY Symmetry
PROPERTY EagerRunsNewFiber
