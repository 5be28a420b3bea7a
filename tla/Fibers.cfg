SPECIFICATION FairSpec
CONSTANTS
  Tasks = {t1, t2}
  Main = Main
  MaxSteps = 2
  MaxCalls = 3
INVARIANTS
  TypeOK
  NoLostWakeup
  SettledIffDead
  DoneMeansValue
PROPERTIES
  NoSpuriousResume
  ImplementsTaskSpec
  CancelStops
  WaitReturns
