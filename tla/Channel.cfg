SPECIFICATION Spec
CONSTANTS
  Callers = {f1, f2, f3}
  Uids = {u1, u2}
  Inbound = Inbound
  Capacities <- MCCapacities
  MaxOffers = 4
SYMMETRY Symmetry
INVARIANTS
  TypeOK
  Fifo
  NoMissedMatch
  ClosedLeavesNobodyParked
  EveryWaitIsParked
PROPERTIES
  NoFutureCompletedTwice
  ImplementsChannelSpec
CHECK_DEADLOCK FALSE
