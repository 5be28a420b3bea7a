SPECIFICATION FairSpec
CONSTANTS
  k1 = k1
  k2 = k2
  u1 = u1
  u2 = u2
  u3 = u3
  Children = {k1, k2}
  Callers = {f1}
  Inbound = Inbound
  Capacities <- MCCapacities
  MaxOffers = 2
  MaxLost = 1
  Owner <- MCOwner
PROPERTIES
  ParkedReceivesWake
CHECK_DEADLOCK FALSE
