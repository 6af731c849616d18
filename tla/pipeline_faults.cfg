SPECIFICATION PSpec
CONSTANTS
  Key = {k1, k2, k3}
  Replica = {c1}
  NoReplica = NoReplica
  Resubmittable = {}
  Fault = {"crash"}
  MaxLog = 3
  MaxFaults = 1
  Engine = {e1, e2}
  Refused = {k3}
  HopFault = {"handler", "engine", "timeout"}
  MaxHopFaults = 1
SYMMETRY PSymmetry
INVARIANTS
  PTypeOK
  NothingLost
PROPERTIES
  ImplementsDispatcher
CHECK_DEADLOCK FALSE
