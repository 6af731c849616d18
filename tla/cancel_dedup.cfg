SPECIFICATION Spec
CONSTANTS
  Key = {k1, k2}
  Replica = {c1}
  NoReplica = NoReplica
  Resubmittable = {}
  Fault = {}
  MaxLog = 4
  MaxFaults = 0
INVARIANTS
  CancelReachesEngines
CHECK_DEADLOCK FALSE
