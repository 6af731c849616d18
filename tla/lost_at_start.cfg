SPECIFICATION Spec
CONSTANTS
  Key = {k1, k2}
  Replica = {c1}
  NoReplica = NoReplica
  Resubmittable = {}
  Fault = {}
  MaxLog = 3
  MaxFaults = 0
INVARIANTS
  WorkConserving
CHECK_DEADLOCK FALSE
