SPECIFICATION Spec
CONSTANTS
  Key = {k1, k2}
  Replica = {c1}
  NoReplica = NoReplica
  Resubmittable = {}
  Fault = {}
  MaxLog = 2
  MaxFaults = 0
INVARIANTS
  DispatchedPrefixVerifies
CHECK_DEADLOCK FALSE
