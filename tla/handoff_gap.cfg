SPECIFICATION Spec
CONSTANTS
  Key = {k1, k2}
  Replica = {c1, c2}
  NoReplica = NoReplica
  Resubmittable = {}
  Fault = {"crash"}
  MaxLog = 3
  MaxFaults = 1
INVARIANTS
  NoOvertaking
CHECK_DEADLOCK FALSE
