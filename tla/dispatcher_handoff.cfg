SPECIFICATION Spec
CONSTANTS
  Key = {k1, k2}
  Replica = {c1, c2}
  NoReplica = NoReplica
  Resubmittable = {}
  Fault = {"crash", "stall"}
  MaxLog = 3
  MaxFaults = 2
SYMMETRY Symmetry
INVARIANTS
  ProjectionIsFaithful
  OneDispatchPerKey
CHECK_DEADLOCK FALSE
