SPECIFICATION Spec
CONSTANTS
  Key = {k1, k2, k3}
  Replica = {c1}
  NoReplica = NoReplica
  Resubmittable = {k1}
  Fault = {"crash", "session", "publish"}
  MaxLog = 4
  MaxFaults = 2
SYMMETRY KeySymmetry
INVARIANTS
  TypeOK
  NoGap
  ProjectionIsFaithful
  NoOvertaking
  OneDispatchPerKey
  VerifiedIsHistory
  NewestPromptVerifies
CHECK_DEADLOCK FALSE
