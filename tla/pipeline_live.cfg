SPECIFICATION FairPSpec
CONSTANTS
  Key = {k1, k2}
  Replica = {c1}
  NoReplica = NoReplica
  Resubmittable = {}
  Fault = {"session"}
  MaxLog = 3
  MaxFaults = 1
  Engine = {e1, e2}
  Refused = {k2}
  HopFault = {"handler", "engine", "timeout"}
  MaxHopFaults = 1
INVARIANTS
  LiveEventRestoresWork
  CancelPrecedesSuccessor
PROPERTIES
  LivePromptSettles
  DispatchedSettles
CHECK_DEADLOCK FALSE
