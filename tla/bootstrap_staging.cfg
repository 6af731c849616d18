SPECIFICATION LiveSpec
CONSTANTS
  Loop = Loop
  Sweep = {sweep}
  Engine = {e1}
  weights = weights
  index = index
  Object = {weights, index}
  Ready = Ready
  Layout <- LayoutOf
  MaxRequests = 1
  MaxFaults = 2
INVARIANTS
  BTypeOK
  SentinelMeansComplete
  SentinelMeansWhole
  AnnouncementsAreTrue
  ServesComplete
  ServesOneRevision
PROPERTIES
  GoodCopySurvives
  RequestsSettle
CHECK_DEADLOCK FALSE
