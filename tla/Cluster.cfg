SPECIFICATION FairSpec
CONSTANTS
  v1 = v1  v2 = v2
  VMs = {v1, v2}
  Gateway = gw
  Stations = {v1, v2, gw}
  Bcast = all
  Nobody = nobody
  Scenarios <- MCScenarios
  ChanCap = 1
  SockCap = 1
  RxRing = 1
  MaxAnswers = 1
INVARIANTS QuietMeansHeard
PROPERTIES OneSegment Settles
CHECK_DEADLOCK FALSE
