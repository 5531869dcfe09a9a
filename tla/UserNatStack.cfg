SPECIFICATION Spec
CONSTANTS
  c1 = c1  c2 = c2
  Flows = {f1, f2}
  UdpKeys = {u1}
  IcmpKeys = {e1}
  MaxTcp = 1
  MaxUdp = 1
  MaxIcmp = 1
  TxCap = 9
  DataCap = 1
  MaxRead = 2
  NConn = 2
  MaxRemote = 2
  Clients = {c1, c2}
  VPortOf <- DistinctPorts
  MaxForwardUdp = 1
  MaxQueue = 1
  Scenarios <- Small
  MaxUnits = 2
SYMMETRY FlowsSymmetric
INVARIANTS TasksOwned SegmentsContiguous 
CHECK_DEADLOCK FALSE
