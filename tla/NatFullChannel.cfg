SPECIFICATION FairSpec
CONSTANTS
  c1 = c1  c2 = c2
  Flows = {f1}
  UdpKeys = {}
  IcmpKeys = {}
  MaxTcp = 1
  MaxUdp = 1
  MaxIcmp = 1
  TxCap = 1
  DataCap = 1
  MaxRead = 2
  NConn = 1
  MaxRemote = 2
  Clients = {}
  VPortOf <- DistinctPorts
  MaxForwardUdp = 1
  MaxQueue = 1
  Scenarios <- OnlyTcp
  MaxUnits = 2
PROPERTY LoopTurns
CHECK_DEADLOCK FALSE
