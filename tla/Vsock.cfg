SPECIFICATION FairSpec
CONSTANTS
  h1 = h1  h2 = h2  k1 = k1  k2 = k2  Nobody = Nobody
  ListenPorts = {1}
  ConnectPorts = {2}
  Hosts = {h1, h2, k1, k2}
  PortOf <- MCPortOf
  GuestPorts = {11, 12}
  Scenarios <- MCScenarios
  MaxConns = 2
  FirstEph = 21
  LastEph = 22
INVARIANTS NoMutualWait
INVARIANTS AcceptedHasStream
 
PROPERTIES HostCloseReachesGuest
CHECK_DEADLOCK FALSE
