SPECIFICATION FairSpec
CONSTANTS
  m1 = m1  m2 = m2
  Macs = {m1, m2}
  First = 15
  Last = 16
  MaxXid = 2
  MaxQueue = 2
  MaxLoss = 1
INVARIANTS AddressUnique
PROPERTIES ServesAddresses DiscoverBinds
CHECK_DEADLOCK FALSE
