SPECIFICATION FairSpec
CONSTANTS
  c1 = c1  c2 = c2  c3 = c3  v1 = v1  v2 = v2  NoVm = NoVm
  Clients <- ThreeClients
  VMs <- TwoVMs
  Size = 2
  MaxReserve = 1
  SpawnMayFail = TRUE
  CancelPoints = {"waiting"}
INVARIANTS  CleanupLeavesNothing WakeupsCoverVms
PROPERTIES ReserveReturns PoolRefills
CHECK_DEADLOCK FALSE
