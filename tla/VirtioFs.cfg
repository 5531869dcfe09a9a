SPECIFICATION Spec
CONSTANTS
  Names = {"a", "b"}
  Paths <- TwoLevels
  HostInos = {k1, k2, k3}
  NoFile = NoFile
  MaxInodes = 3
  MaxHandles = 2
  OpenFlags <- SomeFlags
  MaxPage = 2
  MaxRequests = 4
  MaxHostSteps = 1
SYMMETRY HostInosSymmetric
 
PROPERTIES  ReadOnlyKept
CHECK_DEADLOCK FALSE
