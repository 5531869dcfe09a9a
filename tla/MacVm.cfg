SPECIFICATION Spec
CONSTANTS
  Start <- MCStart
  Callers <- MCCallers
  Rpcs <- MCRpcs
  Hosts <- MCHosts
  Guests <- MCGuests
  MayCall <- MCMayCall
  MaxChunks = 1
INVARIANTS FilesGoWithVm 
PROPERTIES DroppedMeansGone PairServed
CHECK_DEADLOCK FALSE
