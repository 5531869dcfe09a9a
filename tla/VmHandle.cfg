SPECIFICATION ChattySpec
CONSTANTS
  c1 = c1  c2 = c2
  Callers <- TwoCallers
  Waiters <- TwoCallers
  WaitTimeouts = TRUE
  NCpu = 2
  StartMayFail = TRUE
  MaxCalls = 2
INVARIANTS KilledMeansDead StoppedJustified
  
CHECK_DEADLOCK FALSE
