SPECIFICATION FairSpec
CONSTANTS
    Conns = {1, 2}
    MaxCalls = 2
    Configs <- MCConfigs
INVARIANTS ReadyMeansMounted
INVARIANTS RunsAsAsked
 
PROPERTIES StopsWithProcess
 
CHECK_DEADLOCK FALSE
