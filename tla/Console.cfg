SPECIFICATION FairSpec
CONSTANTS
    a = a
    b = b
    Callers = {a, b}
    Scripts <- MCScripts
    Nobody = nobody
    RxRing = 3
    BufCap = 1
    InCap = 2
    OutCap = 2
INVARIANTS InputInOrder
 
INVARIANTS OutputAccounted
 
CHECK_DEADLOCK FALSE
