SPECIFICATION FairSpec
CONSTANTS
    Requests = {r1}
    Checks = {k1, k2}
    Grace = 2
    CheckTime = 1
CHECK_DEADLOCK FALSE
INVARIANTS
    TypeOK
    
PROPERTIES
    NobodyCutEarly
    Ends
