SPECIFICATION FairSpec
CONSTANTS
    Calls = {c1, c2, c3}
    MaxRequests = 2
    Interval = 1
    Timeout = 3
    RequestTimeout = 2
    MaxAttempts = 2
    MaxPerWindow = 4
INVARIANTS
    TypeOK
    CountsConserved
PROPERTIES
    NoNewCallWhileOpen
    Isolates
    CallsReturn
    Heals
