SPECIFICATION Spec
CONSTANTS
    b1 = b1  b2 = b2  u1 = u1
    Clients = {c1, c2}
    Requests <- MCRequests
    Keys <- MCKeys
    Routed <- MCRouted
    NoRoute = NoRoute
    Prefix <- MCPrefix
    Decoded <- MCDecoded
    Uploads = {u1}
    Absent = Absent
    Stray <- MCStray
    NoRequest = NoRequest
    MaxAttempts = 2
    MaxLate = 1
SYMMETRY MCClients
INVARIANTS
    TypeOK
PROPERTY KeepsPromise
