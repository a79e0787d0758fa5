SPECIFICATION FairSpec
CONSTANTS
    a = a
    b = b
    Routes = {a, b}
    Keys = {1, 3, 4, 6}
    Matched <- MCMatched
    Factor <- MCFactor
    Narrowed = {a}
    Limit = 1000
    Stores <- MCStores
    Clients <- MCClients
    MaxWrites = 1
INVARIANTS
    TypeOK
    Ascending
    Honest
    Complete
PROPERTIES
    WorkersEnd
    ListingEnds
