SPECIFICATION Spec
CONSTANTS
    a = a
    b = b
    Routes = {a, b}
    Keys = {1, 3, 4, 6}
    Matched <- MCMatched
    Factor <- MCBothAnchored
    Narrowed = {a}
    Limit = 1000
    Stores <- MCStores
    Clients <- MCPagers
    MaxWrites = 0
INVARIANT NothingMissing
