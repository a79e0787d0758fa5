SPECIFICATION LookupsSpec
CONSTANTS
    b1 = b1  b2 = b2  x = x  y = y
    k1 = k1  k2 = k2  k3 = k3  k4 = k4  k5 = k5
    Backends = {b1, b2}
    Names = {x, y}
    Keys = {k1, k2, k3, k4, k5}
    NoRoute = NoRoute
    Routed <- MCRouted
    RequestKey <- MCRequestKey
    MaxKeys = 3
    Chars = {"x", "y", "/"}
    KeyLength = 4
    Labels = {"a", "b", "local"}
    Ports = {"any", "8080"}
    NoPort = "any"
    Bound = {"mapped", "ported", "wide"}
    NoBucket = "unmapped"
    Tables <- MCTables
    HostLabels = 3
    RouteTable <- MCMoves
INVARIANTS
    OnlyNamed
    ReportsAreTrue
    EveryBackendAsked
    NothingHidden
    NothingInvented
    MostSpecific
PROPERTY BatchesAnswered
