SPECIFICATION Spec
CONSTANTS
    Callers = {g1, g2}
    Buckets <- MCBuckets
    Keys <- MCKeys
    Methods <- MCMethods
    Routes <- MCRoutes
    Matches <- PathMatches
    Rewrite <- RewriteKey
    CacheSize = 2
    Find <- MCFind
    Names <- MCNames
    NoMatch = NoMatch
    Unset = Unset
INVARIANTS TypeOK CacheSound
PROPERTY RoutesFirst
