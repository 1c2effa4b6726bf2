SPECIFICATION FairSpec
CONSTANTS
    me = me
    p1 = p1
    p2 = p2
    Idle = Idle
    Peers = {p1, p2}
    Threshold = 2
    Interval = 1
    Timeout = 1
    Expiration = 2
    CosignerExpiration = 4
    MaxTarget = 3
    MaxAsked = 1
    MaxLast = 2
INVARIANTS
    TypeOK
    CachedNoncesAreLive
    HandedOutOnce
    CachedNoncesAreUsable
    UseIsExplained
PROPERTIES
    CacheRefills
