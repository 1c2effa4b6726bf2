SPECIFICATION FairSpec
CONSTANTS
    a = a
    b = b
    nilBlock = nilBlock
    x1 = x1
    x2 = x2
    t1 = t1
    t2 = t2
    fsm = fsm
    Nil = Nil
    Blocks = {a, b, nilBlock}
    Stamps = {1, 2}
    Exts = {x1, x2}
    NilBlock = nilBlock
    Threads = {t1}
    Requests <- RepeatRequests
    Remote <- RepeatRequests
    MaxWait = 1
    MaxLoads = 1
    MaxRequests = 1
    MaxRemote = 1
    MaxChanges = 2
PROPERTY
    CachedVoteIsReused
CHECK_DEADLOCK FALSE
