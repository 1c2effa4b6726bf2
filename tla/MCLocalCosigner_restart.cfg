SPECIFICATION Spec
CONSTANTS
    a = a
    b = b
    nilBlock = nilBlock
    x1 = x1
    x2 = x2
    u1 = u1
    u2 = u2
    t1 = t1
    t2 = t2
    p2 = p2
    p3 = p3
    me = me
    Nil = Nil
    Blocks = {a, b, nilBlock}
    Stamps = {1, 2}
    Threads = {t1, t2}
    Requests <- RestartRequests
    UUIDs = {u1}
    Peers = {p2, p3}
    Me = me
    Threshold = 2
    NilBlock = nilBlock
    Exts = {x1, x2}
    MaxLoads = 2
    MaxNonces = 2
    MaxRequests = 3
    MaxRestarts = 1
INVARIANTS
    TypeOK
    SharesUnderWatermark
CHECK_DEADLOCK FALSE
PROPERTY
    KeepsPromise
SYMMETRY ThreadSymmetry
