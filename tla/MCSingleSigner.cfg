SPECIFICATION Spec
CONSTANTS
    p1 = p1
    p2 = p2
    t1 = t1
    t2 = t2
    v1 = v1
    v2 = v2
    a = a
    b = b
    Nil = Nil
    Blocks = {a, b}
    Stamps = {1, 2}
    Processes = {p1, p2}
    Threads = {t1, t2}
    PVs = {v1, v2}
    Requests <- MCRequests
    States <- MCStates
    MaxRequests = 3
    MaxEnds = 2
    MaxCommands = 2
    MaxFailures = 1
SYMMETRY Symmetric
INVARIANTS
    TypeOK
    ReplyVerifies
PROPERTIES
    KeepsPromise
CHECK_DEADLOCK FALSE
