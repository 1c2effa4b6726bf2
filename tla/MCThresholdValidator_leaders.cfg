SPECIFICATION Spec
CONSTANTS
    a = a
    b = b
    nilBlock = nilBlock
    x1 = x1
    x2 = x2
    t1 = t1
    t2 = t2
    fsm = fsm
    Nil = Nil
    Blocks = {a, b, nilBlock}
    Stamps = {1, 2}
    Exts = {x1, x2}
    NilBlock = nilBlock
    Threads = {t1, t2}
    Requests <- MixedRequests
    Remote <- LeaderVotes
    MaxWait = 1
    MaxLoads = 2
    MaxRequests = 2
    MaxRemote = 1
    MaxChanges = 2
INVARIANTS
    TypeOK
    ResponseVerifies
    InitiatedIsSettled
SYMMETRY ThreadSymmetry
CHECK_DEADLOCK FALSE
