SPECIFICATION FairSpec
CONSTANTS
    a = a
    b = b
    nilBlock = nilBlock
    x1 = x1
    x2 = x2
    t1 = t1
    t2 = t2
    fsm = fsm
    Nil = Nil
    Blocks = {a, b, nilBlock}
    Stamps = {1, 2}
    Exts = {x1, x2}
    NilBlock = nilBlock
    Threads = {t1, t2}
    Requests <- RepeatRequests
    Remote <- None
    MaxWait = 2
    MaxLoads = 2
    MaxRequests = 2
    MaxRemote = 0
    MaxChanges = 1
PROPERTIES
    SignReturns
    SignAdvances
CHECK_DEADLOCK FALSE
