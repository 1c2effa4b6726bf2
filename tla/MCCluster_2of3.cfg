SPECIFICATION Spec
CONSTANTS
    c1 = c1
    c2 = c2
    c3 = c3
    a1 = a1
    a2 = a2
    Cosigners = {c1, c2, c3}
    Threshold = 2
    Votes <- TwoBlocks
    Attempts = {a1, a2}
    MaxForgets = 1
INVARIANTS
    TypeOK
    NoDoubleSign
PROPERTY
    KeepsPromise
SYMMETRY ClusterSymmetry
