CONSTANTS
    k1 = k1
    k2 = k2
    k3 = k3
    k4 = k4
    b1 = b1
    b2 = b2
    b3 = b3
    b4 = b4
    b5 = b5
    b6 = b6
    k5 = k5
    Keys <- MCKeys
    Hash <- MCHash
    Blocks <- MCBlocks
    NULL = NULL

SYMMETRY Symmetry
SPECIFICATION Spec

INVARIANTS
    TypeOK
    LookupsAgree
    ChainsOK
    BlocksLent
    IterationComplete
