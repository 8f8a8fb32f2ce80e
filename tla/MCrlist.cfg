CONSTANTS
    b1 = b1
    b2 = b2
    b3 = b3
    b4 = b4
    Blocks <- MCBlocks
    NULL = NULL
    Extra <- MCExtra
    Header = 24
    Requests <- MCRequests
    Spoils <- MCSpoilsNot

SYMMETRY Symmetry
SPECIFICATION Spec

INVARIANTS
    TypeOK
    LinksOK
    NodesLent
    PayloadsFit
    UsageIsLive
    WalksAgree
