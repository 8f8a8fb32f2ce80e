CONSTANTS
    b1 = b1
    b2 = b2
    Blocks <- MCBlocks
    Extra <- MCExtra
    Alignment = 8
    Header = 24
    SlotLink = 8
    ElemSize = 12
    InitChunkCap = 2
    Requests <- MCRequests

SYMMETRY Symmetry
SPECIFICATION Spec

INVARIANTS
    TypeOK
    SlotsPartitioned
    SlotsFit
    ChunksLent
    UsageIsLive
