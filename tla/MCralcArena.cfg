CONSTANTS
    b1 = b1
    b2 = b2
    b3 = b3
    Blocks <- MCBlocks
    Extra <- MCExtra
    ChunkCap = 16
    Alignment = 8
    Header = 24
    Requests <- MCRequests
    MaxMarks = 2

SYMMETRY Symmetry
SPECIFICATION Spec

INVARIANTS
    TypeOK
    ObjectsOK
    ChunksLent
    MarksRestore
    UsageIsLive
