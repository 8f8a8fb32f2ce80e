CONSTANTS
    b1 = b1
    b2 = b2
    ArenaBlocks <- MCArenaBlocks
    Blocks <- MCBlocks
    ArenaExtra = {0}
    Extra = {0}
    Requests = {1, 9}
    ChunkCap = 80
    Alignment = 8
    Header = 24
    SlotLink = 8
    ElemSize = 3
    InitChunkCap = 1
    MaxMarks = 1
    MaxPushed = 5

SYMMETRY Symmetry
SPECIFICATION JoinSpec

INVARIANT
    ChunksAreParentBlocks
