CONSTANTS
    b1 = b1
    b2 = b2
    Blocks <- MCBlocks
    Values = {1, 3}
    Targets = {1, 2, 3}
    NULL = NULL
    Junk = Junk
    Lost = Lost
    Extra <- MCExtra
    MaxCount = 4

SPECIFICATION SearchSpec

INVARIANTS
    TypeOK
    ContentsKept
    BufferLent
    SearchFinds

PROPERTY
    SearchEnds
