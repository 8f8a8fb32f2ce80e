CONSTANTS
    b1 = b1
    b2 = b2
    v1 = v1
    v2 = v2
    Blocks <- MCBlocks
    Values <- MCValues
    NULL = NULL
    Junk = Junk
    Lost = Lost
    Extra <- MCExtra
    MaxCount = 4

SYMMETRY Symmetry
SPECIFICATION Spec

INVARIANTS
    NoJunk
