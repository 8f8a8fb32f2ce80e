CONSTANTS
    CHAR_BIT = 2
    UINTMAX_BITS = 5
    WordSize = 4
    Keyed <- MCKeyed
    Compressed <- MCCompressed
    Finished <- MCFinished
    Keys = {1}
    Algorithms <- MCAlgorithms
    HashBytes <- MCHashBytes
    MaxHashed = 9
    MaxChecked = 3

SPECIFICATION DigestSpec

INVARIANTS
    CrcOfAnyStream
