CONSTANTS
    o1 = o1
    o2 = o2
    o3 = o3
    o4 = o4
    o5 = o5
    Ids <- MCIds
    Cap = 132
    Alignment = 8
    Header = 16
    Requests <- MCRequests

SYMMETRY Symmetry
SPECIFICATION Spec

INVARIANTS
    TypeOK
    BlocksOK
    ObjectsOK
    PayloadsAligned
    NothingLeaks
    FailsOnlyWhenFull
    UsageIsExact

PROPERTIES
    ContractSpec
