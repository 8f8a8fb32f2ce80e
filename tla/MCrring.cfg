CONSTANTS
    x = x
    y = y
    Garbage = Garbage
    Values <- MCValues
    Cap = 4

SPECIFICATION Spec

INVARIANT
    EndsAgree

PROPERTY
    QueueSpec
