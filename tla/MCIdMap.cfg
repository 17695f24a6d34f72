SPECIFICATION Spec
CONSTANTS
    a = a
    b = b
    None = None
    Ids <- MCIds
    Values <- MCValues
    Caps = {8, 16}
    Lo = 1
    Hi = 3
    Random = FALSE
INVARIANT Accounting
INVARIANT Room
PROPERTY Implements
CHECK_DEADLOCK FALSE
