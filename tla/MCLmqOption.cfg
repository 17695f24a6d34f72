\* A socket buffer whose depth the application changes at any time.
SPECIFICATION OptSpec
CONSTANTS
    Msg = {m1, m2, m3}
    NoMsg = NoMsg
    AllocSizes = {2, 4}
    InitCaps = {1, 3}
    ResizeCaps = {1, 2, 3, 4}
SYMMETRY MsgSymmetry
INVARIANT Buffered
CHECK_DEADLOCK FALSE
