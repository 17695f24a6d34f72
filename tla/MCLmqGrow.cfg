\* A cache doubled when full: capacities 0..3 at first, up to 8 later.
SPECIFICATION GrowSpec
CONSTANTS
    Msg = {m1, m2, m3}
    NoMsg = NoMsg
    AllocSizes = {2, 4, 8}
    InitCaps = {0, 1, 2, 3}
    ResizeCaps = {0, 2, 4, 6}
INVARIANTS TypeOK Buffered PutInRing
PROPERTY FifoSpec
CHECK_DEADLOCK FALSE
