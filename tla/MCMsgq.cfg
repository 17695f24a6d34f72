SPECIFICATION Spec
CONSTANTS
    Writer = {w1, w2}
    Reader = {r1, r2}
    InitCaps = {0, 2}
    Caps = {3}
    MaxMsgs = 5
    Fills = {"aio", "try"}
SYMMETRY HandleSymmetry
INVARIANT TypeOK
INVARIANT Conserved
INVARIANT ReadersWaitForMessages
INVARIANT ReadersCancelable
INVARIANT PollsTrue
PROPERTY ChannelSpec
CHECK_DEADLOCK FALSE
