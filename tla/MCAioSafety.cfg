SPECIFICATION Spec
CONSTANTS
    Aio = {a1}
    App = {p1, p2}
    Worker = {w1, w2}
    Io = {i1}
    Expire = Expire
    None = None
    Timeouts = {0, 1}
    Infinite = Infinite
    SleepTimes = {1}
    NEVER = 9
    MaxTime = 2
    MaxOps = 2
    NNI_EXPIRE_BATCH = 1
    StopFirst = TRUE
    EarlyExit = FALSE
SYMMETRY ThreadSymmetry
INVARIANTS TypeOK BusyCount OnePlace StopQuiet FreedUnused NoOversleep NoStaleDeadline
CHECK_DEADLOCK FALSE
