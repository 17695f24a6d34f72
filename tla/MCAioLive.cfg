SPECIFICATION FairSpec
CONSTANTS
    Aio = {a1}
    App = {p1}
    Worker = {w1, w2}
    Io = {i1}
    Expire = Expire
    None = None
    Timeouts = {1}
    Infinite = Infinite
    SleepTimes = {1}
    NEVER = 9
    MaxTime = 2
    MaxOps = 2
    NNI_EXPIRE_BATCH = 1
    StopFirst = TRUE
    EarlyExit = FALSE
PROPERTIES DeadlineMet StopReturns ExitDone
CHECK_DEADLOCK FALSE
