SPECIFICATION FairSpec
CONSTANTS
    r1 = r1
    r2 = r2
    Req = {r1, r2}
    Kinds <- MCKinds
    PidMaxes = {1, 2}
    RetryQos0 = FALSE
    SendLmq = 1
    MaxConns = 2
    WireMax = 1
INVARIANT TypeOK
INVARIANT OneCompletion
INVARIANT AckedReached
INVARIANT OneSend
 
CHECK_DEADLOCK FALSE
