SPECIFICATION Spec
CONSTANTS
    NPipes = 2
    NMsgs = 2
    Qos <- MCQos
    Expiring = {2}
    PidMax = 4
    StartPids = {3}
    RxMaxes = {0, 1}
    QCap = 1
    MaxQ = 1
    Batch = TRUE
    NetMax = 1
INVARIANT TypeOK
INVARIANT OneSend
INVARIANT PidMeansMessage
INVARIANT AtLeastOnce
INVARIANT WindowKept
CHECK_DEADLOCK FALSE
