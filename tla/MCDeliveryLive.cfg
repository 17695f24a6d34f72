SPECIFICATION FairSpec
CONSTANTS
    NPipes = 2
    NMsgs = 1
    Qos <- MCQosLive
    Expiring = {}
    PidMax = 3
    StartPids = {2}
    RxMaxes = {0}
    QCap = 1
    MaxQ = 0
    Batch = FALSE
    NetMax = 1
PROPERTY Drained
CHECK_DEADLOCK FALSE
