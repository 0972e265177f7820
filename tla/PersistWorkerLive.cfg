SPECIFICATION FairSpec
CONSTANTS
    k1 = k1
    k2 = k2
    v1 = v1
    v2 = v2
    Keys = {k1, k2}
    Convs = {v1, v2}
    Dismissed = {v2}
    Records <- MCLiveRecords
    MaxInbox = 2
    Consumers = {c1,c2}
    NoConsumer = NoConsumer
    MaxRetries = 0
    QueueCap = 2
    MaxCrashes = 1
    MaxMoves = 1
PROPERTIES EveryRecordSettles
CHECK_DEADLOCK FALSE
