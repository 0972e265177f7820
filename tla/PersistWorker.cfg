SPECIFICATION Spec
CONSTANTS
    k1 = k1
    k2 = k2
    v1 = v1
    v2 = v2
    Keys = {k1, k2}
    Convs = {v1, v2}
    Dismissed = {v2}
    Records <- MCRecords
    MaxInbox = 2
    Consumers = {c1,c2}
    NoConsumer = NoConsumer
    MaxRetries = 1
    QueueCap = 2
    MaxCrashes = 1
    MaxMoves = 1
SYMMETRY Sym
INVARIANTS TypeOK LostOnlyByPolls SeqsGapFree SeqFollowsInboxOrder
PROPERTIES ImplementsIngest
CHECK_DEADLOCK FALSE
