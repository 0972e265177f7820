SPECIFICATION FairSpec
CONSTANTS
    Pubs = {p1, p2}
    NoPub = NoPub
    Convs = {v1}
    Partitions = {q1}
    MaxRetries = 2
    MaxSeq = 2
    Loads <- MCLoads
    MaxPush = 2
    MaxFaults = 1
    Lease = "publish"
PROPERTIES EveryRowTerminates
CHECK_DEADLOCK FALSE
