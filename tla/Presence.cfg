CONSTANTS
    Conns = {c1, c2}
    Interval = 2
    Missed = 1
    HashTTL = 4
    MaxFaults = 1
SPECIFICATION Spec
INVARIANTS TypeOK RouteOutlivesConn OnlineIsFound RemovedStaysRemoved
PROPERTIES CleanupSparesRouted
SYMMETRY MCSymmetry
CHECK_DEADLOCK FALSE
