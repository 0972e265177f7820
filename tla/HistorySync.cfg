SPECIFICATION Spec
CONSTANTS
    Devices = {d1}
    NoDevice = NoDevice
    Columns = {read}
    Requests = {r1, r2}
    Limits = {1, 2}
    MaxSeq = 3
    MaxFaults = 1
SYMMETRY MCSymmetry
INVARIANTS TypeOK NoGapBelowCursor NoMoreMeansAll SyncedWasSent
PROPERTIES CursorsOnlyAdvance
CHECK_DEADLOCK FALSE
