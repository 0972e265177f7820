SPECIFICATION SendSpec
CONSTANTS
    Keys = {k1}
    Gateways = {g1, g2}
    Slots = {s1, s2}
    NoReq = NoReq
    IdemFallback = TRUE
    MaxNonce = 3
    MaxCrashes = 1
SYMMETRY Sym
INVARIANTS AcceptedUnlessSwallowed OneSender
PROPERTIES OwnEntryOnly
CHECK_DEADLOCK FALSE
