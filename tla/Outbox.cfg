SPECIFICATION Spec
CONSTANTS
    Pubs = {p1, p2}
    NoPub = NoPub
    Convs = {v1}
    Partitions = {q1, q2}
    MaxRetries = 2
    MaxSeq = 2
    Loads <- MCLoads
    MaxPush = 4
    MaxFaults = 1
    Lease = "nothing"
SYMMETRY Sym
INVARIANTS HeadOfLine FinalStatusIsTrue PushInOrderInLease
PROPERTIES TerminalStable ImplementsPublication
CHECK_DEADLOCK FALSE
