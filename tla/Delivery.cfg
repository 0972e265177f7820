CONSTANTS
    u1 = u1
    Conns = {c1, c2}
    Users = {u1}
    UserOf <- MCUserOf
    Messages = {m1, m2}
    NoMsg = NoMsg
    QueueSize = 1
    MaxLog = 2
    MaxFaults = 1
SPECIFICATION Spec
INVARIANTS TypeOK NoMissedPush NoDoublePush PushedInOrder
SYMMETRY MCSymmetry
CHECK_DEADLOCK FALSE
