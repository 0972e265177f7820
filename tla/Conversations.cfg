SPECIFICATION Spec
CONSTANTS
    Users = {1, 2, 3}
    Listers = {1}
    Requests = {r1, r2, r3}
    Commands <- MCCommands
    Limits = {1}
    MaxGroupMembers = 2
    MaxIds = 3
    MaxTime = 1
    Skew = 1
    MaxFaults = 1
SYMMETRY Sym
INVARIANTS TypeOK CreatedAsAsked ListMissesOnlyMoved ListRepeatsOnlyBackdated
PROPERTIES ImplementsRegistry
CHECK_DEADLOCK FALSE
