SPECIFICATION Spec
CONSTANTS
    Procs = {n1, n2}
    Requests = {r1, r2, r3}
    RateKeys <- MCRateKeys
    Capacity = 2
    Cost = 2
    Refill = 1
    TTL = 2
    MaxIdle = 1
    MaxItems = 0
    MaxTicks = 2
    MaxBack = 1
    MaxAhead = 1
    Limit = 1
    TicketTTL = 2
    Names <- MCNames
    ValidNames <- MCValidNames
    Normalise <- MCNormalise
    Passwords = {"p1", "p2", "short"}
    ValidPasswords = {"p1", "p2"}
    MaxUserIds = 3
    TokenTTL = 2
    FirstUser <- MCFirstUser
    Traffic <- MCTraffic
    Registrations <- MCRegistrations
    Logins <- MCLogins
    MaxStops = 1
    MaxFaults = 1
SYMMETRY Sym
INVARIANTS RateBound SlotsBalanced TicketOnce OneOwnerPerName
CHECK_DEADLOCK FALSE
