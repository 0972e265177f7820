SPECIFICATION Spec
CONSTANTS
    Gens = {g1, g2}
    Callers = {c1, c2}
    NoCaller = NoCaller
    Step = 2
    RatioNum = 7
    RatioDen = 10
    MaxId = 6
SYMMETRY Sym
INVARIANTS SegmentsDisjoint IdsUniqueUnlessReloaded
CHECK_DEADLOCK FALSE
