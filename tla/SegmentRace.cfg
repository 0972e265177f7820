SPECIFICATION Spec
CONSTANTS
    Gens = {g1}
    Callers = {c1, c2}
    NoCaller = NoCaller
    Step = 2
    RatioNum = 7
    RatioDen = 10
    MaxId = 8
SYMMETRY Sym
INVARIANTS IdsUnique
CHECK_DEADLOCK FALSE
