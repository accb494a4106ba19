SPECIFICATION Spec
CONSTANTS
    c1 = c1
    c2 = c2
    c3 = c3
    t1 = t1
    t2 = t2
    Callers = {c1, c2, c3}
    Sessions = {t1, t2}
    NoTx = NoTx
    Kind <- AllText
    AbortsOnError = TRUE
    MaxStatements = 2
SYMMETRY SymmetryOfAll
INVARIANTS Inv PoolIsClean
PROPERTIES DrainedAreUndone
CHECK_DEADLOCK FALSE
