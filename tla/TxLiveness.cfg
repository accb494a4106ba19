SPECIFICATION FairSpec
CONSTANTS
    c1 = c1
    c2 = c2
    c3 = c3
    t1 = t1
    t2 = t2
    Callers = {c1, c2}
    Sessions = {t1, t2}
    NoTx = NoTx
    Kind <- ImplicitAndConn
    AbortsOnError = FALSE
    MaxStatements = 1
INVARIANTS OneOwner PendingIsUndecided RepliesAreTrue
PROPERTIES ImplementsPromise EverythingEnds
CHECK_DEADLOCK FALSE
