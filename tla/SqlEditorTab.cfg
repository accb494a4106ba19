SPECIFICATION FairSpec
CONSTANTS
    e1 = e1
    e2 = e2
    Editors = {e1, e2}
    b = b
    Tabs = {b}
    TabOf <- OneTab
    t1 = t1
    t2 = t2
    t3 = t3
    Txs = {t1, t2, t3}
    NoTx = NoTx
    Modes = {"auto", "manual"}
INVARIANTS
    Inv
    ClosedIsUndone
    PendingIsTracked
PROPERTIES
    EditorsAskOnce
    AutoIsDecided
CHECK_DEADLOCK FALSE
