SPECIFICATION Spec
CONSTANTS
    c1 = c1
    c2 = c2
    Callers = {c1, c2}
    d1 = d1
    d2 = d2
    Configs = {d1}
    i1 = i1
    i2 = i2
    i3 = i3
    Insts = {i1, i2}
    NoInst = NoInst
    Server <- OneServer
    Methods = {"connect", "query"}
    Settings = {TRUE, FALSE}
    MaxAttempts = 1
    MaxProxyChanges = 0
SYMMETRY Symmetry
INVARIANTS
    Inv
