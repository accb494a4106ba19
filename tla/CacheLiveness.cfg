SPECIFICATION FairSpec
CONSTANTS
    c1 = c1
    c2 = c2
    Callers = {c1, c2}
    d1 = d1
    d2 = d2
    Configs = {d1}
    i1 = i1
    i2 = i2
    i3 = i3
    Insts = {i1}
    NoInst = NoInst
    Server <- OneServer
    Methods = {"query", "release"}
    Settings = {TRUE}
    MaxAttempts = 2
    MaxProxyChanges = 0
PROPERTIES
    EveryCallReturns
    DueGetsPinged
    ShutdownEnds
