SPECIFICATION Spec
CONSTANTS
    u1 = u1
    u2 = u2
    Users = {u1, u2}
    ClosesOnFailure = {u1}
    ClosesOnClose = {u1}
    ks = ks
    kp = kp
    Keys = {ks, kp}
    Proxied = {kp}
    s = s
    Servers = {s}
    Via <- OneServer
    f1 = f1
    f2 = f2
    Fwds = {f1, f2}
    x1 = x1
    x2 = x2
    Clients = {x1, x2}
    NoFwd = NoFwd
    NoClient = NoClient
SYMMETRY Symmetry
INVARIANTS
    Inv
    NothingStranded
PROPERTIES
    SweepSparesRecent
    NewTunnelIsLive
