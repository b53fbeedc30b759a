SPECIFICATION Spec
CONSTANTS
    None = None
    s1 = s1
    s2 = s2
    v1 = v1
    e1 = e1
    a1 = a1
    po1 = po1
    p1 = p1
    n1 = n1
    n2 = n2
    b1 = b1
    b2 = b2
    m1 = m1
    m2 = m2
    m3 = m3
    d0 = d0
    d1 = d1
    d2 = d2
    Switches = {s1}
    Vlans = {v1}
    Ifaces = {e1}
    Addrs = {}
    Lags = {}
    Prefixes = {}
    Nexthops = {}
    Peers = {b1}
    Mtus = {m1, m2}
    Descs = {d0, d1}
    EmptyDesc = d0
    MutationIds = {id1, id2}
    Threads = {t1}
    Sessions = {x1}
    BodySwitches = {None}
    AutoMode = FALSE
    TailWindow = 2
    StartConfigs <- BareFull
    ClientOps <- FewOps
INVARIANTS
    FailedLeftNothingToUndo
