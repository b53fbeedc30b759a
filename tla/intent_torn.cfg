SPECIFICATION Spec
CONSTANTS
    None = None
    Empty = Empty
    Torn = Torn
    Threads = {t1, t2}
    MaxTime = 2
    Ids = {i1, i2, i3}
    MaxSessions = 2
    Ttl = 1
    MaxCalls = 4
    Ips = {ip1, ip2}
    Limit = 2
    Window = 1
    MaxRequests = 5
    Texts = {x1, x2}
    MaxPuts = 4
    MaxCrashes = 1
    Tokens = {k1, k2}
    Life = 1
    MaxConfirms = 3
SYMMETRY Symmetry
INVARIANTS
    ReadersSeeWhole
CHECK_DEADLOCK FALSE
