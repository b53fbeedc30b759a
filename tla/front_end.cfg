SPECIFICATION Spec
CONSTANTS
    None = None
    Empty = Empty
    Torn = Torn
    Threads = {t1, t2}
    MaxTime = 2
    Ids = {1, 2, 3, 4, 5}
    MaxSessions = 2
    Ttl = 1
    MaxCalls = 5
    Ips = {ip1, ip2}
    Limit = 2
    Window = 1
    MaxRequests = 5
    Texts = {x1, x2}
    MaxPuts = 4
    MaxCrashes = 1
    Tokens = {k1, k2}
    Life = 1
    MaxConfirms = 3
CONSTRAINT OnePair
ACTION_CONSTRAINT NewInOrder
SYMMETRY Symmetry
INVARIANTS
    TypeOK
    CapHolds
    SessionKept
    WindowKept
    IntentKept
    CommitsOnce
    LogAccounts
CHECK_DEADLOCK FALSE
