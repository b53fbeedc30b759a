SPECIFICATION FairSpec
CONSTANTS
    None = None
    s1 = s1
    s2 = s2
    Switches = {s1, s2}
    Vlans = {}
    Ifaces = {}
    Addrs = {}
    Lags = {}
    Prefixes = {}
    Nexthops = {}
    Peers = {b1, b2}
    Mtus = {}
    Descs = {d0}
    EmptyDesc = d0
    MutationIds = {}
    Rotations = {r1, r2}
    Targets <- InOrder
INVARIANTS
    TypeOK
    DrainedIsAttended
PROPERTIES
    RotationsEnd
