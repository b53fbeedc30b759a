SPECIFICATION FairSpec
CONSTANTS
    None = None
    Switches = {s1, s2}
    Logins = {l1, l2}
    EnvLogin = l1
    Threads = {t1, t2}
    Calls = {c1, q1, q2}
    Probes = {q1, q2}
INVARIANTS
    TypeOK
    Restored
    ProbesLeaveNothing
    NoLeak
PROPERTIES
    EveryRunEnds
