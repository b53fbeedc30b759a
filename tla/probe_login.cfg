SPECIFICATION Spec
CONSTANTS
    None = None
    Switches = {s1}
    Logins = {l1, l2}
    EnvLogin = l1
    Threads = {t1, t2}
    Calls = {c1, q1}
    Probes = {q1}
INVARIANTS
    ProbeUsesItsLogin
