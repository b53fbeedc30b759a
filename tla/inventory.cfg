SPECIFICATION Spec
CONSTANTS
    ip1 = ip1
    ip2 = ip2
    r1 = r1
    Ips = {ip1, ip2}
    Rows = {r1}
    Threads = {t1, t2}
    NoThread = NoThread
    MaxStamp = 4
    Hardcoded <- OneSwitch
SYMMETRY Symmetry
INVARIANTS
    TypeOK
    Coherent
PROPERTIES
    ReadsAreFresh
    AloneEditsOne
