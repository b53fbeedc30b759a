SPECIFICATION Spec
CONSTANTS
    None = None
    Torn = Torn
    Missing = Missing
    s1 = s1
    s2 = s2
    k1 = k1
    k2 = k2
    v1 = v1
    v2 = v2
    Switches = {s1, s2}
    Names = {n1}
    Tasks = {t1, t2}
    c1 = c1
    c2 = c2
    Configs = {c1, c2}
    Content <- MCContent
    Table <- MCTable
    Compared <- MCCompared
    Boot <- MCBoot
    Lists <- MCLists
    MaxCalls = 2
    MaxChanges = 1
    MaxCrashes = 1
SYMMETRY Symmetry
INVARIANTS
    DisconnectedReloads
CHECK_DEADLOCK FALSE
