SPECIFICATION FairSpec
CONSTANTS
    None = None
    Error = Error
    s1 = s1
    s2 = s2
    f1 = f1
    a1 = a1
    a2 = a2
    ax = ax
    x1 = x1
    x2 = x2
    x3 = x3
    Switches = {s1, s2}
    Ifaces = {f1}
    Addrs = {a1, a2, ax}
    Subnet <- MCSubnet
    Readings <- MCReadings
    MayChange <- MCMayChange
    Calls <- MCCalls
    Scenes <- MCScenes
    Nodes <- MCNodes
    MaxWorkers = 2
    MaxChanges = 1
CONSTRAINTS FewErrors InOrder
INVARIANTS
    TypeOK
    LinksWereReal
    PairsAreTrue
    DriftIsTrue
    WalkIsReachability
    LoopsAreReal
PROPERTIES
    Gathers
    ToolEnds
CHECK_DEADLOCK FALSE
