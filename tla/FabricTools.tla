----------------------------- MODULE FabricTools -----------------------------
(***************************************************************************)
(* The fabric analysis tools as the program runs them: several fan-outs in *)
(* a row, each over all the switches, and a report computed from what they *)
(* returned.  The switches may change in between, so that one report is    *)
(* put together from readings of different moments.  The tools that walk   *)
(* the network one node at a time are steps over FabricPaths.              *)
(***************************************************************************)
EXTENDS FanOut

CONSTANTS
    Ifaces,
    Addrs,
    Subnet,        \* the subnet of each address
    MayChange,     \* per tool, the changes <<switch, state>> while it runs
    Scenes,        \* what is called, on which network
    Nodes          \* the nodes of the networks that are walked

ASSUME FabricAssumption ==
    /\ \A sc \in Scenes : MayChange[sc.tool] \subseteq Switches \X Readings
    /\ \A sc \in Scenes : sc.lists \subseteq Calls
    /\ \A sc \in Scenes : sc.tool = "validate" =>
           /\ sc.file # "intent" => DOMAIN sc.intent = {}
           /\ \A s \in DOMAIN sc.intent : /\ DOMAIN sc.intent[s].peers \subseteq Addrs
                                          /\ DOMAIN sc.intent[s].ifs \subseteq Ifaces
    /\ \A sc \in Scenes : sc.tool = "discover" =>
           /\ sc.seed \in Nodes /\ sc.neighbours \in [Nodes -> SUBSET Nodes]
           /\ sc.maxHops \in Nat
    /\ \A sc \in Scenes : sc.tool = "loop" =>
           /\ sc.source \in Nodes /\ sc.route \in [Nodes -> Nodes \cup {None}]
           /\ sc.maxHops \in Nat
    /\ IsFiniteSet(Nodes)
    /\ \A r \in Readings : \A a \in Addrs : r.peers[a].state \in {"none", "up", "down"}
    /\ None \notin Nodes \cup Ifaces \cup Addrs \cup (Switches \X Ifaces)

R == INSTANCE FabricReports
P == INSTANCE FabricPaths

VARIABLES
    scene,
    reads,         \* what the fan-outs have returned, in order
    local,         \* per BGP edge, the state in which its source was looked up again
    report,        \* None until the tool is over
    had            \* history: the states each switch had since the tool was called

toolVars == <<scene, reads, local, report, had>>
vars == <<fanVars, toolVars>>

\* The fan-outs of each tool: system information, addresses, BGP and, by default, LLDP
\* for the topology, of which the check of MTUs leaves out the last and adds one of the
\* interfaces; BGP, addresses and interfaces against an intent.  A tool for all switches
\* hands on the one fan-out it makes.
Reads == [all |-> 1, health |-> 4, mtu |-> 4, validate |-> 3]

\* Without an intent nothing is asked.
Asking ==
    /\ scene.tool \in DOMAIN Reads
    /\ scene.tool = "validate" => scene.file = "intent"

\* The switches that the tool names: those with an entry in its first fan-out.
Named == {s \in Switches : reads[1].entry[s] # None}

Results == [entry : [Switches -> Readings \cup {Error, None}], order : Seq(Switches)]

TypeOK ==
    /\ FanTypeOK
    /\ scene \in Scenes
    /\ Asking => Len(reads) <= Reads[scene.tool]
    /\ reads \in Seq(Results)
    /\ \A i \in DOMAIN reads :
           {s \in Switches : reads[i].entry[s] # None} = {reads[i].order[j] : j \in DOMAIN reads[i].order}
    /\ had \in [Switches -> SUBSET Readings]

Init ==
    /\ scene \in Scenes
    /\ world = scene.world
    /\ FanInit
    /\ reads = << >>
    /\ local = << >>
    /\ report = None
    /\ had = [s \in Switches |-> {world[s]}]

\* The next fan-out.  Each looks up the inventory anew when the caller names no switch,
\* so that after an edit it has other targets than the one before.  Without a target it
\* is over at once.
NextRead ==
    /\ Asking /\ report = None
    /\ main \in {"idle", "returned"}
    /\ Len(reads) < Reads[scene.tool]
    /\ \E list \in scene.lists :
           /\ Call(list)
           /\ reads' = IF list = << >>
                       THEN Append(reads, [entry |-> NoResults, order |-> << >>]) ELSE reads
    /\ UNCHANGED <<scene, local, report, had>>

Returned ==
    /\ Return
    /\ reads' = Append(reads, [entry |-> results, order |-> order])
    /\ UNCHANGED <<scene, local, report, had>>

Working(i) == Work(i) /\ UNCHANGED toolVars
Late == (TimeOut \/ Raise) /\ UNCHANGED toolVars

\* A fan-out that raises ends the tool.
Raised ==
    /\ main = "raised" /\ report = None
    /\ report' = [tool |-> "raised"]
    /\ UNCHANGED <<fanVars, scene, reads, local, had>>

Complete(tool) ==
    /\ Asking /\ scene.tool = tool /\ report = None
    /\ Len(reads) = Reads[tool]

AllReport ==
    /\ Complete("all")
    /\ report' = [tool |-> "all", bySwitch |-> reads[1].entry]
    /\ UNCHANGED <<fanVars, scene, reads, local, had>>

HealthReport ==
    /\ Complete("health")
    /\ report' = [tool |-> "health",
                  health |-> R!Health(reads[1], reads[2], reads[3])]
    /\ UNCHANGED <<fanVars, scene, reads, local, had>>

\* _find_local_if_for_peer reads the source of an edge once more.
Lookup ==
    /\ Complete("mtu")
    /\ \E e \in R!Edges(reads[3], reads[2]) \ DOMAIN local :
           \E a \in {world[e.source], Error} :
               local' = [d \in DOMAIN local \cup {e} |-> IF d = e THEN a ELSE local[d]]
    /\ UNCHANGED <<fanVars, scene, reads, report, had>>

MtuReport ==
    /\ Complete("mtu")
    /\ LET edges == R!Edges(reads[3], reads[2])
       IN /\ DOMAIN local = edges
          /\ report' = [tool |-> "mtu", pairs |-> R!MtuPairs(edges, local, reads[4])]
    /\ UNCHANGED <<fanVars, scene, reads, local, had>>

\* _load_intent: without a file there is nothing to compare with; a broken one raises.
NoIntent ==
    /\ scene.tool = "validate" /\ report = None
    /\ \/ /\ scene.file = "absent"
          /\ report' = [tool |-> "validate", loaded |-> FALSE, drift |-> << >>]
       \/ /\ scene.file = "broken"
          /\ report' = [tool |-> "raised"]
    /\ UNCHANGED <<fanVars, scene, reads, local, had>>

ValidateReport ==
    /\ Complete("validate")
    /\ report' = [tool |-> "validate", loaded |-> TRUE,
                  drift |-> [s \in DOMAIN scene.intent |->
                                R!Drift(scene.intent[s], reads[1], reads[2], reads[3], s)]]
    /\ UNCHANGED <<fanVars, scene, reads, local, had>>

\* discover_fabric_from_seed: each node is asked once.  Without a probe every candidate
\* counts as answering.
DiscoverReport ==
    /\ scene.tool = "discover" /\ report = None
    /\ report' = [tool |-> "discover",
                  found |-> P!Discover(scene.seed, scene.neighbours, scene.deaf, scene.known,
                                       scene.maxHops, scene.answering)]
    /\ UNCHANGED <<fanVars, scene, reads, local, had>>

\* detect_routing_loop on one pair of nodes; the pairs do not depend on each other.  A
\* pair whose traceroute raises is listed as an error and under nothing else.
LoopReport ==
    /\ scene.tool = "loop" /\ report = None
    /\ \/ LET lines == P!Trace(scene.route, scene.source, scene.target, scene.up, scene.silent,
                               scene.maxHops)
          IN report' = [tool |-> "loop", status |-> "ok", looping |-> P!DupHop(lines),
                        reached |-> P!Reached(lines, scene.target)]
       \/ report' = [tool |-> "loop", status |-> "error", looping |-> FALSE, reached |-> FALSE]
    /\ UNCHANGED <<fanVars, scene, reads, local, had>>

\* Somebody changes a switch while a tool is under way.
ChangeSwitch ==
    /\ Asking /\ report = None
    /\ \E c \in MayChange[scene.tool] :
           /\ Change(c[1], c[2])
           /\ had' = [had EXCEPT ![c[1]] = @ \cup {c[2]}]
    /\ UNCHANGED <<scene, reads, local, report>>

ToolStep ==
    \/ NextRead
    \/ \E i \in DOMAIN targets : Working(i)
    \/ Returned
    \/ Late
    \/ Raised
    \/ AllReport
    \/ HealthReport
    \/ Lookup
    \/ MtuReport
    \/ NoIntent
    \/ ValidateReport
    \/ DiscoverReport
    \/ LoopReport

Next == ToolStep \/ ChangeSwitch

Spec == Init /\ [][Next]_vars

\* The threads of the pool and the caller run.
FairSpec == Spec /\ WF_vars(ToolStep)

----------------------------------------------------------------------------
\* Each fan-out is what its callers take it for: however the workers are scheduled, and
\* also when a switch is named twice, it returns an entry for every switch, which is an
\* error or a reading of that very switch from the time of the call, or it raises.
Asked == {targets[i] : i \in DOMAIN targets}
Phase == IF main \in {"waiting", "closing"} THEN "asking" ELSE main

G == INSTANCE Gather WITH asked <- Asked, answer <- results, phase <- Phase

Gathers == G!Spec

\* A tool that is called comes back, with a report or with an error: a timeout of
\* as_completed does not leave the caller waiting for a worker.
ToolEnds == <>(report # None)

Reported(tool) == report # None /\ report.tool = tool
Still == \A s \in Switches : had[s] = {world[s]}
AllAnswered == \A i \in DOMAIN reads : R!Oks(reads[i]) = Named

HasAddress(s, f, a) == world[s].ifs[f].addr = a
Sessions == {x \in Named \X Addrs : world[x[1]].peers[x[2]].state # "none"}
Owned(a) == \E s \in Named, f \in Ifaces : HasAddress(s, f, a)

\* Session x is among those shown.
Shown(class, x) == \E e \in class : e.source = x[1] /\ e.peer = x[2]

\* get_fabric_health puts three fan-outs together.  Each link it shows had its session in
\* the state shown, and the address at the far end, at some moment of the call; and if
\* nothing changed and everybody answered, every session is in exactly one of the three
\* classes, and among the orphans exactly if no switch that was asked has the address.
LinksWereReal ==
    Reported("health") =>
        LET h == report.health
        IN /\ \A e \in h.healthy \cup h.broken :
                  /\ \E r \in had[e.source] :
                         r.peers[e.peer].state = IF e \in h.healthy THEN "up" ELSE "down"
                  /\ \E r \in had[e.target[1]] : r.ifs[e.target[2]].addr = e.peer
           /\ Still /\ AllAnswered =>
                  \A x \in Sessions :
                      /\ Shown(h.orphan, x) <=> ~(Shown(h.healthy, x) \/ Shown(h.broken, x))
                      /\ Shown(h.healthy, x) => ~Shown(h.broken, x)
                      /\ Shown(h.orphan, x) <=> ~Owned(x[2])

\* The interfaces of a switch on the subnet of an address.
Facing(s, a) ==
    {f \in Ifaces : world[s].ifs[f].addr # None /\ Subnet[world[s].ifs[f].addr] = Subnet[a]}

\* Every interface says what its MTU is.
AllSized == \A s \in Named, f \in Ifaces : world[s].ifs[f].mtu # None

\* Two interfaces with addresses of one subnet.
OneSubnet(i, j) == i.addr # None /\ j.addr # None /\ Subnet[i.addr] = Subnet[j.addr]

\* get_fabric_mtu_consistency reads the addresses, the near end of a link and the MTUs in
\* turn.  Both ends of a pair with a verdict are known interfaces that were on one subnet
\* during the call, and the verdict is that of MTUs which the two ends had during the call:
\* if at most one switch changed, it was true at some moment.  And if nothing changed and
\* every read and every lookup succeeded, each session with a switch that was asked has its
\* pair, with a verdict when the near end has an interface on the subnet and the MTUs are known.
PairsAreTrue ==
    Reported("mtu") =>
        /\ \A p \in {p \in report.pairs : R!Verdict(p) # "unknown"} :
               \A x, y \in p.ends :
                   /\ x[2] \in Ifaces /\ y[2] \in Ifaces
                   /\ \E r \in had[x[1]], q \in had[y[1]] : OneSubnet(r.ifs[x[2]], q.ifs[y[2]])
                   /\ x # y => \E r \in had[x[1]], q \in had[y[1]] :
                          (r.ifs[x[2]].mtu = q.ifs[y[2]].mtu) <=> (R!Verdict(p) = "matched")
        /\ Still /\ AllAnswered /\ (\A e \in DOMAIN local : local[e] # Error) =>
               \A x \in Sessions : Owned(x[2]) =>
                   \E p \in report.pairs :
                       /\ x[1] \in {y[1] : y \in p.ends}
                       /\ \E y \in p.ends : HasAddress(y[1], y[2], x[2])
                       /\ AllSized /\ Facing(x[1], x[2]) # {} => R!Verdict(p) # "unknown"

\* A switch that does not say what a value is does not contradict the intent.
Agrees(want, is) == want = None \/ is = None \/ want = is

\* What an intent asks of BGP, of addresses and of MTUs.
BgpMeets(want, state) ==
    /\ Agrees(want.asn, state.asn)
    /\ {a \in Addrs : state.peers[a].state # "none"} = DOMAIN want.peers
    /\ \A a \in DOMAIN want.peers : want.peers[a] \in {None, state.peers[a].asn}
AddrsMeet(want, state) == \A f \in DOMAIN want.ifs : want.ifs[f].addr \in {None, state.ifs[f].addr}
MtusMeet(want, state) == \A f \in DOMAIN want.ifs : Agrees(want.ifs[f].mtu, state.ifs[f].mtu)

\* The drift of the given kinds that is reported of a switch.
Drifts(s, kinds) == {d \in report.drift[s] : d[1] \in kinds}
BgpKinds == {"asn", "bgp_peer_missing", "bgp_peer_remote_as", "bgp_peer_unexpected"}

\* validate_fabric_vs_intent makes three fan-outs, and a switch may answer some of them only
\* and change in between.  Each part of the verdict stands on the read that it belongs to: if
\* the switch answered that one, there is drift in that part exactly if the switch, as it was
\* at some moment of the call, is not as the intent says; if it did not, neighbours and
\* addresses that the intent names are missing and an MTU is not.
DriftIsTrue ==
    Reported("validate") =>
        \A s \in DOMAIN scene.intent :
            LET want == scene.intent[s]
                bgp == Drifts(s, BgpKinds)
                addrs == Drifts(s, {"iface_address"})
                mtus == Drifts(s, {"iface_mtu"})
            IN /\ IF s \in R!Oks(reads[1])
                  THEN \E r \in had[s] : bgp = {} <=> BgpMeets(want, r)
                  ELSE bgp = {} <=> DOMAIN want.peers = {}
               /\ IF s \in R!Oks(reads[2])
                  THEN \E r \in had[s] : addrs = {} <=> AddrsMeet(want, r)
                  ELSE addrs = {} <=> \A f \in DOMAIN want.ifs : want.ifs[f].addr = None
               /\ IF s \in R!Oks(reads[3])
                  THEN \E r \in had[s] : mtus = {} <=> MtusMeet(want, r)
                  ELSE mtus = {}

Walks(n, length) ==
    \E p \in [0..length -> Nodes] :
        /\ p[0] = scene.seed /\ p[length] = n
        /\ \A k \in 1..length : p[k] \in scene.neighbours[p[k - 1]] /\ p[k - 1] \notin scene.deaf
        /\ \A k \in 1..(length - 1) : p[k] \notin scene.known

\* discover_fabric_from_seed proposes, or rejects as unreachable, exactly the unknown
\* nodes that some path of at most max_hops answering, unknown nodes leads to: no
\* node is lost because another path reached it, or one of its neighbours, first.
WalkIsReachability ==
    Reported("discover") =>
        LET reached == {n \in Nodes \ {scene.seed} : \E k \in 1..scene.maxHops : Walks(n, k)}
        IN /\ report.found.proposed = (reached \ scene.known) \cap scene.answering
           /\ report.found.unreachable = (reached \ scene.known) \ scene.answering
           /\ report.found.already = reached \cap scene.known

\* What is sent from the source never leaves some nodes, of which the target is none.
Endless == \E c \in SUBSET (Nodes \ {scene.target}) :
               scene.source \in c /\ \A n \in c : scene.route[n] \in c

\* detect_routing_loop: an address on two lines means that the route never arrives, or
\* that the target is down; a route that never arrives is found if the traceroute ran, all
\* its routers answer and it has more hops than there are nodes; and what is reported as
\* reached arrives.
LoopsAreReal ==
    Reported("loop") =>
        /\ report.looping => Endless \/ ~scene.up
        /\ report.status = "ok" /\ Endless /\ scene.silent = {} /\ scene.maxHops > Cardinality(Nodes) =>
               report.looping
        /\ report.reached => ~Endless /\ ~report.looping

=============================================================================
