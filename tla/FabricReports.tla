---------------------------- MODULE FabricReports ----------------------------
(***************************************************************************)
(* What the fabric tools compute from the answers of the switches: the     *)
(* topology and its health, pairs of interfaces with their MTUs, and drift *)
(* from an intent.  Pure operators.                                        *)
(*                                                                         *)
(* A read is the result of one fan_out: entry gives each switch's answer   *)
(* (the state of the switch, Error, or None), order the order in which the *)
(* dictionary by_switch lists them.  A switch's state has its AS number,   *)
(* its interfaces with address and MTU, and its BGP neighbours.            *)
(***************************************************************************)
EXTENDS Naturals, Sequences

CONSTANTS
    Switches,
    Ifaces,
    Addrs,         \* IPv4 addresses of interfaces and neighbours
    Subnet,        \* the subnet of each address
    Error,
    None

Oks(read) == {s \in Switches : read.entry[s] \notin {Error, None}}

Pos(read, s) == CHOOSE i \in DOMAIN read.order : read.order[i] = s

----------------------------------------------------------------------------
\* get_fabric_topology and get_fabric_health

Carriers(read, a) ==
    {x \in Oks(read) \X Ifaces : read.entry[x[1]].ifs[x[2]].addr = a}

\* Mutant: an address belongs to whoever has it in its subnet.
MutOwner(read, a) ==
    LET on == {x \in Oks(read) \X Ifaces :
                    /\ read.entry[x[1]].ifs[x[2]].addr # None
                    /\ Subnet[read.entry[x[1]].ifs[x[2]].addr] = Subnet[a]}
    IN IF on = {} THEN None ELSE CHOOSE c \in on : TRUE

\* _ip_owner_map: of two switches with the same address the later entry stays.
Owner(read, a) ==
    LET on == Carriers(read, a)
    IN IF on = {} THEN None
       ELSE CHOOSE c \in on : \A d \in on : Pos(read, d[1]) <= Pos(read, c[1])

\* _bgp_edges: one for each neighbour that an answering switch has configured.
BgpEdges(bgp, ips) ==
    {[source |-> x[1], peer |-> x[2], target |-> Owner(ips, x[2]),
      established |-> bgp.entry[x[1]].peers[x[2]].state = "up"] :
        x \in {x \in Oks(bgp) \X Addrs : bgp.entry[x[1]].peers[x[2]].state # "none"}}

Edges(bgp, ips) == {e \in BgpEdges(bgp, ips) : e.target # None}

\* A switch is reachable if its system information was read.
Health(system, ips, bgp) ==
    LET edges == Edges(bgp, ips)
    IN [healthy |-> {e \in edges : e.established},
        broken |-> {e \in edges : ~e.established},
        orphan |-> BgpEdges(bgp, ips) \ edges,
        unreachable |-> {s \in Switches : system.entry[s] = Error}]

----------------------------------------------------------------------------
\* get_fabric_mtu_consistency

\* _find_local_if_for_peer: the interface whose subnet holds the neighbour.
LocalIf(state, a) ==
    LET on == {f \in Ifaces : /\ state.ifs[f].addr # None
                              /\ Subnet[state.ifs[f].addr] = Subnet[a]}
    IN IF on = {} THEN None ELSE CHOOSE f \in on : TRUE

MtuOf(read, s, f) ==
    IF f = None \/ s \notin Oks(read) THEN None ELSE read.entry[s].ifs[f].mtu

\* The two ends of an edge.  local gives the state in which its source was looked up
\* again, or Error when that failed.
Ends(e, local) ==
    {<<e.source, IF local[e] = Error THEN None ELSE LocalIf(local[e], e.peer)>>, e.target}

\* The pairs, each once however many edges lead to it, with the MTUs of their ends.
MtuPairs(edges, local, read) ==
    {[ends |-> Ends(e, local), mtus |-> {MtuOf(read, x[1], x[2]) : x \in Ends(e, local)}] :
        e \in edges}

\* Mutant: an MTU that was not read is no mismatch.
MutVerdict(pair) ==
    IF \E m, n \in pair.mtus \ {None} : m # n THEN "mismatched" ELSE "matched"

\* unknown, mismatched or matched
Verdict(pair) ==
    IF None \in pair.mtus THEN "unknown"
    ELSE IF \E m, n \in pair.mtus : m # n THEN "mismatched" ELSE "matched"

----------------------------------------------------------------------------
\* validate_fabric_vs_intent.  What an intent expects of a switch: an AS number or
\* None; its neighbours, each with an AS number or None; addresses and MTUs of
\* interfaces, each possibly None.

\* Mutant: neighbours that nobody expects are not looked for.
MutPeerDrift(want, read, s) ==
    LET seen(a) == s \in Oks(read) /\ read.entry[s].peers[a].state # "none"
    IN {<<"bgp_peer_missing", a>> : a \in {a \in DOMAIN want.peers : ~seen(a)}}

PeerDrift(want, read, s) ==
    LET seen(a) == s \in Oks(read) /\ read.entry[s].peers[a].state # "none"
        expected == DOMAIN want.peers
    IN {<<"bgp_peer_missing", a>> : a \in {a \in expected : ~seen(a)}}
       \cup {<<"bgp_peer_remote_as", a>> :
                a \in {a \in expected : /\ seen(a) /\ want.peers[a] # None
                                        /\ want.peers[a] # read.entry[s].peers[a].asn}}
       \cup {<<"bgp_peer_unexpected", a>> : a \in {a \in Addrs \ expected : seen(a)}}

AsnDrift(want, read, s) ==
    IF /\ want.asn # None
       /\ s \in Oks(read)
       /\ read.entry[s].asn \notin {None, want.asn}
    THEN {<<"asn", want.asn>>} ELSE {}

\* An address that was not read counts as missing, an MTU that was not read does not.
IfaceDrift(want, ips, ifs, s) ==
    {<<"iface_address", f>> :
        f \in {f \in DOMAIN want.ifs : /\ want.ifs[f].addr # None
                                       /\ ~(/\ s \in Oks(ips)
                                            /\ ips.entry[s].ifs[f].addr = want.ifs[f].addr)}}
    \cup {<<"iface_mtu", f>> :
        f \in {f \in DOMAIN want.ifs : /\ want.ifs[f].mtu # None
                                       /\ MtuOf(ifs, s, f) \notin {None, want.ifs[f].mtu}}}

Drift(want, bgp, ips, ifs, s) ==
    AsnDrift(want, bgp, s) \cup PeerDrift(want, bgp, s) \cup IfaceDrift(want, ips, ifs, s)

=============================================================================
