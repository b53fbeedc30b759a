------------------------------ MODULE MCFabric ------------------------------
(* Instances of FabricTools for TLC: two switches on one subnet.           *)
EXTENDS FabricTools, TLC

CONSTANTS s1, s2, f1, a1, a2, ax, x1, x2, x3

State(asn, addr, mtu, peers) ==
    [asn |-> asn,
     ifs |-> [f \in Ifaces |-> [addr |-> addr, mtu |-> mtu]],
     peers |-> [a \in Addrs |-> IF a \in DOMAIN peers THEN peers[a] ELSE [state |-> "none", asn |-> None]]]

Peer(a, state, asn) == a :> [state |-> state, asn |-> asn]

S1 == State(1, a1, 9100, Peer(a2, "up", 2))
S1Down == State(1, a1, 9100, Peer(a2, "down", 2))
S2 == State(2, a2, 9100, Peer(a1, "up", 1))
S2Down == State(2, a2, 9100, Peer(a1, "down", 1))
S2Mtu == State(2, a2, 1500, Peer(a1, "up", 1))
S2Other == State(2, a2, 9100, Peer(ax, "down", 3))
S2Same == State(2, a1, 9100, Peer(a1, "up", 1))
S2Bare == State(2, None, 9100, << >>)
S2Vague == State(None, a2, None, Peer(a1, "up", 1))

MCReadings == {S1, S1Down, S2, S2Down, S2Mtu, S2Other, S2Same, S2Bare, S2Vague}
MCMayChange ==
    [all |-> {<<s1, S1Down>>, <<s2, S2Down>>}, health |-> {<<s2, S2Down>>, <<s2, S2Bare>>},
     mtu |-> {<<s2, S2>>, <<s2, S2Bare>>}, validate |-> {<<s2, S2Mtu>>, <<s2, S2Other>>}, discover |-> {}, loop |-> {}]
MCSubnet == (a1 :> 1) @@ (a2 :> 1) @@ (ax :> 2)

Want(asn, peers, addr, mtu) ==
    [asn |-> asn, peers |-> peers, ifs |-> f1 :> [addr |-> addr, mtu |-> mtu]]

Intent(w1, w2) == (s1 :> w1) @@ (s2 :> w2)
WantS1 == Want(1, a2 :> 2, a1, 9100)
WantS2 == Want(2, a1 :> 1, a2, 9100)
WantNoPeers == Want(2, << >>, a2, 9100)
WantLittle == Want(None, << >>, None, 1500)

World(w2) == (s1 :> S1) @@ (s2 :> w2)

Scene(tool, lists, w2) == [tool |-> tool, lists |-> lists, world |-> World(w2)]
Validation(file, lists, intent, w2) ==
    [tool |-> "validate", file |-> file, lists |-> lists, intent |-> intent, world |-> World(w2)]

MCCalls == {<< >>, <<s1>>, <<s1, s2>>, <<s1, s2, s1>>}
Both == {<<s1, s2>>}

\* A seed and two more nodes, in every wiring.
MCNodes == {x1, x2, x3}
Wirings == {w \in [MCNodes -> SUBSET MCNodes] : \A n \in MCNodes : n \notin w[n]}
WalkScenes ==
    [tool : {"discover"}, lists : {{}}, world : {World(S2)},
     seed : {x1}, neighbours : Wirings, deaf : SUBSET MCNodes, known : SUBSET MCNodes,
     answering : {MCNodes, {x2}}, maxHops : {1, 2}]

\* The same nodes with every route, up to the default of six hops.
TraceScenes ==
    [tool : {"loop"}, lists : {{}}, world : {World(S2)},
     route : [MCNodes -> MCNodes \cup {None}], source : {x1}, target : {x2, x3},
     up : BOOLEAN, silent : SUBSET MCNodes, maxHops : {1, 4, 6}]

\* In one scene of health the inventory is edited under way.
MCScenes ==
    {Scene("all", {<<s1, s2, s1>>}, S2)}
    \cup {Scene("health", Both, w) : w \in {S2, S2Other, S2Same}}
    \cup {Scene("health", {<<s1>>, <<s1, s2>>}, S2), Scene("health", {<< >>}, S2)}
    \cup {Scene("mtu", Both, w) : w \in {S2Mtu, S2Vague}}
    \cup {Validation("intent", Both, Intent(WantS1, w), S2) : w \in {WantS2, WantNoPeers, WantLittle}}
    \cup {Validation("intent", Both, Intent(WantS1, WantS2), S2Vague),
          Validation("intent", Both, << >>, S2)}
    \cup {Validation(file, {}, << >>, S2) : file \in {"absent", "broken"}}
    \cup WalkScenes \cup TraceScenes

\* Of a tool with four fan-outs, at most two entries are errors.
Failed == {x \in (DOMAIN reads) \X Switches : reads[x[1]].entry[x[2]] = Error}
FewErrors == scene.tool \in {"health", "mtu"} => Cardinality(Failed) <= 2

\* The entries of a switch come in the order of the targets, but for those of the scene
\* in which two switches have the same address.
InOrder ==
    (scene.tool \in {"health", "mtu", "validate"} /\ scene.world # World(S2Same)) =>
        \A i, j \in DOMAIN order : i < j => order[i] = s1

=============================================================================
