----------------------------- MODULE FabricPaths -----------------------------
(***************************************************************************)
(* The tools that follow paths: the walk along LLDP neighbours from a      *)
(* seed, and the search for loops in the output of traceroute.  Pure       *)
(* operators over the nodes of a network.                                  *)
(***************************************************************************)
EXTENDS Naturals

CONSTANTS Nodes, None

\* discover_fabric_from_seed.  neighbours gives the management addresses that each node
\* announces over LLDP; a deaf node does not answer.

\* Mutant: nodes of the inventory are walked through as well.
MutHop(w, neighbours, deaf, known) ==
    LET heard == (UNION {neighbours[n] : n \in w.frontier \ deaf}) \ w.visited
    IN [visited |-> w.visited \cup heard,
        frontier |-> heard,
        proposed |-> w.proposed \cup (heard \ known)]

\* One round of the loop: new nodes are remembered, unknown ones are asked next.
Hop(w, neighbours, deaf, known) ==
    LET heard == (UNION {neighbours[n] : n \in w.frontier \ deaf}) \ w.visited
    IN [visited |-> w.visited \cup heard,
        frontier |-> heard \ known,
        proposed |-> w.proposed \cup (heard \ known)]

Seeded(seed) == [visited |-> {seed}, frontier |-> {seed}, proposed |-> {}]

\* The walk after each of its rounds.
Rounds(seed, neighbours, deaf, known, maxHops) ==
    LET walk[h \in 0..maxHops] ==
            IF h = 0 THEN Seeded(seed) ELSE Hop(walk[h - 1], neighbours, deaf, known)
    IN walk

\* Without a probe every candidate is proposed, with one those that answer it.
Discover(seed, neighbours, deaf, known, maxHops, answering) ==
    LET end == Rounds(seed, neighbours, deaf, known, maxHops)[maxHops]
        found == end.proposed
    IN [proposed |-> found \cap answering,
        already |-> (end.visited \ {seed}) \ found,
        unreachable |-> found \ answering]

----------------------------------------------------------------------------
\* Where a probe is after k hops: node n forwards to route[n], or has no route (None).
Forward(route, target, n) == IF n \in {None, target} THEN None ELSE route[n]

Path(route, source, target, maxHops) ==
    LET at[k \in 0..maxHops] ==
            IF k = 0 THEN source ELSE Forward(route, target, at[k - 1])
    IN at

\* traceroute from source to target.  A router answers with the address that faces the
\* node the probe came from, or not at all when it is silent; for a target that is down,
\* the last router answers once more.
Trace(route, source, target, up, silent, maxHops) ==
    LET at == Path(route, source, target, maxHops)
        router(k) ==
            IF at[k] \in silent THEN {} ELSE {<<at[IF k = 0 THEN 0 ELSE k - 1], at[k]>>}
        length == CHOOSE n \in 0..maxHops :
                      /\ at[n] # None
                      /\ \A k \in (n + 1)..maxHops : at[k] = None
    IN [k \in 1..length |-> IF at[k] # target THEN router(k)
                            ELSE IF up THEN {<<target, target>>} ELSE router(k - 1)]

\* Mutant: a loop is two neighbouring lines with one address.
MutDupHop(lines) ==
    \E i, j \in DOMAIN lines : j = i + 1 /\ lines[i] \cap lines[j] # {}

\* _dup_hop: an address on two lines.
DupHop(lines) ==
    \E i, j \in DOMAIN lines : i < j /\ lines[i] \cap lines[j] # {}

\* traceroute_between: the last line with an address has that of the target.
Reached(lines, target) ==
    \E i \in DOMAIN lines :
        /\ <<target, target>> \in lines[i]
        /\ \A j \in DOMAIN lines : i < j => lines[j] = {}

=============================================================================
