---------------------------- MODULE SwitchConfig ----------------------------
(***************************************************************************)
(* The part of a SONiC switch that the mutation tools of sonic/tools write *)
(* and read back.  A switch is outside the repository: what is here is     *)
(* what the handlers rely on when they run `config ...`, `sonic-db-cli`    *)
(* and `vtysh` over SSH and read the result over SSH or RESTCONF.          *)
(*                                                                         *)
(* A configuration is a function from cells to values.  A cell is a pair   *)
(* <<kind, object>>: the existence of a VLAN, the MTU, admin status or     *)
(* description of an interface, an address on an interface, a member of a  *)
(* PortChannel, a static route <<prefix, nexthop>>, the shutdown flag of a *)
(* BGP neighbour.                                                          *)
(***************************************************************************)
CONSTANTS
    Switches,      \* management addresses
    Vlans,         \* VLAN ids
    Ifaces,        \* EthernetN interfaces
    Addrs,         \* IPv4 addresses with prefix length
    Lags,          \* PortChannels
    Prefixes,      \* destinations of static routes
    Nexthops,      \* their next hops
    Peers,         \* BGP neighbours of a switch; drain needs at least one
    Mtus,          \* MTU values
    Descs,         \* interface descriptions
    EmptyDesc,     \* the description of an interface that has none
    None           \* Python's None: an input or a context key that is absent

ASSUME ConstantsAssumption ==
    /\ EmptyDesc \in Descs
    /\ None \notin Switches \cup Nexthops \cup Mtus \cup Descs
    /\ None \notin {"present", "absent", "up", "down"}
    /\ Peers # {}

Presence == {"present", "absent"}
AdminStatus == {"up", "down"}

Cells == ({"vlan"} \X Vlans)
         \cup ({"mtu", "admin", "descr"} \X Ifaces)
         \cup ({"ip"} \X (Ifaces \X Addrs))
         \cup ({"member"} \X (Lags \X Ifaces))
         \cup ({"route"} \X (Prefixes \X Nexthops))
         \cup ({"bgp"} \X Peers)

\* The values a cell of each kind may hold.
ValuesOf(kind) ==
    CASE kind \in {"vlan", "ip", "member", "route"} -> Presence
      [] kind \in {"admin", "bgp"} -> AdminStatus
      [] kind = "mtu" -> Mtus
      [] kind = "descr" -> Descs
      [] OTHER -> {}

Values == Presence \cup AdminStatus \cup Mtus \cup Descs

Configs == [Cells -> Values]

\* Every cell holds a value of its kind.
WellFormed(d) == \A c \in Cells : d[c] \in ValuesOf(c[1])

\* What a read returns: a value per cell, None for the cells it did not ask for
\* or got no answer for (RESTCONF or vtysh failed and the reader swallowed it).
Readings == [Cells -> Values \cup {None}]

NoReading == [c \in Cells |-> None]

\* The configuration d after a command has written v into the cells S.
Written(d, S, v) == [c \in Cells |-> IF c \in S THEN v ELSE d[c]]

=============================================================================
