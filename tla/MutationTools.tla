---------------------------- MODULE MutationTools ---------------------------
(***************************************************************************)
(* The mutation tools of sonic/tools/{interfaces,l2,routing,fabric,system} *)
(* that act on one switch, as data: for each tool its policy in the        *)
(* catalog, the cells its command writes and the value it writes, what the *)
(* reads before and after the command may return, the check of the second  *)
(* read, and the inverse that rollback_mutation plans for a ledger entry.  *)
(* InvokePipeline gives the order in which a handler uses them.            *)
(*                                                                         *)
(* A handler's inputs are an op [tool, switch_ip, object, value]: the      *)
(* object is the VLAN, interface, <<interface, address>>, <<PortChannel,   *)
(* interface>>, <<prefix, nexthop>> or neighbour, or the mutation_id of a  *)
(* rollback; the value is the requested setting or action.                 *)
(***************************************************************************)
EXTENDS SwitchConfig

CONSTANT MutationIds   \* ids of ledger entries: a uuid per call in the code

Actions == {"add", "remove"}

----------------------------------------------------------------------------
(* The handlers, one record each:                                          *)
(*   kind     of the cells the tool is about, "none" if it writes no cell  *)
(*   writes   for each setting its validation accepts ("-" when it takes   *)
(*            none), the value that its command writes                     *)
(*   strict   it raises as soon as the command exits non-zero; the others  *)
(*            trust the second read                                        *)
(*   raising  the reads whose SSH error reaches the handler                *)
(*   shown    the settings whose second read must show the goal, so that   *)
(*            no answer is a failure                                       *)
(*   refuted  the settings whose second read must not show anything else   *)

set_interface_admin_status ==
    [kind |-> "admin", writes |-> [v \in AdminStatus |-> v], strict |-> TRUE,
     raising |-> {}, shown |-> {}, refuted |-> {}]

set_interface_mtu ==
    [kind |-> "mtu", writes |-> [v \in Mtus |-> v], strict |-> TRUE,
     raising |-> {}, shown |-> {}, refuted |-> {}]

set_interface_description ==
    [kind |-> "descr", writes |-> [v \in Descs |-> v], strict |-> TRUE,
     raising |-> {}, shown |-> {}, refuted |-> {}]

\* What add and remove leave behind.
Outcome == [a \in Actions |-> IF a = "add" THEN "present" ELSE "absent"]

set_ip_interface ==
    [kind |-> "ip", writes |-> Outcome, strict |-> FALSE,
     raising |-> {}, shown |-> {"add"}, refuted |-> {"remove"}]

set_portchannel_member ==
    [kind |-> "member", writes |-> Outcome, strict |-> FALSE,
     raising |-> {"first", "second"}, shown |-> {"add"}, refuted |-> {"remove"}]

add_vlan ==
    [kind |-> "vlan", writes |-> [v \in {"-"} |-> "present"], strict |-> FALSE,
     raising |-> {"first", "second"}, shown |-> {"-"}, refuted |-> {}]

remove_vlan ==
    [kind |-> "vlan", writes |-> [v \in {"-"} |-> "absent"], strict |-> FALSE,
     raising |-> {"first", "second"}, shown |-> {}, refuted |-> {"-"}]

add_static_route ==
    [kind |-> "route", writes |-> [v \in {"-"} |-> "present"], strict |-> FALSE,
     raising |-> {}, shown |-> {"-"}, refuted |-> {}]

remove_static_route ==
    [kind |-> "route", writes |-> [v \in {"-"} |-> "absent"], strict |-> FALSE,
     raising |-> {}, shown |-> {}, refuted |-> {"-"}]

\* The BGP tools give up when they cannot read the local ASN first.
set_bgp_neighbor_admin ==
    [kind |-> "bgp", writes |-> [v \in AdminStatus |-> v], strict |-> FALSE,
     raising |-> {"first"}, shown |-> {}, refuted |-> AdminStatus]

drain_switch ==
    [kind |-> "bgp", writes |-> [v \in {"-"} |-> "down"], strict |-> FALSE,
     raising |-> {"first"}, shown |-> {"-"}, refuted |-> {}]

undrain_switch ==
    [kind |-> "bgp", writes |-> [v \in {"-"} |-> "up"], strict |-> FALSE,
     raising |-> {"first"}, shown |-> {}, refuted |-> {"-"}]

\* Counters and the startup file are not cells.  config_save records the exit
\* status and goes on.
clear_interface_counters ==
    [kind |-> "none", writes |-> [v \in {"-"} |-> v], strict |-> TRUE,
     raising |-> {}, shown |-> {}, refuted |-> {}]

config_save ==
    [kind |-> "none", writes |-> [v \in {"-"} |-> v], strict |-> FALSE,
     raising |-> {}, shown |-> {}, refuted |-> {}]

\* Stands for the tools of risk SAFE_READ.
run_show_command ==
    [kind |-> "none", writes |-> [v \in {"-"} |-> v], strict |-> FALSE,
     raising |-> {}, shown |-> {}, refuted |-> {}]

Handlers == [
    set_interface_admin_status |-> set_interface_admin_status,
    set_interface_mtu          |-> set_interface_mtu,
    set_interface_description  |-> set_interface_description,
    set_ip_interface           |-> set_ip_interface,
    set_portchannel_member     |-> set_portchannel_member,
    add_vlan                   |-> add_vlan,
    remove_vlan                |-> remove_vlan,
    add_static_route           |-> add_static_route,
    remove_static_route        |-> remove_static_route,
    set_bgp_neighbor_admin     |-> set_bgp_neighbor_admin,
    drain_switch               |-> drain_switch,
    undrain_switch             |-> undrain_switch,
    clear_interface_counters   |-> clear_interface_counters,
    config_save                |-> config_save,
    run_show_command           |-> run_show_command]

HandlerTools == DOMAIN Handlers
Tools == HandlerTools \cup {"rollback_mutation"}

DrainTools == {"drain_switch", "undrain_switch"}

----------------------------------------------------------------------------
(* The catalog's policy block of each tool, and the three layers of        *)
(* enforce_policy.                                                         *)

Risk(tool) == IF tool = "run_show_command" THEN "SAFE_READ" ELSE "MUTATION"

IsMutation(tool) == Risk(tool) \in {"MUTATION", "DESTRUCTIVE"}

AutoTools == {"set_interface_description", "clear_interface_counters",
              "config_save", "run_show_command"}

AllowedInAutoMode(tool) == tool \in AutoTools

RequiresConfirmation(tool) == tool \notin AutoTools

\* Mutant: a kill switch that only stops the tools that ask for confirmation.
MutAdmits(tool, enabled, auto, confirm) ==
    /\ RequiresConfirmation(tool) => enabled
    /\ auto => AllowedInAutoMode(tool)
    /\ RequiresConfirmation(tool) => confirm

\* enforce_policy returns; otherwise it raises PolicyViolation.
Admits(tool, enabled, auto, confirm) ==
    /\ IsMutation(tool) => enabled
    /\ auto => AllowedInAutoMode(tool)
    /\ RequiresConfirmation(tool) => confirm

----------------------------------------------------------------------------
(* Inputs.                                                                 *)

Objects == Vlans \cup Ifaces \cup (Ifaces \X Addrs) \cup (Lags \X Ifaces)
           \cup (Prefixes \X (Nexthops \cup {None})) \cup Peers \cup MutationIds \cup {None}

\* "malformed" stands for every input a tool's validation refuses, "-" for
\* the tools that take no setting.
InputValues == Values \cup Actions \cup {"-", "malformed"}

Ops == [tool : Tools, switch_ip : Switches \cup {None},
        object : Objects, value : InputValues]

\* The handler's validation of its inputs lets them pass: a setting it knows, and
\* a next hop, which only the withdrawal of a route may leave out.
Valid(op) ==
    /\ op.value \in DOMAIN Handlers[op.tool].writes
    /\ op.tool = "add_static_route" => op.object[2] # None

\* Mutant: the context first.
MutRequireSwitchIp(op, ctx) == IF ctx # None THEN ctx ELSE op.switch_ip

\* require_switch_ip: the inputs first, then the merged context; None when the
\* handler raises for want of a switch.
RequireSwitchIp(op, ctx) == IF op.switch_ip # None THEN op.switch_ip ELSE ctx

----------------------------------------------------------------------------
(* What a handler's command writes.                                        *)

\* The cells the command names: one object, every neighbour of the switch for
\* a drain, every next hop when a route is withdrawn by its prefix alone.
Touched(op) ==
    {c \in Cells :
        /\ c[1] = Handlers[op.tool].kind
        /\ \/ op.tool \in DrainTools
           \/ c[2] = op.object
           \/ /\ op.tool = "remove_static_route"
              /\ op.object[2] = None
              /\ c[2][1] = op.object[1]}

\* The value the command writes into them.
Goal(op) == Handlers[op.tool].writes[op.value]

----------------------------------------------------------------------------
(* The reads before and after the command.                                 *)

\* show ip route <prefix> answers for the prefix, whatever the next hop.
PrefixPresent(d, op) ==
    \E c \in Cells : c[1] = "route" /\ c[2][1] = op.object[1] /\ d[c] = "present"

\* The answer of a switch whose configuration is d.
Truth(d, op) ==
    [c \in Cells |->
        IF c \notin Touched(op) THEN None
        ELSE IF Handlers[op.tool].kind = "route" /\ PrefixPresent(d, op) THEN "present" ELSE d[c]]

\* What the reader may return: the truth, or nothing for the cells RESTCONF or
\* vtysh gave no answer for, or "absent" where a failing read counts as absence
\* (vlan_exists, _members, _route_present).
ReadResults(d, op) ==
    IF Handlers[op.tool].kind \in {"vlan", "member", "route"}
      THEN {Truth(d, op), [c \in Cells |-> IF c \in Touched(op) THEN "absent" ELSE None]}
      ELSE {[c \in Cells |-> IF c \in S THEN None ELSE Truth(d, op)[c]] :
               S \in SUBSET Touched(op)}

\* The handler raises because of what the second read shows.
Rejects(op, pre, post) ==
    \E c \in Touched(op) :
        \/ op.value \in Handlers[op.tool].shown /\ post[c] # Goal(op)
        \/ /\ op.value \in Handlers[op.tool].refuted
           /\ post[c] \notin {Goal(op), None}
           /\ op.tool = "remove_vlan" => pre[c] = "present"

----------------------------------------------------------------------------
(* The reversal planner of rollback_mutation.                              *)

Inverse == [up |-> "down", down |-> "up", add |-> "remove", remove |-> "add"]

\* The opposite of a status or an action, as a set: empty when there is none.
Inverted(value) == {Inverse[v] : v \in {value} \cap DOMAIN Inverse}

\* Mutants: takes what the second read found; does not see that a read gave no
\* answer.
MutRecordedPost(e) == {e.post[c] : c \in Cells} \ {None}
MutRecordedUnread(e) == {e.pre[c] : c \in Touched(e.op)}

\* The setting the first read of the mutation found, as a set: empty when that
\* read gave no answer.
Recorded(e) == {e.pre[c] : c \in Cells} \ {None}

\* The setting to restore: the recorded one; failing that the opposite status,
\* the empty description, or no plan at all for the MTU.
SettingsBefore(e) ==
    IF Recorded(e) # {} THEN Recorded(e)
    ELSE CASE e.op.tool = "set_interface_mtu" -> {}
           [] e.op.tool = "set_interface_description" -> {EmptyDesc}
           [] OTHER -> Inverted(e.op.value)

InverseTool == [
    add_vlan            |-> "remove_vlan",
    remove_vlan         |-> "add_vlan",
    add_static_route    |-> "remove_static_route",
    remove_static_route |-> "add_static_route",
    drain_switch        |-> "undrain_switch",
    undrain_switch      |-> "drain_switch"]

\* Mutant: the inverse of add_static_route withdraws the prefix.
MutReverse(e) ==
    {[e.op EXCEPT !.tool = "remove_static_route", !.object = <<@[1], None>>] :
        t \in {e.op.tool} \cap {"add_static_route"}}

\* The inverse inputs planned for ledger entry e: one op, or none when the
\* tool is not in _REVERSIBLE or its planner raises.
Reverse(e) ==
    CASE e.op.tool \in {"set_interface_admin_status", "set_interface_mtu",
                        "set_interface_description", "set_bgp_neighbor_admin"} ->
           {[e.op EXCEPT !.value = v] : v \in SettingsBefore(e)}
      [] e.op.tool \in {"set_ip_interface", "set_portchannel_member"} ->
           {[e.op EXCEPT !.value = v] : v \in Inverted(e.op.value)}
      [] /\ e.op.tool \in DOMAIN InverseTool
         /\ e.op.tool = "remove_static_route" => e.op.object[2] # None ->
           {[e.op EXCEPT !.tool = InverseTool[e.op.tool]]}
      [] OTHER -> {}

=============================================================================
