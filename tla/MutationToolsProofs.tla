------------------------- MODULE MutationToolsProofs -------------------------
(***************************************************************************)
(* Lemmas about the handlers of MutationTools that the proofs about        *)
(* InvokePipeline and DrainRotate share: what a validated command writes,  *)
(* what a reader may return, and what the check of an undrain guarantees.  *)
(***************************************************************************)
EXTENDS MutationTools, TLAPS

\* The values of a cell are those of its kind; no cell is of kind "none".
LEMMA CellValues ==
    ASSUME NEW c \in Cells
    PROVE  /\ c[1] \in {"vlan", "ip", "member", "route"} => ValuesOf(c[1]) = Presence
           /\ c[1] \in {"admin", "bgp"} => ValuesOf(c[1]) = AdminStatus
           /\ c[1] = "mtu" => ValuesOf(c[1]) = Mtus
           /\ c[1] = "descr" => ValuesOf(c[1]) = Descs
           /\ ValuesOf(c[1]) \subseteq Values
           /\ c[1] # "none"
  BY DEF Cells, ValuesOf, Values

\* A command whose inputs passed the handler's validation writes into every
\* cell it names a value of that cell's kind.
LEMMA GoalIsAValue ==
    ASSUME NEW op \in Ops, op.tool \in HandlerTools, Valid(op),
           NEW c \in Touched(op)
    PROVE  Goal(op) \in ValuesOf(c[1])
<1>1. c \in Cells /\ c[1] = Handlers[op.tool].kind
  BY DEF Touched
<1>2. op.value \in DOMAIN Handlers[op.tool].writes
  BY DEF Valid
<1>3. CASE op.tool \in {"add_vlan", "remove_vlan"}
  <2>1. Handlers[op.tool] \in {add_vlan, remove_vlan}
    BY <1>3 DEF Handlers
  <2>. QED
    BY <1>1, <1>2, <2>1, CellValues DEF Goal, add_vlan, remove_vlan, Presence
<1>4. CASE op.tool \in {"add_static_route", "remove_static_route"}
  <2>1. Handlers[op.tool] \in {add_static_route, remove_static_route}
    BY <1>4 DEF Handlers
  <2>. QED
    BY <1>1, <1>2, <2>1, CellValues DEF Goal, add_static_route, remove_static_route, Presence
<1>5. CASE op.tool \in {"set_ip_interface", "set_portchannel_member"}
  <2>1. Handlers[op.tool] \in {set_ip_interface, set_portchannel_member}
    BY <1>5 DEF Handlers
  <2>. QED
    BY <1>1, <1>2, <2>1, CellValues DEF Goal, set_ip_interface, set_portchannel_member, Outcome, Presence
<1>6. CASE op.tool \in {"set_interface_admin_status", "set_bgp_neighbor_admin"}
  <2>1. Handlers[op.tool] \in {set_interface_admin_status, set_bgp_neighbor_admin}
    BY <1>6 DEF Handlers
  <2>. QED
    BY <1>1, <1>2, <2>1, CellValues DEF Goal, set_interface_admin_status, set_bgp_neighbor_admin
<1>7. CASE op.tool \in {"drain_switch", "undrain_switch"}
  <2>1. Handlers[op.tool] \in {drain_switch, undrain_switch}
    BY <1>7 DEF Handlers
  <2>. QED
    BY <1>1, <1>2, <2>1, CellValues DEF Goal, drain_switch, undrain_switch, AdminStatus
<1>8. CASE op.tool = "set_interface_mtu"
  <2>1. Handlers[op.tool] = set_interface_mtu
    BY <1>8 DEF Handlers
  <2>. QED
    BY <1>1, <1>2, <2>1, CellValues DEF Goal, set_interface_mtu
<1>9. CASE op.tool = "set_interface_description"
  <2>1. Handlers[op.tool] = set_interface_description
    BY <1>9 DEF Handlers
  <2>. QED
    BY <1>1, <1>2, <2>1, CellValues DEF Goal, set_interface_description
<1>10. CASE op.tool \in {"clear_interface_counters", "config_save", "run_show_command"}
  <2>1. Handlers[op.tool] \in {clear_interface_counters, config_save, run_show_command}
    BY <1>10 DEF Handlers
  <2>. QED
    BY <1>1, <1>2, <2>1, CellValues DEF Goal, clear_interface_counters, config_save, run_show_command
<1>. QED
  BY <1>3, <1>4, <1>5, <1>6, <1>7, <1>8, <1>9, <1>10 DEF HandlerTools, Handlers

\* What the switch has after any part of such a command is a configuration.
LEMMA WrittenIsWellFormed ==
    ASSUME NEW op \in Ops, op.tool \in HandlerTools, Valid(op),
           NEW d \in Configs, WellFormed(d), NEW S \in SUBSET Touched(op)
    PROVE  Written(d, S, Goal(op)) \in Configs /\ WellFormed(Written(d, S, Goal(op)))
<1>1. ASSUME NEW c \in Cells
      PROVE  (IF c \in S THEN Goal(op) ELSE d[c]) \in ValuesOf(c[1])
  BY GoalIsAValue DEF WellFormed
<1>2. \A c \in Cells : (IF c \in S THEN Goal(op) ELSE d[c]) \in Values
  BY <1>1, CellValues
<1>. QED
  BY <1>1, <1>2 DEF Written, Configs, WellFormed

\* Whatever a reader returns is a value or nothing per cell.
LEMMA ReadResultIsReading ==
    ASSUME NEW op \in Ops, NEW d \in Configs, NEW r \in ReadResults(d, op)
    PROVE  r \in Readings
<1>1. Truth(d, op) \in Readings
  BY DEF Truth, Readings, Configs, Values, Presence
<1>. QED
  BY <1>1 DEF ReadResults, Readings, Values, Presence

\* A drain and an undrain act on every neighbour of the switch and on nothing
\* else; they write "down" and "up".
LEMMA DrainOps ==
    ASSUME NEW op \in Ops, op.tool \in DrainTools, op.value = "-"
    PROVE  /\ op.tool \in HandlerTools /\ Valid(op)
           /\ Touched(op) = {c \in Cells : c[1] = "bgp"}
           /\ Goal(op) = IF op.tool = "drain_switch" THEN "down" ELSE "up"
           /\ op.tool = "undrain_switch" => op.value \in Handlers[op.tool].refuted
<1>1. CASE op.tool = "drain_switch"
  <2>1. op.tool \in HandlerTools /\ Handlers[op.tool] = drain_switch
    BY <1>1 DEF HandlerTools, Handlers
  <2>. QED
    BY <1>1, <2>1 DEF drain_switch, Valid, Touched, Goal, DrainTools
<1>2. CASE op.tool = "undrain_switch"
  <2>1. op.tool \in HandlerTools /\ Handlers[op.tool] = undrain_switch
    BY <1>2 DEF HandlerTools, Handlers
  <2>. QED
    BY <1>2, <2>1 DEF undrain_switch, Valid, Touched, Goal, DrainTools
<1>. QED
  BY <1>1, <1>2 DEF DrainTools

\* When the check of an undrain has an answer for every neighbour and does not
\* object, every neighbour is up.
LEMMA CheckedUndrain ==
    ASSUME NEW op \in Ops, op.tool = "undrain_switch", op.value = "-",
           NEW d \in Configs, WellFormed(d), NEW pre, NEW post \in ReadResults(d, op),
           ~Rejects(op, pre, post), \A c \in Touched(op) : post[c] # None
    PROVE  \A c \in Cells : c[1] = "bgp" => d[c] = "up"
<1>1. Touched(op) = {c \in Cells : c[1] = "bgp"} /\ Goal(op) = "up"
      /\ op.value \in Handlers[op.tool].refuted
  BY DrainOps DEF DrainTools
<1>2. Handlers[op.tool].kind = "bgp"
  BY DEF Handlers, undrain_switch
<1>3. PICK S \in SUBSET Touched(op) :
        post = [c \in Cells |-> IF c \in S THEN None ELSE Truth(d, op)[c]]
  BY <1>2 DEF ReadResults
<1>4. ASSUME NEW c \in Touched(op) PROVE d[c] = "up"
  <2>1. post[c] = "up"
    BY <1>1, <1>4 DEF Rejects
  <2>2. post[c] = Truth(d, op)[c]
    BY <1>1, <1>3, <1>4
  <2>3. Truth(d, op)[c] = d[c]
    BY <1>1, <1>2, <1>4 DEF Truth
  <2>. QED
    BY <2>1, <2>2, <2>3
<1>. QED
  BY <1>1, <1>4

=============================================================================
