-------------------------- MODULE MCInvokePipeline --------------------------
(* Instances of InvokePipeline for TLC: the constants of the runs.         *)
EXTENDS InvokePipeline, FiniteSets, TLC

CONSTANTS s1, s2, v1, e1, a1, po1, p1, n1, n2, b1, b2, m1, m2, m3, d0, d1, d2

Inputs(tool, switch, object, value) ==
    [tool |-> tool, switch_ip |-> switch, object |-> object, value |-> value]

Rollbacks == {Inputs("rollback_mutation", None, id, "-") : id \in MutationIds}

\* Two writers of the same VLAN, a tool that needs no confirmation, a read, and
\* inputs that name no switch.
ConcurrentOps ==
    {Inputs("add_vlan", s1, v1, "-"), Inputs("remove_vlan", s1, v1, "-"),
     Inputs("set_interface_description", s1, e1, d1),
     Inputs("run_show_command", s1, None, "-")}
    \cup Rollbacks

\* Every mutation tool once, inputs its validation refuses, and inputs that do not
\* name the switch.
AllTools ==
    {Inputs("set_interface_admin_status", s1, e1, "down"),
     Inputs("set_interface_description", s1, e1, d1),
     Inputs("set_ip_interface", s1, <<e1, a1>>, "add"),
     Inputs("set_ip_interface", s1, <<e1, a1>>, "remove"),
     Inputs("set_ip_interface", s1, <<e1, a1>>, "malformed"),
     Inputs("set_portchannel_member", s1, <<po1, e1>>, "add"),
     Inputs("add_vlan", s1, v1, "-"),
     Inputs("add_vlan", None, v1, "-"),
     Inputs("remove_vlan", s1, v1, "-"),
     Inputs("add_static_route", s1, <<p1, n1>>, "-"),
     Inputs("add_static_route", s1, <<p1, None>>, "-"),
     Inputs("remove_static_route", s1, <<p1, n1>>, "-"),
     Inputs("remove_static_route", s1, <<p1, None>>, "-"),
     Inputs("set_bgp_neighbor_admin", s1, b1, "down"),
     Inputs("drain_switch", s1, None, "-"),
     Inputs("undrain_switch", None, None, "-"),
     Inputs("undrain_switch", s1, None, "-"),
     Inputs("clear_interface_counters", s1, None, "-"),
     Inputs("config_save", s1, None, "-")}

\* Three settings of one interface, so that an interfering write is neither the
\* value before nor the value after.
MtuOps == {Inputs("set_interface_mtu", s1, e1, m) : m \in {m1, m2, m3}} \cup Rollbacks

AllOps == AllTools \cup MtuOps

\* One inverse of each sort, for the runs that check the documentation.
FewOps == {Inputs("add_vlan", s1, v1, "-"), Inputs("remove_vlan", s1, v1, "-")} \cup Rollbacks

\* Switches on which nothing is configured, on which everything is, and one
\* with a second next hop for the prefix and one of its two neighbours shut.
Bare == [c \in Cells |-> CASE c[1] \in {"admin", "bgp"} -> "up" [] c[1] = "mtu" -> m1
                           [] c[1] = "descr" -> d0 [] OTHER -> "absent"]
Full == [c \in Cells |-> CASE c[1] \in {"admin", "bgp"} -> "down" [] c[1] = "mtu" -> m2
                           [] c[1] = "descr" -> d1 [] OTHER -> "present"]
Mixed == [c \in Cells |-> CASE c = <<"route", <<p1, n2>>>> -> "present"
                            [] c = <<"bgp", b1>> -> "down" [] c[1] = "descr" -> d2
                            [] OTHER -> Bare[c]]

BareFull == {Bare, Full}
BareMixed == {Bare, Mixed}

\* Only the first call is not a rollback.
ThenRollbacks ==
    \A t \in InFlight :
        task[t].sent.tool # "rollback_mutation" =>
            Cardinality(fresh) + 1 = Cardinality(MutationIds)

JustBare == {Bare}

First(ids) == CHOOSE id \in ids : TRUE

\* Calls so far whose tool is not rollback_mutation.
Mutations ==
    Cardinality({task[t].id : t \in {u \in InFlight : task[u].sent.tool # "rollback_mutation"}}
                \cup {ledger[k].id : k \in DOMAIN ledger})

\* The ledger is written and nothing crashes: what follows otherwise is invoke_concurrent's,
\* and so is the gate.  A behaviour is over with the command of its first rollback, or when
\* that has failed: no property looks further.
Undisturbed ==
    /\ enabled
    /\ \A t \in InFlight : task[t].confirm
    /\ \A t \in InFlight : task[t].sent.tool = "rollback_mutation" =>
           task[t].pc \in {"plan", "read", "command", "verify", "failed"}
    /\ \A k \in DOMAIN ledger : ledger[k].op.tool # "rollback_mutation"
    /\ lost = {}

\* One mutation, of any tool, and then one rollback of what succeeded, on switches that
\* were alike at the start.
ToolByTool ==
    /\ Cardinality(InFlight) <= 1
    /\ Cardinality(fresh) + 2 >= Cardinality(MutationIds)
    /\ ThenRollbacks
    /\ \A k \in DOMAIN ledger : ledger[k].status = "ok"
    /\ journal = << >> => running[s1] = running[s2]

\* Two settings and one rollback of an MTU on two threads, from the bare configuration.
\* The first is to m2, the other to the same value, the one before or a third.  To these
\* handlers a command that exits non-zero is as good as one without an answer.
Interfering ==
    /\ \A t \in InFlight : task[t].sent \in MtuOps /\ task[t].ctx # s2
    /\ \A t \in InFlight : task[t].id = First(MutationIds) => task[t].sent.value = m2
    /\ \A k \in DOMAIN ledger : ledger[k].op \in MtuOps
    /\ \A k \in DOMAIN ledger : ledger[k].id = First(MutationIds) => ledger[k].op.value = m2
    /\ \A s \in Sessions : context[s] # s2
    /\ \A i \in DOMAIN journal : journal[i].reply # "nonzero"
    /\ \A s \in Switches, c \in Cells : c[1] = "mtu" \/ running[s][c] = Bare[c]
    /\ Mutations <= 2

ToolsOrInterference == Undisturbed /\ (ToolByTool \/ Interfering)

\* Ids are taken in one order.
InOrder == fresh' # fresh => fresh' = fresh \ {First(fresh)}

ThreadSymmetry == Permutations(Threads)

=============================================================================
