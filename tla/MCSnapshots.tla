----------------------------- MODULE MCSnapshots -----------------------------
(* Instances of Snapshots for TLC: two switches.  The configurations       *)
(* differ in fields and in keys.                                           *)
EXTENDS Snapshots, TLC

CONSTANTS s1, s2, c1, c2, k1, k2, v1, v2

MCContent ==
    (c1 :> (k1 :> ("mtu" :> v1)))
    @@ (c2 :> ((k1 :> ("mtu" :> v2 @@ "speed" :> v2)) @@ (k2 :> ("vlanid" :> v1))))
MCBoot == {[s \in Switches |-> c1]}
MCTable == (k1 :> "PORT") @@ (k2 :> "VLAN")
MCCompared == {{"PORT", "VLAN"}, {"PORT"}}
MCLists == {<<s1, s2>>, <<s2, s2>>}

\* A bound: two names, which are there to be compared, are saved one after the other and
\* without a crash; and a change together with a crash, which a later save has to make good,
\* meet with saves and not with restores.
InUse(n) == \E s \in Switches, t \in Tasks : files[n][s] # Missing \/ Saves(t, n)
Under == {t \in Tasks : task[t].stage # "over"}
SavesOnly ==
    /\ (\A n \in Names : InUse(n)) => Cardinality(Under) <= 1 /\ crashes = 0
    /\ (\A n \in Names : InUse(n)) \/ changes + crashes > 1 =>
           \A t \in Tasks : task[t].op # "restore"

\* A bound: an operator changes a switch from what it boots with.
Changed == changes' # changes => \E s \in Switches : startup[s] = c1 /\ startup'[s] = c2

\* A bound: a call that names a switch twice is a restore, and runs beside another call only
\* if it skips the reload, which only such a call may do.
Twice ==
    \A t \in Tasks : /\ task[t].op = "save" => task[t].list = <<s1, s2>>
                     /\ task[t].skip => task[t].list = <<s2, s2>>
                     /\ t \in Under /\ task[t].list = <<s2, s2>> /\ ~task[t].skip => Under = {t}

\* Tasks and names are interchangeable: all the properties are invariants.
Symmetry == Permutations(Tasks) \cup Permutations(Names)

=============================================================================
