-------------------------------- MODULE Gather --------------------------------
(***************************************************************************)
(* What a caller of fan_out may rely on: it returns when every target has  *)
(* an answer, which is an error or something the switch would have read    *)
(* while the call was under way; or it raises and returns nothing.  How    *)
(* many workers there are, in which order they answer, and that a switch   *)
(* may be asked twice, is no concern of the caller.                        *)
(***************************************************************************)
CONSTANTS
    Switches,
    Readings,      \* what a handler may read from a switch
    Error,         \* the entry of a switch whose handler raised
    None

VARIABLES
    asked,         \* the switches of the call
    since,         \* the readings that each switch has had since the call began
    answer,        \* the entry of each switch, None before it is in
    phase

vars == <<asked, since, answer, phase>>

Init ==
    /\ asked = {}
    /\ since \in [Switches -> SUBSET Readings]
    /\ answer = [s \in Switches |-> None]
    /\ phase = "idle"

\* The call, on a set of switches.
Ask ==
    /\ phase \in {"idle", "returned", "raised"}
    /\ asked' \in SUBSET Switches
    /\ since' \in [Switches -> SUBSET Readings]
    /\ answer' = [s \in Switches |-> None]
    /\ phase' \in {"asking", "returned"}
    /\ phase' = "returned" => asked' = {}

\* A switch changes.
Change ==
    /\ \E s \in Switches, r \in Readings : since' = [since EXCEPT ![s] = @ \cup {r}]
    /\ UNCHANGED <<asked, answer, phase>>

Answer(s) ==
    /\ phase = "asking"
    /\ s \in asked
    /\ \E a \in since[s] \cup {Error} : answer' = [answer EXCEPT ![s] = a]
    /\ UNCHANGED <<asked, since, phase>>

Return ==
    /\ phase = "asking"
    /\ \A s \in asked : answer[s] # None
    /\ phase' = "returned"
    /\ UNCHANGED <<asked, since, answer>>

Raise ==
    /\ phase = "asking"
    /\ phase' = "raised"
    /\ UNCHANGED <<asked, since, answer>>

Next == Ask \/ Change \/ Return \/ Raise \/ \E s \in Switches : Answer(s)

Spec == Init /\ [][Next]_vars

=============================================================================
