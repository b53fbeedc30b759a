----------------------------- MODULE DrainRotate -----------------------------
(***************************************************************************)
(* fabric_drain_rotate: for each switch in turn, drain it, wait, undrain   *)
(* it, wait for the fabric to converge.  Nothing stops two rotations from  *)
(* running at once, and the process may die in the middle of one.          *)
(*                                                                         *)
(* The rotation calls the handlers drain_switch and undrain_switch, whose  *)
(* reads, command and check are those of MutationTools; the soak between   *)
(* them is the time other rotations have to run.                           *)
(***************************************************************************)
EXTENDS MutationTools, Sequences, FiniteSets

CONSTANTS
    Rotations,   \* calls of fabric_drain_rotate
    Targets      \* the lists of switches they may be given

ASSUME RotationAssumption ==
    Targets \subseteq Seq(Switches) \ {<<>>}

VARIABLES
    running,     \* the running configuration of every switch
    rotation,    \* what every rotation is doing
    blind,       \* history: switches whose undrain was checked without an answer
    abandoned    \* history: switches a rotation was at work on when it was killed

vars == <<running, rotation, blind, abandoned>>

Idle == [pc |-> "idle"]

Statuses == {"ok", "converge_timeout", "aborted_at_drain", "aborted_at_undrain"}

\* A rotation: the switches still to do, the handler that is running on the first
\* of them, and the status of those that are done.  It stopped early if it is
\* done with switches still to do.
Calls == [pc : {"read", "command", "verify", "converge"}, tool : DrainTools,
          todo : Seq(Switches) \ {<<>>}, report : Seq(Statuses)]
         \cup [pc : {"done"}, tool : DrainTools, todo : Seq(Switches), report : Seq(Statuses)]

TypeOK ==
    /\ running \in [Switches -> Configs] /\ \A s \in Switches : WellFormed(running[s])
    /\ rotation \in [Rotations -> Calls \cup {Idle}]
    /\ blind \subseteq Switches
    /\ abandoned \subseteq Switches

----------------------------------------------------------------------------

\* The neighbours of switch s that are shut.
Shut(s) == {c \in Cells : c[1] = "bgp" /\ running[s][c] = "down"}

Current(r) == Head(rotation[r].todo)

\* The inputs of the handler that rotation r is running.
Op(r) == [tool |-> rotation[r].tool, switch_ip |-> Current(r), object |-> None, value |-> "-"]

Init ==
    /\ running \in {f \in [Switches -> Configs] : \A s \in Switches :
                        WellFormed(f[s]) /\ \A c \in Cells : c[1] = "bgp" => f[s][c] = "up"}
    /\ rotation = [r \in Rotations |-> Idle]
    /\ blind = {}
    /\ abandoned = {}

Start(r) ==
    /\ rotation[r] = Idle
    /\ \E list \in Targets :
         rotation' = [rotation EXCEPT ![r] =
            [pc |-> "read", tool |-> "drain_switch", todo |-> list, report |-> <<>>]]
    /\ UNCHANGED <<running, blind, abandoned>>

\* Rotation r after its handler has raised: it ends, and leaves the switch as it is.
Aborted(r) ==
    [rotation[r] EXCEPT
        !.pc = "done",
        !.report = Append(@, IF rotation[r].tool = "drain_switch"
                               THEN "aborted_at_drain" ELSE "aborted_at_undrain")]

\* The handler gives up when it cannot read the summary of the switch.
ReadFails(r) ==
    /\ rotation[r].pc = "read"
    /\ rotation' = [rotation EXCEPT ![r] = Aborted(r)]
    /\ UNCHANGED <<running, blind, abandoned>>

Read(r) ==
    /\ rotation[r].pc = "read"
    /\ rotation' = [rotation EXCEPT ![r].pc = "command"]
    /\ UNCHANGED <<running, blind, abandoned>>

\* The command takes effect on all neighbours, or only on some when it fails; an
\* SSH error is raised, a non-zero exit is left to the check.
Command(r) ==
    /\ rotation[r].pc = "command"
    /\ \E S \in SUBSET Touched(Op(r)), reply \in {"zero", "nonzero", "error"} :
         /\ reply = "zero" => S = Touched(Op(r))
         /\ running' = [running EXCEPT ![Current(r)] = Written(@, S, Goal(Op(r)))]
         /\ rotation' = [rotation EXCEPT ![r] =
                IF reply = "error" THEN Aborted(r) ELSE [@ EXCEPT !.pc = "verify"]]
    /\ UNCHANGED <<blind, abandoned>>

\* Mutant: an undrain is taken at its word.
MutVerify(r) ==
    /\ rotation[r].pc = "verify"
    /\ \E post \in ReadResults(running[Current(r)], Op(r)) :
         /\ rotation' = [rotation EXCEPT ![r] =
                IF rotation[r].tool = "undrain_switch" THEN [@ EXCEPT !.pc = "converge"]
                ELSE IF Rejects(Op(r), NoReading, post) THEN Aborted(r)
                ELSE [@ EXCEPT !.pc = "read", !.tool = "undrain_switch"]]
         /\ blind' = IF rotation[r].tool = "undrain_switch"
                        /\ \E c \in Touched(Op(r)) : post[c] = None
                       THEN blind \cup {Current(r)} ELSE blind
    /\ UNCHANGED <<running, abandoned>>

\* The check of the handler, then the soak and the undrain, or the wait.
Verify(r) ==
    /\ rotation[r].pc = "verify"
    /\ \E post \in ReadResults(running[Current(r)], Op(r)) :
         /\ rotation' = [rotation EXCEPT ![r] =
                IF Rejects(Op(r), NoReading, post) THEN Aborted(r)
                ELSE IF rotation[r].tool = "drain_switch"
                  THEN [@ EXCEPT !.pc = "read", !.tool = "undrain_switch"]
                  ELSE [@ EXCEPT !.pc = "converge"]]
         /\ blind' = IF rotation[r].tool = "undrain_switch"
                        /\ \E c \in Touched(Op(r)) : post[c] = None
                       THEN blind \cup {Current(r)} ELSE blind
    /\ UNCHANGED <<running, abandoned>>

\* Mutant: the loop does not move on to the next switch.
MutConverge(r) ==
    /\ rotation[r].pc = "converge"
    /\ \E status \in {"ok", "converge_timeout"} :
         rotation' = [rotation EXCEPT ![r] =
            [pc |-> "read", tool |-> "drain_switch",
             todo |-> rotation[r].todo, report |-> <<status>>]]
    /\ UNCHANGED <<running, blind, abandoned>>

\* Mutant: the list of targets has no end.
MutConvergeOn(r) ==
    /\ rotation[r].pc = "converge"
    /\ \E status \in {"ok", "converge_timeout"} :
         rotation' = [rotation EXCEPT ![r] =
            [pc |-> "read", tool |-> "drain_switch",
             todo |-> Tail(rotation[r].todo), report |-> Append(rotation[r].report, status)]]
    /\ UNCHANGED <<running, blind, abandoned>>

\* _wait_for_established polls the health of the fabric until it is whole or the
\* time is up, and the rotation goes on either way.  A switch whose summary is not
\* read has no broken link in get_fabric_health, so either outcome is possible.
Converge(r) ==
    /\ rotation[r].pc = "converge"
    /\ \E status \in {"ok", "converge_timeout"} :
         rotation' = [rotation EXCEPT ![r] =
            [pc |-> IF Tail(rotation[r].todo) = <<>> THEN "done" ELSE "read",
             tool |-> "drain_switch",
             todo |-> Tail(rotation[r].todo), report |-> Append(rotation[r].report, status)]]
    /\ UNCHANGED <<running, blind, abandoned>>

\* Rotation r may have shut neighbours of its current switch and has not yet seen
\* them up again.
Working(r) ==
    \/ rotation[r].pc \in {"read", "command", "verify"} /\ rotation[r].tool = "undrain_switch"
    \/ rotation[r].pc = "verify"

\* Killed and started again: no rotation is resumed.
Restart ==
    /\ abandoned' = abandoned \cup {Current(r) : r \in {q \in Rotations : Working(q)}}
    /\ rotation' = [r \in Rotations |-> IF rotation[r].pc = "done" THEN rotation[r] ELSE Idle]
    /\ UNCHANGED <<running, blind>>

Step(r) == ReadFails(r) \/ Read(r) \/ Command(r) \/ Verify(r) \/ Converge(r)

Next ==
    \/ \E r \in Rotations : Start(r) \/ Step(r)
    \/ Restart

Spec == Init /\ [][Next]_vars

\* Every exchange with a switch has a timeout and both waits have a deadline, so a
\* rotation that was started takes its next step.
FairSpec == Spec /\ \A r \in Rotations : WF_vars(Step(r))

----------------------------------------------------------------------------

StoppedEarly(r) == rotation[r].pc = "done" /\ rotation[r].todo # <<>>

\* A switch with a neighbour shut is one that a rotation is still at work on or
\* stopped at, and so names in its report: none is left drained behind a rotation
\* that went on, but for a check that got no answer or a process that was killed.
\* Hence there are never more drained switches than rotations.
DrainedIsAttended ==
    \A s \in Switches \ (blind \cup abandoned) :
        Shut(s) # {} =>
            \E r \in Rotations : (Working(r) \/ StoppedEarly(r)) /\ Current(r) = s

\* Every rotation comes to an end, or is killed.
RotationsEnd == \A r \in Rotations : rotation[r] # Idle ~> rotation[r].pc \in {"done", "idle"}

=============================================================================
