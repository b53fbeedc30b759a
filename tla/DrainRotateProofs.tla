-------------------------- MODULE DrainRotateProofs --------------------------
(***************************************************************************)
(* fabric_drain_rotate for any number of switches, neighbours and          *)
(* overlapping rotations: no switch is left drained behind a rotation that *)
(* went on.                                                                *)
(***************************************************************************)
EXTENDS DrainRotate, MutationToolsProofs

IInv == TypeOK /\ DrainedIsAttended

\* Rotation r answers for switch s.
Attends(r, s) == (Working(r) \/ StoppedEarly(r)) /\ Current(r) = s

\* A rotation that is not idle is a call, and unless it is done it has a switch.
LEMMA CallTask ==
    ASSUME TypeOK, NEW r \in Rotations, rotation[r].pc # "idle"
    PROVE  /\ rotation[r] \in Calls
           /\ rotation[r].tool \in DrainTools /\ rotation[r].report \in Seq(Statuses)
           /\ rotation[r].todo \in Seq(Switches)
           /\ rotation[r].pc # "done" => rotation[r].todo # <<>> /\ Current(r) \in Switches
<1>1. rotation[r] \in Calls
  BY DEF TypeOK, Idle
<1>2. /\ rotation[r].todo \in Seq(Switches)
      /\ rotation[r].tool \in DrainTools /\ rotation[r].report \in Seq(Statuses)
      /\ rotation[r].pc # "done" => rotation[r].todo # <<>>
  BY <1>1 DEF Calls
<1>. QED
  BY <1>1, <1>2 DEF Current

\* The inputs of the handler that is running.
LEMMA OpFacts ==
    ASSUME TypeOK, NEW r \in Rotations, rotation[r].pc \in {"read", "command", "verify"}
    PROVE  /\ Op(r) \in Ops /\ Op(r).tool = rotation[r].tool /\ Op(r).value = "-"
           /\ Op(r).tool \in DrainTools
           /\ Op(r).tool \in HandlerTools /\ Valid(Op(r))
           /\ Touched(Op(r)) = {c \in Cells : c[1] = "bgp"}
<1>1. rotation[r].tool \in DrainTools /\ Current(r) \in Switches
  BY CallTask
<1>2. Op(r) \in Ops
  BY <1>1 DEF Op, Ops, DrainTools, Tools, HandlerTools, Handlers, Objects, InputValues
<1>. QED
  BY <1>1, <1>2, DrainOps DEF Op

\* A rotation that ends early is a call.
LEMMA AbortedCall ==
    ASSUME TypeOK, NEW r \in Rotations, rotation[r].pc \in {"read", "command", "verify"}
    PROVE  /\ Aborted(r) \in Calls /\ Aborted(r).pc = "done"
           /\ Aborted(r).todo = rotation[r].todo /\ Aborted(r).todo # <<>>
<1>1. /\ rotation[r] \in Calls /\ rotation[r].todo # <<>> /\ rotation[r].tool \in DrainTools
      /\ rotation[r].report \in Seq(Statuses) /\ rotation[r].todo \in Seq(Switches)
  BY CallTask
<1>. DEFINE status == IF rotation[r].tool = "drain_switch"
                        THEN "aborted_at_drain" ELSE "aborted_at_undrain"
<1>2. Append(rotation[r].report, status) \in Seq(Statuses)
  BY <1>1 DEF Statuses
<1>. HIDE DEF status
<1>3. rotation[r] \in [pc : {"read", "command", "verify", "converge", "done"}, tool : DrainTools,
                       todo : Seq(Switches), report : Seq(Statuses)]
  BY <1>1 DEF Calls
<1>4. Aborted(r) = [rotation[r] EXCEPT !.pc = "done", !.report = Append(@, status)]
  BY DEF Aborted, status
<1>5. /\ Aborted(r) \in [pc : {"done"}, tool : DrainTools, todo : Seq(Switches),
                         report : Seq(Statuses)]
      /\ Aborted(r).todo = rotation[r].todo
  BY <1>2, <1>3, <1>4
<1>. QED
  BY <1>1, <1>5 DEF Calls

\* The initial states.
LEMMA InitIInv == Init => IInv
<1>. SUFFICES ASSUME Init PROVE IInv
  OBVIOUS
<1>1. TypeOK
  BY DEF Init, TypeOK
<1>2. \A s \in Switches : Shut(s) = {}
  BY DEF Init, Shut
<1>. QED
  BY <1>1, <1>2 DEF IInv, DrainedIsAttended

\* A step of rotation r keeps every drained switch attended if r itself answers
\* for those it shuts and keeps answering for those it answered for.
LEMMA AttendedStep ==
    ASSUME IInv, NEW r \in Rotations, NEW x, rotation' = [rotation EXCEPT ![r] = x],
           blind \subseteq blind', abandoned' = abandoned,
           \A s \in Switches \ blind' :
             Shut(s)' # {} => \/ Shut(s) # {} /\ ~Attends(r, s)
                              \/ Attends(r, s)'
    PROVE  DrainedIsAttended'
<1>1. ASSUME NEW s \in Switches, s \notin blind', s \notin abandoned', Shut(s)' # {}
      PROVE  \E q \in Rotations : Attends(q, s)'
  <2>1. CASE Attends(r, s)'
    BY <2>1
  <2>2. CASE Shut(s) # {} /\ ~Attends(r, s)
    <3>1. PICK q \in Rotations : Attends(q, s)
      BY <1>1, <2>2 DEF IInv, DrainedIsAttended, Attends
    <3>2. q # r
      BY <2>2, <3>1
    <3>3. rotation'[q] = rotation[q]
      BY <3>2 DEF IInv, TypeOK
    <3>. QED
      BY <3>1, <3>3 DEF Attends, Working, StoppedEarly, Current
  <2>. QED
    BY <1>1, <2>1, <2>2
<1>. QED
  BY <1>1 DEF DrainedIsAttended, Attends

\* A new rotation has shut nothing yet.
LEMMA StartIInv == ASSUME IInv, NEW r \in Rotations, Start(r) PROVE IInv'
<1>1. PICK list \in Targets : rotation' = [rotation EXCEPT ![r] =
            [pc |-> "read", tool |-> "drain_switch", todo |-> list, report |-> <<>>]]
  BY DEF Start
<1>2. [pc |-> "read", tool |-> "drain_switch", todo |-> list, report |-> <<>>] \in Calls
  BY RotationAssumption DEF Calls, DrainTools
<1>3. UNCHANGED <<running, blind, abandoned>> /\ rotation[r].pc = "idle"
  BY DEF Start, Idle
<1>4. TypeOK'
  BY <1>1, <1>2, <1>3 DEF IInv, TypeOK
<1>5. \A s \in Switches : ~Attends(r, s) /\ Shut(s)' = Shut(s)
  BY <1>3 DEF Attends, Working, StoppedEarly, Shut
<1>. QED
  BY <1>1, <1>3, <1>4, <1>5, AttendedStep DEF IInv

\* The read: either it goes on or the rotation stops at this switch.
LEMMA ReadIInv == ASSUME IInv, NEW r \in Rotations, ReadFails(r) \/ Read(r) PROVE IInv'
<1>1. rotation[r].pc = "read" /\ UNCHANGED <<running, blind, abandoned>>
  BY DEF ReadFails, Read
<1>2. TypeOK /\ rotation \in [Rotations -> Calls \cup {Idle}]
  BY DEF IInv, TypeOK
<1>3. rotation[r] \in Calls
  BY <1>1, <1>2, CallTask
<1>4. \A s \in Switches : Shut(s)' = Shut(s)
  BY <1>1 DEF Shut
<1>5. CASE ReadFails(r)
  <2>1. rotation' = [rotation EXCEPT ![r] = Aborted(r)]
    BY <1>5 DEF ReadFails
  <2>2. /\ Aborted(r) \in Calls /\ rotation'[r] = Aborted(r)
        /\ rotation'[r].pc = "done" /\ rotation'[r].todo = rotation[r].todo
        /\ rotation'[r].todo # <<>>
    BY <1>1, <1>2, <2>1, AbortedCall
  <2>3. \A s \in Switches : Attends(r, s) => Attends(r, s)'
    BY <2>2 DEF Attends, StoppedEarly, Current
  <2>4. TypeOK'
    BY <1>1, <1>2, <2>1, <2>2 DEF TypeOK
  <2>. QED
    BY <1>1, <1>4, <2>1, <2>3, <2>4, AttendedStep DEF IInv
<1>6. CASE Read(r)
  <2>. DEFINE x == [rotation[r] EXCEPT !.pc = "command"]
  <2>1. rotation' = [rotation EXCEPT ![r] = x] /\ rotation'[r] = x
    BY <1>2, <1>6 DEF Read
  <2>2. x \in Calls /\ x.pc = "command" /\ x.tool = rotation[r].tool /\ x.todo = rotation[r].todo
    BY <1>1, <1>3 DEF Calls
  <2>. HIDE DEF x
  <2>3. \A s \in Switches : Attends(r, s) => Attends(r, s)'
    BY <1>1, <2>1, <2>2 DEF Attends, Working, StoppedEarly, Current
  <2>4. TypeOK'
    BY <1>1, <1>2, <2>1, <2>2 DEF TypeOK
  <2>. QED
    BY <1>1, <1>4, <2>1, <2>3, <2>4, AttendedStep DEF IInv
<1>. QED
  BY <1>5, <1>6

\* Whatever the command does, the rotation answers for the switch afterwards.
LEMMA CommandIInv == ASSUME IInv, NEW r \in Rotations, Command(r) PROVE IInv'
<1>1. TypeOK /\ rotation \in [Rotations -> Calls \cup {Idle}] /\ rotation[r].pc = "command"
  BY DEF IInv, TypeOK, Command
<1>2. PICK S \in SUBSET Touched(Op(r)), reply \in {"zero", "nonzero", "error"} :
         /\ running' = [running EXCEPT ![Current(r)] = Written(@, S, Goal(Op(r)))]
         /\ rotation' = [rotation EXCEPT ![r] =
                IF reply = "error" THEN Aborted(r) ELSE [rotation[r] EXCEPT !.pc = "verify"]]
  BY DEF Command
<1>. DEFINE x == IF reply = "error" THEN Aborted(r) ELSE [rotation[r] EXCEPT !.pc = "verify"]
<1>3. rotation[r] \in Calls /\ rotation[r].todo # <<>> /\ Current(r) \in Switches
  BY <1>1, CallTask
<1>4. x \in Calls /\ x.pc \in {"verify", "done"} /\ x.todo = rotation[r].todo
  BY <1>1, <1>3, AbortedCall DEF Calls
<1>. HIDE DEF x
<1>5. rotation' = [rotation EXCEPT ![r] = x] /\ rotation'[r] = x
  BY <1>1, <1>2 DEF x
<1>6. \A s \in Switches : s = Current(r) => Attends(r, s)'
  BY <1>3, <1>4, <1>5 DEF Attends, Working, StoppedEarly, Current
<1>7. /\ running' \in [Switches -> Configs]
      /\ \A s \in Switches : WellFormed(running'[s])
      /\ \A s \in Switches : s # Current(r) => running'[s] = running[s]
  <2>1. running \in [Switches -> Configs] /\ \A s \in Switches : WellFormed(running[s])
    BY <1>1 DEF TypeOK
  <2>2. Written(running[Current(r)], S, Goal(Op(r))) \in Configs
        /\ WellFormed(Written(running[Current(r)], S, Goal(Op(r))))
    BY <1>1, <1>3, <2>1, OpFacts, WrittenIsWellFormed
  <2>. QED
    BY <1>2, <1>3, <2>1, <2>2
<1>9. \A s \in Switches : Shut(s)' # {} => (Shut(s) # {} /\ ~Attends(r, s)) \/ Attends(r, s)'
  BY <1>6, <1>7 DEF Shut, Attends
<1>10. TypeOK' /\ UNCHANGED <<blind, abandoned>>
  BY <1>1, <1>4, <1>5, <1>7 DEF TypeOK, Command
<1>. QED
  BY <1>5, <1>9, <1>10, AttendedStep DEF IInv

\* Only the check of an undrain lets go of a switch, and then all its neighbours
\* are up or one of them gave no answer.
LEMMA VerifyIInv == ASSUME IInv, NEW r \in Rotations, Verify(r) PROVE IInv'
<1>1. TypeOK /\ rotation \in [Rotations -> Calls \cup {Idle}] /\ rotation[r].pc = "verify"
  BY DEF IInv, TypeOK, Verify
<1>2. PICK post \in ReadResults(running[Current(r)], Op(r)) :
         /\ rotation' = [rotation EXCEPT ![r] =
                IF Rejects(Op(r), NoReading, post) THEN Aborted(r)
                ELSE IF rotation[r].tool = "drain_switch"
                  THEN [rotation[r] EXCEPT !.pc = "read", !.tool = "undrain_switch"]
                  ELSE [rotation[r] EXCEPT !.pc = "converge"]]
         /\ blind' = IF rotation[r].tool = "undrain_switch"
                        /\ \E c \in Touched(Op(r)) : post[c] = None
                       THEN blind \cup {Current(r)} ELSE blind
  BY DEF Verify
<1>. DEFINE x == IF Rejects(Op(r), NoReading, post) THEN Aborted(r)
                 ELSE IF rotation[r].tool = "drain_switch"
                   THEN [rotation[r] EXCEPT !.pc = "read", !.tool = "undrain_switch"]
                   ELSE [rotation[r] EXCEPT !.pc = "converge"]
<1>3. /\ rotation[r] \in Calls /\ rotation[r].todo # <<>> /\ Current(r) \in Switches
      /\ rotation[r].tool \in DrainTools
  BY <1>1, CallTask
<1>4. x \in Calls /\ x.todo = rotation[r].todo
  BY <1>1, <1>3, AbortedCall DEF Calls, DrainTools
<1>5. \/ x.pc = "done"
      \/ x.pc = "read" /\ x.tool = "undrain_switch"
      \/ rotation[r].tool = "undrain_switch" /\ ~Rejects(Op(r), NoReading, post)
  BY <1>1, <1>3, AbortedCall DEF Calls, DrainTools
<1>6. rotation' = [rotation EXCEPT ![r] = x] /\ rotation'[r] = x
  BY <1>1, <1>2
<1>. HIDE DEF x
<1>7. UNCHANGED <<running, abandoned>> /\ blind \subseteq blind' /\ blind' \subseteq Switches
  BY <1>1, <1>2, <1>3 DEF Verify, TypeOK
<1>8. PICK s0 \in Switches : s0 = Current(r)
  BY <1>3
<1>9. Current(r)' = s0
  BY <1>4, <1>6, <1>8 DEF Current
<1>10. Attends(r, s0)' \/ Shut(s0) = {} \/ s0 \in blind'
  <2>1. CASE x.pc = "done"
    BY <1>3, <1>4, <1>6, <1>9, <2>1 DEF Attends, StoppedEarly
  <2>2. CASE x.pc = "read" /\ x.tool = "undrain_switch"
    BY <1>6, <1>9, <2>2 DEF Attends, Working
  <2>3. CASE rotation[r].tool = "undrain_switch" /\ ~Rejects(Op(r), NoReading, post)
    <3>1. CASE \E c \in Touched(Op(r)) : post[c] = None
      BY <1>2, <1>8, <2>3, <3>1
    <3>2. CASE \A c \in Touched(Op(r)) : post[c] # None
      <4>1. running[Current(r)] \in Configs /\ WellFormed(running[Current(r)])
        BY <1>1, <1>3 DEF TypeOK
      <4>2. \A c \in Cells : c[1] = "bgp" => running[Current(r)][c] = "up"
        BY <1>1, <2>3, <3>2, <4>1, OpFacts, CheckedUndrain
      <4>. QED
        BY <1>8, <4>2 DEF Shut
    <3>. QED
      BY <3>1, <3>2
  <2>. QED
    BY <1>5, <2>1, <2>2, <2>3
<1>11. \A s \in Switches \ blind' :
        Shut(s)' # {} => (Shut(s) # {} /\ ~Attends(r, s)) \/ Attends(r, s)'
  <2>1. \A s \in Switches : Shut(s)' = Shut(s)
    BY <1>7 DEF Shut
  <2>2. \A s \in Switches : Attends(r, s) => s = s0
    BY <1>8 DEF Attends
  <2>. QED
    BY <1>10, <2>1, <2>2
<1>12. TypeOK'
  BY <1>1, <1>4, <1>6, <1>7 DEF TypeOK
<1>. QED
  BY <1>6, <1>7, <1>11, <1>12, AttendedStep DEF IInv

\* The wait answers for no switch, before it and after it.
LEMMA ConvergeIInv == ASSUME IInv, NEW r \in Rotations, Converge(r) PROVE IInv'
<1>1. TypeOK /\ rotation \in [Rotations -> Calls \cup {Idle}] /\ rotation[r].pc = "converge"
      /\ UNCHANGED <<running, blind, abandoned>>
  BY DEF IInv, TypeOK, Converge
<1>2. PICK status \in {"ok", "converge_timeout"} : rotation' = [rotation EXCEPT ![r] =
            [pc |-> IF Tail(rotation[r].todo) = <<>> THEN "done" ELSE "read",
             tool |-> "drain_switch",
             todo |-> Tail(rotation[r].todo), report |-> Append(rotation[r].report, status)]]
  BY DEF Converge
<1>. DEFINE x == [pc |-> IF Tail(rotation[r].todo) = <<>> THEN "done" ELSE "read",
                  tool |-> "drain_switch",
                  todo |-> Tail(rotation[r].todo), report |-> Append(rotation[r].report, status)]
<1>3. /\ rotation[r].todo \in Seq(Switches) /\ rotation[r].todo # <<>>
      /\ rotation[r].report \in Seq(Statuses)
  BY <1>1, CallTask
<1>4. Tail(rotation[r].todo) \in Seq(Switches) /\ Append(rotation[r].report, status) \in Seq(Statuses)
  BY <1>3 DEF Statuses
<1>5. x \in Calls
  BY <1>4 DEF Calls, DrainTools
<1>6. \A s \in Switches : ~Attends(r, s) /\ Shut(s)' = Shut(s)
  BY <1>1 DEF Attends, Working, StoppedEarly, Shut
<1>7. TypeOK'
  BY <1>1, <1>2, <1>5 DEF TypeOK
<1>. QED
  BY <1>1, <1>2, <1>6, <1>7, AttendedStep DEF IInv

\* A restart forgets the rotations and keeps the switches they were at work on.
LEMMA RestartIInv == ASSUME IInv, Restart PROVE IInv'
<1>1. TypeOK /\ rotation \in [Rotations -> Calls \cup {Idle}]
  BY DEF IInv, TypeOK
<1>2. \A r \in Rotations : Working(r) => Current(r) \in Switches
  BY <1>1, CallTask DEF Working
<1>3. TypeOK'
  BY <1>1, <1>2 DEF Restart, TypeOK
<1>4. \A s \in Switches : Shut(s)' = Shut(s)
  BY DEF Restart, Shut
<1>5. ASSUME NEW s \in Switches, s \notin blind', s \notin abandoned', Shut(s)' # {}
      PROVE  \E q \in Rotations : Attends(q, s)'
  <2>1. PICK q \in Rotations : Attends(q, s)
    BY <1>4, <1>5 DEF Restart, IInv, DrainedIsAttended, Attends
  <2>2. ~Working(q)
    BY <1>5, <2>1 DEF Restart, Attends
  <2>3. rotation'[q] = rotation[q]
    BY <2>1, <2>2 DEF Restart, Attends, StoppedEarly
  <2>. QED
    BY <2>1, <2>3 DEF Attends, Working, StoppedEarly, Current
<1>. QED
  BY <1>3, <1>5 DEF IInv, DrainedIsAttended, Attends

\* Every step preserves the invariant.
LEMMA NextIInv == IInv /\ [Next]_vars => IInv'
<1>. SUFFICES ASSUME IInv, [Next]_vars PROVE IInv'
  OBVIOUS
<1>1. CASE UNCHANGED vars
  BY <1>1 DEF vars, IInv, TypeOK, DrainedIsAttended, Shut, Working, StoppedEarly, Current
<1>2. CASE Next
  BY <1>2, StartIInv, ReadIInv, CommandIInv, VerifyIInv, ConvergeIInv, RestartIInv DEF Next, Step
<1>. QED
  BY <1>1, <1>2

\* Rotations keep their types, whatever handlers, deadlines and restarts do: a
\* rotation that is not done always has a switch to work on.
THEOREM TypeCorrect == Spec => []TypeOK
<1>1. IInv => TypeOK
  BY DEF IInv
<1>. QED
  BY <1>1, InitIInv, NextIInv, PTL DEF Spec

\* No switch is left drained behind a rotation that went on.
THEOREM NoneLeftBehind == Spec => []DrainedIsAttended
<1>1. IInv => DrainedIsAttended
  BY DEF IInv
<1>. QED
  BY <1>1, InitIInv, NextIInv, PTL DEF Spec

=============================================================================
