------------------------------ MODULE FabricProofs ------------------------------
(***************************************************************************)
(* The fabric tools, for any switches, target lists, workers, intents and  *)
(* changes: the types of their fan-outs, that a fan-out implements Gather, *)
(* and that what the tools report was so: the links of a topology, the     *)
(* pairs of the MTU check, the drift from an intent, the nodes that a walk *)
(* finds and the loops in a trace.                                         *)
(***************************************************************************)
EXTENDS FabricTools, FiniteSetTheorems, SequenceTheorems, WellFoundedInduction, TLAPS

\* The switches that have an entry.
Entered == {s \in Switches : results[s] # None}

\* What holds of a fan-out between its steps: only future states of an answer are
\* filed; every answer is an error or a state the switch has had since the call began;
\* what was collected has its entry; and the entries are listed once each.
Filed ==
    /\ \A s \in Switches : world[s] \in since[s]
    /\ \A i \in DOMAIN targets :
           future[i].stage = "done" => future[i].answer \in since[targets[i]] \cup {Error}
    /\ \A i \in collected : results[targets[i]] # None
Listed ==
    /\ {order[j] : j \in DOMAIN order} = Entered
    /\ main \in {"waiting", "closing"} => Asking /\ Len(reads) < Reads[scene.tool]
FanInv == TypeOK /\ Filed /\ Listed

\* It holds before the first fan-out.
LEMMA InitInv == Init => FanInv
<1>. SUFFICES ASSUME Init PROVE FanInv
  OBVIOUS
<1>. USE FanOutAssumption DEF Init, FanInit
<1>1. Entered = {} /\ DOMAIN order = {} /\ Len(order) = 0
  BY DEF Entered, NoResults
<1>2. Len(order) = Cardinality({s \in Switches : results[s] # None})
  BY <1>1, FS_EmptySet DEF Entered
<1>3. FanTypeOK
  BY <1>2 DEF FanTypeOK, NoResults, Futures
<1>4. DOMAIN reads = {} /\ Len(reads) = 0 /\ (Asking => 0 <= Reads[scene.tool])
  BY DEF Asking, Reads
<1>5. TypeOK
  BY <1>3, <1>4 DEF TypeOK, FanTypeOK
<1>6. Filed
  BY DEF Filed
<1>7. Listed
  BY <1>1 DEF Listed
<1>. QED
  BY <1>5, <1>6, <1>7 DEF FanInv

\* The steps that leave the fan-out alone.
LEMMA QuietInv ==
    ASSUME FanInv, UNCHANGED <<fanVars, scene, reads, had>>
    PROVE  FanInv'
<1>1. UNCHANGED <<world, changes, targets, future, collected, results, order, main, since,
                  scene, reads, had>>
  BY DEF fanVars, callVars
<1>2. TypeOK'
  <2>1. FanTypeOK'
    BY <1>1 DEF FanInv, TypeOK, FanTypeOK
  <2>2. Asking' = Asking
    BY <1>1 DEF Asking
  <2>. QED
    BY <1>1, <2>1, <2>2 DEF FanInv, TypeOK
<1>3. Filed'
  BY <1>1 DEF FanInv, Filed
<1>4. Listed'
  <2>1. Entered' = Entered /\ Asking' = Asking
    BY <1>1 DEF Entered, Asking
  <2>. QED
    BY <1>1, <2>1 DEF FanInv, Listed
<1>. QED
  BY <1>2, <1>3, <1>4 DEF FanInv

\* What a step on one future leaves as it was.
RestSame == UNCHANGED <<world, changes, targets, scene, reads, had, since>>

\* What the type invariant says of one future.
LEMMA FutureTypes ==
    ASSUME FanInv, NEW i \in DOMAIN targets
    PROVE  /\ targets[i] \in Switches
           /\ future[i] \in Futures
           /\ future[i].stage = "done" => future[i].answer \in Readings \cup {Error}
<1>1. targets[i] \in Switches /\ future[i] \in Futures
  BY DEF FanInv, TypeOK, FanTypeOK
<1>2. future[i].stage = "done" => future[i].answer \in Readings \cup {Error}
  BY <1>1 DEF Futures, Queued, Running, Done
<1>. QED
  BY <1>1, <1>2

\* One more fan-out is over.
LEMMA ReadGrows ==
    ASSUME FanInv, FanTypeOK', NEW e, reads' = Append(reads, e),
           e \in Results,
           {s \in Switches : e.entry[s] # None} = {e.order[j] : j \in DOMAIN e.order},
           UNCHANGED <<scene, had>>, Asking, Len(reads) < Reads[scene.tool]
    PROVE  TypeOK'
<1>1. reads \in Seq(Results)
  BY DEF FanInv, TypeOK
<1>2. /\ reads' \in Seq(Results) /\ Len(reads') = Len(reads) + 1 /\ Len(reads) \in Nat
      /\ DOMAIN reads' = DOMAIN reads \cup {Len(reads) + 1}
      /\ \A i \in DOMAIN reads : reads'[i] = reads[i]
      /\ reads'[Len(reads) + 1] = e
  BY <1>1
<1>3. Asking' => Len(reads') <= Reads[scene'.tool]
  <2>1. Reads[scene.tool] \in Nat
    BY DEF Asking, Reads
  <2>. QED
    BY <1>2, <2>1
<1>4. \A i \in DOMAIN reads' : {s \in Switches : reads'[i].entry[s] # None} =
                                   {reads'[i].order[j] : j \in DOMAIN reads'[i].order}
  <2>1. ASSUME NEW i \in DOMAIN reads
        PROVE  {s \in Switches : reads'[i].entry[s] # None} =
                   {reads'[i].order[j] : j \in DOMAIN reads'[i].order}
    <3>1. reads'[i] = reads[i]
      BY <1>2
    <3>2. {s \in Switches : reads[i].entry[s] # None} =
              {reads[i].order[j] : j \in DOMAIN reads[i].order}
      BY DEF FanInv, TypeOK
    <3>. QED
      BY <3>1, <3>2
  <2>. QED
    BY <1>2, <2>1
<1>. QED
  BY <1>2, <1>3, <1>4 DEF FanInv, TypeOK

\* A fan-out begins: its answers and what its states have been are empty again.
LEMMA CallInv ==
    ASSUME FanInv, NextRead
    PROVE  FanInv'
<1>. USE FanOutAssumption
<1>0. PICK ts \in scene.lists :
          /\ Call(ts)
          /\ reads' = IF ts = << >> THEN Append(reads, [entry |-> NoResults, order |-> << >>]) ELSE reads
  BY DEF NextRead
<1>1. ts \in Calls /\ ts \in Seq(Switches)
  BY FabricAssumption DEF FanInv, TypeOK
<1>2. /\ targets' = ts /\ future' = [i \in DOMAIN ts |-> Queued] /\ collected' = {}
      /\ results' = NoResults /\ order' = << >>
      /\ main' = IF ts = << >> THEN "returned" ELSE "waiting"
      /\ since' = [s \in Switches |-> {world[s]}]
      /\ world' = world /\ changes' = changes /\ scene' = scene /\ had' = had
      /\ Asking /\ Len(reads) < Reads[scene.tool]
      /\ reads' = IF ts = << >> THEN Append(reads, [entry |-> NoResults, order |-> << >>]) ELSE reads
  BY <1>0 DEF NextRead, Call
<1>3. Entered' = {} /\ DOMAIN order' = {} /\ Len(order') = 0
  BY <1>2 DEF Entered, NoResults
<1>4. Len(order') = Cardinality({s \in Switches : results'[s] # None})
  BY <1>3, FS_EmptySet DEF Entered
<1>5. FanTypeOK'
  <2>1. since' \in [Switches -> SUBSET Readings]
    BY <1>2 DEF FanInv, TypeOK, FanTypeOK
  <2>2. results' \in [Switches -> Readings \cup {Error, None}] /\ order' \in Seq(Switches)
    BY <1>2 DEF NoResults
  <2>3. future' \in [DOMAIN targets' -> Futures] /\ collected' \subseteq DOMAIN targets'
    BY <1>2 DEF Futures
  <2>. QED
    BY <1>1, <1>2, <1>4, <2>1, <2>2, <2>3 DEF FanInv, TypeOK, FanTypeOK
<1>6. Filed'
  BY <1>2 DEF Filed, Queued
<1>7. Listed'
  <2>1. {order'[j] : j \in DOMAIN order'} = {}
    BY <1>3
  <2>2. main' \in {"waiting", "closing"} => reads' = reads
    BY <1>2
  <2>. QED
    BY <1>2, <1>3, <2>1, <2>2 DEF Listed, Asking
<1>8. TypeOK'
  <2>1. CASE ts = << >>
    <3>. DEFINE e == [entry |-> NoResults, order |-> << >>]
    <3>1. reads' = Append(reads, e)
      BY <1>2, <2>1
    <3>2. e \in Results
          /\ {s \in Switches : e.entry[s] # None} = {e.order[j] : j \in DOMAIN e.order}
      BY DEF NoResults, Results
    <3>. QED
      BY <1>2, <1>5, <3>1, <3>2, ReadGrows
  <2>2. CASE ts # << >>
    BY <1>2, <1>5, <2>2 DEF FanInv, TypeOK, Asking
  <2>. QED
    BY <2>1, <2>2
<1>. QED
  BY <1>6, <1>7, <1>8 DEF FanInv

\* A result is entered under its switch, in place of an earlier one of a switch named twice.
LEMMA CollectInv ==
    ASSUME FanInv, NEW i \in DOMAIN targets, Collect(i), RestSame
    PROVE  FanInv'
<1>. USE FanOutAssumption DEF RestSame
<1>. DEFINE s == targets[i]
            a == future[i].answer
<1>1. /\ s \in Switches /\ a \in Readings \cup {Error} /\ a # None
      /\ results' = [results EXCEPT ![s] = a]
      /\ collected' = collected \cup {i}
      /\ order' = IF results[s] = None THEN Append(order, s) ELSE order
      /\ future' = future /\ main' = main
  BY FutureTypes DEF Collect
<1>2. /\ results \in [Switches -> Readings \cup {Error, None}]
      /\ order \in Seq(Switches) /\ {order[j] : j \in DOMAIN order} = Entered
      /\ Len(order) = Cardinality(Entered)
  BY DEF FanInv, TypeOK, FanTypeOK, Listed, Entered
<1>. HIDE DEF s, a
<1>3. Entered' = Entered \cup {s}
  BY <1>1, <1>2 DEF Entered
<1>4. order' \in Seq(Switches) /\ {order'[j] : j \in DOMAIN order'} = Entered'
      /\ Len(order') = Cardinality(Entered')
  <2>1. CASE results[s] = None
    <3>1. s \notin Entered /\ IsFiniteSet(Entered)
      BY <2>1, FS_Subset DEF Entered
    <3>2. Cardinality(Entered \cup {s}) = Cardinality(Entered) + 1
      BY <3>1, FS_AddElement
    <3>3. order' = Append(order, s)
      BY <1>1, <2>1
    <3>4. /\ DOMAIN order' = DOMAIN order \cup {Len(order) + 1}
          /\ \A j \in DOMAIN order : order'[j] = order[j]
          /\ order'[Len(order) + 1] = s
          /\ Len(order') = Len(order) + 1 /\ order' \in Seq(Switches)
      BY <1>1, <1>2, <3>3
    <3>5. {order'[j] : j \in DOMAIN order'} = {order[j] : j \in DOMAIN order} \cup {s}
      BY <3>4
    <3>. QED
      BY <1>2, <1>3, <3>2, <3>4, <3>5
  <2>2. CASE results[s] # None
    <3>1. Entered' = Entered
      BY <1>1, <1>3, <2>2 DEF Entered
    <3>. QED
      BY <1>1, <1>2, <2>2, <3>1
  <2>. QED
    BY <2>1, <2>2
<1>5. FanTypeOK'
  <2>1. results' \in [Switches -> Readings \cup {Error, None}]
    BY <1>1, <1>2
  <2>2. collected' \subseteq DOMAIN targets
    BY <1>1 DEF FanInv, TypeOK, FanTypeOK
  <2>. QED
    BY <1>1, <1>4, <2>1, <2>2 DEF FanInv, TypeOK, FanTypeOK, Entered
<1>6. Filed'
  <2>1. ASSUME NEW j \in collected' PROVE results'[targets[j]] # None
    <3>1. CASE j = i
      BY <1>1, <1>2, <3>1 DEF s
    <3>2. CASE j \in collected
      <4>1. targets[j] \in Switches /\ results[targets[j]] # None
        BY <3>2 DEF FanInv, TypeOK, FanTypeOK, Filed
      <4>. QED
        BY <1>1, <1>2, <4>1
    <3>. QED
      BY <1>1, <2>1, <3>1, <3>2
  <2>. QED
    BY <1>1, <2>1 DEF FanInv, Filed
<1>7. Listed'
  BY <1>1, <1>4 DEF FanInv, Listed, Asking
<1>. QED
  BY <1>5, <1>6, <1>7 DEF FanInv, TypeOK, Asking

\* A worker takes up a target, or is done with it.
LEMMA StartInv ==
    ASSUME FanInv, NEW i \in DOMAIN targets, Start(i) \/ Finish(i), RestSame
    PROVE  FanInv'
<1>. USE FanOutAssumption DEF RestSame
<1>1. PICK f \in Futures :
          /\ future' = [future EXCEPT ![i] = f]
          /\ f.stage = "done" => f.answer \in since[targets[i]] \cup {Error}
  <2>1. CASE Start(i)
    <3>1. Running \in Futures /\ Running.stage = "running"
      BY DEF Futures, Running
    <3>2. future' = [future EXCEPT ![i] = Running]
      BY <2>1 DEF Start
    <3>. QED
      BY <3>1, <3>2
  <2>2. CASE Finish(i)
    <3>1. PICK a \in {world[targets[i]], Error} : future' = [future EXCEPT ![i] = Done(a)]
      BY <2>2 DEF Finish
    <3>2. targets[i] \in Switches
      BY FutureTypes
    <3>3. a \in since[targets[i]] \cup {Error} /\ a \in Readings \cup {Error}
      BY <3>2 DEF FanInv, TypeOK, FanTypeOK, Filed
    <3>4. Done(a) \in Futures
      BY <3>3 DEF Futures
    <3>5. Done(a).answer = a
      BY DEF Done
    <3>. QED
      BY <3>1, <3>3, <3>4, <3>5
  <2>. QED
    BY <2>1, <2>2
<1>2. /\ collected' = collected /\ results' = results /\ order' = order /\ main' = main
      /\ Entered' = Entered
  BY DEF Start, Finish, Entered
<1>3. FanTypeOK'
  BY <1>1, <1>2 DEF FanInv, TypeOK, FanTypeOK
<1>4. Filed'
  <2>1. ASSUME NEW j \in DOMAIN targets, future'[j].stage = "done"
        PROVE  future'[j].answer \in since[targets[j]] \cup {Error}
    BY <1>1, <2>1 DEF FanInv, Filed, TypeOK, FanTypeOK
  <2>. QED
    BY <1>2, <2>1 DEF FanInv, Filed
<1>5. Listed'
  BY <1>2 DEF FanInv, Listed, Asking
<1>. QED
  BY <1>3, <1>4, <1>5 DEF FanInv, TypeOK, Asking

\* Every step keeps the invariant.
LEMMA StepInv == FanInv /\ [Next]_vars => FanInv'
<1>. SUFFICES ASSUME FanInv, [Next]_vars PROVE FanInv'
  OBVIOUS
<1>. USE FanOutAssumption
<1>1. CASE UNCHANGED vars
  BY <1>1, QuietInv DEF vars, toolVars
<1>2. CASE NextRead
  BY <1>2, CallInv
<1>3. ASSUME NEW i \in DOMAIN targets, Working(i) PROVE FanInv'
  <2>1. RestSame
    BY <1>3 DEF Working, Work, RestSame, Start, Finish, Collect, toolVars
  <2>. QED
    BY <1>3, <2>1, StartInv, CollectInv DEF Working, Work
<1>4. CASE Returned
  <2>. DEFINE e == [entry |-> results, order |-> order]
  <2>1. /\ main = "waiting" /\ main' = "returned"
        /\ UNCHANGED <<world, changes, targets, future, collected, results, order, since>>
        /\ reads' = Append(reads, e) /\ UNCHANGED <<scene, had>>
    BY <1>4 DEF Returned, Return
  <2>2. Asking /\ Len(reads) < Reads[scene.tool]
    BY <2>1 DEF FanInv, Listed
  <2>3. FanTypeOK'
    BY <2>1 DEF FanInv, TypeOK, FanTypeOK
  <2>4. e \in Results
    BY DEF FanInv, TypeOK, FanTypeOK, Results
  <2>5. {s \in Switches : e.entry[s] # None} = {e.order[j] : j \in DOMAIN e.order}
    BY DEF FanInv, Listed, Entered
  <2>. HIDE DEF e
  <2>6. TypeOK'
    BY <2>1, <2>2, <2>3, <2>4, <2>5, ReadGrows
  <2>7. Filed' /\ Listed'
    BY <2>1 DEF FanInv, Filed, Listed, Entered
  <2>. QED
    BY <2>6, <2>7 DEF FanInv
<1>5. CASE Late
  <2>1. /\ main \in {"waiting", "closing"} /\ main' \in {"closing", "raised"}
        /\ UNCHANGED <<world, changes, targets, future, collected, results, order, since, toolVars>>
    BY <1>5 DEF Late, TimeOut, Raise
  <2>2. UNCHANGED <<scene, reads, had>> /\ Asking' = Asking
    BY <2>1 DEF toolVars, Asking
  <2>3. FanTypeOK'
    BY <2>1, <2>2 DEF FanInv, TypeOK, FanTypeOK
  <2>4. TypeOK'
    BY <2>2, <2>3 DEF FanInv, TypeOK
  <2>5. Filed'
    BY <2>1 DEF FanInv, Filed
  <2>6. Listed'
    BY <2>1, <2>2 DEF FanInv, Listed, Entered
  <2>. QED
    BY <2>4, <2>5, <2>6 DEF FanInv
<1>6. CASE Raised \/ AllReport \/ HealthReport \/ Lookup \/ MtuReport \/ NoIntent
           \/ ValidateReport \/ DiscoverReport \/ LoopReport
  BY <1>6, QuietInv DEF Raised, AllReport, HealthReport, Lookup, MtuReport, NoIntent, ValidateReport,
       DiscoverReport, LoopReport
<1>7. CASE ChangeSwitch
  <2>1. PICK c \in MayChange[scene.tool] : Change(c[1], c[2]) /\ had' = [had EXCEPT ![c[1]] = @ \cup {c[2]}]
    BY <1>7 DEF ChangeSwitch
  <2>2. c[1] \in Switches /\ c[2] \in Readings
    BY <2>1, FabricAssumption DEF FanInv, TypeOK
  <2>3. /\ world' = [world EXCEPT ![c[1]] = c[2]] /\ changes' = changes + 1
        /\ since' = [since EXCEPT ![c[1]] = @ \cup {c[2]}]
        /\ UNCHANGED <<callVars, scene, reads>>
    BY <1>7, <2>1 DEF Change, ChangeSwitch
  <2>4. TypeOK'
    BY <2>1, <2>2, <2>3 DEF FanInv, TypeOK, FanTypeOK, callVars, Asking
  <2>5. \A s \in Switches : world'[s] \in since'[s] /\ since[s] \subseteq since'[s]
    BY <2>2, <2>3 DEF FanInv, TypeOK, FanTypeOK, Filed
  <2>6. Filed'
    BY <2>3, <2>5, FutureTypes DEF FanInv, Filed, callVars, TypeOK, FanTypeOK
  <2>7. Listed'
    BY <2>3 DEF FanInv, Listed, Entered, Asking, callVars
  <2>. QED
    BY <2>4, <2>6, <2>7 DEF FanInv
<1>. QED
  BY <1>1, <1>2, <1>3, <1>4, <1>5, <1>6, <1>7 DEF Next, ToolStep

\* The invariant holds of every behaviour.
LEMMA FanInvCorrect == Spec => []FanInv
BY InitInv, StepInv, PTL DEF Spec

\* The variables of the fan-out and of the tools keep their types; in particular the
\* dictionary that a fan-out returns lists every entry once.
THEOREM TypeCorrect == Spec => []TypeOK
BY FanInvCorrect, PTL DEF FanInv

----------------------------------------------------------------------------
(* The refinement.                                                         *)

\* The initial states are initial states of Gather.
LEMMA InitRefines == FanInv /\ Init => G!Init
BY DEF Init, FanInit, G!Init, Asked, Phase, FanInv, TypeOK, FanTypeOK, NoResults

\* What Gather's variables do when a step of the tools leaves the fan-out alone.
LEMMA QuietRefines ==
    ASSUME UNCHANGED <<targets, since, results, main>>
    PROVE  UNCHANGED G!vars
BY DEF G!vars, Asked, Phase

\* Every step is a step of Gather, or a stutter there.
LEMMA StepRefines == FanInv /\ FanInv' /\ [Next]_vars => [G!Next]_(G!vars)
<1>. SUFFICES ASSUME FanInv, FanInv', [Next]_vars PROVE [G!Next]_(G!vars)
  OBVIOUS
<1>. USE FanOutAssumption
<1>1. CASE UNCHANGED vars
  BY <1>1, QuietRefines DEF vars, fanVars, callVars
<1>2. CASE NextRead
  <2>0. PICK ts \in scene.lists : Call(ts)
    BY <1>2 DEF NextRead
  <2>1. ts \in Seq(Switches)
    BY FabricAssumption DEF FanInv, TypeOK
  <2>2. /\ main \in {"idle", "returned"} /\ targets' = ts /\ results' = NoResults
        /\ main' = IF ts = << >> THEN "returned" ELSE "waiting"
    BY <1>2, <2>0 DEF NextRead, Call
  <2>3. Phase \in {"idle", "returned", "raised"}
    BY <2>2 DEF Phase
  <2>4. Asked' \in SUBSET Switches
    BY <2>1, <2>2 DEF Asked
  <2>5. since' \in [Switches -> SUBSET Readings]
    BY DEF FanInv, TypeOK, FanTypeOK
  <2>6. Phase' \in {"asking", "returned"} /\ (Phase' = "returned" => Asked' = {})
    <3>1. CASE ts = << >>
      BY <2>2, <3>1 DEF Phase, Asked
    <3>2. CASE ts # << >>
      BY <2>2, <3>2 DEF Phase
    <3>. QED
      BY <3>1, <3>2
  <2>7. G!Ask
    BY <2>2, <2>3, <2>4, <2>5, <2>6 DEF G!Ask, NoResults
  <2>. QED
    BY <2>7 DEF G!Next
<1>3. ASSUME NEW i \in DOMAIN targets, Working(i) PROVE [G!Next]_(G!vars)
  <2>1. CASE Start(i) \/ Finish(i)
    BY <2>1, QuietRefines DEF Start, Finish
  <2>2. CASE Collect(i)
    <3>1. targets[i] \in Switches /\ future[i].answer \in since[targets[i]] \cup {Error}
      BY <2>2, FutureTypes DEF Collect, FanInv, Filed
    <3>2. Phase = "asking" /\ targets[i] \in Asked
      BY <2>2 DEF Collect, Phase, Asked
    <3>3. results' = [results EXCEPT ![targets[i]] = future[i].answer]
          /\ Asked' = Asked /\ since' = since /\ Phase' = Phase
      BY <2>2 DEF Collect, Asked, Phase
    <3>4. G!Answer(targets[i])
      BY <3>1, <3>2, <3>3 DEF G!Answer
    <3>. QED
      BY <3>1, <3>4 DEF G!Next
  <2>. QED
    BY <1>3, <2>1, <2>2 DEF Working, Work
<1>4. CASE Returned
  <2>1. /\ main = "waiting" /\ collected = DOMAIN targets /\ main' = "returned"
        /\ UNCHANGED <<targets, results, since>>
    BY <1>4 DEF Returned, Return
  <2>2. \A s \in Asked : results[s] # None
    BY <2>1 DEF Asked, FanInv, Filed
  <2>3. Phase = "asking" /\ Phase' = "returned" /\ Asked' = Asked
    BY <2>1 DEF Phase, Asked
  <2>4. G!Return
    BY <2>1, <2>2, <2>3 DEF G!Return
  <2>. QED
    BY <2>4 DEF G!Next
<1>5. CASE Late
  <2>1. CASE TimeOut
    BY <2>1 DEF TimeOut, G!vars, Asked, Phase
  <2>2. CASE Raise
    <3>1. Phase = "asking" /\ Phase' = "raised" /\ UNCHANGED <<Asked, since, results>>
      BY <2>2 DEF Raise, Phase, Asked
    <3>. QED
      BY <3>1 DEF G!Raise, G!Next
  <2>. QED
    BY <1>5, <2>1, <2>2 DEF Late
<1>6. CASE Raised \/ AllReport \/ HealthReport \/ Lookup \/ MtuReport \/ NoIntent
           \/ ValidateReport \/ DiscoverReport \/ LoopReport
  BY <1>6, QuietRefines DEF Raised, AllReport, HealthReport, Lookup, MtuReport, NoIntent, ValidateReport,
       DiscoverReport, LoopReport, fanVars, callVars
<1>7. CASE ChangeSwitch
  <2>1. PICK c \in MayChange[scene.tool] : Change(c[1], c[2])
    BY <1>7 DEF ChangeSwitch
  <2>2. c[1] \in Switches /\ c[2] \in Readings
    BY <2>1, FabricAssumption DEF FanInv, TypeOK
  <2>3. since' = [since EXCEPT ![c[1]] = @ \cup {c[2]}] /\ UNCHANGED <<Asked, results, Phase>>
    BY <2>1 DEF Change, callVars, Asked, Phase
  <2>4. G!Change
    BY <2>2, <2>3 DEF G!Change
  <2>. QED
    BY <2>4 DEF G!Next
<1>. QED
  BY <1>1, <1>2, <1>3, <1>4, <1>5, <1>6, <1>7 DEF Next, ToolStep

\* However its workers are scheduled, and also when a switch is named twice or changes
\* under way, a fan-out does what Gather promises to the tools.
THEOREM GathersCorrect == Spec => Gathers
<1>1. Init => G!Init
  BY InitInv, InitRefines
<1>2. FanInv /\ FanInv' /\ [Next]_vars => [G!Next]_(G!vars)
  BY StepRefines
<1>. QED
  BY <1>1, <1>2, FanInvCorrect, PTL DEF Spec, Gathers, G!Spec

----------------------------------------------------------------------------
(* What the reports are made of.                                           *)

\* Whatever was read of a switch, it is an error or a state the switch has had since the
\* tool was called.
Kept ==
    /\ \A s \in Switches : since[s] \subseteq had[s] /\ results[s] \in had[s] \cup {Error, None}
    /\ \A i \in DOMAIN reads : \A s \in Switches : reads[i].entry[s] \in had[s] \cup {Error, None}
    /\ \A e \in DOMAIN local : e.source \in Switches /\ local[e] \in had[e.source] \cup {Error}

Pairs == R!MtuPairs(R!Edges(reads[3], reads[2]), local, reads[4])

DriftOf == [s \in DOMAIN scene.intent |->
                R!Drift(scene.intent[s], reads[1], reads[2], reads[3], s)]

Found == P!Discover(scene.seed, scene.neighbours, scene.deaf, scene.known, scene.maxHops,
                    scene.answering)

Lines == P!Trace(scene.route, scene.source, scene.target, scene.up, scene.silent, scene.maxHops)

\* All the fan-outs of a tool are over.
AllRead(tool) == Asking /\ scene.tool = tool /\ Len(reads) = Reads[tool]

\* A report was computed from what had been read, and nothing has been read since.
Frozen ==
    report # None =>
        /\ main \notin {"waiting", "closing"}
        /\ report.tool = "health" =>
               /\ AllRead("health")
               /\ report.health = R!Health(reads[1], reads[2], reads[3])
        /\ report.tool = "mtu" =>
               /\ AllRead("mtu") /\ DOMAIN local = R!Edges(reads[3], reads[2])
               /\ report.pairs = Pairs
        /\ report.tool = "validate" =>
               /\ scene.tool = "validate"
               /\ scene.file = "intent" => AllRead("validate") /\ report.drift = DriftOf
        /\ report.tool = "discover" => scene.tool = "discover" /\ report.found = Found
        /\ report.tool = "loop" =>
               /\ scene.tool = "loop"
               /\ IF report.status = "ok"
                  THEN /\ report.looping = P!DupHop(Lines)
                       /\ report.reached = P!Reached(Lines, scene.target)
                  ELSE ~report.looping /\ ~report.reached

ReportInv == FanInv /\ Kept /\ Frozen

\* It holds before the first fan-out.
LEMMA ReportInit == Init => ReportInv
<1>. SUFFICES ASSUME Init PROVE ReportInv
  OBVIOUS
<1>1. Kept
  BY DEF Init, FanInit, NoResults, Kept
<1>2. Frozen
  BY DEF Init, Frozen
<1>. QED
  BY <1>1, <1>2, InitInv DEF ReportInv

\* One more result that was read while the tool ran.
LEMMA KeptGrows ==
    ASSUME ReportInv, NEW e, reads' = Append(reads, e),
           \A s \in Switches : e.entry[s] \in had[s] \cup {Error, None}
    PROVE  \A i \in DOMAIN reads' : \A s \in Switches :
               reads'[i].entry[s] \in had[s] \cup {Error, None}
<1>1. reads \in Seq(Results)
  BY DEF ReportInv, FanInv, TypeOK
<1>2. /\ DOMAIN reads' = DOMAIN reads \cup {Len(reads) + 1}
      /\ \A i \in DOMAIN reads : reads'[i] = reads[i]
      /\ reads'[Len(reads) + 1] = e
  BY <1>1
<1>. QED
  BY <1>2 DEF ReportInv, Kept

\* What is read is a state of that moment, and every moment of a fan-out is one of its tool.
LEMMA KeptStep == ReportInv /\ [Next]_vars => Kept'
<1>. SUFFICES ASSUME ReportInv, [Next]_vars PROVE Kept'
  OBVIOUS
<1>0. /\ FanInv /\ Kept
      /\ world \in [Switches -> Readings] /\ had \in [Switches -> SUBSET Readings]
      /\ since \in [Switches -> SUBSET Readings]
      /\ results \in [Switches -> Readings \cup {Error, None}]
  BY DEF ReportInv, FanInv, TypeOK, FanTypeOK
<1>1. CASE UNCHANGED <<since, results, reads, local, had>>
  BY <1>0, <1>1 DEF Kept
<1>2. CASE NextRead
  <2>1. /\ since' = [s \in Switches |-> {world[s]}] /\ results' = NoResults
        /\ local' = local /\ had' = had
        /\ reads' = reads \/ reads' = Append(reads, [entry |-> NoResults, order |-> << >>])
    BY <1>2 DEF NextRead, Call
  <2>2. \A s \in Switches : since'[s] \subseteq had[s]
    BY <1>0, <2>1 DEF FanInv, Filed, Kept
  <2>3. \A i \in DOMAIN reads' : \A s \in Switches :
            reads'[i].entry[s] \in had[s] \cup {Error, None}
    <3>1. CASE reads' = reads
      BY <1>0, <3>1 DEF Kept
    <3>2. CASE reads' = Append(reads, [entry |-> NoResults, order |-> << >>])
      <4>. DEFINE e == [entry |-> NoResults, order |-> << >>]
      <4>1. \A s \in Switches : e.entry[s] \in had[s] \cup {Error, None}
        BY DEF NoResults
      <4>2. reads' = Append(reads, e)
        BY <3>2
      <4>. HIDE DEF e
      <4>. QED
        BY <4>1, <4>2, KeptGrows
    <3>. QED
      BY <2>1, <3>1, <3>2
  <2>. QED
    BY <1>0, <2>1, <2>2, <2>3 DEF Kept, NoResults
<1>3. ASSUME NEW i \in DOMAIN targets, Working(i) PROVE Kept'
  <2>1. CASE Start(i) \/ Finish(i)
    BY <1>1, <1>3, <2>1 DEF Working, Start, Finish, toolVars
  <2>2. CASE Collect(i)
    <3>1. targets[i] \in Switches /\ future[i].answer \in since[targets[i]] \cup {Error}
      BY <1>0, <2>2, FutureTypes DEF Collect, FanInv, Filed
    <3>2. results' = [results EXCEPT ![targets[i]] = future[i].answer]
          /\ UNCHANGED <<since, reads, local, had>>
      BY <1>3, <2>2 DEF Collect, Working, toolVars
    <3>. QED
      BY <1>0, <3>1, <3>2 DEF Kept
  <2>. QED
    BY <1>3, <2>1, <2>2 DEF Working, Work
<1>4. CASE Returned
  <2>. DEFINE e == [entry |-> results, order |-> order]
  <2>1. reads' = Append(reads, e) /\ UNCHANGED <<since, results, local, had>>
    BY <1>4 DEF Returned, Return
  <2>2. \A s \in Switches : e.entry[s] \in had[s] \cup {Error, None}
    BY <1>0 DEF Kept
  <2>. HIDE DEF e
  <2>. QED
    BY <1>0, <2>1, <2>2, KeptGrows DEF Kept
<1>5. CASE Late \/ Raised \/ AllReport \/ HealthReport \/ MtuReport \/ NoIntent
           \/ ValidateReport \/ DiscoverReport \/ LoopReport
  <2>1. CASE Late
    BY <1>1, <2>1 DEF Late, TimeOut, Raise, toolVars
  <2>2. UNCHANGED <<fanVars, reads, local, had>> \/ Late
    BY <1>5 DEF Raised, AllReport, HealthReport, MtuReport, NoIntent, ValidateReport,
         DiscoverReport, LoopReport
  <2>. QED
    BY <1>1, <2>1, <2>2 DEF fanVars, callVars
<1>6. CASE Lookup
  <2>1. PICK e \in R!Edges(reads[3], reads[2]) :
            /\ \E a \in {world[e.source], Error} :
                   local' = [d \in DOMAIN local \cup {e} |-> IF d = e THEN a ELSE local[d]]
            /\ UNCHANGED <<since, results, reads, had>>
    BY <1>6 DEF Lookup, fanVars, callVars
  <2>2. PICK a \in {world[e.source], Error} :
            local' = [d \in DOMAIN local \cup {e} |-> IF d = e THEN a ELSE local[d]]
    BY <2>1
  <2>3. e.source \in Switches
    BY DEF R!Edges, R!BgpEdges, R!Oks
  <2>4. a \in had[e.source] \cup {Error}
    BY <1>0, <2>3 DEF FanInv, Filed, Kept
  <2>5. \A d \in DOMAIN local' : (d = e /\ local'[d] = a) \/ (d \in DOMAIN local /\ local'[d] = local[d])
    BY <2>2
  <2>. QED
    BY <1>0, <2>1, <2>3, <2>4, <2>5 DEF Kept
<1>7. CASE ChangeSwitch
  <2>1. PICK c \in MayChange[scene.tool] : Change(c[1], c[2]) /\ had' = [had EXCEPT ![c[1]] = @ \cup {c[2]}]
    BY <1>7 DEF ChangeSwitch
  <2>2. c[1] \in Switches
    BY <2>1, FabricAssumption DEF ReportInv, FanInv, TypeOK
  <2>3. /\ since' = [since EXCEPT ![c[1]] = @ \cup {c[2]}]
        /\ UNCHANGED <<results, reads, local>>
    BY <1>7, <2>1 DEF Change, ChangeSwitch, callVars
  <2>4. \A s \in Switches : since'[s] \subseteq had'[s] /\ had[s] \subseteq had'[s]
    BY <1>0, <2>1, <2>2, <2>3 DEF Kept
  <2>. QED
    BY <1>0, <2>3, <2>4 DEF Kept
<1>8. CASE UNCHANGED vars
  BY <1>1, <1>8 DEF vars, fanVars, callVars, toolVars
<1>. QED
  BY <1>2, <1>3, <1>4, <1>5, <1>6, <1>7, <1>8 DEF Next, ToolStep

\* While there is no report, no step but that of a report makes one; then all is still.
LEMMA FrozenStep == ReportInv /\ [Next]_vars => Frozen'
<1>. SUFFICES ASSUME ReportInv, [Next]_vars PROVE Frozen'
  OBVIOUS
<1>0. /\ Frozen
      /\ main \in {"waiting", "closing"} => Asking /\ Len(reads) < Reads[scene.tool]
  BY DEF ReportInv, FanInv, Listed
<1>. DEFINE Same == UNCHANGED <<scene, reads, local, report>>
<1>1. CASE Same /\ main' \notin {"waiting", "closing"}
  <2>1. UNCHANGED <<Named, Pairs, DriftOf, Found, Lines>>
    BY <1>1 DEF Named, Pairs, DriftOf, Found, Lines
  <2>. QED
    BY <1>0, <1>1, <2>1 DEF Frozen, AllRead, Asking
<1>2. CASE report' = None
  BY <1>2 DEF Frozen
<1>3. CASE report # None
  <2>1. main \notin {"waiting", "closing"}
    BY <1>0, <1>3 DEF Frozen
  <2>2. ASSUME NEW i \in DOMAIN targets, Working(i) PROVE Same /\ main' = main
    BY <2>1, <2>2 DEF Working, Work, Start, Finish, Collect, toolVars
  <2>3. Same /\ main' = main
    BY <1>3, <2>1, <2>2 DEF Next, ToolStep, NextRead, Returned, Return, Late, TimeOut, Raise,
       Raised, AllReport, HealthReport, Lookup, MtuReport, NoIntent, ValidateReport,
       DiscoverReport, LoopReport, ChangeSwitch, Complete, vars, fanVars, callVars, toolVars
  <2>. QED
    BY <1>1, <2>1, <2>3
<1>4. CASE report = None /\ Raised
  <2>1. report' = [tool |-> "raised"] /\ main' = "raised"
    BY <1>4 DEF Raised, fanVars, callVars
  <2>. QED
    BY <2>1 DEF Frozen
<1>5. ASSUME report = None, NEW tool, Complete(tool), UNCHANGED <<fanVars, scene, reads, local, had>>
      PROVE  /\ AllRead(tool) /\ AllRead(tool)' /\ main' \notin {"waiting", "closing"}
             /\ UNCHANGED <<Named, Pairs, DriftOf, reads, local>>
  <2>1. AllRead(tool) /\ AllRead(tool)' /\ main' = main
    BY <1>5 DEF Complete, AllRead, Asking, fanVars, callVars
  <2>2. main' \notin {"waiting", "closing"}
    BY <1>0, <2>1 DEF AllRead, Reads
  <2>. QED
    BY <1>5, <2>1, <2>2 DEF Named, Pairs, DriftOf
<1>6. CASE report = None /\ AllReport
  BY <1>5, <1>6 DEF AllReport, Frozen
<1>7. CASE report = None /\ HealthReport
  BY <1>5, <1>7 DEF HealthReport, Frozen
<1>8. CASE report = None /\ MtuReport
  BY <1>5, <1>8 DEF MtuReport, Frozen, Pairs
<1>9. CASE report = None /\ ValidateReport
  BY <1>5, <1>9 DEF ValidateReport, Frozen, DriftOf, AllRead
<1>10. ASSUME ~Asking, UNCHANGED <<fanVars, scene, reads, local, had>>
       PROVE  main' \notin {"waiting", "closing"} /\ UNCHANGED <<scene, Found, Lines>>
  BY <1>0, <1>10 DEF Asking, Reads, fanVars, callVars, Found, Lines
<1>11. CASE report = None /\ DiscoverReport
  BY <1>10, <1>11 DEF DiscoverReport, Frozen, Found, Asking, Reads
<1>12. CASE report = None /\ LoopReport
  BY <1>10, <1>12 DEF LoopReport, Frozen, Lines, Asking, Reads
<1>14. CASE report = None /\ NoIntent
  BY <1>10, <1>14 DEF NoIntent, Frozen, Asking
<1>13. CASE report = None /\ UNCHANGED report
  BY <1>2, <1>13
<1>. QED
  BY <1>3, <1>4, <1>6, <1>7, <1>8, <1>9, <1>11, <1>12, <1>13, <1>14
     DEF Next, ToolStep, NextRead, Returned, Late, Lookup, ChangeSwitch, Working, vars, toolVars

\* The invariant holds of every behaviour.
LEMMA ReportInvCorrect == Spec => []ReportInv
<1>1. ReportInv /\ [Next]_vars => ReportInv'
  BY StepInv, KeptStep, FrozenStep DEF ReportInv
<1>. QED
  BY ReportInit, <1>1, PTL DEF Spec

----------------------------------------------------------------------------
(* Links.                                                                  *)

\* The order of the natural numbers as a relation.
Below == {p \in Nat \X Nat : p[1] < p[2]}

\* Any set of natural numbers that is not empty has a least member.
LEMMA LeastExists ==
    ASSUME NEW S \in SUBSET Nat, S # {}
    PROVE  \E n \in S : \A m \in S : n <= m
<1>1. IsWellFoundedOn(Below, Nat)
  BY NatLessThanWellFounded DEF OpToRel, Below
<1>2. PICK n \in S : \A m \in S : ~(<<m, n>> \in Below)
  BY <1>1, WFMin
<1>3. ASSUME NEW m \in S PROVE n <= m
  <2>1. <<m, n>> \in Nat \X Nat /\ <<m, n>>[1] = m /\ <<m, n>>[2] = n
    OBVIOUS
  <2>2. ~(m < n)
    BY <1>2, <2>1 DEF Below
  <2>. QED
    BY <2>2
<1>. QED
  BY <1>3

\* The dictionary lists the entries of a result.
Dictionary(read) ==
    /\ read \in Results
    /\ {s \in Switches : read.entry[s] # None} = {read.order[j] : j \in DOMAIN read.order}

\* A switch with an entry has a place in the dictionary.
LEMMA PosTypes ==
    ASSUME NEW read, Dictionary(read), NEW s \in R!Oks(read)
    PROVE  R!Pos(read, s) \in Nat /\ R!Pos(read, s) <= Len(read.order)
<1>1. PICK i \in DOMAIN read.order : read.order[i] = s
  BY DEF R!Oks, Dictionary
<1>2. R!Pos(read, s) \in DOMAIN read.order
  BY <1>1 DEF R!Pos
<1>3. read.order \in Seq(Switches)
  BY DEF Dictionary, Results
<1>. QED
  BY <1>2, <1>3

\* An address that switches carry is owned by one of them, any other by nobody.
LEMMA OwnerCarries ==
    ASSUME NEW read, Dictionary(read), NEW a
    PROVE  /\ R!Carriers(read, a) = {} => R!Owner(read, a) = None
           /\ R!Carriers(read, a) # {} => R!Owner(read, a) \in R!Carriers(read, a)
<1>1. CASE R!Carriers(read, a) = {}
  BY <1>1 DEF R!Owner
<1>2. CASE R!Carriers(read, a) # {}
  <2>. DEFINE on == R!Carriers(read, a)
              last == Len(read.order)
              S == {last - R!Pos(read, d[1]) : d \in on}
  <2>1. last \in Nat
    BY DEF Dictionary, Results
  <2>2. \A d \in on : R!Pos(read, d[1]) \in Nat /\ R!Pos(read, d[1]) <= last
    BY PosTypes DEF R!Carriers
  <2>. HIDE DEF last, on
  <2>3. S \in SUBSET Nat /\ S # {}
    BY <1>2, <2>1, <2>2 DEF on
  <2>4. PICK n \in S : \A m \in S : n <= m
    BY <2>3, LeastExists
  <2>5. PICK c \in on : n = last - R!Pos(read, c[1])
    BY <2>4
  <2>6. \A d \in on : R!Pos(read, d[1]) <= R!Pos(read, c[1])
    <3>. TAKE d \in on
    <3>1. last - R!Pos(read, c[1]) <= last - R!Pos(read, d[1])
      BY <2>4, <2>5
    <3>. QED
      BY <2>1, <2>2, <3>1
  <2>. QED
    BY <1>2, <2>6 DEF R!Owner, on
<1>. QED
  BY <1>1, <1>2

\* What is carried was read.
LEMMA CarriersRead ==
    ASSUME ReportInv, NEW i \in DOMAIN reads, NEW a, NEW x \in R!Carriers(reads[i], a)
    PROVE  /\ x[1] \in Switches /\ x[2] \in Ifaces /\ x \in Switches \X Ifaces
           /\ reads[i].entry[x[1]] \in had[x[1]]
           /\ reads[i].entry[x[1]].ifs[x[2]].addr = a
BY DEF R!Carriers, R!Oks, ReportInv, Kept

\* Every result has its dictionary.
LEMMA ReadsListed == ReportInv => \A i \in DOMAIN reads : Dictionary(reads[i])
BY DEF ReportInv, FanInv, TypeOK, Dictionary

\* An edge that is shown: its source and its target were both read.
LEMMA EdgesRead ==
    ASSUME ReportInv, NEW i \in DOMAIN reads, NEW j \in DOMAIN reads,
           NEW e \in R!Edges(reads[j], reads[i])
    PROVE  /\ e.source \in Switches /\ e.peer \in Addrs
           /\ e.source \in R!Oks(reads[j])
           /\ reads[j].entry[e.source] \in had[e.source]
           /\ reads[j].entry[e.source].peers[e.peer].state # "none"
           /\ e.established <=> reads[j].entry[e.source].peers[e.peer].state = "up"
           /\ e.target \in R!Carriers(reads[i], e.peer)
<1>1. PICK x \in R!Oks(reads[j]) \X Addrs :
          /\ reads[j].entry[x[1]].peers[x[2]].state # "none"
          /\ e = [source |-> x[1], peer |-> x[2], target |-> R!Owner(reads[i], x[2]),
                  established |-> reads[j].entry[x[1]].peers[x[2]].state = "up"]
  BY DEF R!Edges, R!BgpEdges
<1>2. e.target # None
  BY DEF R!Edges
<1>3. /\ e.source = x[1] /\ e.peer = x[2] /\ e.target = R!Owner(reads[i], x[2])
      /\ e.established = (reads[j].entry[x[1]].peers[x[2]].state = "up")
  BY <1>1
<1>4. e.target \in R!Carriers(reads[i], e.peer)
  BY <1>2, <1>3, OwnerCarries, ReadsListed
<1>5. x[1] \in Switches /\ reads[j].entry[x[1]] \in had[x[1]]
  BY <1>1 DEF R!Oks, ReportInv, Kept
<1>. QED
  BY <1>1, <1>3, <1>4, <1>5

\* Each session of an answer has its edge.
LEMMA SessionHasEdge ==
    ASSUME NEW bgp, NEW ips, NEW s \in R!Oks(bgp), NEW a \in Addrs,
           bgp.entry[s].peers[a].state # "none"
    PROVE  \E e \in R!BgpEdges(bgp, ips) :
               /\ e.source = s /\ e.peer = a /\ e.target = R!Owner(ips, a)
               /\ \A d \in R!BgpEdges(bgp, ips) : d.source = s /\ d.peer = a => d = e
<1>. DEFINE e == [source |-> s, peer |-> a, target |-> R!Owner(ips, a),
                  established |-> bgp.entry[s].peers[a].state = "up"]
<1>1. e \in R!BgpEdges(bgp, ips)
  <2>. DEFINE of == {x \in R!Oks(bgp) \X Addrs : bgp.entry[x[1]].peers[x[2]].state # "none"}
              edge(x) == [source |-> x[1], peer |-> x[2], target |-> R!Owner(ips, x[2]),
                          established |-> bgp.entry[x[1]].peers[x[2]].state = "up"]
  <2>1. <<s, a>> \in of
    OBVIOUS
  <2>2. e = edge(<<s, a>>)
    OBVIOUS
  <2>3. R!BgpEdges(bgp, ips) = {edge(x) : x \in of}
    BY DEF R!BgpEdges
  <2>. HIDE DEF of, edge, e
  <2>. QED
    BY <2>1, <2>2, <2>3
<1>2. \A d \in R!BgpEdges(bgp, ips) : d.source = s /\ d.peer = a => d = e
  BY DEF R!BgpEdges
<1>. QED
  BY <1>1, <1>2

\* A health report shows what the answers of its three fan-outs were.
LEMMA LinksStep == ReportInv => LinksWereReal
<1>. SUFFICES ASSUME ReportInv, Reported("health")
              PROVE  LET h == report.health
                     IN /\ \A e \in h.healthy \cup h.broken :
                               /\ \E r \in had[e.source] :
                                      r.peers[e.peer].state = IF e \in h.healthy THEN "up" ELSE "down"
                               /\ \E r \in had[e.target[1]] : r.ifs[e.target[2]].addr = e.peer
                        /\ Still /\ AllAnswered =>
                               \A x \in Sessions :
                                   /\ Shown(h.orphan, x) <=> ~(Shown(h.healthy, x) \/ Shown(h.broken, x))
                                   /\ Shown(h.healthy, x) => ~Shown(h.broken, x)
                                   /\ Shown(h.orphan, x) <=> ~Owned(x[2])
  BY DEF LinksWereReal
<1>. DEFINE h == report.health
            ips == reads[2]
            bgp == reads[3]
<1>1. 2 \in DOMAIN reads /\ 3 \in DOMAIN reads
  <2>1. Len(reads) = 4 /\ reads \in Seq(Results)
    BY DEF ReportInv, Frozen, Reported, AllRead, Reads, FanInv, TypeOK
  <2>. QED
    BY <2>1
<1>2. /\ h.healthy = {e \in R!Edges(bgp, ips) : e.established}
      /\ h.broken = {e \in R!Edges(bgp, ips) : ~e.established}
      /\ h.orphan = R!BgpEdges(bgp, ips) \ R!Edges(bgp, ips)
  <2>1. h = R!Health(reads[1], reads[2], reads[3])
    BY DEF ReportInv, Frozen, Reported
  <2>. QED
    BY <2>1 DEF R!Health
<1>. HIDE DEF h, ips, bgp
<1>3. \A e \in h.healthy \cup h.broken :
          /\ \E r \in had[e.source] :
                 r.peers[e.peer].state = IF e \in h.healthy THEN "up" ELSE "down"
          /\ \E r \in had[e.target[1]] : r.ifs[e.target[2]].addr = e.peer
  <2>. SUFFICES ASSUME NEW e \in R!Edges(bgp, ips)
                PROVE  /\ \E r \in had[e.source] :
                              r.peers[e.peer].state = IF e.established THEN "up" ELSE "down"
                       /\ \E r \in had[e.target[1]] : r.ifs[e.target[2]].addr = e.peer
    BY <1>2
  <2>1. /\ e.source \in Switches /\ e.peer \in Addrs
        /\ bgp.entry[e.source] \in had[e.source]
        /\ bgp.entry[e.source].peers[e.peer].state # "none"
        /\ e.established <=> bgp.entry[e.source].peers[e.peer].state = "up"
        /\ e.target \in R!Carriers(ips, e.peer)
    BY <1>1, EdgesRead DEF ips, bgp
  <2>2. bgp.entry[e.source] \in Readings
    BY <2>1 DEF ReportInv, FanInv, TypeOK
  <2>3. bgp.entry[e.source].peers[e.peer].state \in {"none", "up", "down"}
    BY <2>1, <2>2, FabricAssumption
  <2>4. ips.entry[e.target[1]] \in had[e.target[1]]
        /\ ips.entry[e.target[1]].ifs[e.target[2]].addr = e.peer
    BY <1>1, <2>1, CarriersRead DEF ips
  <2>. QED
    BY <2>1, <2>3, <2>4
<1>4. ASSUME Still, AllAnswered, NEW x \in Sessions
      PROVE  /\ Shown(h.orphan, x) <=> ~(Shown(h.healthy, x) \/ Shown(h.broken, x))
             /\ Shown(h.healthy, x) => ~Shown(h.broken, x)
             /\ Shown(h.orphan, x) <=> ~Owned(x[2])
  <2>1. R!Oks(ips) = Named /\ R!Oks(bgp) = Named
    BY <1>1, <1>4 DEF AllAnswered, ips, bgp
  <2>2. \A s \in Named : s \in Switches /\ ips.entry[s] = world[s] /\ bgp.entry[s] = world[s]
    BY <1>1, <1>4, <2>1 DEF Still, R!Oks, ReportInv, Kept, ips, bgp
  <2>3. x[1] \in Named /\ x[2] \in Addrs /\ bgp.entry[x[1]].peers[x[2]].state # "none"
    BY <2>2 DEF Sessions
  <2>4. PICK e \in R!BgpEdges(bgp, ips) :
            /\ e.source = x[1] /\ e.peer = x[2] /\ e.target = R!Owner(ips, x[2])
            /\ \A d \in R!BgpEdges(bgp, ips) : d.source = x[1] /\ d.peer = x[2] => d = e
    BY <2>1, <2>3, SessionHasEdge
  <2>5. e.target = None <=> ~Owned(x[2])
    <3>1. R!Carriers(ips, x[2]) = {} <=> ~Owned(x[2])
      <4>1. ASSUME NEW c \in R!Carriers(ips, x[2]) PROVE Owned(x[2])
        BY <2>1, <2>2 DEF R!Carriers, Owned, HasAddress
      <4>2. ASSUME NEW s \in Named, NEW f \in Ifaces, HasAddress(s, f, x[2])
            PROVE  <<s, f>> \in R!Carriers(ips, x[2])
        BY <2>1, <2>2, <4>2 DEF R!Carriers, HasAddress
      <4>. QED
        BY <4>1, <4>2 DEF Owned
    <3>2. R!Carriers(ips, x[2]) # {} => e.target \in Switches \X Ifaces
      BY <1>1, <2>4, ReadsListed, OwnerCarries, CarriersRead DEF ips
    <3>3. R!Carriers(ips, x[2]) = {} => e.target = None
      BY <1>1, <2>4, ReadsListed, OwnerCarries DEF ips
    <3>. QED
      BY <3>1, <3>2, <3>3, FabricAssumption
  <2>6. /\ Shown(h.orphan, x) <=> e.target = None
        /\ Shown(h.healthy, x) <=> e.target # None /\ e.established
        /\ Shown(h.broken, x) <=> e.target # None /\ ~e.established
    BY <1>2, <2>4 DEF Shown, R!Edges
  <2>. QED
    BY <2>5, <2>6
<1>. QED
  BY <1>3, <1>4 DEF h

\* What get_fabric_health shows of a link was so at some moment of the call; and if nothing
\* changed and everybody answered, it shows every session once and no orphan whose
\* address one of the switches has.
THEOREM LinksCorrect == Spec => []LinksWereReal
BY ReportInvCorrect, LinksStep, PTL

----------------------------------------------------------------------------
(* Drift.                                                                  *)

\* A report on drift says of a switch whether what it answered is as the intent says, and
\* of a read it did not answer whether the intent asks anything there that can be missing.
LEMMA DriftStep == ReportInv => DriftIsTrue
<1>. SUFFICES ASSUME ReportInv, Reported("validate"), NEW s \in DOMAIN scene.intent
              PROVE  LET want == scene.intent[s]
                         bgp == Drifts(s, BgpKinds)
                         addrs == Drifts(s, {"iface_address"})
                         mtus == Drifts(s, {"iface_mtu"})
                     IN /\ IF s \in R!Oks(reads[1])
                           THEN \E r \in had[s] : bgp = {} <=> BgpMeets(want, r)
                           ELSE bgp = {} <=> DOMAIN want.peers = {}
                        /\ IF s \in R!Oks(reads[2])
                           THEN \E r \in had[s] : addrs = {} <=> AddrsMeet(want, r)
                           ELSE addrs = {} <=> \A f \in DOMAIN want.ifs : want.ifs[f].addr = None
                        /\ IF s \in R!Oks(reads[3])
                           THEN \E r \in had[s] : mtus = {} <=> MtusMeet(want, r)
                           ELSE mtus = {}
  BY DEF DriftIsTrue
<1>. DEFINE want == scene.intent[s]
            bgp == reads[1]
            ips == reads[2]
            ifs == reads[3]
<1>0. scene.tool = "validate" /\ scene.file = "intent"
  BY FabricAssumption DEF ReportInv, FanInv, TypeOK, Frozen, Reported
<1>1. {1, 2, 3} \subseteq DOMAIN reads
  <2>1. Len(reads) = 3 /\ reads \in Seq(Results)
    BY <1>0 DEF ReportInv, Frozen, Reported, AllRead, Reads, FanInv, TypeOK
  <2>. QED
    BY <2>1
<1>2. report.drift[s] = R!AsnDrift(want, bgp, s) \cup R!PeerDrift(want, bgp, s)
                           \cup R!IfaceDrift(want, ips, ifs, s)
  BY <1>0 DEF ReportInv, Frozen, Reported, DriftOf, R!Drift
<1>3. DOMAIN want.peers \subseteq Addrs /\ DOMAIN want.ifs \subseteq Ifaces
  BY <1>0, FabricAssumption DEF ReportInv, FanInv, TypeOK
<1>4. /\ s \in R!Oks(bgp) => bgp.entry[s] \in had[s]
      /\ s \in R!Oks(ips) => ips.entry[s] \in had[s]
      /\ s \in R!Oks(ifs) => ifs.entry[s] \in had[s]
  BY <1>1 DEF R!Oks, ReportInv, Kept
<1>. HIDE DEF want, bgp, ips, ifs
<1>5. /\ \A d \in R!AsnDrift(want, bgp, s) : d[1] = "asn"
      /\ \A d \in R!PeerDrift(want, bgp, s) :
             d[1] \in {"bgp_peer_missing", "bgp_peer_remote_as", "bgp_peer_unexpected"}
  BY DEF R!AsnDrift, R!PeerDrift
<1>6. Drifts(s, BgpKinds) = R!AsnDrift(want, bgp, s) \cup R!PeerDrift(want, bgp, s)
  <2>1. \A d \in R!IfaceDrift(want, ips, ifs, s) : d[1] \in {"iface_address", "iface_mtu"}
    BY DEF R!IfaceDrift
  <2>. QED
    BY <1>2, <1>5, <2>1 DEF Drifts, BgpKinds
<1>7. R!AsnDrift(want, bgp, s) = {} <=>
          (s \in R!Oks(bgp) => Agrees(want.asn, bgp.entry[s].asn))
  BY DEF R!AsnDrift, Agrees
<1>8. R!PeerDrift(want, bgp, s) = {} <=>
          LET seen(a) == s \in R!Oks(bgp) /\ bgp.entry[s].peers[a].state # "none"
          IN /\ \A a \in DOMAIN want.peers :
                    seen(a) /\ want.peers[a] \in {None, bgp.entry[s].peers[a].asn}
             /\ \A a \in Addrs \ DOMAIN want.peers : ~seen(a)
  BY DEF R!PeerDrift
<1>9. Drifts(s, {"iface_address"}) = {} <=>
          \A f \in DOMAIN want.ifs :
              want.ifs[f].addr # None => s \in R!Oks(ips) /\ ips.entry[s].ifs[f].addr = want.ifs[f].addr
  <2>1. Drifts(s, {"iface_address"}) =
            {d \in R!IfaceDrift(want, ips, ifs, s) : d[1] = "iface_address"}
    BY <1>2, <1>5 DEF Drifts
  <2>2. Drifts(s, {"iface_address"}) =
            {<<"iface_address", f>> :
                f \in {f \in DOMAIN want.ifs :
                          /\ want.ifs[f].addr # None
                          /\ ~(s \in R!Oks(ips) /\ ips.entry[s].ifs[f].addr = want.ifs[f].addr)}}
    BY <2>1 DEF R!IfaceDrift
  <2>. QED
    BY <2>2
<1>10. Drifts(s, {"iface_mtu"}) = {} <=>
           \A f \in DOMAIN want.ifs :
               want.ifs[f].mtu # None => R!MtuOf(ifs, s, f) \in {None, want.ifs[f].mtu}
  <2>1. Drifts(s, {"iface_mtu"}) = {d \in R!IfaceDrift(want, ips, ifs, s) : d[1] = "iface_mtu"}
    BY <1>2, <1>5 DEF Drifts
  <2>2. Drifts(s, {"iface_mtu"}) =
            {<<"iface_mtu", f>> :
                f \in {f \in DOMAIN want.ifs :
                          /\ want.ifs[f].mtu # None
                          /\ R!MtuOf(ifs, s, f) \notin {None, want.ifs[f].mtu}}}
    BY <2>1 DEF R!IfaceDrift
  <2>. QED
    BY <2>2
<1>11. IF s \in R!Oks(bgp)
       THEN \E r \in had[s] : Drifts(s, BgpKinds) = {} <=> BgpMeets(want, r)
       ELSE Drifts(s, BgpKinds) = {} <=> DOMAIN want.peers = {}
  <2>1. ASSUME s \in R!Oks(bgp) PROVE Drifts(s, BgpKinds) = {} <=> BgpMeets(want, bgp.entry[s])
    <3>1. R!PeerDrift(want, bgp, s) = {} <=>
              /\ {a \in Addrs : bgp.entry[s].peers[a].state # "none"} = DOMAIN want.peers
              /\ \A a \in DOMAIN want.peers : want.peers[a] \in {None, bgp.entry[s].peers[a].asn}
      BY <1>3, <1>8, <2>1
    <3>. QED
      BY <1>6, <1>7, <2>1, <3>1 DEF BgpMeets
  <2>2. ASSUME s \notin R!Oks(bgp) PROVE Drifts(s, BgpKinds) = {} <=> DOMAIN want.peers = {}
    BY <1>6, <1>7, <1>8, <2>2
  <2>. QED
    BY <1>4, <2>1, <2>2
<1>12. IF s \in R!Oks(ips)
       THEN \E r \in had[s] : Drifts(s, {"iface_address"}) = {} <=> AddrsMeet(want, r)
       ELSE Drifts(s, {"iface_address"}) = {} <=> \A f \in DOMAIN want.ifs : want.ifs[f].addr = None
  <2>1. ASSUME s \in R!Oks(ips)
        PROVE  Drifts(s, {"iface_address"}) = {} <=> AddrsMeet(want, ips.entry[s])
    BY <1>9, <2>1 DEF AddrsMeet
  <2>. QED
    BY <1>4, <1>9, <2>1
<1>13. IF s \in R!Oks(ifs)
       THEN \E r \in had[s] : Drifts(s, {"iface_mtu"}) = {} <=> MtusMeet(want, r)
       ELSE Drifts(s, {"iface_mtu"}) = {}
  <2>1. ASSUME s \in R!Oks(ifs)
        PROVE  Drifts(s, {"iface_mtu"}) = {} <=> MtusMeet(want, ifs.entry[s])
    <3>1. \A f \in DOMAIN want.ifs : R!MtuOf(ifs, s, f) = ifs.entry[s].ifs[f].mtu
      BY <1>3, <2>1, FabricAssumption DEF R!MtuOf
    <3>. QED
      BY <1>10, <3>1 DEF MtusMeet, Agrees
  <2>2. ASSUME s \notin R!Oks(ifs) PROVE Drifts(s, {"iface_mtu"}) = {}
    BY <1>10, <2>2 DEF R!MtuOf
  <2>. QED
    BY <1>4, <2>1, <2>2
<1>. QED
  BY <1>11, <1>12, <1>13 DEF want, bgp, ips, ifs

\* validate_fabric_vs_intent: each part of the verdict on a switch is that of a state the
\* switch had during the call, whichever of the three reads it answered; of a read that it
\* did not answer only what cannot be missing passes for compliant.
THEOREM DriftCorrect == Spec => []DriftIsTrue
BY ReportInvCorrect, DriftStep, PTL

----------------------------------------------------------------------------
(* Pairs of interfaces.                                                    *)

\* The interface looked up for a neighbour is one on the neighbour's subnet, if there is one.
LEMMA LocalIfOnSubnet ==
    ASSUME NEW state, NEW a
    PROVE  LET on == {f \in Ifaces : /\ state.ifs[f].addr # None
                                     /\ Subnet[state.ifs[f].addr] = Subnet[a]}
           IN /\ on = {} => R!LocalIf(state, a) = None
              /\ on # {} => R!LocalIf(state, a) \in on
<1>. DEFINE on == {f \in Ifaces : /\ state.ifs[f].addr # None
                                  /\ Subnet[state.ifs[f].addr] = Subnet[a]}
<1>1. R!LocalIf(state, a) = IF on = {} THEN None ELSE CHOOSE f \in on : TRUE
  BY DEF R!LocalIf
<1>. QED
  BY <1>1

\* What a report on MTUs was made of: every edge of it was looked up, and its two ends are
\* what the reads said.
LEMMA PairsRead ==
    ASSUME ReportInv, Reported("mtu")
    PROVE  /\ {2, 3, 4} \subseteq DOMAIN reads
           /\ DOMAIN local = R!Edges(reads[3], reads[2])
           /\ report.pairs = Pairs
           /\ \A i \in DOMAIN reads : \A s \in R!Oks(reads[i]) :
                  s \in Switches /\ reads[i].entry[s] \in had[s]
           /\ \A e \in DOMAIN local : /\ e.source \in Switches /\ e.peer \in Addrs
                                      /\ e.source \in R!Oks(reads[3])
                                      /\ local[e] \in had[e.source] \cup {Error}
                                      /\ e.target \in R!Carriers(reads[2], e.peer)
                                      /\ e.target \in Switches \X Ifaces
                                      /\ e.target[1] \in R!Oks(reads[2])
                                      /\ reads[2].entry[e.target[1]].ifs[e.target[2]].addr = e.peer
<1>1. {2, 3, 4} \subseteq DOMAIN reads
  <2>1. Len(reads) = 4 /\ reads \in Seq(Results)
    BY DEF ReportInv, Frozen, Reported, AllRead, Reads, FanInv, TypeOK
  <2>. QED
    BY <2>1
<1>2. DOMAIN local = R!Edges(reads[3], reads[2]) /\ report.pairs = Pairs
  BY DEF ReportInv, Frozen, Reported
<1>3. \A i \in DOMAIN reads : \A s \in R!Oks(reads[i]) :
          s \in Switches /\ reads[i].entry[s] \in had[s]
  BY DEF R!Oks, ReportInv, Kept
<1>4. ASSUME NEW e \in DOMAIN local
      PROVE  /\ e.source \in Switches /\ e.peer \in Addrs /\ e.source \in R!Oks(reads[3])
             /\ local[e] \in had[e.source] \cup {Error}
             /\ e.target \in R!Carriers(reads[2], e.peer)
  <2>1. /\ e.source \in Switches /\ e.peer \in Addrs /\ e.source \in R!Oks(reads[3])
        /\ e.target \in R!Carriers(reads[2], e.peer)
    BY <1>1, <1>2, EdgesRead
  <2>2. local[e] \in had[e.source] \cup {Error}
    BY DEF ReportInv, Kept
  <2>. QED
    BY <2>1, <2>2
<1>5. ASSUME NEW e \in DOMAIN local
      PROVE  /\ e.target \in Switches \X Ifaces /\ e.target[1] \in R!Oks(reads[2])
             /\ reads[2].entry[e.target[1]].ifs[e.target[2]].addr = e.peer
  <2>1. e.target \in Switches \X Ifaces
        /\ reads[2].entry[e.target[1]].ifs[e.target[2]].addr = e.peer
    BY <1>1, <1>4, CarriersRead
  <2>2. e.target[1] \in R!Oks(reads[2])
    BY <1>4 DEF R!Carriers
  <2>. QED
    BY <2>1, <2>2
<1>. QED
  BY <1>1, <1>2, <1>3, <1>4, <1>5

\* What was read of a switch, if nothing changed, is what it is.
LEMMA StillPairs ==
    ASSUME ReportInv, Reported("mtu"), Still
    PROVE  /\ {2, 3, 4} \subseteq DOMAIN reads
           /\ DOMAIN local = R!Edges(reads[3], reads[2])
           /\ report.pairs = Pairs
           /\ \A i \in DOMAIN reads : \A s \in R!Oks(reads[i]) :
                  s \in Switches /\ reads[i].entry[s] = world[s]
           /\ \A e \in DOMAIN local : /\ e.source \in Switches /\ e.peer \in Addrs
                                      /\ e.source \in R!Oks(reads[3])
                                      /\ local[e] \in {world[e.source], Error}
                                      /\ e.target \in Switches \X Ifaces
                                      /\ e.target[1] \in R!Oks(reads[2])
                                      /\ world[e.target[1]].ifs[e.target[2]].addr = e.peer
           /\ \A s \in Switches : world[s] # Error
<1>1. \A s \in Switches : had[s] = {world[s]}
  BY DEF Still
<1>2. \A s \in Switches : world[s] # Error
  BY FanOutAssumption DEF ReportInv, FanInv, TypeOK, FanTypeOK
<1>3. \A i \in DOMAIN reads : \A s \in R!Oks(reads[i]) :
          s \in Switches /\ reads[i].entry[s] = world[s]
  BY <1>1, PairsRead
<1>4. ASSUME NEW e \in DOMAIN local
      PROVE  /\ local[e] \in {world[e.source], Error}
             /\ world[e.target[1]].ifs[e.target[2]].addr = e.peer
  BY <1>1, <1>3, PairsRead
<1>. QED
  BY <1>2, <1>3, <1>4, PairsRead

\* The ends of a pair with a verdict: their MTUs were read, and they were on one subnet.
LEMMA PairsStep1 ==
    ASSUME ReportInv, Reported("mtu"),
           NEW p \in report.pairs, R!Verdict(p) # "unknown", NEW x \in p.ends, NEW y \in p.ends
    PROVE  /\ x[2] \in Ifaces /\ y[2] \in Ifaces
           /\ \E r \in had[x[1]], q \in had[y[1]] : OneSubnet(r.ifs[x[2]], q.ifs[y[2]])
           /\ x # y => \E r \in had[x[1]], q \in had[y[1]] :
                  (r.ifs[x[2]].mtu = q.ifs[y[2]].mtu) <=> (R!Verdict(p) = "matched")
<1>1. PICK e \in DOMAIN local :
          p = [ends |-> R!Ends(e, local),
               mtus |-> {R!MtuOf(reads[4], z[1], z[2]) : z \in R!Ends(e, local)}]
  BY PairsRead DEF Pairs, R!MtuPairs
<1>. DEFINE near == <<e.source, IF local[e] = Error THEN None ELSE R!LocalIf(local[e], e.peer)>>
            Mtu(z) == R!MtuOf(reads[4], z[1], z[2])
<1>2. p.ends = {near, e.target} /\ p.mtus = {Mtu(z) : z \in {near, e.target}}
  BY <1>1 DEF R!Ends
<1>3. Mtu(near) # None /\ Mtu(e.target) # None
  BY <1>2 DEF R!Verdict
<1>4. \A z \in {near, e.target} :
          /\ z[2] # None /\ z[1] \in R!Oks(reads[4]) /\ Mtu(z) = reads[4].entry[z[1]].ifs[z[2]].mtu
  BY <1>3 DEF R!MtuOf
<1>5. \A z \in {near, e.target} : \E r \in had[z[1]] : Mtu(z) = r.ifs[z[2]].mtu
  <2>. TAKE z \in {near, e.target}
  <2>1. z[1] \in R!Oks(reads[4]) /\ Mtu(z) = reads[4].entry[z[1]].ifs[z[2]].mtu
    BY <1>4
  <2>. HIDE DEF near, Mtu
  <2>2. reads[4].entry[z[1]] \in had[z[1]]
    BY <2>1, PairsRead
  <2>. QED
    BY <2>1, <2>2
\* The address of each end, as it was read, is on the subnet of the neighbour.
<1>. DEFINE Faces(i) == i.addr # None /\ Subnet[i.addr] = Subnet[e.peer]
<1>6. near[2] \in Ifaces /\ \E r \in had[near[1]] : Faces(r.ifs[near[2]])
  <2>1. local[e] \in had[e.source] /\ near = <<e.source, R!LocalIf(local[e], e.peer)>>
    BY <1>4, PairsRead
  <2>2. R!LocalIf(local[e], e.peer) # None
    BY <1>4, <2>1
  <2>3. R!LocalIf(local[e], e.peer) \in {f \in Ifaces : /\ local[e].ifs[f].addr # None
                                                        /\ Subnet[local[e].ifs[f].addr] = Subnet[e.peer]}
    BY <2>2, LocalIfOnSubnet
  <2>. QED
    BY <2>1, <2>3
<1>7. e.target[2] \in Ifaces /\ \E r \in had[e.target[1]] : Faces(r.ifs[e.target[2]])
  <2>1. reads[2].entry[e.target[1]] \in had[e.target[1]]
        /\ reads[2].entry[e.target[1]].ifs[e.target[2]].addr = e.peer
        /\ e.target[2] \in Ifaces /\ e.peer # None
    BY PairsRead, FabricAssumption
  <2>. QED
    BY <2>1
<1>. HIDE DEF near, Mtu
<1>8. \A z \in p.ends : z[2] \in Ifaces /\ \E r \in had[z[1]] : Faces(r.ifs[z[2]])
  BY <1>2, <1>6, <1>7
<1>9. \E r \in had[x[1]], q \in had[y[1]] : OneSubnet(r.ifs[x[2]], q.ifs[y[2]])
  BY <1>8 DEF OneSubnet
<1>10. ASSUME x # y PROVE (Mtu(x) = Mtu(y)) <=> (R!Verdict(p) = "matched")
  <2>1. {x, y} = {near, e.target}
    BY <1>2, <1>10
  <2>2. p.mtus = {Mtu(x), Mtu(y)} /\ None \notin p.mtus
    BY <1>2, <1>3, <2>1
  <2>. QED
    BY <2>2 DEF R!Verdict
<1>11. \E r \in had[x[1]] : Mtu(x) = r.ifs[x[2]].mtu
  BY <1>2, <1>5
<1>12. \E q \in had[y[1]] : Mtu(y) = q.ifs[y[2]].mtu
  BY <1>2, <1>5
<1>. QED
  BY <1>8, <1>9, <1>10, <1>11, <1>12

\* A session whose other end was read has its pair.
LEMMA PairsStep2 ==
    ASSUME ReportInv, Reported("mtu"), Still, AllAnswered,
           \A e \in DOMAIN local : local[e] # Error,
           NEW x \in Sessions, Owned(x[2])
    PROVE  \E p \in report.pairs :
               /\ x[1] \in {y[1] : y \in p.ends}
               /\ \E y \in p.ends : HasAddress(y[1], y[2], x[2])
               /\ AllSized /\ Facing(x[1], x[2]) # {} => R!Verdict(p) # "unknown"
<1>1. \A i \in DOMAIN reads : R!Oks(reads[i]) = Named
  BY DEF AllAnswered
<1>2. \A i \in DOMAIN reads : \A s \in Named : reads[i].entry[s] = world[s]
  BY <1>1, StillPairs
<1>3. x[1] \in R!Oks(reads[3]) /\ x[2] \in Addrs /\ reads[3].entry[x[1]].peers[x[2]].state # "none"
  BY <1>1, <1>2, StillPairs DEF Sessions
<1>4. PICK e \in R!BgpEdges(reads[3], reads[2]) :
          e.source = x[1] /\ e.peer = x[2] /\ e.target = R!Owner(reads[2], x[2])
  BY <1>3, SessionHasEdge
<1>5. R!Carriers(reads[2], x[2]) # {}
  <2>1. PICK s \in Named, f \in Ifaces : HasAddress(s, f, x[2])
    BY DEF Owned
  <2>2. <<s, f>> \in R!Carriers(reads[2], x[2])
    BY <1>1, <1>2, <2>1, StillPairs DEF R!Carriers, HasAddress
  <2>. QED
    BY <2>2
<1>6. e.target # None
  <2>1. e.target \in R!Carriers(reads[2], x[2])
    BY <1>4, <1>5, StillPairs, ReadsListed, OwnerCarries
  <2>. QED
    BY <2>1, StillPairs, CarriersRead, FabricAssumption
<1>7. e \in DOMAIN local
  BY <1>4, <1>6, StillPairs DEF R!Edges
<1>. DEFINE near == <<e.source, R!LocalIf(local[e], e.peer)>>
            Mtu(z) == R!MtuOf(reads[4], z[1], z[2])
            p == [ends |-> R!Ends(e, local), mtus |-> {Mtu(z) : z \in R!Ends(e, local)}]
<1>8. p \in report.pairs
  BY <1>7, StillPairs DEF Pairs, R!MtuPairs
<1>9. p.ends = {near, e.target} /\ p.mtus = {Mtu(near), Mtu(e.target)}
  BY <1>7 DEF R!Ends
<1>10. x[1] = near[1] /\ HasAddress(e.target[1], e.target[2], x[2])
  BY <1>4, <1>7, StillPairs DEF HasAddress
<1>11. ASSUME AllSized, Facing(x[1], x[2]) # {} PROVE R!Verdict(p) # "unknown"
  <2>1. local[e] = world[x[1]]
    BY <1>4, <1>7, StillPairs
  <2>2. near[2] \in Ifaces
    BY <1>4, <1>11, <2>1, LocalIfOnSubnet DEF Facing
  <2>3. near[1] \in Named /\ e.target[1] \in Named /\ e.target[2] \in Ifaces
    BY <1>1, <1>3, <1>7, <1>10, StillPairs
  <2>4. \A s \in Named, f \in Ifaces : R!MtuOf(reads[4], s, f) = world[s].ifs[f].mtu
    BY <1>1, <1>2, StillPairs, FabricAssumption DEF R!MtuOf
  <2>5. Mtu(near) # None /\ Mtu(e.target) # None
    BY <1>11, <2>2, <2>3, <2>4 DEF AllSized
  <2>. QED
    BY <1>9, <2>5 DEF R!Verdict
<1>. HIDE DEF p
<1>. QED
  BY <1>8, <1>9, <1>10, <1>11

\* Both ends of a pair with a verdict were on one subnet, and the verdict is that of MTUs
\* they had during the call; and if nothing changed, no session between two switches that
\* answered lacks its pair.
THEOREM PairsCorrect == Spec => []PairsAreTrue
<1>1. ReportInv => PairsAreTrue
  BY PairsStep1, PairsStep2 DEF PairsAreTrue
<1>. QED
  BY <1>1, ReportInvCorrect, PTL

----------------------------------------------------------------------------
(* Walks and routes.  Both are computed round by round from functions that *)
(* are defined by recursion on the number of rounds.                       *)

\* What holds of 0, and of a number's successor when it holds of the number, holds of all.
LEMMA Steps ==
    ASSUME NEW S \in SUBSET Nat, 0 \in S, \A n \in S : n + 1 \in S
    PROVE  S = Nat
<1>1. SUFFICES ASSUME Nat \ S # {} PROVE FALSE
  OBVIOUS
<1>2. PICK n \in Nat \ S : \A m \in Nat \ S : n <= m
  <2>1. Nat \ S \in SUBSET Nat
    OBVIOUS
  <2>. QED
    BY <1>1, <2>1, LeastExists
<1>3. n # 0 /\ n - 1 \in Nat /\ n - 1 < n
  BY <1>2
<1>4. n - 1 \in S
  BY <1>2, <1>3
<1>. QED
  BY <1>2, <1>3, <1>4

\* f is what comes of applying step again and again, for so many rounds.
Iterates(f, init, step, rounds) ==
    f = [h \in 0..rounds |-> IF h = 0 THEN init ELSE step[f[h - 1]]]

\* There is such a function for any number of rounds.
LEMMA IteratesExist ==
    ASSUME NEW S, NEW init \in S, NEW step \in [S -> S], NEW rounds \in Nat
    PROVE  \E f \in [0..rounds -> S] : Iterates(f, init, step, rounds)
<1>. DEFINE Good == {n \in Nat : \E f \in [0..n -> S] : Iterates(f, init, step, n)}
<1>1. 0 \in Good
  <2>. DEFINE f == [h \in 0..0 |-> init]
  <2>1. f \in [0..0 -> S] /\ f = [h \in 0..0 |-> IF h = 0 THEN init ELSE step[f[h - 1]]]
    OBVIOUS
  <2>. QED
    BY <2>1 DEF Iterates
<1>2. ASSUME NEW n \in Good PROVE n + 1 \in Good
  <2>1. PICK f \in [0..n -> S] : Iterates(f, init, step, n)
    OBVIOUS
  <2>. DEFINE g == [h \in 0..(n + 1) |-> IF h = n + 1 THEN step[f[n]] ELSE f[h]]
  <2>2. n \in Nat /\ g \in [0..(n + 1) -> S]
    OBVIOUS
  <2>3. \A h \in 0..n : f[h] = IF h = 0 THEN init ELSE step[f[h - 1]]
    BY <2>1, <2>2 DEF Iterates
  <2>4. \A h \in 0..(n + 1) : g[h] = IF h = 0 THEN init ELSE step[g[h - 1]]
    <3>. TAKE h \in 0..(n + 1)
    <3>1. CASE h = n + 1
      BY <2>2, <3>1
    <3>2. CASE h \in 0..n
      BY <2>2, <2>3, <3>2
    <3>. QED
      BY <2>2, <3>1, <3>2
  <2>5. Iterates(g, init, step, n + 1)
    BY <2>2, <2>4 DEF Iterates
  <2>. HIDE DEF g
  <2>. QED
    BY <2>2, <2>5
<1>. HIDE DEF Good
<1>3. Good = Nat
  BY <1>1, <1>2, Steps DEF Good
<1>. QED
  BY <1>3 DEF Good

\* A route is followed hop by hop.
LEMMA PathSteps ==
    ASSUME NEW route \in [Nodes -> Nodes \cup {None}], NEW source \in Nodes, NEW target,
           NEW maxHops \in Nat
    PROVE  LET at == P!Path(route, source, target, maxHops)
           IN /\ at \in [0..maxHops -> Nodes \cup {None}]
              /\ at[0] = source
              /\ \A k \in 1..maxHops : at[k] = P!Forward(route, target, at[k - 1])
<1>. DEFINE S == Nodes \cup {None}
            step == [n \in S |-> P!Forward(route, target, n)]
            Is(at) == at = [k \in 0..maxHops |->
                                IF k = 0 THEN source ELSE P!Forward(route, target, at[k - 1])]
<1>1. step \in [S -> S]
  BY DEF P!Forward
<1>2. PICK f \in [0..maxHops -> S] : Iterates(f, source, step, maxHops)
  BY <1>1, IteratesExist
<1>3. \A k \in 0..maxHops : f[k] = IF k = 0 THEN source ELSE P!Forward(route, target, f[k - 1])
  <2>. TAKE k \in 0..maxHops
  <2>1. f[k] = IF k = 0 THEN source ELSE step[f[k - 1]]
    BY <1>2 DEF Iterates
  <2>2. k # 0 => k - 1 \in 0..maxHops
    OBVIOUS
  <2>. QED
    BY <2>1, <2>2
<1>4. Is(f)
  BY <1>2, <1>3
<1>5. P!Path(route, source, target, maxHops) = CHOOSE at : Is(at)
  BY DEF P!Path
<1>. DEFINE at == P!Path(route, source, target, maxHops)
<1>6. Is(at)
  BY <1>4, <1>5
<1>. HIDE DEF at
<1>7. /\ DOMAIN at = 0..maxHops /\ at[0] = source
      /\ \A k \in 1..maxHops : at[k] = P!Forward(route, target, at[k - 1])
  BY <1>6
<1>. DEFINE Good == {k \in Nat : k <= maxHops => at[k] \in S}
<1>8. 0 \in Good
  BY <1>7
<1>9. ASSUME NEW k \in Good PROVE k + 1 \in Good
  <2>1. CASE k + 1 <= maxHops
    <3>1. at[k] \in S /\ k + 1 \in 1..maxHops
      BY <2>1
    <3>2. at[k + 1] = P!Forward(route, target, at[k])
      BY <1>7, <3>1
    <3>. QED
      BY <3>1, <3>2 DEF P!Forward
  <2>. QED
    BY <2>1
<1>. HIDE DEF Good
<1>10. Good = Nat
  BY <1>8, <1>9, Steps DEF Good
<1>11. at \in [0..maxHops -> S]
  <2>1. \A k \in 0..maxHops : at[k] \in S
    BY <1>10 DEF Good
  <2>2. at = [k \in 0..maxHops |-> at[k]]
    BY <1>6
  <2>. HIDE DEF S, Is
  <2>. QED
    BY <2>1, <2>2
<1>. QED
  BY <1>7, <1>11 DEF at

\* The answer of the router that a probe has reached after k hops.
Router(at, silent, k) ==
    IF at[k] \in silent THEN {} ELSE {<<at[IF k = 0 THEN 0 ELSE k - 1], at[k]>>}

\* A traceroute has one line per hop, up to the last node that the route gets to.
LEMMA TraceShape ==
    ASSUME scene.route \in [Nodes -> Nodes \cup {None}], scene.source \in Nodes,
           scene.maxHops \in Nat
    PROVE  \E at \in [0..scene.maxHops -> Nodes \cup {None}], length \in 0..scene.maxHops :
               /\ at[0] = scene.source
               /\ \A k \in 0..length : at[k] \in Nodes
               /\ \A k \in (length + 1)..scene.maxHops : at[k] = None
               /\ \A k \in 1..length : at[k - 1] # scene.target /\ at[k] = scene.route[at[k - 1]]
               /\ length < scene.maxHops => at[length] = scene.target \/ scene.route[at[length]] = None
               /\ Lines = [k \in 1..length |->
                              IF at[k] # scene.target THEN Router(at, scene.silent, k)
                              ELSE IF scene.up THEN {<<scene.target, scene.target>>}
                              ELSE Router(at, scene.silent, k - 1)]
<1>. DEFINE source == scene.source
            target == scene.target
            route == scene.route
            maxHops == scene.maxHops
            silent == scene.silent
            up == scene.up
<1>. DEFINE at == P!Path(route, source, target, maxHops)
            Ends(n) == /\ at[n] # None
                       /\ \A k \in (n + 1)..maxHops : at[k] = None
            length == CHOOSE n \in 0..maxHops : Ends(n)
<1>1. /\ at \in [0..maxHops -> Nodes \cup {None}] /\ at[0] = source
      /\ \A k \in 1..maxHops : at[k] = P!Forward(route, target, at[k - 1])
  BY PathSteps
<1>2. None \notin Nodes
  BY FabricAssumption
<1>3. Lines = [k \in 1..length |->
                  IF at[k] # target THEN Router(at, silent, k)
                  ELSE IF up THEN {<<target, target>>} ELSE Router(at, silent, k - 1)]
  BY DEF Lines, P!Trace, Router
<1>0. maxHops \in Nat /\ source \in Nodes
  OBVIOUS
<1>. HIDE DEF at, source, target, route, maxHops, silent, up
<1>4. \E n \in 0..maxHops : Ends(n)
  <2>. DEFINE S == {maxHops - n : n \in {n \in 0..maxHops : at[n] # None}}
  <2>1. 0 \in {n \in 0..maxHops : at[n] # None}
    BY <1>0, <1>1, <1>2
  <2>2. S \in SUBSET Nat /\ S # {}
    BY <1>0, <2>1
  <2>3. PICK m \in S : \A k \in S : m <= k
    BY <2>2, LeastExists
  <2>4. PICK n \in 0..maxHops : at[n] # None /\ m = maxHops - n
    BY <2>3
  <2>5. ASSUME NEW k \in (n + 1)..maxHops PROVE at[k] = None
    <3>1. k \in 0..maxHops /\ maxHops - k < maxHops - n
      BY <1>0, <2>4, <2>5
    <3>2. ASSUME at[k] # None PROVE FALSE
      <4>1. maxHops - k \in S
        BY <3>1, <3>2
      <4>. HIDE DEF S
      <4>2. m <= maxHops - k
        BY <2>3, <4>1
      <4>. QED
        BY <1>0, <2>4, <3>1, <4>2
    <3>. QED
      BY <3>2
  <2>. QED
    BY <1>0, <2>4, <2>5
<1>5. length \in 0..maxHops /\ Ends(length)
  BY <1>4
<1>. HIDE DEF length
<1>. DEFINE Good == {d \in Nat : d <= length => at[length - d] # None}
<1>6. 0 \in Good
  BY <1>0, <1>5
<1>7. ASSUME NEW d \in Good PROVE d + 1 \in Good
  <2>1. CASE d + 1 <= length
    <3>. DEFINE k == length - (d + 1)
    <3>1. k \in 0..maxHops /\ k + 1 \in 1..maxHops /\ length - d = k + 1
      BY <1>0, <1>5, <2>1
    <3>2. at[k + 1] # None
      BY <1>0, <1>5, <2>1, <3>1
    <3>3. at[k + 1] = P!Forward(route, target, at[k])
      <4>1. (k + 1) - 1 = k
        BY <3>1
      <4>. QED
        BY <1>0, <1>1, <3>1, <4>1
    <3>. QED
      BY <3>1, <3>2, <3>3 DEF P!Forward
  <2>. QED
    BY <1>0, <2>1, <1>5
<1>. HIDE DEF Good
<1>8. Good = Nat
  BY <1>6, <1>7, Steps DEF Good
<1>9. \A k \in 0..length : at[k] \in Nodes
  <2>. TAKE k \in 0..length
  <2>1. length - k \in Good /\ length - k <= length /\ length - (length - k) = k
    BY <1>0, <1>5, <1>8
  <2>2. at[k] # None
    BY <1>0, <2>1 DEF Good
  <2>. QED
    BY <1>0, <1>1, <1>5, <2>2
<1>10. \A k \in 1..length : at[k - 1] # target /\ at[k] = route[at[k - 1]]
  <2>. TAKE k \in 1..length
  <2>1. k \in 1..maxHops /\ k \in 0..length
    BY <1>0, <1>5
  <2>2. at[k] = P!Forward(route, target, at[k - 1]) /\ at[k] # None
    BY <1>0, <1>1, <1>2, <1>9, <2>1
  <2>. QED
    BY <2>2 DEF P!Forward
<1>11. length < maxHops => at[length] = target \/ route[at[length]] = None
  <2>. SUFFICES ASSUME length < maxHops PROVE at[length] = target \/ route[at[length]] = None
    OBVIOUS
  <2>1. length + 1 \in 1..maxHops /\ length + 1 \in (length + 1)..maxHops /\ (length + 1) - 1 = length
    BY <1>0, <1>5
  <2>2. at[length + 1] = None /\ at[length + 1] = P!Forward(route, target, at[length])
    BY <1>0, <1>1, <1>5, <2>1
  <2>3. at[length] # None
    BY <1>0, <1>5
  <2>. QED
    BY <2>2, <2>3 DEF P!Forward
<1>. QED
  BY <1>1, <1>3, <1>5, <1>9, <1>10, <1>11 DEF source, target, route, maxHops, silent, up

\* A route that comes twice to a node at which it does not stop never arrives.
LEMMA TwiceIsEndless ==
    ASSUME NEW at, NEW j \in Nat, NEW i \in 0..(j - 1), at[i] = at[j],
           scene.source = at[0], scene.target # at[j],
           \A k \in 0..j : at[k] \in Nodes,
           \A k \in 1..j : at[k - 1] # scene.target /\ at[k] = scene.route[at[k - 1]]
    PROVE  Endless
<1>. DEFINE c == {at[k] : k \in 0..(j - 1)}
<1>1. c \in SUBSET (Nodes \ {scene.target})
  <2>1. ASSUME NEW k \in 0..(j - 1) PROVE at[k] \in Nodes /\ at[k] # scene.target
    <3>1. k + 1 \in 1..j /\ (k + 1) - 1 = k
      OBVIOUS
    <3>. QED
      BY <3>1
  <2>. QED
    BY <2>1
<1>2. scene.source \in c
  OBVIOUS
<1>3. ASSUME NEW k \in 0..(j - 1) PROVE scene.route[at[k]] \in c
  <2>1. k + 1 \in 1..j /\ (k + 1) - 1 = k
    OBVIOUS
  <2>2. scene.route[at[k]] = at[k + 1]
    BY <2>1
  <2>3. CASE k + 1 = j
    BY <2>2, <2>3
  <2>4. CASE k + 1 # j
    <3>1. k + 1 \in 0..(j - 1)
      BY <2>4
    <3>. QED
      BY <2>2, <3>1
  <2>. QED
    BY <2>3, <2>4
<1>. QED
  BY <1>1, <1>2, <1>3 DEF Endless

\* What never arrives is on its way for as many hops as the traceroute has.
LEMMA EndlessGoesOn ==
    ASSUME NEW at, NEW maxHops \in Nat, NEW length \in 0..maxHops,
           scene.source = at[0], Endless, None \notin Nodes,
           \A k \in 1..length : at[k] = scene.route[at[k - 1]],
           length < maxHops => at[length] = scene.target \/ scene.route[at[length]] = None
    PROVE  length = maxHops /\ \A k \in 0..length : at[k] # scene.target
<1>1. PICK c \in SUBSET (Nodes \ {scene.target}) :
          scene.source \in c /\ \A n \in c : scene.route[n] \in c
  BY DEF Endless
<1>. DEFINE Good == {k \in Nat : k <= length => at[k] \in c}
<1>2. 0 \in Good
  BY <1>1
<1>3. ASSUME NEW k \in Good PROVE k + 1 \in Good
  <2>1. CASE k + 1 <= length
    <3>1. at[k] \in c /\ k + 1 \in 1..length /\ (k + 1) - 1 = k
      BY <2>1
    <3>2. at[k + 1] = scene.route[at[k]]
      BY <3>1
    <3>. QED
      BY <1>1, <3>1, <3>2
  <2>. QED
    BY <2>1
<1>. HIDE DEF Good
<1>4. Good = Nat
  BY <1>2, <1>3, Steps DEF Good
<1>5. \A k \in 0..length : at[k] \in c
  BY <1>4 DEF Good
<1>6. length = maxHops
  <2>1. at[length] \in c /\ scene.route[at[length]] \in c
    BY <1>1, <1>5
  <2>. QED
    BY <1>1, <2>1
<1>. QED
  BY <1>1, <1>5, <1>6

\* What a report of detect_routing_loop says of the route.
LEMMA LoopsStep == ReportInv => LoopsAreReal
<1>. SUFFICES ASSUME ReportInv, Reported("loop")
              PROVE  /\ report.looping => Endless \/ ~scene.up
                     /\ report.status = "ok" /\ Endless /\ scene.silent = {} /\ scene.maxHops > Cardinality(Nodes) =>
                            report.looping
                     /\ report.reached => ~Endless /\ ~report.looping
  BY DEF LoopsAreReal
<1>0. CASE report.status # "ok"
  BY <1>0 DEF ReportInv, Frozen, Reported
<1>. SUFFICES ASSUME report.status = "ok"
              PROVE  /\ report.looping => Endless \/ ~scene.up
                     /\ report.status = "ok" /\ Endless /\ scene.silent = {}
                           /\ scene.maxHops > Cardinality(Nodes) => report.looping
                     /\ report.reached => ~Endless /\ ~report.looping
  BY <1>0
<1>. DEFINE source == scene.source
            target == scene.target
            route == scene.route
            maxHops == scene.maxHops
            silent == scene.silent
<1>1. /\ source \in Nodes /\ route \in [Nodes -> Nodes \cup {None}] /\ maxHops \in Nat
      /\ IsFiniteSet(Nodes) /\ None \notin Nodes
  BY FabricAssumption DEF ReportInv, FanInv, TypeOK, Frozen, Reported
<1>2. report.looping = P!DupHop(Lines) /\ report.reached = P!Reached(Lines, target)
  BY DEF ReportInv, Frozen, Reported
<1>3. PICK at \in [0..maxHops -> Nodes \cup {None}], length \in 0..maxHops :
          /\ at[0] = source
          /\ \A k \in 0..length : at[k] \in Nodes
          /\ \A k \in (length + 1)..maxHops : at[k] = None
          /\ \A k \in 1..length : at[k - 1] # target /\ at[k] = route[at[k - 1]]
          /\ length < maxHops => at[length] = target \/ route[at[length]] = None
          /\ Lines = [k \in 1..length |->
                         IF at[k] # target THEN Router(at, silent, k)
                         ELSE IF scene.up THEN {<<target, target>>} ELSE Router(at, silent, k - 1)]
  BY <1>1, TraceShape
<1>. HIDE DEF source, target, route, maxHops, silent
<1>4. DOMAIN Lines = 1..length
  BY <1>3
<1>5. ASSUME NEW k \in 1..length, at[k] # target, NEW a \in Lines[k]
      PROVE  a = <<at[k - 1], at[k]>>
  BY <1>3, <1>5 DEF Router
<1>6. ASSUME NEW k \in 1..length, at[k] = target PROVE k = length
  <2>1. CASE k < length
    <3>1. k + 1 \in 1..length /\ (k + 1) - 1 = k
      BY <1>1, <2>1
    <3>. QED
      BY <1>3, <1>6, <3>1
  <2>. QED
    BY <1>1, <2>1
<1>7. ASSUME scene.up, report.looping PROVE Endless
  <2>1. PICK i \in 1..length, j \in 1..length : i < j /\ Lines[i] \cap Lines[j] # {}
    BY <1>2, <1>4, <1>7 DEF P!DupHop
  <2>2. PICK a : a \in Lines[i] /\ a \in Lines[j]
    BY <2>1
  <2>3. at[i] # target /\ a = <<at[i - 1], at[i]>>
    BY <1>1, <1>5, <1>6, <2>1, <2>2
  <2>4. at[j] # target
    <3>1. CASE at[j] = target
      <4>1. Lines[j] = {<<target, target>>}
        BY <1>3, <1>7, <3>1
      <4>. QED
        BY <2>2, <2>3, <4>1
    <3>. QED
      BY <3>1
  <2>5. a = <<at[j - 1], at[j]>>
    BY <1>5, <2>2, <2>4
  <2>6. at[i] = at[j]
    BY <2>3, <2>5
  <2>7. j \in Nat /\ i \in 0..(j - 1) /\ 0..j \subseteq 0..length /\ 1..j \subseteq 1..length
    BY <1>1, <2>1
  <2>. QED
    BY <1>3, <2>4, <2>6, <2>7, TwiceIsEndless DEF source, target, route
<1>8. ASSUME Endless PROVE length = maxHops /\ \A k \in 0..length : at[k] # target
  <2>1. \A k \in 1..length : at[k] = scene.route[at[k - 1]]
    BY <1>3 DEF route
  <2>2. length < maxHops => at[length] = scene.target \/ scene.route[at[length]] = None
    BY <1>3 DEF target, route
  <2>3. scene.source = at[0]
    BY <1>3 DEF source
  <2>. QED
    BY <1>1, <1>8, <2>1, <2>2, <2>3, EndlessGoesOn DEF target
<1>9. ASSUME Endless, silent = {}, maxHops > Cardinality(Nodes) PROVE report.looping
  <2>1. length = maxHops /\ \A k \in 0..length : at[k] # target
    BY <1>8, <1>9
  <2>. DEFINE f == [k \in 1..maxHops |-> at[k - 1]]
  <2>2. f \in [1..maxHops -> Nodes]
    <3>1. \A k \in 1..maxHops : k - 1 \in 0..length
      BY <1>1, <2>1
    <3>. QED
      BY <1>3, <3>1
  <2>3. IsFiniteSet(1..maxHops) /\ Cardinality(1..maxHops) = maxHops
    <3>1. 1 \in Int /\ maxHops \in Int /\ Cardinality(Nodes) \in Nat
      BY <1>1, FS_CardinalityType
    <3>2. maxHops - 1 + 1 = maxHops /\ ~(1 > maxHops)
      BY <1>1, <1>9, <3>1
    <3>. QED
      BY <3>1, <3>2, FS_Interval
  <2>4. PICK x \in 1..maxHops, y \in 1..maxHops : x # y /\ f[x] = f[y]
    <3>. HIDE DEF f
    <3>1. Cardinality(Nodes) < Cardinality(1..maxHops)
      <4>1. Cardinality(Nodes) \in Nat
        BY <1>1, FS_CardinalityType
      <4>. QED
        BY <1>1, <1>9, <2>3, <4>1
    <3>. QED
      BY <1>1, <2>2, <2>3, <3>1, FS_PigeonHole
  <2>5. at[x - 1] = at[y - 1] /\ at[x] = at[y]
    BY <1>3, <2>1, <2>4
  <2>6. <<at[x - 1], at[x]>> \in Lines[x] /\ <<at[y - 1], at[y]>> \in Lines[y]
    <3>1. ASSUME NEW k \in 1..maxHops PROVE <<at[k - 1], at[k]>> \in Lines[k]
      <4>1. k \in 1..length /\ k \in 0..length /\ k # 0
        BY <1>1, <2>1
      <4>2. Lines[k] = Router(at, silent, k)
        BY <1>3, <2>1, <4>1
      <4>. QED
        BY <1>9, <4>1, <4>2 DEF Router
    <3>. QED
      BY <3>1
  <2>7. Lines[x] \cap Lines[y] # {}
    BY <2>5, <2>6
  <2>8. x < y \/ y < x
    BY <1>1, <2>4
  <2>. QED
    BY <1>2, <1>4, <2>1, <2>4, <2>7, <2>8 DEF P!DupHop
<1>10. ASSUME report.reached PROVE ~Endless /\ ~report.looping
  <2>1. PICK i \in 1..length : <<target, target>> \in Lines[i]
    BY <1>2, <1>4, <1>10 DEF P!Reached
  <2>2. at[i] = target
    <3>1. CASE at[i] # target
      <4>1. <<target, target>> = <<at[i - 1], at[i]>>
        BY <1>5, <2>1, <3>1
      <4>. QED
        BY <3>1, <4>1
    <3>. QED
      BY <3>1
  <2>3. scene.up
    <3>1. CASE ~scene.up
      <4>1. Lines[i] = Router(at, silent, i - 1)
        BY <1>3, <2>2, <3>1
      <4>2. target = at[i - 1]
        BY <2>1, <4>1 DEF Router
      <4>. QED
        BY <1>3, <4>2
    <3>. QED
      BY <3>1
  <2>4. ~Endless
    BY <1>1, <1>8, <2>2
  <2>. QED
    BY <1>7, <2>3, <2>4
<1>. QED
  BY <1>7, <1>9, <1>10 DEF silent, maxHops

\* If an address is on two lines, the route never arrives or the target is down; a route
\* that never arrives is found when every router answers and there are more hops than
\* nodes; and one that arrives is not taken for a loop.
THEOREM LoopsCorrect == Spec => []LoopsAreReal
BY ReportInvCorrect, LoopsStep, PTL

\* What a walk remembers.
WalkStates == [visited : SUBSET Nodes, frontier : SUBSET Nodes, proposed : SUBSET Nodes]

Walked == P!Rounds(scene.seed, scene.neighbours, scene.deaf, scene.known, scene.maxHops)

WalkAssumption ==
    /\ scene.seed \in Nodes
    /\ scene.neighbours \in [Nodes -> SUBSET Nodes]
    /\ scene.maxHops \in Nat

\* A round keeps to the nodes there are.
LEMMA HopTypes ==
    ASSUME WalkAssumption, NEW w \in WalkStates
    PROVE  P!Hop(w, scene.neighbours, scene.deaf, scene.known) \in WalkStates
BY DEF WalkAssumption, WalkStates, P!Hop

\* The rounds of a walk, one after the other.
LEMMA RoundsSteps ==
    ASSUME WalkAssumption
    PROVE  /\ Walked \in [0..scene.maxHops -> WalkStates]
           /\ Walked[0] = P!Seeded(scene.seed)
           /\ \A h \in 1..scene.maxHops :
                  Walked[h] = P!Hop(Walked[h - 1], scene.neighbours, scene.deaf, scene.known)
<1>. DEFINE maxHops == scene.maxHops
            init == P!Seeded(scene.seed)
            Round(w) == P!Hop(w, scene.neighbours, scene.deaf, scene.known)
            step == [w \in WalkStates |-> Round(w)]
            Is(walk) == walk = [h \in 0..maxHops |-> IF h = 0 THEN init ELSE Round(walk[h - 1])]
<1>1. init \in WalkStates /\ step \in [WalkStates -> WalkStates] /\ maxHops \in Nat
  BY HopTypes DEF WalkAssumption, WalkStates, P!Seeded
<1>2. Walked = CHOOSE walk : Is(walk)
  BY DEF Walked, P!Rounds
<1>3. \A w \in WalkStates : Round(w) \in WalkStates /\ step[w] = Round(w)
  BY HopTypes
<1>. HIDE DEF maxHops, init, Round, step
<1>4. PICK f \in [0..maxHops -> WalkStates] : Iterates(f, init, step, maxHops)
  BY <1>1, IteratesExist
<1>5. \A h \in 0..maxHops : f[h] = IF h = 0 THEN init ELSE Round(f[h - 1])
  <2>. TAKE h \in 0..maxHops
  <2>1. f[h] = IF h = 0 THEN init ELSE step[f[h - 1]]
    BY <1>4 DEF Iterates
  <2>2. h # 0 => h - 1 \in 0..maxHops
    BY <1>1
  <2>. QED
    BY <1>3, <2>1, <2>2
<1>6. Is(f)
  BY <1>4, <1>5
<1>7. Is(Walked)
  BY <1>2, <1>6
<1>8. /\ Walked = [h \in 0..maxHops |-> Walked[h]] /\ Walked[0] = init
      /\ \A h \in 1..maxHops : Walked[h] = Round(Walked[h - 1])
  BY <1>1, <1>7
<1>. DEFINE Good == {h \in Nat : h <= maxHops => Walked[h] \in WalkStates}
<1>9. 0 \in Good
  BY <1>1, <1>8
<1>10. ASSUME NEW h \in Good PROVE h + 1 \in Good
  <2>1. CASE h + 1 <= maxHops
    <3>1. Walked[h] \in WalkStates /\ h + 1 \in 1..maxHops /\ (h + 1) - 1 = h
      BY <1>1, <2>1
    <3>2. Walked[h + 1] = Round(Walked[h])
      BY <1>8, <3>1
    <3>. QED
      BY <1>3, <3>1, <3>2
  <2>. QED
    BY <2>1
<1>. HIDE DEF Good, Is
<1>11. Good = Nat
  BY <1>9, <1>10, Steps DEF Good
<1>12. \A h \in 0..maxHops : Walked[h] \in WalkStates
  BY <1>1, <1>11 DEF Good
<1>. QED
  BY <1>8, <1>12 DEF maxHops, init, Round

\* A walk of no step ends where it begins.
LEMMA WalksNowhere ==
    ASSUME WalkAssumption, NEW n \in Nodes
    PROVE  Walks(n, 0) <=> n = scene.seed
<1>1. ASSUME n = scene.seed PROVE Walks(n, 0)
  <2>. DEFINE p == [k \in 0..0 |-> n]
  <2>1. p \in [0..0 -> Nodes] /\ p[0] = n /\ 1..0 = {} /\ 1..(0 - 1) = {}
    OBVIOUS
  <2>. HIDE DEF p
  <2>. QED
    BY <1>1, <2>1 DEF Walks
<1>2. Walks(n, 0) => n = scene.seed
  BY DEF Walks
<1>. QED
  BY <1>1, <1>2

\* What the last but one node of a walk must be.
Passable(m, k) == m \notin scene.deaf /\ (k = 0 \/ m \notin scene.known)

\* A walk is one step longer than a walk to a neighbour that may be walked through.
LEMMA WalksFurther ==
    ASSUME WalkAssumption, NEW n \in Nodes, NEW k \in Nat
    PROVE  Walks(n, k + 1) <=>
               \E m \in Nodes : Walks(m, k) /\ Passable(m, k) /\ n \in scene.neighbours[m]
<1>1. ASSUME Walks(n, k + 1)
      PROVE  \E m \in Nodes : Walks(m, k) /\ Passable(m, k) /\ n \in scene.neighbours[m]
  <2>1. PICK p \in [0..(k + 1) -> Nodes] :
            /\ p[0] = scene.seed /\ p[k + 1] = n
            /\ \A i \in 1..(k + 1) : p[i] \in scene.neighbours[p[i - 1]] /\ p[i - 1] \notin scene.deaf
            /\ \A i \in 1..((k + 1) - 1) : p[i] \notin scene.known
    BY <1>1 DEF Walks
  <2>. DEFINE q == [i \in 0..k |-> p[i]]
  <2>2. q \in [0..k -> Nodes] /\ q[0] = scene.seed /\ q[k] = p[k] /\ p[k] \in Nodes
    BY <2>1
  <2>3. \A i \in 1..k : q[i] \in scene.neighbours[q[i - 1]] /\ q[i - 1] \notin scene.deaf
    <3>1. \A i \in 1..k : i \in 1..(k + 1) /\ i \in 0..k /\ i - 1 \in 0..k
      OBVIOUS
    <3>. QED
      BY <2>1, <3>1
  <2>4. \A i \in 1..(k - 1) : q[i] \notin scene.known
    BY <2>1
  <2>5. Passable(p[k], k) /\ n \in scene.neighbours[p[k]]
    <3>1. k + 1 \in 1..(k + 1) /\ (k + 1) - 1 = k /\ (k # 0 => k \in 1..k)
      OBVIOUS
    <3>. QED
      BY <2>1, <3>1 DEF Passable
  <2>. HIDE DEF q
  <2>6. Walks(p[k], k)
    BY <2>2, <2>3, <2>4 DEF Walks
  <2>. QED
    BY <2>2, <2>5, <2>6
<1>2. ASSUME NEW m \in Nodes, Walks(m, k), Passable(m, k), n \in scene.neighbours[m]
      PROVE  Walks(n, k + 1)
  <2>1. PICK q \in [0..k -> Nodes] :
            /\ q[0] = scene.seed /\ q[k] = m
            /\ \A i \in 1..k : q[i] \in scene.neighbours[q[i - 1]] /\ q[i - 1] \notin scene.deaf
            /\ \A i \in 1..(k - 1) : q[i] \notin scene.known
    BY <1>2 DEF Walks
  <2>. DEFINE p == [i \in 0..(k + 1) |-> IF i = k + 1 THEN n ELSE q[i]]
  <2>2. p \in [0..(k + 1) -> Nodes] /\ p[0] = scene.seed /\ p[k + 1] = n
        /\ \A i \in 0..k : p[i] = q[i]
    BY <2>1
  <2>. HIDE DEF p
  <2>3. ASSUME NEW i \in 1..(k + 1)
        PROVE  p[i] \in scene.neighbours[p[i - 1]] /\ p[i - 1] \notin scene.deaf
    <3>1. CASE i = k + 1
      <4>1. i - 1 = k /\ k \in 0..k
        BY <3>1
      <4>. QED
        BY <1>2, <2>1, <2>2, <3>1, <4>1 DEF Passable
    <3>2. CASE i # k + 1
      <4>1. i \in 1..k /\ i \in 0..k /\ i - 1 \in 0..k
        BY <3>2
      <4>. QED
        BY <2>1, <2>2, <4>1
    <3>. QED
      BY <3>1, <3>2
  <2>4. ASSUME NEW i \in 1..((k + 1) - 1) PROVE p[i] \notin scene.known
    <3>1. CASE i = k
      BY <1>2, <2>1, <2>2, <3>1 DEF Passable
    <3>2. CASE i # k
      <4>1. i \in 1..(k - 1) /\ i \in 0..k
        BY <3>2
      <4>. QED
        BY <2>1, <2>2, <4>1
    <3>. QED
      BY <3>1, <3>2
  <2>. QED
    BY <2>2, <2>3, <2>4 DEF Walks
<1>. QED
  BY <1>1, <1>2

\* The nodes that some walk of at most h steps leads to.
Reach(h) == {n \in Nodes : \E k \in 0..h : Walks(n, k)}

\* The state of the walk after h rounds.
Covers(h) ==
    /\ Walked[h].visited = Reach(h)
    /\ Walked[h].frontier = IF h = 0 THEN {scene.seed} ELSE (Reach(h) \ Reach(h - 1)) \ scene.known
    /\ Walked[h].proposed = (Reach(h) \ {scene.seed}) \ scene.known

\* One more round reaches one step further: what is behind a node that was reached before
\* was reached before as well.
LEMMA ReachGrows ==
    ASSUME WalkAssumption, NEW h \in Nat,
           NEW frontier, frontier = IF h = 0 THEN {scene.seed} ELSE (Reach(h) \ Reach(h - 1)) \ scene.known
    PROVE  Reach(h + 1) = Reach(h) \cup UNION {scene.neighbours[n] : n \in frontier \ scene.deaf}
<1>1. ASSUME NEW n \in Reach(h + 1)
      PROVE  n \in Reach(h) \cup UNION {scene.neighbours[m] : m \in frontier \ scene.deaf}
  <2>1. n \in Nodes /\ (n \in Reach(h) \/ Walks(n, h + 1))
    BY DEF Reach
  <2>2. CASE Walks(n, h + 1)
    <3>1. PICK m \in Nodes : Walks(m, h) /\ Passable(m, h) /\ n \in scene.neighbours[m]
      BY <2>1, <2>2, WalksFurther
    <3>2. m \in Reach(h)
      BY <3>1 DEF Reach
    <3>3. CASE m \in frontier
      BY <3>1, <3>3 DEF Passable
    <3>4. CASE m \notin frontier
      <4>1. h # 0
        BY <3>1, <3>4, WalksNowhere
      <4>2. m \in Reach(h - 1)
        BY <3>1, <3>2, <3>4, <4>1 DEF Passable
      <4>3. PICK k \in 0..(h - 1) : Walks(m, k)
        BY <4>2 DEF Reach
      <4>4. Passable(m, k)
        BY <3>1, <4>1 DEF Passable
      <4>5. Walks(n, k + 1)
        BY <2>1, <3>1, <4>3, <4>4, WalksFurther
      <4>6. k + 1 \in 0..h
        BY <4>1
      <4>. QED
        BY <2>1, <4>5, <4>6 DEF Reach
    <3>. QED
      BY <3>3, <3>4
  <2>. QED
    BY <2>1, <2>2
<1>2. Reach(h) \subseteq Reach(h + 1)
  BY DEF Reach
<1>3. ASSUME NEW m \in frontier \ scene.deaf, NEW n \in scene.neighbours[m]
      PROVE  n \in Reach(h + 1)
  <2>1. m \in Nodes /\ Walks(m, h) /\ Passable(m, h)
    <3>1. CASE h = 0
      BY <1>3, <3>1, WalksNowhere DEF WalkAssumption, Passable
    <3>2. CASE h # 0
      <4>1. m \in Reach(h) /\ m \notin Reach(h - 1) /\ m \notin scene.known
        BY <1>3, <3>2
      <4>2. PICK k \in 0..h : Walks(m, k)
        BY <4>1 DEF Reach
      <4>3. k \notin 0..(h - 1)
        BY <4>1, <4>2 DEF Reach
      <4>4. k = h
        BY <4>3
      <4>. QED
        BY <1>3, <4>1, <4>2, <4>4 DEF Reach, Passable
    <3>. QED
      BY <3>1, <3>2
  <2>2. n \in Nodes
    BY <1>3, <2>1 DEF WalkAssumption
  <2>3. Walks(n, h + 1)
    BY <1>3, <2>1, <2>2, WalksFurther
  <2>. QED
    BY <2>2, <2>3 DEF Reach
<1>. QED
  BY <1>1, <1>2, <1>3

\* After each round the walk has been where the walks of so many steps lead.
LEMMA WalkCovers == ASSUME WalkAssumption PROVE \A h \in 0..scene.maxHops : Covers(h)
<1>. DEFINE maxHops == scene.maxHops
            Good == {h \in Nat : h <= maxHops => Covers(h)}
<1>1. maxHops \in Nat /\ scene.seed \in Nodes
  BY DEF WalkAssumption
<1>2. 0 \in Good
  <2>1. Reach(0) = {scene.seed}
    BY <1>1, WalksNowhere DEF Reach
  <2>2. Walked[0] = [visited |-> {scene.seed}, frontier |-> {scene.seed}, proposed |-> {}]
    BY RoundsSteps DEF P!Seeded
  <2>. QED
    BY <2>1, <2>2 DEF Covers
<1>3. ASSUME NEW h \in Good PROVE h + 1 \in Good
  <2>1. CASE h + 1 <= maxHops
    <3>. DEFINE w == Walked[h]
                u == Walked[h + 1]
                met == UNION {scene.neighbours[n] : n \in w.frontier \ scene.deaf}
                heard == met \ w.visited
    <3>1. Covers(h) /\ h \in Nat
      BY <1>1, <2>1
    <3>2. h + 1 \in 1..maxHops /\ (h + 1) - 1 = h
      BY <1>1, <2>1
    <3>3. u = P!Hop(w, scene.neighbours, scene.deaf, scene.known)
      BY <3>2, RoundsSteps
    <3>4. u.visited = w.visited \cup heard /\ u.frontier = heard \ scene.known
          /\ u.proposed = w.proposed \cup (heard \ scene.known)
      <4>. HIDE DEF w, u
      <4>1. P!Hop(w, scene.neighbours, scene.deaf, scene.known) =
                [visited |-> w.visited \cup heard,
                 frontier |-> heard \ scene.known,
                 proposed |-> w.proposed \cup (heard \ scene.known)]
        BY DEF P!Hop
      <4>. HIDE DEF heard
      <4>. QED
        BY <3>3, <4>1
    <3>5. Reach(h + 1) = Reach(h) \cup met
      <4>1. w.frontier = IF h = 0 THEN {scene.seed} ELSE (Reach(h) \ Reach(h - 1)) \ scene.known
        BY <3>1 DEF Covers
      <4>. QED
        BY <3>1, <4>1, ReachGrows
    <3>6. w.visited = Reach(h) /\ w.proposed = (Reach(h) \ {scene.seed}) \ scene.known
      BY <3>1 DEF Covers
    <3>7. scene.seed \in Reach(h)
      BY <1>1, <3>1, WalksNowhere DEF Reach
    <3>. HIDE DEF met, w, u
    <3>8. /\ u.visited = Reach(h + 1)
          /\ u.frontier = (Reach(h + 1) \ Reach(h)) \ scene.known
          /\ u.proposed = (Reach(h + 1) \ {scene.seed}) \ scene.known
      BY <3>4, <3>5, <3>6, <3>7
    <3>9. Covers(h + 1)
      BY <3>1, <3>2, <3>8 DEF Covers, u
    <3>. QED
      BY <3>1, <3>9
  <2>. QED
    BY <2>1
<1>. HIDE DEF Good
<1>4. Good = Nat
  BY <1>2, <1>3, Steps DEF Good
<1>. QED
  BY <1>1, <1>4 DEF Good

\* What a report of discover_fabric_from_seed proposes.
LEMMA WalkStep == ReportInv => WalkIsReachability
<1>. SUFFICES ASSUME ReportInv, Reported("discover")
              PROVE  LET reached == {n \in Nodes \ {scene.seed} : \E k \in 1..scene.maxHops : Walks(n, k)}
                     IN /\ report.found.proposed = (reached \ scene.known) \cap scene.answering
                        /\ report.found.unreachable = (reached \ scene.known) \ scene.answering
                        /\ report.found.already = reached \cap scene.known
  BY DEF WalkIsReachability
<1>. DEFINE reached == {n \in Nodes \ {scene.seed} : \E k \in 1..scene.maxHops : Walks(n, k)}
            end == Walked[scene.maxHops]
<1>1. WalkAssumption
  BY FabricAssumption DEF WalkAssumption, ReportInv, FanInv, TypeOK, Frozen, Reported
<1>2. report.found = [proposed |-> end.proposed \cap scene.answering,
                      already |-> (end.visited \ {scene.seed}) \ end.proposed,
                      unreachable |-> end.proposed \ scene.answering]
  BY DEF ReportInv, Frozen, Reported, Found, Walked, P!Discover
<1>3. end.visited = Reach(scene.maxHops) /\ end.proposed = (Reach(scene.maxHops) \ {scene.seed}) \ scene.known
  <2>1. scene.maxHops \in 0..scene.maxHops
    BY <1>1 DEF WalkAssumption
  <2>2. Covers(scene.maxHops)
    BY <1>1, <2>1, WalkCovers
  <2>. QED
    BY <2>2 DEF Covers
<1>4. Reach(scene.maxHops) \ {scene.seed} = reached
  <2>1. \A n \in Nodes \ {scene.seed} : ~Walks(n, 0)
    BY <1>1, WalksNowhere
  <2>2. \A k \in 0..scene.maxHops : k = 0 \/ k \in 1..scene.maxHops
    BY <1>1 DEF WalkAssumption
  <2>3. 1..scene.maxHops \subseteq 0..scene.maxHops
    BY <1>1 DEF WalkAssumption
  <2>. QED
    BY <2>1, <2>2, <2>3 DEF Reach
<1>. HIDE DEF end, reached
<1>5. /\ report.found.proposed = (reached \ scene.known) \cap scene.answering
      /\ report.found.unreachable = (reached \ scene.known) \ scene.answering
      /\ report.found.already = reached \cap scene.known
  BY <1>2, <1>3, <1>4
<1>. QED
  BY <1>5 DEF reached

\* The walk from the seed misses no unknown node that a path of answering, unknown nodes
\* leads to in max_hops steps, and proposes no other.
THEOREM WalkCorrect == Spec => []WalkIsReachability
BY ReportInvCorrect, WalkStep, PTL

=============================================================================
