-------------------------------- MODULE FanOut --------------------------------
(***************************************************************************)
(* fan_out: one handler run against many switches in a thread pool.  The   *)
(* workers take the futures in the order of submission; the calling thread *)
(* collects what is done, in any order, until all are in or the overall    *)
(* timeout is over.  Then it waits for the workers and raises.             *)
(*                                                                         *)
(* A handler's payload is modelled by the state of the switch it was taken *)
(* from: what a handler extracts from it is left to the modules that       *)
(* extend this one.                                                        *)
(***************************************************************************)
EXTENDS Naturals, Sequences, FiniteSets

CONSTANTS
    Switches,
    Readings,      \* the states of a switch, as a handler may read them
    Error,         \* the entry of a switch whose handler raised
    None,
    Calls,         \* the target lists of the calls
    MaxWorkers,
    MaxChanges     \* bounds the behaviours: changes of switches

ASSUME FanOutAssumption ==
    /\ Calls \subseteq Seq(Switches)
    /\ IsFiniteSet(Switches)
    /\ MaxWorkers \in Nat \ {0}
    /\ MaxChanges \in Nat
    /\ Error \notin Readings /\ None \notin Readings \cup {Error}

VARIABLES
    world,         \* the state of each switch
    changes,       \* changes so far
    targets,
    future,        \* per target: its stage and its answer
    collected,     \* futures that as_completed has yielded
    results,       \* entry of each switch, None before it is in
    order,         \* the keys of results, in the order of their insertion
    main,          \* what the calling thread is doing
    since          \* history: the states each switch had since the call began

callVars == <<targets, future, collected, results, order, main>>
fanVars == <<world, changes, callVars, since>>

Queued == [stage |-> "queued", answer |-> None]
Running == [stage |-> "running", answer |-> None]
Done(a) == [stage |-> "done", answer |-> a]
Futures == {Queued, Running} \cup {Done(a) : a \in Readings \cup {Error}}

FanTypeOK ==
    /\ world \in [Switches -> Readings]
    /\ changes \in Nat
    /\ targets \in Seq(Switches)
    /\ future \in [DOMAIN targets -> Futures]
    /\ collected \subseteq DOMAIN targets
    /\ results \in [Switches -> Readings \cup {Error, None}]
    /\ order \in Seq(Switches)
    /\ Len(order) = Cardinality({s \in Switches : results[s] # None})
    /\ main \in {"idle", "waiting", "closing", "returned", "raised"}
    /\ since \in [Switches -> SUBSET Readings]

NoResults == [s \in Switches |-> None]

FanInit ==
    /\ world \in [Switches -> Readings]
    /\ changes = 0
    /\ targets = << >>
    /\ future = << >>
    /\ collected = {}
    /\ results = NoResults
    /\ order = << >>
    /\ main = "idle"
    /\ since = [s \in Switches |-> {world[s]}]

\* fan_out up to its loop; without targets it returns at once.
Call(ts) ==
    /\ main \in {"idle", "returned", "raised"}
    /\ targets' = ts
    /\ future' = [i \in DOMAIN ts |-> Queued]
    /\ collected' = {}
    /\ results' = NoResults
    /\ order' = << >>
    /\ main' = IF ts = << >> THEN "returned" ELSE "waiting"
    /\ since' = [s \in Switches |-> {world[s]}]
    /\ UNCHANGED <<world, changes>>

\* A free worker takes the oldest future that is queued.
Start(i) ==
    /\ main \in {"waiting", "closing"}
    /\ future[i] = Queued
    /\ \A j \in DOMAIN targets : j < i => future[j] # Queued
    /\ Cardinality({j \in DOMAIN targets : future[j] = Running}) < MaxWorkers
    /\ future' = [future EXCEPT ![i] = Running]
    /\ UNCHANGED <<world, changes, targets, collected, results, order, main, since>>

\* _invoke_one ends: it has read its switch, or the handler has raised.
Finish(i) ==
    /\ future[i] = Running
    /\ \E a \in {world[targets[i]], Error} : future' = [future EXCEPT ![i] = Done(a)]
    /\ UNCHANGED <<world, changes, targets, collected, results, order, main, since>>

\* Mutant: the answer is filed under the first target.
MutCollect(i) ==
    /\ main = "waiting"
    /\ future[i].stage = "done" /\ i \notin collected
    /\ collected' = collected \cup {i}
    /\ results' = [results EXCEPT ![targets[1]] = future[i].answer]
    /\ order' = IF results[targets[1]] = None THEN Append(order, targets[1]) ELSE order
    /\ UNCHANGED <<world, changes, targets, future, main, since>>

\* Mutant: an entry that is overwritten is listed again.
MutCollectAgain(i) ==
    /\ main = "waiting"
    /\ future[i].stage = "done" /\ i \notin collected
    /\ collected' = collected \cup {i}
    /\ results' = [results EXCEPT ![targets[i]] = future[i].answer]
    /\ order' = Append(order, targets[i])
    /\ UNCHANGED <<world, changes, targets, future, main, since>>

\* as_completed yields a future.  A switch that is named twice has one entry,
\* which keeps its place when it is overwritten.
Collect(i) ==
    /\ main = "waiting"
    /\ future[i].stage = "done" /\ i \notin collected
    /\ collected' = collected \cup {i}
    /\ results' = [results EXCEPT ![targets[i]] = future[i].answer]
    /\ order' = IF results[targets[i]] = None THEN Append(order, targets[i]) ELSE order
    /\ UNCHANGED <<world, changes, targets, future, main, since>>

Return ==
    /\ main = "waiting"
    /\ collected = DOMAIN targets
    /\ main' = "returned"
    /\ UNCHANGED <<world, changes, targets, future, collected, results, order, since>>

\* as_completed raises: a future is still out when the time is over.
TimeOut ==
    /\ main = "waiting"
    /\ collected # DOMAIN targets
    /\ main' = "closing"
    /\ UNCHANGED <<world, changes, targets, future, collected, results, order, since>>

\* Mutant: the caller is left waiting for a future that nobody runs.
MutRaise ==
    /\ main = "closing"
    /\ \A i \in DOMAIN targets : i \in collected
    /\ main' = "raised"
    /\ UNCHANGED <<world, changes, targets, future, collected, results, order, since>>

\* The executor has waited for all futures, those not yet started included.
Raise ==
    /\ main = "closing"
    /\ \A i \in DOMAIN targets : future[i].stage = "done"
    /\ main' = "raised"
    /\ UNCHANGED <<world, changes, targets, future, collected, results, order, since>>

\* Somebody changes a switch.
Change(s, r) ==
    /\ changes < MaxChanges
    /\ r # world[s]
    /\ world' = [world EXCEPT ![s] = r]
    /\ changes' = changes + 1
    /\ since' = [since EXCEPT ![s] = @ \cup {r}]
    /\ UNCHANGED callVars

\* The steps of a call that is under way.
Work(i) == Start(i) \/ Finish(i) \/ Collect(i)
CallStep == Return \/ TimeOut \/ Raise \/ \E i \in DOMAIN targets : Work(i)

=============================================================================
