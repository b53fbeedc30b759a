--------------------------- MODULE InvokePipeline ---------------------------
(***************************************************************************)
(* MCPServer.invoke and the handlers of the mutation tools.  FastAPI runs  *)
(* every POST /invoke on a thread of its pool, so calls interleave at each *)
(* SSH exchange, at the ledger's lock and at the session update.           *)
(*                                                                         *)
(*   Admit      policy gate, merge of session, body and input context      *)
(*   Plan       rollback_mutation finds the entry and plans the inverse    *)
(*   FirstRead  the handler validates its inputs and reads the state       *)
(*   Command    it runs the command on the switch                          *)
(*   SecondRead it reads again and checks what it sees                     *)
(*   Record     invoke appends a line to logs/mutations.jsonl              *)
(*   Reply      invoke stores the context in the session and returns       *)
(*                                                                         *)
(* SSH fails before or after the switch has acted, reads fail, appending   *)
(* to the ledger fails, and the process is killed and started again.       *)
(***************************************************************************)
EXTENDS MutationTools, Naturals, Sequences

CONSTANTS
    StartConfigs,  \* the configurations switches may have when the server starts
    Threads,       \* threads of the server's pool
    Sessions,      \* X-MCP-Session ids in use
    ClientOps,     \* the inputs clients send to /invoke, with the tool's name
    BodySwitches,  \* switch_ip of the request's own context, or None
    AutoMode,      \* MCPServer(auto_mode=...)
    TailWindow     \* ledger lines rollback_mutation looks at (5000)

ASSUME PipelineAssumption ==
    /\ StartConfigs \subseteq Configs /\ \A d \in StartConfigs : WellFormed(d)
    /\ ClientOps \subseteq Ops
    /\ BodySwitches \subseteq Switches \cup {None}
    /\ AutoMode \in BOOLEAN
    /\ TailWindow \in Nat \ {0}

VARIABLES
    running,    \* the running configuration of every switch
    ledger,     \* logs/mutations.jsonl
    context,    \* switch_ip of every session's stored context, or None
    enabled,    \* MCP_MUTATIONS_ENABLED of the running process
    task,       \* what every thread is doing
    fresh,      \* mutation ids not used yet: bounds the calls of a behaviour
    journal,    \* history: the commands that reached a switch, in order
    lost        \* history: ids of the calls a crash or a disk error cut off

vars == <<running, ledger, context, enabled, task, fresh, journal, lost>>

Idle == [pc |-> "idle"]

ActivePcs == {"plan", "read", "command", "verify", "ok", "failed", "reply"}

\* A call in progress: the inputs as sent, the merged context's switch_ip, and
\* the op, first and second read of the handler that is running.  seen is history:
\* what the switch had when it was read first.
Tasks == [pc : ActivePcs, id : MutationIds, sent : Ops, confirm : BOOLEAN,
          session : Sessions, ctx : Switches \cup {None},
          op : Ops, pre : Readings, post : Readings, seen : Readings]

Entries == [id : MutationIds, op : Ops, status : {"ok", "failed"},
            pre : Readings, post : Readings]

Replies == {"zero", "nonzero", "error"}

\* A command that reached a switch: the call it belongs to, the handler's op, the
\* kill switch at that moment, the configuration before and after it, and what the
\* first read of the handler returned, with the configuration that it had read.
Commands == [id : MutationIds, sent : Ops, confirm : BOOLEAN, enabled : BOOLEAN,
             op : Ops, switch : Switches, reply : Replies,
             before : Configs, after : Configs, pre : Readings, seen : Readings]

TypeOK ==
    /\ running \in [Switches -> Configs] /\ \A s \in Switches : WellFormed(running[s])
    /\ ledger \in Seq(Entries)
    /\ context \in [Sessions -> Switches \cup {None}]
    /\ enabled \in BOOLEAN
    /\ task \in [Threads -> Tasks \cup {Idle}]
    /\ fresh \subseteq MutationIds
    /\ journal \in Seq(Commands)
    /\ lost \subseteq MutationIds

----------------------------------------------------------------------------

Target(t) == RequireSwitchIp(task[t].op, task[t].ctx)

MergedContext(session, body, sent) ==
    IF body # None THEN body
    ELSE IF context[session] # None THEN context[session]
    ELSE sent.switch_ip

\* The last lines of the ledger, as LEDGER.tail returns them.
Tail5000 == {ledger[i] : i \in {j \in 1..Len(ledger) : j + TailWindow > Len(ledger)}}

Init ==
    /\ running \in [Switches -> StartConfigs]
    /\ ledger = <<>>
    /\ context = [s \in Sessions |-> None]
    /\ enabled \in BOOLEAN
    /\ task = [t \in Threads |-> Idle]
    /\ fresh = MutationIds
    /\ journal = <<>>
    /\ lost = {}

\* The call that invoke starts for the inputs of a client.
Started(id, sent, confirm, session, body) ==
    [pc |-> IF sent.tool = "rollback_mutation" THEN "plan" ELSE "read",
     id |-> id, sent |-> sent, confirm |-> confirm, session |-> session,
     ctx |-> MergedContext(session, body, sent),
     op |-> sent, pre |-> NoReading, post |-> NoReading, seen |-> NoReading]

\* invoke up to the handler call.  A tool that is refused leaves no trace.
Admit(t) ==
    /\ task[t] = Idle
    /\ \E id \in fresh, sent \in ClientOps, confirm \in BOOLEAN,
          s \in Sessions, body \in BodySwitches :
         /\ Admits(sent.tool, enabled, AutoMode, confirm)
         /\ fresh' = fresh \ {id}
         /\ task' = [task EXCEPT ![t] = Started(id, sent, confirm, s, body)]
    /\ UNCHANGED <<running, ledger, context, enabled, journal, lost>>

\* Mutant: any entry that succeeded, whatever its id.
MutUndoable(id) == {e \in Tail5000 : e.status = "ok"}

\* The entries a rollback of mutation id may undo.
Undoable(id) == {e \in Tail5000 : e.id = id /\ e.status = "ok"}

\* Mutant: waits for the entry to appear in the ledger.
MutPlan(t) ==
    /\ task[t].pc = "plan"
    /\ \E o \in UNION {Reverse(e) : e \in Undoable(task[t].sent.object)} :
         task' = [task EXCEPT ![t].pc = "read", ![t].op = o]
    /\ UNCHANGED <<running, ledger, context, enabled, fresh, journal, lost>>

\* rollback_mutation finds the entry and calls the inverse handler, or raises.
Plan(t) ==
    /\ task[t].pc = "plan"
    /\ LET planned == UNION {Reverse(e) : e \in Undoable(task[t].sent.object)}
       IN  \/ \E o \in planned :
                task' = [task EXCEPT ![t].pc = "read", ![t].op = o]
           \/ /\ planned = {}
              /\ task' = [task EXCEPT ![t].pc = "failed"]
    /\ UNCHANGED <<running, ledger, context, enabled, fresh, journal, lost>>

\* The handler raises before it has run its command: no switch, invalid
\* inputs, or a first read whose SSH error is not swallowed.
FirstReadFails(t) ==
    /\ task[t].pc = "read"
    /\ \/ Target(t) = None
       \/ ~Valid(task[t].op)
       \/ "first" \in Handlers[task[t].op.tool].raising
    /\ task' = [task EXCEPT ![t].pc = "failed"]
    /\ UNCHANGED <<running, ledger, context, enabled, fresh, journal, lost>>

FirstRead(t) ==
    /\ task[t].pc = "read"
    /\ Target(t) # None
    /\ Valid(task[t].op)
    /\ \E r \in ReadResults(running[Target(t)], task[t].op) :
         task' = [task EXCEPT ![t].pc = "command", ![t].pre = r,
                              ![t].seen = running[Target(t)]]
    /\ UNCHANGED <<running, ledger, context, enabled, fresh, journal, lost>>

\* The journal's record of thread t's command, when it has taken effect on the
\* cells S.
Performed(t, S, reply) ==
    [id |-> task[t].id, sent |-> task[t].sent, confirm |-> task[t].confirm,
     enabled |-> enabled, op |-> task[t].op, switch |-> Target(t), reply |-> reply,
     before |-> running[Target(t)],
     after |-> Written(running[Target(t)], S, Goal(task[t].op)),
     pre |-> task[t].pre, seen |-> task[t].seen]

\* Mutant: the command is issued again after an SSH error.
MutCommand(t) ==
    /\ task[t].pc = "command"
    /\ LET p == Performed(t, Touched(task[t].op), "error")
       IN  running' = [running EXCEPT ![p.switch] = p.after] /\ journal' = Append(journal, p)
    /\ UNCHANGED <<task, ledger, context, enabled, fresh, lost>>

\* transport.ssh.run of the command.  Exit status zero means that all of it is
\* in place; otherwise any part may be, and "error" (a timeout, a dropped
\* connection) says nothing about the switch.
Command(t) ==
    /\ task[t].pc = "command"
    /\ \E S \in SUBSET Touched(task[t].op), reply \in Replies :
         /\ reply = "zero" => S = Touched(task[t].op)
         /\ journal' = Append(journal, Performed(t, S, reply))
         /\ running' = [running EXCEPT ![Target(t)] = Performed(t, S, reply).after]
         /\ task' = [task EXCEPT ![t].pc =
                IF \/ reply = "error"
                   \/ reply = "nonzero" /\ Handlers[task[t].op.tool].strict
                  THEN "failed" ELSE "verify"]
    /\ UNCHANGED <<ledger, context, enabled, fresh, lost>>

SecondReadFails(t) ==
    /\ task[t].pc = "verify"
    /\ "second" \in Handlers[task[t].op.tool].raising
    /\ task' = [task EXCEPT ![t].pc = "failed"]
    /\ UNCHANGED <<running, ledger, context, enabled, fresh, journal, lost>>

SecondRead(t) ==
    /\ task[t].pc = "verify"
    /\ \E r \in ReadResults(running[Target(t)], task[t].op) :
         task' = [task EXCEPT ![t].post = r,
                              ![t].pc = IF Rejects(task[t].op, task[t].pre, r)
                                          THEN "failed" ELSE "ok"]
    /\ UNCHANGED <<running, ledger, context, enabled, fresh, journal, lost>>

\* The ledger line: a failure carries no states, nor does a rollback, whose
\* payload has none of its own.
Entry(t) ==
    LET states == task[t].pc = "ok" /\ task[t].sent.tool # "rollback_mutation"
    IN  [id |-> task[t].id, op |-> task[t].sent,
         status |-> task[t].pc,
         pre  |-> IF states THEN task[t].pre ELSE NoReading,
         post |-> IF states THEN task[t].post ELSE NoReading]

\* Mutant: a handler that raises leaves no line.
MutRecord(t) ==
    /\ task[t].pc \in {"ok", "failed"}
    /\ ledger' = IF task[t].pc = "ok" THEN Append(ledger, Entry(t)) ELSE ledger
    /\ task' = [task EXCEPT ![t] = IF task[t].pc = "ok"
                                     THEN [task[t] EXCEPT !.pc = "reply"] ELSE Idle]
    /\ UNCHANGED <<running, context, enabled, fresh, journal, lost>>

\* MUTATION_LEDGER.record on success and on failure; a read leaves no line.
Record(t) ==
    /\ task[t].pc \in {"ok", "failed"}
    /\ ledger' = IF IsMutation(task[t].sent.tool) THEN Append(ledger, Entry(t)) ELSE ledger
    /\ task' = [task EXCEPT ![t] = IF task[t].pc = "ok"
                                     THEN [task[t] EXCEPT !.pc = "reply"] ELSE Idle]
    /\ UNCHANGED <<running, context, enabled, fresh, journal, lost>>

\* Opening or writing the file raises: invoke fails, the switch keeps the change.
RecordFails(t) ==
    /\ task[t].pc \in {"ok", "failed"}
    /\ IsMutation(task[t].sent.tool)
    /\ lost' = lost \cup {task[t].id}
    /\ task' = [task EXCEPT ![t] = Idle]
    /\ UNCHANGED <<running, ledger, context, enabled, fresh, journal>>

\* session.update_context(merged_ctx), with the context merged at admission.
Reply(t) ==
    /\ task[t].pc = "reply"
    /\ context' = [context EXCEPT ![task[t].session] = task[t].ctx]
    /\ task' = [task EXCEPT ![t] = Idle]
    /\ UNCHANGED <<running, ledger, enabled, fresh, journal, lost>>

InFlight == {t \in Threads : task[t] # Idle}

\* Killed and started again: threads and sessions are gone, the ledger and the
\* switches stay, and the environment may now set the kill switch otherwise.
Restart ==
    /\ task' = [t \in Threads |-> Idle]
    /\ context' = [s \in Sessions |-> None]
    /\ enabled' \in BOOLEAN
    /\ lost' = lost \cup {task[t].id : t \in {u \in InFlight : task[u].pc # "reply"}}
    /\ UNCHANGED <<running, ledger, fresh, journal>>

Step(t) ==
    \/ Plan(t)
    \/ FirstReadFails(t)
    \/ FirstRead(t)
    \/ Command(t)
    \/ SecondReadFails(t)
    \/ SecondRead(t)
    \/ Record(t)
    \/ RecordFails(t)
    \/ Reply(t)

Next ==
    \/ \E t \in Threads : Admit(t) \/ Step(t)
    \/ Restart

Spec == Init /\ [][Next]_vars

\* Every SSH and RESTCONF exchange of a handler has a timeout, so a call that
\* was admitted takes its next step; clients and restarts owe nothing.
FairSpec == Spec /\ \A t \in Threads : WF_vars(Step(t))

----------------------------------------------------------------------------

\* Every command of a mutation that reached a switch is in the ledger, or will
\* be, under the inputs the client sent: whatever the handler does after the
\* command, invoke records success and failure alike.  What a crash or a failed
\* write of the ledger cuts off is the only exception.
Audited ==
    \A i \in DOMAIN journal :
        IsMutation(journal[i].sent.tool) =>
            \/ \E k \in DOMAIN ledger :
                 ledger[k].id = journal[i].id /\ ledger[k].op = journal[i].sent
            \/ \E t \in InFlight :
                 task[t].id = journal[i].id /\ task[t].pc \in {"verify", "ok", "failed"}
            \/ journal[i].id \in lost

\* A call has at most one ledger line and at most one command, a line that says
\* "ok" stands for a command that did reach a switch, and a call that was cut
\* off has no line.
OneLinePerCommand ==
    /\ \A k, l \in DOMAIN ledger : ledger[k].id = ledger[l].id => k = l
    /\ \A i, j \in DOMAIN journal : journal[i].id = journal[j].id => i = j
    /\ \A k \in DOMAIN ledger :
        /\ ledger[k].status = "ok" =>
             \E i \in DOMAIN journal :
                journal[i].id = ledger[k].id /\ journal[i].sent = ledger[k].op
        /\ ledger[k].id \notin lost

\* No command reaches a switch that the policy would have refused to this caller:
\* neither the tool that was called nor the inverse that rollback_mutation runs
\* without asking enforce_policy.
Authorised ==
    \A i \in DOMAIN journal :
        LET j == journal[i]
        IN  \A tool \in {j.sent.tool, j.op.tool} :
                /\ IsMutation(tool) => j.enabled
                /\ AutoMode => AllowedInAutoMode(tool)
                /\ RequiresConfirmation(tool) => j.confirm

\* The command of a rollback and the command of the mutation it undoes.
Undoes(r, o) == r.sent.tool = "rollback_mutation" /\ r.sent.object = o.id

\* A rollback acts on the switch of the mutation it undoes when the client named
\* that switch, whatever the rollback's own session or body context says.
RollbackOnSameSwitch ==
    \A i, k \in DOMAIN journal :
        /\ Undoes(journal[k], journal[i])
        /\ journal[i].sent.switch_ip # None
        => journal[k].switch = journal[i].switch

\* What the ledger line of mutation o says determines what cell c held when o read it:
\* it is the setting that was recorded, or it was not what o writes and o's value has
\* one opposite.  An unanswered first read of a description is made up for by nothing.
Recoverable(o, c) ==
    \/ /\ o.op.tool \in {"set_interface_admin_status", "set_interface_mtu",
                          "set_interface_description", "set_bgp_neighbor_admin"}
       /\ o.pre[c] # None
    \/ o.seen[c] # Goal(o.op) /\ c[1] # "descr"

\* "Rollback re-applies the recorded pre-state": a rollback that the switch carries out
\* leaves in every cell the mutation is about what the cell held when the mutation
\* read it first.  This is so whatever other calls, and other rollbacks, have written
\* to the cell since: between the mutation's read and its command, before the
\* rollback's own first read, or between that and its command.  Neither the value that
\* the mutation's command replaced nor one that came later is restored in its place.
RollbackRestores ==
    \A i, k \in DOMAIN journal :
        LET o == journal[i]  r == journal[k]
        IN  Undoes(r, o) /\ r.switch = o.switch /\ r.reply = "zero" =>
              \A c \in Touched(o.op) : Recoverable(o, c) => r.after[c] = o.seen[c]

\* A rollback changes no cell that the mutation's own command does not write.
RollbackConfined ==
    \A i, k \in DOMAIN journal :
        Undoes(journal[k], journal[i]) =>
            \A c \in Cells :
                journal[k].before[c] # journal[k].after[c] => c \in Touched(journal[i].op)

\* Every call that was admitted ends, with an answer or an error.
EveryCallEnds == \A t \in Threads : task[t] # Idle ~> task[t] = Idle

----------------------------------------------------------------------------
(* What the documentation says and the code does not do.                   *)

\* rollback_mutation: "If the original mutation's `status` is "failed", rollback
\* refuses - there is nothing to undo."
FailedLeftNothingToUndo ==
    \A i \in DOMAIN journal, k \in DOMAIN ledger :
        ledger[k].id = journal[i].id /\ ledger[k].status = "failed" =>
            journal[i].before = journal[i].after

=============================================================================
