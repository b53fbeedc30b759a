------------------------ MODULE InvokePipelineProofs ------------------------
(***************************************************************************)
(* Proofs about InvokePipeline, for every set of switches, tools' objects, *)
(* threads, sessions, client inputs and number of calls: its types; its    *)
(* audit trail (no command is missing from the ledger, none is written     *)
(* twice); its policy gate; and its rollbacks, which give back what was    *)
(* recorded, on the switch of the mutation they undo and nowhere else.     *)
(***************************************************************************)
EXTENDS InvokePipeline, MutationToolsProofs

\* A task starts with readings of the right shape.
LEMMA NoReadingIsReading == NoReading \in Readings
  BY DEF NoReading, Readings

\* The planner builds inputs of the right shape from any entry.
LEMMA ReverseIsOp ==
    ASSUME NEW e \in Entries, NEW o \in Reverse(e)
    PROVE  o \in Ops /\ o.tool \in HandlerTools
<1>1. \A v : Inverted(v) \subseteq InputValues
  BY DEF Inverted, Inverse, InputValues, Values, AdminStatus, Actions
<1>2. Recorded(e) \subseteq InputValues
  BY DEF Recorded, Entries, Readings, InputValues
<1>3. SettingsBefore(e) \subseteq InputValues
  BY <1>1, <1>2, ConstantsAssumption DEF SettingsBefore, InputValues, Values
<1>4. e.op \in Ops
  BY DEF Entries
<1>5. CASE e.op.tool \in {"set_interface_admin_status", "set_interface_mtu",
                          "set_interface_description", "set_bgp_neighbor_admin"}
  <2>1. e.op.tool \notin {"set_ip_interface", "set_portchannel_member", "remove_static_route"}
        /\ e.op.tool \notin DOMAIN InverseTool
    BY <1>5 DEF InverseTool
  <2>2. Reverse(e) = {[e.op EXCEPT !.value = v] : v \in SettingsBefore(e)}
    BY <1>5, <2>1, Zenon DEF Reverse
  <2>3. PICK v \in SettingsBefore(e) : o = [e.op EXCEPT !.value = v]
    BY <2>2
  <2>4. o.tool = e.op.tool /\ o \in Ops
    BY <1>3, <1>4, <2>3 DEF Ops
  <2>. QED
    BY <1>5, <2>4 DEF HandlerTools, Handlers
<1>6. CASE e.op.tool \in {"set_ip_interface", "set_portchannel_member"}
  <2>1. e.op.tool \notin {"set_interface_admin_status", "set_interface_mtu",
                          "set_interface_description", "set_bgp_neighbor_admin",
                          "remove_static_route"}
        /\ e.op.tool \notin DOMAIN InverseTool
    BY <1>6 DEF InverseTool
  <2>2. Reverse(e) = {[e.op EXCEPT !.value = v] : v \in Inverted(e.op.value)}
    BY <1>6, <2>1, Zenon DEF Reverse
  <2>3. PICK v \in Inverted(e.op.value) : o = [e.op EXCEPT !.value = v]
    BY <2>2
  <2>4. o.tool = e.op.tool /\ o \in Ops
    BY <1>1, <1>4, <2>3 DEF Ops
  <2>. QED
    BY <1>6, <2>4 DEF HandlerTools, Handlers
<1>7. CASE e.op.tool \in DOMAIN InverseTool
  <2>1. o = [e.op EXCEPT !.tool = InverseTool[e.op.tool]]
    BY <1>7 DEF Reverse, InverseTool
  <2>2. InverseTool[e.op.tool] \in HandlerTools
    BY <1>7 DEF InverseTool, HandlerTools, Handlers
  <2>3. HandlerTools \subseteq Tools
    BY DEF Tools
  <2>. QED
    BY <1>4, <2>1, <2>2, <2>3 DEF Ops
<1>. QED
  BY <1>5, <1>6, <1>7 DEF Reverse

----------------------------------------------------------------------------
(* Type correctness.                                                       *)

\* Strengthening of TypeOK: a handler that has got as far as its command runs a
\* handler tool, has a switch, and its inputs were validated.
Checked ==
    \A t \in InFlight :
        /\ task[t].pc \in {"read", "command", "verify"} => task[t].op.tool \in HandlerTools
        /\ task[t].pc \in {"command", "verify"} => Target(t) \in Switches /\ Valid(task[t].op)

TInv == TypeOK /\ Checked

\* The initial states.
LEMMA InitTInv == Init => TInv
<1>. SUFFICES ASSUME Init PROVE TInv
  OBVIOUS
<1>1. TypeOK
  BY PipelineAssumption DEF Init, TypeOK
<1>2. Checked
  BY DEF Init, Checked, InFlight
<1>. QED
  BY <1>1, <1>2 DEF TInv

\* A step of one thread keeps TInv if it leaves that thread idle or with a task
\* of the right shape that satisfies Checked.
LEMMA TaskUpdate ==
    ASSUME TInv, NEW t \in Threads, NEW x \in Tasks \cup {Idle},
           task' = [task EXCEPT ![t] = x],
           x \in Tasks =>
             /\ x.pc \in {"read", "command", "verify"} => x.op.tool \in HandlerTools
             /\ x.pc \in {"command", "verify"} =>
                  RequireSwitchIp(x.op, x.ctx) \in Switches /\ Valid(x.op)
    PROVE  task' \in [Threads -> Tasks \cup {Idle}] /\ Checked'
<1>1. task \in [Threads -> Tasks \cup {Idle}]
  BY DEF TInv, TypeOK
<1>2. task' \in [Threads -> Tasks \cup {Idle}]
  BY <1>1
<1>3. ASSUME NEW u \in Threads, task'[u] # Idle
      PROVE  /\ task'[u].pc \in {"read", "command", "verify"} =>
                  task'[u].op.tool \in HandlerTools
             /\ task'[u].pc \in {"command", "verify"} =>
                  RequireSwitchIp(task'[u].op, task'[u].ctx) \in Switches /\ Valid(task'[u].op)
  <2>1. CASE u = t
    BY <1>1, <1>3, <2>1
  <2>2. CASE u # t
    <3>1. task'[u] = task[u] /\ u \in InFlight
      BY <1>1, <1>3, <2>2 DEF InFlight
    <3>. QED
      BY <3>1 DEF TInv, Checked, Target
  <2>. QED
    BY <2>1, <2>2
<1>. QED
  BY <1>2, <1>3 DEF Checked, InFlight, Target

\* A thread that is doing something has a task.
LEMMA ActiveTask ==
    ASSUME TypeOK, NEW t \in Threads, task[t].pc \in ActivePcs
    PROVE  task[t] \in Tasks /\ task[t] # Idle /\ t \in InFlight
<1>1. task[t] \in Tasks \cup {Idle}
  BY DEF TypeOK
<1>2. task[t] # Idle
  BY DEF Idle, ActivePcs
<1>. QED
  BY <1>1, <1>2 DEF InFlight

\* No task is mistaken for an idle thread.
LEMMA TasksAreActive ==
    ASSUME NEW x \in Tasks
    PROVE  x.pc \in ActivePcs /\ x # Idle
BY DEF Tasks, Idle, ActivePcs

\* A step that starts a task, moves it on or ends it, one lemma per action.
LEMMA AdmitTInv ==
    ASSUME TInv, NEW t \in Threads, Admit(t) PROVE TInv'
<1>1. PICK id \in fresh, sent \in ClientOps, confirm \in BOOLEAN,
           s \in Sessions, body \in BodySwitches :
         /\ fresh' = fresh \ {id}
         /\ task' = [task EXCEPT ![t] = Started(id, sent, confirm, s, body)]
  BY DEF Admit
<1>. DEFINE x == Started(id, sent, confirm, s, body)
<1>2. sent \in Ops
  BY PipelineAssumption
<1>3. MergedContext(s, body, sent) \in Switches \cup {None}
  BY <1>2, PipelineAssumption DEF MergedContext, TInv, TypeOK, Ops
<1>4. id \in MutationIds
  BY DEF TInv, TypeOK
<1>5. x \in Tasks
  BY <1>2, <1>3, <1>4, NoReadingIsReading DEF Started, Tasks, ActivePcs
<1>6. x.pc = "read" => x.op.tool \in HandlerTools
  BY <1>2 DEF Started, Ops, Tools
<1>7. x.pc \notin {"command", "verify"}
  BY DEF Started
<1>. HIDE DEF x
<1>8. task' \in [Threads -> Tasks \cup {Idle}] /\ Checked'
  BY <1>1, <1>5, <1>6, <1>7, TaskUpdate DEF x
<1>. QED
  BY <1>1, <1>8 DEF TInv, TypeOK, Admit

\* A thread's control moves on, its task staying as it is.
LEMMA MoveTo ==
    ASSUME TInv, NEW t \in Threads, task[t].pc \in ActivePcs,
           NEW pc \in ActivePcs \ {"read"},
           pc \in {"command", "verify"} => task[t].pc \in {"command", "verify"},
           task' = [task EXCEPT ![t].pc = pc]
    PROVE  task' \in [Threads -> Tasks \cup {Idle}] /\ Checked'
<1>1. task[t] \in Tasks /\ t \in InFlight
  BY ActiveTask DEF TInv
<1>. DEFINE x == [task[t] EXCEPT !.pc = pc]
<1>2. x \in Tasks /\ x.pc = pc /\ x.op = task[t].op /\ x.ctx = task[t].ctx
  BY <1>1 DEF Tasks
<1>3. task' = [task EXCEPT ![t] = x]
  BY <1>1 DEF TInv, TypeOK
<1>. HIDE DEF x
<1>4. pc \in {"command", "verify"} =>
        /\ x.op.tool \in HandlerTools
        /\ RequireSwitchIp(x.op, x.ctx) \in Switches
        /\ Valid(x.op)
  BY <1>1, <1>2 DEF TInv, Checked, Target
<1>. QED
  BY <1>2, <1>3, <1>4, TaskUpdate

\* A thread's call ends.
LEMMA MoveToIdle ==
    ASSUME TInv, NEW t \in Threads, task' = [task EXCEPT ![t] = Idle]
    PROVE  task' \in [Threads -> Tasks \cup {Idle}] /\ Checked'
<1>1. Idle \notin Tasks
  BY TasksAreActive
<1>. QED
  BY <1>1, TaskUpdate

\* The planner: it only builds inputs of handler tools from ledger entries.
LEMMA PlanTInv ==
    ASSUME TInv, NEW t \in Threads, Plan(t) PROVE TInv'
<1>1. task[t] \in Tasks /\ task[t].pc \in ActivePcs
  BY ActiveTask DEF Plan, TInv, ActivePcs
<1>2. CASE \E o \in UNION {Reverse(e) : e \in Undoable(task[t].sent.object)} :
             task' = [task EXCEPT ![t].pc = "read", ![t].op = o]
  <2>1. PICK o \in UNION {Reverse(e) : e \in Undoable(task[t].sent.object)} :
             task' = [task EXCEPT ![t].pc = "read", ![t].op = o]
    BY <1>2
  <2>2. PICK e \in Undoable(task[t].sent.object) : o \in Reverse(e)
    BY <2>1
  <2>3. e \in Entries
    BY DEF Undoable, Tail5000, TInv, TypeOK
  <2>4. o \in Ops /\ o.tool \in HandlerTools
    BY <2>2, <2>3, ReverseIsOp
  <2>. DEFINE x == [task[t] EXCEPT !.pc = "read", !.op = o]
  <2>5. x \in Tasks /\ x.pc = "read" /\ x.op = o
    BY <1>1, <2>4 DEF Tasks, ActivePcs
  <2>6. task' = [task EXCEPT ![t] = x]
    BY <2>1, <1>1 DEF TInv, TypeOK
  <2>. HIDE DEF x
  <2>7. task' \in [Threads -> Tasks \cup {Idle}] /\ Checked'
    BY <2>4, <2>5, <2>6, TaskUpdate
  <2>. QED
    BY <2>7 DEF TInv, TypeOK, Plan
<1>3. CASE task' = [task EXCEPT ![t].pc = "failed"]
  <2>1. task' \in [Threads -> Tasks \cup {Idle}] /\ Checked'
    BY <1>1, <1>3, MoveTo DEF ActivePcs
  <2>. QED
    BY <2>1 DEF TInv, TypeOK, Plan
<1>. QED
  BY <1>2, <1>3 DEF Plan

\* The two reads and their failures: a handler goes on to its command only with
\* a switch and with inputs that passed its validation.
LEMMA ReadsTInv ==
    ASSUME TInv, NEW t \in Threads,
           FirstReadFails(t) \/ FirstRead(t) \/ SecondReadFails(t) \/ SecondRead(t)
    PROVE TInv'
<1>1. task[t] \in Tasks /\ task[t].pc \in ActivePcs /\ t \in InFlight
  BY ActiveTask DEF FirstReadFails, FirstRead, SecondReadFails, SecondRead, TInv, ActivePcs
<1>2. CASE FirstReadFails(t) \/ SecondReadFails(t)
  <2>1. task' \in [Threads -> Tasks \cup {Idle}] /\ Checked'
    BY <1>1, <1>2, MoveTo DEF ActivePcs, FirstReadFails, SecondReadFails
  <2>. QED
    BY <1>2, <2>1 DEF TInv, TypeOK, FirstReadFails, SecondReadFails
<1>3. Target(t) \in Switches \cup {None}
  BY <1>1 DEF Target, RequireSwitchIp, Tasks, Ops
<1>4. CASE FirstRead(t)
  <2>1. Target(t) \in Switches
    BY <1>3, <1>4 DEF FirstRead
  <2>2. PICK r \in ReadResults(running[Target(t)], task[t].op) :
          task' = [task EXCEPT ![t].pc = "command", ![t].pre = r,
                               ![t].seen = running[Target(t)]]
    BY <1>4 DEF FirstRead
  <2>3. r \in Readings /\ running[Target(t)] \in Readings
    BY <1>1, <2>1, ReadResultIsReading DEF TInv, TypeOK, Tasks, Configs, Readings
  <2>. DEFINE x == [task[t] EXCEPT !.pc = "command", !.pre = r, !.seen = running[Target(t)]]
  <2>4. x \in Tasks /\ x.pc = "command" /\ x.op = task[t].op /\ x.ctx = task[t].ctx
    BY <1>1, <2>3 DEF Tasks, ActivePcs
  <2>5. task' = [task EXCEPT ![t] = x]
    BY <1>1, <2>2 DEF TInv, TypeOK
  <2>. HIDE DEF x
  <2>6. x.op.tool \in HandlerTools /\ Valid(x.op) /\ RequireSwitchIp(x.op, x.ctx) \in Switches
    BY <1>1, <1>4, <2>1, <2>4 DEF FirstRead, TInv, Checked, Target
  <2>7. task' \in [Threads -> Tasks \cup {Idle}] /\ Checked'
    BY <2>4, <2>5, <2>6, TaskUpdate
  <2>. QED
    BY <1>4, <2>7 DEF TInv, TypeOK, FirstRead
<1>5. CASE SecondRead(t)
  <2>1. Target(t) \in Switches
    BY <1>1, <1>5 DEF SecondRead, TInv, Checked
  <2>2. PICK r \in ReadResults(running[Target(t)], task[t].op) :
          task' = [task EXCEPT ![t].post = r,
                               ![t].pc = IF Rejects(task[t].op, task[t].pre, r)
                                           THEN "failed" ELSE "ok"]
    BY <1>5 DEF SecondRead
  <2>3. r \in Readings
    BY <1>1, <2>1, ReadResultIsReading DEF TInv, TypeOK, Tasks
  <2>4. PICK pc \in {"failed", "ok"} : task' = [task EXCEPT ![t].post = r, ![t].pc = pc]
    BY <2>2
  <2>. DEFINE x == [task[t] EXCEPT !.post = r, !.pc = pc]
  <2>5. x \in Tasks /\ x.pc = pc
    BY <1>1, <2>3, <2>4 DEF Tasks, ActivePcs
  <2>6. task' = [task EXCEPT ![t] = x]
    BY <1>1, <2>4 DEF TInv, TypeOK
  <2>. HIDE DEF x
  <2>7. task' \in [Threads -> Tasks \cup {Idle}] /\ Checked'
    BY <2>4, <2>5, <2>6, TaskUpdate
  <2>. QED
    BY <1>5, <2>7 DEF TInv, TypeOK, SecondRead
<1>. QED
  BY <1>2, <1>4, <1>5

\* The command: the switch it leaves behind is well formed, and the journal's
\* record is complete.
LEMMA CommandTInv ==
    ASSUME TInv, NEW t \in Threads, Command(t) PROVE TInv'
<1>1. task[t] \in Tasks /\ task[t].pc \in ActivePcs /\ t \in InFlight /\ task[t].pc = "command"
  BY ActiveTask DEF Command, TInv, ActivePcs
<1>2. PICK S \in SUBSET Touched(task[t].op), reply \in Replies :
         /\ journal' = Append(journal, Performed(t, S, reply))
         /\ running' = [running EXCEPT ![Target(t)] = Performed(t, S, reply).after]
         /\ task' = [task EXCEPT ![t].pc =
                IF \/ reply = "error"
                   \/ reply = "nonzero" /\ Handlers[task[t].op.tool].strict
                  THEN "failed" ELSE "verify"]
  BY DEF Command
<1>3. /\ Target(t) \in Switches
      /\ task[t].op \in Ops /\ task[t].op.tool \in HandlerTools /\ Valid(task[t].op)
  BY <1>1 DEF TInv, Checked, Tasks
<1>4. running[Target(t)] \in Configs /\ WellFormed(running[Target(t)])
  BY <1>3 DEF TInv, TypeOK
<1>5. Performed(t, S, reply).after \in Configs /\ WellFormed(Performed(t, S, reply).after)
  BY <1>3, <1>4, WrittenIsWellFormed DEF Performed
<1>6. Performed(t, S, reply) \in Commands
  BY <1>1, <1>3, <1>4, <1>5 DEF Performed, Commands, Tasks, TInv, TypeOK
<1>7. journal' \in Seq(Commands)
  BY <1>2, <1>6 DEF TInv, TypeOK
<1>8. running' \in [Switches -> Configs] /\ \A s \in Switches : WellFormed(running'[s])
  BY <1>2, <1>3, <1>5 DEF TInv, TypeOK
<1>9. task' \in [Threads -> Tasks \cup {Idle}] /\ Checked'
  <2>1. PICK pc \in {"failed", "verify"} : task' = [task EXCEPT ![t].pc = pc]
    BY <1>2
  <2>. QED
    BY <1>1, <2>1, MoveTo DEF ActivePcs
<1>. QED
  BY <1>7, <1>8, <1>9 DEF TInv, TypeOK, WellFormed, Command

\* The ledger line and the reply.
LEMMA EndsTInv ==
    ASSUME TInv, NEW t \in Threads, Record(t) \/ RecordFails(t) \/ Reply(t)
    PROVE TInv'
<1>1. task[t] \in Tasks /\ task[t].pc \in ActivePcs
  BY ActiveTask DEF Record, RecordFails, Reply, TInv, ActivePcs
<1>2. CASE Record(t)
  <2>1. ledger' \in Seq(Entries)
    <3>1. Entry(t) \in Entries
      BY <1>1, <1>2, NoReadingIsReading DEF Record, Entry, Entries, Tasks
    <3>. QED
      BY <1>2, <3>1 DEF Record, TInv, TypeOK
  <2>2. task' \in [Threads -> Tasks \cup {Idle}] /\ Checked'
    <3>1. CASE task[t].pc = "ok"
      <4>1. task' = [task EXCEPT ![t].pc = "reply"]
        BY <1>1, <1>2, <3>1 DEF Record, TInv, TypeOK
      <4>. QED
        BY <1>1, <4>1, MoveTo DEF ActivePcs
    <3>2. CASE task[t].pc # "ok"
      <4>1. task' = [task EXCEPT ![t] = Idle]
        BY <1>2, <3>2 DEF Record
      <4>. QED
        BY <4>1, MoveToIdle
    <3>. QED
      BY <3>1, <3>2
  <2>. QED
    BY <1>2, <2>1, <2>2 DEF Record, TInv, TypeOK
<1>3. CASE RecordFails(t)
  <2>1. task' \in [Threads -> Tasks \cup {Idle}] /\ Checked'
    BY <1>3, MoveToIdle DEF RecordFails
  <2>2. lost' \subseteq MutationIds
    BY <1>1, <1>3 DEF RecordFails, TInv, TypeOK, Tasks
  <2>. QED
    BY <1>3, <2>1, <2>2 DEF RecordFails, TInv, TypeOK
<1>4. CASE Reply(t)
  <2>1. task' \in [Threads -> Tasks \cup {Idle}] /\ Checked'
    BY <1>4, MoveToIdle DEF Reply
  <2>2. context' \in [Sessions -> Switches \cup {None}]
    BY <1>1, <1>4 DEF Reply, TInv, TypeOK, Tasks
  <2>. QED
    BY <1>4, <2>1, <2>2 DEF Reply, TInv, TypeOK
<1>. QED
  BY <1>2, <1>3, <1>4

\* A restart forgets the tasks and keeps the rest.
LEMMA RestartTInv ==
    ASSUME TInv, Restart PROVE TInv'
<1>1. task' \in [Threads -> Tasks \cup {Idle}] /\ InFlight' = {}
  BY DEF Restart, InFlight
<1>2. lost' \subseteq MutationIds
  <2>1. \A u \in InFlight : task[u] \in Tasks
    BY DEF InFlight, TInv, TypeOK
  <2>. QED
    BY <2>1 DEF Restart, Tasks, TInv, TypeOK
<1>. QED
  BY <1>1, <1>2 DEF Restart, TInv, TypeOK, Checked

\* TInv is inductive.
LEMMA NextTInv == TInv /\ [Next]_vars => TInv'
<1>. SUFFICES ASSUME TInv, [Next]_vars PROVE TInv'
  OBVIOUS
<1>1. CASE \E t \in Threads : Admit(t) \/ Step(t)
  <2>1. PICK t \in Threads : Admit(t) \/ Step(t)
    BY <1>1
  <2>. QED
    BY <2>1, AdmitTInv, PlanTInv, ReadsTInv, CommandTInv, EndsTInv DEF Step
<1>2. CASE Restart
  BY <1>2, RestartTInv
<1>3. CASE UNCHANGED vars
  BY <1>3 DEF vars, TInv, TypeOK, Checked, Target, InFlight, WellFormed
<1>. QED
  BY <1>1, <1>2, <1>3 DEF Next

\* Every reachable state has the types of TypeOK: the switches keep well-formed
\* configurations, ledger lines and journal entries are complete records, and a
\* task never holds inputs, readings or a control state that do not fit.
THEOREM TypeCorrect == Spec => []TypeOK
<1>1. TInv => TypeOK
  BY DEF TInv
<1>. QED
  BY <1>1, InitTInv, NextTInv, PTL DEF Spec

----------------------------------------------------------------------------
\* The audit trail.

\* Calls in progress have ids of their own.
OwnIds ==
    \A t, u \in InFlight : task[t].id = task[u].id => t = u

\* An id that has left a trace anywhere is not given to another call.
SpentIds ==
    /\ \A i \in DOMAIN journal : journal[i].id \notin fresh
    /\ \A k \in DOMAIN ledger : ledger[k].id \notin fresh
    /\ lost \cap fresh = {}

\* What a call in progress has left behind, by the stage it has reached: no
\* command before "command" is done, one after it, no line until it is to reply.
StageOf(t) ==
    /\ task[t].id \notin fresh \cup lost
    /\ \A i \in DOMAIN journal :
         journal[i].id = task[t].id =>
             /\ journal[i].sent = task[t].sent
             /\ task[t].pc \notin {"plan", "read", "command"}
    /\ task[t].pc \in {"verify", "ok"} =>
         \E i \in DOMAIN journal : journal[i].id = task[t].id
    /\ \A k \in DOMAIN ledger : ledger[k].id = task[t].id => task[t].pc = "reply"

Stages == \A t \in InFlight : StageOf(t)

AuditInv == TInv /\ OwnIds /\ SpentIds /\ Stages /\ Audited /\ OneLinePerCommand

\* What appending to the journal or to the ledger adds.
LEMMA AppendDomain ==
    ASSUME NEW S, NEW q \in Seq(S), NEW x
    PROVE  /\ DOMAIN Append(q, x) = DOMAIN q \cup {Len(q) + 1}
           /\ Len(q) + 1 \notin DOMAIN q
           /\ Append(q, x)[Len(q) + 1] = x
           /\ \A i \in DOMAIN q : Append(q, x)[i] = q[i]
<1>1. q \in Seq(S \cup {x})
  OBVIOUS
<1>. QED
  BY <1>1

\* The initial states.
LEMMA InitAudit == Init => AuditInv
<1>. SUFFICES ASSUME Init PROVE AuditInv
  OBVIOUS
<1>1. InFlight = {} /\ DOMAIN journal = {} /\ DOMAIN ledger = {} /\ lost = {}
  BY DEF Init, InFlight
<1>. QED
  BY <1>1, InitTInv DEF AuditInv, OwnIds, SpentIds, Stages, Audited, OneLinePerCommand

\* A step that only moves the task of one thread on, as the reads and the
\* planner do.
LEMMA TaskOnlyAudit ==
    ASSUME AuditInv, TInv', NEW t \in Threads, NEW x \in Tasks,
           task[t].pc \in ActivePcs,
           task' = [task EXCEPT ![t] = x],
           x.id = task[t].id, x.sent = task[t].sent,
           \/ /\ task[t].pc \in {"plan", "read"}
              /\ x.pc \in {"read", "command", "failed"}
           \/ /\ task[t].pc = "verify"
              /\ x.pc \in {"ok", "failed"},
           UNCHANGED <<ledger, fresh, journal, lost>>
    PROVE  AuditInv'
<1>1. task \in [Threads -> Tasks \cup {Idle}] /\ t \in InFlight
  BY ActiveTask DEF AuditInv, TInv, TypeOK
<1>2. InFlight' = InFlight /\ task'[t] = x /\ \A u \in Threads : u # t => task'[u] = task[u]
  BY <1>1, TasksAreActive DEF InFlight
<1>3. OwnIds'
  BY <1>1, <1>2 DEF OwnIds, AuditInv, InFlight
<1>4. SpentIds'
  BY DEF SpentIds, AuditInv
<1>5. Stages'
  <2>1. ASSUME NEW u \in InFlight PROVE StageOf(u)'
    <3>1. CASE u = t
      BY <1>1, <1>2, <3>1 DEF AuditInv, Stages, StageOf
    <3>2. CASE u # t
      BY <1>1, <1>2, <3>2 DEF AuditInv, Stages, StageOf, InFlight
    <3>. QED
      BY <3>1, <3>2
  <2>. QED
    BY <1>2, <2>1 DEF Stages
<1>6. Audited'
  <2>1. ASSUME NEW i \in DOMAIN journal, IsMutation(journal[i].sent.tool),
               NEW u \in InFlight, task[u].id = journal[i].id,
               task[u].pc \in {"verify", "ok", "failed"}
        PROVE  task'[u].id = journal[i].id /\ task'[u].pc \in {"verify", "ok", "failed"}
    BY <1>1, <1>2, <2>1 DEF InFlight
  <2>. QED
    BY <1>2, <2>1 DEF Audited, AuditInv
<1>7. OneLinePerCommand'
  BY DEF OneLinePerCommand, AuditInv
<1>. QED
  BY <1>3, <1>4, <1>5, <1>6, <1>7 DEF AuditInv

\* A new call takes an id that has left no trace anywhere.
LEMMA AdmitAudit ==
    ASSUME AuditInv, TInv', NEW t \in Threads, Admit(t) PROVE AuditInv'
<1>1. PICK id \in fresh, sent \in ClientOps, confirm \in BOOLEAN,
           s \in Sessions, body \in BodySwitches :
         /\ fresh' = fresh \ {id}
         /\ task' = [task EXCEPT ![t] = Started(id, sent, confirm, s, body)]
  BY DEF Admit
<1>. DEFINE x == Started(id, sent, confirm, s, body)
<1>2. x.id = id /\ x.pc \in {"plan", "read"}
  BY DEF Started
<1>. HIDE DEF x
<1>3. task \in [Threads -> Tasks \cup {Idle}] /\ t \notin InFlight
  BY DEF AuditInv, TInv, TypeOK, Admit, InFlight
<1>4. x # Idle
  BY <1>2 DEF Idle
<1>5. InFlight' = InFlight \cup {t} /\ task'[t] = x
      /\ \A u \in Threads : u # t => task'[u] = task[u]
  BY <1>1, <1>3, <1>4 DEF InFlight, x
<1>6. OwnIds'
  BY <1>1, <1>2, <1>3, <1>5 DEF OwnIds, AuditInv, Stages, StageOf, InFlight
<1>7. SpentIds'
  BY <1>1 DEF SpentIds, AuditInv, Admit
<1>8. Stages'
  <2>1. ASSUME NEW u \in InFlight PROVE StageOf(u)'
    BY <1>1, <1>3, <1>5, <2>1 DEF AuditInv, Stages, StageOf, InFlight, Admit
  <2>2. StageOf(t)'
    BY <1>1, <1>2, <1>5 DEF AuditInv, SpentIds, StageOf, Admit
  <2>. QED
    BY <1>5, <2>1, <2>2 DEF Stages
<1>9. Audited'
  <2>1. ASSUME NEW u \in InFlight PROVE u \in InFlight' /\ task'[u] = task[u]
    BY <1>3, <1>5, <2>1 DEF InFlight
  <2>. QED
    BY <2>1 DEF Audited, AuditInv, Admit
<1>10. OneLinePerCommand'
  BY DEF OneLinePerCommand, AuditInv, Admit
<1>. QED
  BY <1>6, <1>7, <1>8, <1>9, <1>10 DEF AuditInv

\* The planner and the reads leave no trace.
LEMMA MovesAudit ==
    ASSUME AuditInv, TInv', NEW t \in Threads,
           Plan(t) \/ FirstReadFails(t) \/ FirstRead(t) \/ SecondReadFails(t) \/ SecondRead(t)
    PROVE  AuditInv'
<1>1. task[t] \in Tasks /\ task[t].pc \in ActivePcs
  BY ActiveTask DEF Plan, FirstReadFails, FirstRead, SecondReadFails, SecondRead,
                    AuditInv, TInv, ActivePcs
<1>2. task \in [Threads -> Tasks \cup {Idle}] /\ task' \in [Threads -> Tasks \cup {Idle}]
  BY DEF AuditInv, TInv, TypeOK
<1>. DEFINE Moves ==
              /\ task' = [task EXCEPT ![t] = task'[t]]
              /\ task'[t].id = task[t].id /\ task'[t].sent = task[t].sent
              /\ \/ task[t].pc \in {"plan", "read"} /\ task'[t].pc \in {"read", "command", "failed"}
                 \/ task[t].pc = "verify" /\ task'[t].pc \in {"ok", "failed"}
<1>3. Moves
  <2>1. CASE Plan(t)
    <3>1. CASE task' = [task EXCEPT ![t].pc = "failed"]
      BY <1>1, <1>2, <2>1, <3>1 DEF Plan, Tasks
    <3>2. CASE \E o \in UNION {Reverse(e) : e \in Undoable(task[t].sent.object)} :
                 task' = [task EXCEPT ![t].pc = "read", ![t].op = o]
      <4>1. PICK o : task' = [task EXCEPT ![t].pc = "read", ![t].op = o]
        BY <3>2
      <4>. QED
        BY <1>1, <1>2, <2>1, <4>1 DEF Plan, Tasks
    <3>. QED
      BY <2>1, <3>1, <3>2 DEF Plan
  <2>2. CASE FirstReadFails(t)
    BY <1>1, <1>2, <2>2 DEF FirstReadFails, Tasks
  <2>3. CASE FirstRead(t)
    <3>1. PICK r : task' = [task EXCEPT ![t].pc = "command", ![t].pre = r,
                                        ![t].seen = running[Target(t)]]
      BY <2>3 DEF FirstRead
    <3>. QED
      BY <1>1, <1>2, <2>3, <3>1 DEF FirstRead, Tasks
  <2>4. CASE SecondReadFails(t)
    BY <1>1, <1>2, <2>4 DEF SecondReadFails, Tasks
  <2>5. CASE SecondRead(t)
    <3>1. PICK r : task' = [task EXCEPT ![t].post = r,
                                        ![t].pc = IF Rejects(task[t].op, task[t].pre, r)
                                                    THEN "failed" ELSE "ok"]
      BY <2>5 DEF SecondRead
    <3>. QED
      BY <1>1, <1>2, <2>5, <3>1 DEF SecondRead, Tasks
  <2>. QED
    BY <2>1, <2>2, <2>3, <2>4, <2>5
<1>4. task'[t] # Idle
  BY <1>3 DEF Idle
<1>5. task'[t] \in Tasks
  BY <1>2, <1>4
<1>6. UNCHANGED <<ledger, fresh, journal, lost>>
  BY DEF Plan, FirstReadFails, FirstRead, SecondReadFails, SecondRead
<1>. QED
  BY <1>1, <1>3, <1>5, <1>6, TaskOnlyAudit

\* A command is a call's first and only one, and its call goes on to be recorded.
LEMMA CommandAudit ==
    ASSUME AuditInv, TInv', NEW t \in Threads, Command(t) PROVE AuditInv'
<1>1. task[t] \in Tasks /\ task[t].pc = "command" /\ t \in InFlight
  BY ActiveTask DEF Command, AuditInv, TInv, ActivePcs
<1>2. PICK S, reply :
         /\ journal' = Append(journal, Performed(t, S, reply))
         /\ task' = [task EXCEPT ![t].pc =
                IF \/ reply = "error"
                   \/ reply = "nonzero" /\ Handlers[task[t].op.tool].strict
                  THEN "failed" ELSE "verify"]
  BY DEF Command
<1>. PICK pc \in {"failed", "verify"} : task' = [task EXCEPT ![t].pc = pc]
  BY <1>2
<1>. DEFINE j == Performed(t, S, reply)
<1>3. task \in [Threads -> Tasks \cup {Idle}] /\ journal \in Seq(Commands)
      /\ j.id = task[t].id /\ j.sent = task[t].sent
  BY DEF AuditInv, TInv, TypeOK, Performed
<1>. HIDE DEF j
<1>4. /\ DOMAIN journal' = DOMAIN journal \cup {Len(journal) + 1}
      /\ Len(journal) + 1 \notin DOMAIN journal
      /\ journal'[Len(journal) + 1] = j
      /\ \A i \in DOMAIN journal : journal'[i] = journal[i]
  BY <1>2, <1>3, AppendDomain DEF j
<1>5. /\ task'[t].pc = pc /\ task'[t].id = task[t].id /\ task'[t].sent = task[t].sent
      /\ task'[t] # Idle
      /\ \A u \in Threads : u # t => task'[u] = task[u]
  BY <1>1, <1>2, <1>3 DEF Tasks, Idle
<1>6. InFlight' = InFlight
  BY <1>1, <1>5 DEF InFlight
<1>7. UNCHANGED <<ledger, fresh, lost>>
  BY DEF Command
<1>8. OwnIds'
  BY <1>1, <1>5, <1>6 DEF OwnIds, AuditInv, InFlight
<1>9. SpentIds'
  BY <1>1, <1>3, <1>4, <1>7 DEF SpentIds, AuditInv, Stages, StageOf
<1>10. Stages'
  <2>1. ASSUME NEW u \in InFlight PROVE StageOf(u)'
    <3>1. CASE u = t
      BY <1>1, <1>3, <1>4, <1>5, <1>7, <3>1 DEF AuditInv, Stages, StageOf
    <3>2. CASE u # t
      <4>1. task'[u] = task[u] /\ task[u].id # j.id
        BY <1>1, <1>3, <1>5, <3>2 DEF AuditInv, OwnIds, InFlight
      <4>2. StageOf(u)
        BY DEF AuditInv, Stages
      <4>3. \A i \in DOMAIN journal' :
               journal'[i].id = task'[u].id =>
                   /\ journal'[i].sent = task'[u].sent
                   /\ task'[u].pc \notin {"plan", "read", "command"}
        BY <1>4, <4>1, <4>2 DEF StageOf
      <4>4. task'[u].pc \in {"verify", "ok"} =>
               \E i \in DOMAIN journal' : journal'[i].id = task'[u].id
        BY <1>4, <4>1, <4>2 DEF StageOf
      <4>. QED
        BY <1>7, <4>1, <4>2, <4>3, <4>4 DEF StageOf
    <3>. QED
      BY <3>1, <3>2
  <2>. QED
    BY <1>6, <2>1 DEF Stages
<1>11. Audited'
  <2>1. ASSUME NEW u \in InFlight, task[u].pc \in {"verify", "ok", "failed"}
        PROVE  task'[u] = task[u]
    BY <1>1, <1>5, <2>1 DEF InFlight
  <2>2. ASSUME NEW i \in DOMAIN journal, IsMutation(journal[i].sent.tool)
        PROVE  \/ \E k \in DOMAIN ledger :
                    ledger[k].id = journal[i].id /\ ledger[k].op = journal[i].sent
               \/ \E u \in InFlight' :
                    task'[u].id = journal[i].id /\ task'[u].pc \in {"verify", "ok", "failed"}
               \/ journal[i].id \in lost
    BY <1>6, <2>1, <2>2 DEF Audited, AuditInv
  <2>3. t \in InFlight' /\ task'[t].id = j.id /\ task'[t].pc \in {"verify", "ok", "failed"}
    BY <1>1, <1>3, <1>5, <1>6
  <2>. QED
    BY <1>4, <1>7, <2>2, <2>3 DEF Audited
<1>12. OneLinePerCommand'
  BY <1>1, <1>3, <1>4, <1>7 DEF OneLinePerCommand, AuditInv, Stages, StageOf
<1>. QED
  BY <1>8, <1>9, <1>10, <1>11, <1>12 DEF AuditInv

\* A call that ends leaves nothing of its own in flight, and disturbs no other.
LEMMA OthersStay ==
    ASSUME AuditInv, NEW t \in Threads, task' = [task EXCEPT ![t] = Idle]
    PROVE  /\ InFlight' = InFlight \ {t}
           /\ \A u \in InFlight \ {t} : task'[u] = task[u]
  BY DEF AuditInv, TInv, TypeOK, InFlight

\* The ledger line takes over from the call in progress as the trace of its
\* command, and the line of a call that went well has a command behind it.
LEMMA RecordAudit ==
    ASSUME AuditInv, TInv', NEW t \in Threads, Record(t) PROVE AuditInv'
<1>1. task[t] \in Tasks /\ task[t].pc \in {"ok", "failed"} /\ t \in InFlight
  BY ActiveTask DEF Record, AuditInv, TInv, ActivePcs
<1>2. task \in [Threads -> Tasks \cup {Idle}] /\ ledger \in Seq(Entries)
  BY DEF AuditInv, TInv, TypeOK
<1>3. UNCHANGED <<fresh, journal, lost>>
  BY DEF Record
<1>4. /\ \A u \in InFlight \ {t} : task'[u] = task[u]
      /\ InFlight' \subseteq InFlight /\ InFlight \ {t} \subseteq InFlight'
      /\ t \in InFlight' =>
           task[t].pc = "ok" /\ task'[t] = [task[t] EXCEPT !.pc = "reply"]
  BY <1>1, <1>2 DEF Record, InFlight
<1>5. t \in InFlight' =>
        task'[t].pc = "reply" /\ task'[t].id = task[t].id /\ task'[t].sent = task[t].sent
  BY <1>1, <1>4 DEF Tasks
<1>6. OwnIds'
  BY <1>1, <1>4, <1>5 DEF OwnIds, AuditInv
<1>7. ASSUME NEW u \in InFlight', ledger' = ledger PROVE StageOf(u)'
  BY <1>3, <1>4, <1>5, <1>7 DEF AuditInv, Stages, StageOf
<1>8. CASE ~IsMutation(task[t].sent.tool)
  <2>1. ledger' = ledger
    BY <1>8 DEF Record
  <2>2. SpentIds' /\ OneLinePerCommand'
    BY <1>3, <2>1 DEF SpentIds, OneLinePerCommand, AuditInv
  <2>3. Audited'
    <3>1. ASSUME NEW i \in DOMAIN journal, IsMutation(journal[i].sent.tool),
                 NEW u \in InFlight, task[u].id = journal[i].id
          PROVE  u \in InFlight'
      BY <1>1, <1>4, <1>8, <3>1 DEF AuditInv, Stages, StageOf
    <3>2. ASSUME NEW i \in DOMAIN journal, IsMutation(journal[i].sent.tool),
                 NEW u \in InFlight, task[u].id = journal[i].id
          PROVE  task'[u] = task[u]
      BY <1>1, <1>4, <1>8, <3>2 DEF AuditInv, Stages, StageOf
    <3>. QED
      BY <1>3, <2>1, <3>1, <3>2 DEF Audited, AuditInv
  <2>. QED
    BY <1>6, <1>7, <2>1, <2>2, <2>3 DEF AuditInv, Stages
<1>9. CASE IsMutation(task[t].sent.tool)
  <2>. DEFINE e == Entry(t)
  <2>1. e.id = task[t].id /\ e.op = task[t].sent /\ e.status = task[t].pc
    BY DEF Entry
  <2>. HIDE DEF e
  <2>2. ledger' = Append(ledger, e)
    BY <1>9 DEF Record, e
  <2>3. /\ DOMAIN ledger' = DOMAIN ledger \cup {Len(ledger) + 1}
        /\ Len(ledger) + 1 \notin DOMAIN ledger
        /\ ledger'[Len(ledger) + 1] = e
        /\ \A k \in DOMAIN ledger : ledger'[k] = ledger[k]
    BY <1>2, <2>2, AppendDomain
  <2>4. SpentIds'
    BY <1>1, <1>3, <2>1, <2>3 DEF SpentIds, AuditInv, Stages, StageOf
  <2>5. Stages'
    <3>1. ASSUME NEW u \in InFlight \ {t} PROVE StageOf(u)'
      <4>1. StageOf(u) /\ task[u].id # e.id
        BY <1>1, <2>1 DEF AuditInv, Stages, OwnIds
      <4>. QED
        BY <1>3, <1>4, <2>3, <4>1 DEF StageOf
    <3>2. ASSUME t \in InFlight' PROVE StageOf(t)'
      <4>1. StageOf(t)
        BY <1>1 DEF AuditInv, Stages
      <4>. QED
        BY <1>1, <1>3, <1>5, <3>2, <4>1 DEF StageOf
    <3>. QED
      BY <1>4, <3>1, <3>2 DEF Stages
  <2>6. Audited'
    <3>1. ASSUME NEW i \in DOMAIN journal, journal[i].id = task[t].id
          PROVE  \E k \in DOMAIN ledger' :
                   ledger'[k].id = journal[i].id /\ ledger'[k].op = journal[i].sent
      BY <1>1, <2>1, <2>3, <3>1 DEF AuditInv, Stages, StageOf
    <3>2. ASSUME NEW i \in DOMAIN journal, NEW k \in DOMAIN ledger,
                 ledger[k].id = journal[i].id, ledger[k].op = journal[i].sent
          PROVE  \E l \in DOMAIN ledger' :
                   ledger'[l].id = journal[i].id /\ ledger'[l].op = journal[i].sent
      BY <2>3, <3>2
    <3>3. ASSUME NEW i \in DOMAIN journal, IsMutation(journal[i].sent.tool),
                 journal[i].id # task[t].id
          PROVE  \/ \E k \in DOMAIN ledger :
                      ledger[k].id = journal[i].id /\ ledger[k].op = journal[i].sent
                 \/ \E u \in InFlight' :
                      task'[u].id = journal[i].id /\ task'[u].pc \in {"verify", "ok", "failed"}
                 \/ journal[i].id \in lost
      BY <1>4, <3>3 DEF Audited, AuditInv
    <3>. QED
      BY <1>3, <3>1, <3>2, <3>3 DEF Audited
  <2>7. OneLinePerCommand'
    <3>1. \A k, l \in DOMAIN ledger' : ledger'[k].id = ledger'[l].id => k = l
      BY <1>1, <2>1, <2>3 DEF OneLinePerCommand, AuditInv, Stages, StageOf
    <3>2. \A k \in DOMAIN ledger' :
            /\ ledger'[k].status = "ok" =>
                 \E i \in DOMAIN journal :
                    journal[i].id = ledger'[k].id /\ journal[i].sent = ledger'[k].op
            /\ ledger'[k].id \notin lost
      BY <1>1, <2>1, <2>3 DEF OneLinePerCommand, AuditInv, Stages, StageOf
    <3>. QED
      BY <1>3, <3>1, <3>2 DEF OneLinePerCommand, AuditInv
  <2>. QED
    BY <1>6, <2>4, <2>5, <2>6, <2>7 DEF AuditInv
<1>. QED
  BY <1>8, <1>9

\* A call that is cut off: its id goes to lost, and no other id does but those
\* of calls that are cut off with it.
LEMMA CutOffAudit ==
    ASSUME AuditInv, TInv', NEW cut \in SUBSET InFlight,
           InFlight' \subseteq InFlight \ cut,
           \A u \in InFlight' : task'[u] = task[u],
           \A u \in InFlight \ cut : u \in InFlight' \/ task[u].pc = "reply",
           \A u \in cut : task[u].pc # "reply",
           lost' = lost \cup {task[u].id : u \in cut},
           UNCHANGED <<ledger, fresh, journal>>
    PROVE  AuditInv'
<1>1. OwnIds'
  BY DEF OwnIds, AuditInv
<1>2. SpentIds'
  BY DEF SpentIds, AuditInv, Stages, StageOf
<1>3. Stages'
  <2>1. ASSUME NEW u \in InFlight' PROVE StageOf(u)'
    <3>1. u \in InFlight /\ StageOf(u) /\ task'[u] = task[u]
      BY DEF AuditInv, Stages
    <3>2. task[u].id \notin lost'
      BY <3>1 DEF StageOf, AuditInv, OwnIds
    <3>. QED
      BY <3>1, <3>2 DEF StageOf
  <2>. QED
    BY <2>1 DEF Stages
<1>4. Audited'
  BY DEF Audited, AuditInv
<1>5. OneLinePerCommand'
  BY DEF OneLinePerCommand, AuditInv, Stages, StageOf
<1>. QED
  BY <1>1, <1>2, <1>3, <1>4, <1>5 DEF AuditInv

\* A call whose line could not be written is lost; one that replies is not.
LEMMA EndsAudit ==
    ASSUME AuditInv, TInv', NEW t \in Threads, RecordFails(t) \/ Reply(t)
    PROVE  AuditInv'
<1>1. task[t] \in Tasks /\ t \in InFlight
  BY ActiveTask DEF RecordFails, Reply, AuditInv, TInv, ActivePcs
<1>2. task' = [task EXCEPT ![t] = Idle] /\ UNCHANGED <<ledger, fresh, journal>>
  BY DEF RecordFails, Reply
<1>3. CASE RecordFails(t)
  <2>. DEFINE cut == {t}
  <2>1. cut \in SUBSET InFlight /\ (\A u \in cut : task[u].pc # "reply")
        /\ lost' = lost \cup {task[u].id : u \in cut}
    BY <1>1, <1>3 DEF RecordFails
  <2>. QED
    BY <1>2, <2>1, OthersStay, CutOffAudit
<1>4. CASE Reply(t)
  <2>. DEFINE cut == {}
  <2>1. cut \in SUBSET InFlight /\ (\A u \in cut : task[u].pc # "reply")
        /\ lost' = lost \cup {task[u].id : u \in cut} /\ task[t].pc = "reply"
    BY <1>4 DEF Reply
  <2>. QED
    BY <1>2, <2>1, OthersStay, CutOffAudit
<1>. QED
  BY <1>3, <1>4

\* A restart cuts off the calls in progress but for those already recorded.
LEMMA RestartAudit ==
    ASSUME AuditInv, TInv', Restart PROVE AuditInv'
<1>. DEFINE cut == {u \in InFlight : task[u].pc # "reply"}
<1>1. InFlight' = {}
  BY DEF Restart, InFlight
<1>2. lost' = lost \cup {task[u].id : u \in cut} /\ UNCHANGED <<ledger, fresh, journal>>
  BY DEF Restart
<1>3. cut \in SUBSET InFlight /\ (\A u \in cut : task[u].pc # "reply")
      /\ (\A u \in InFlight \ cut : task[u].pc = "reply")
  OBVIOUS
<1>. HIDE DEF cut
<1>. QED
  BY <1>1, <1>2, <1>3, CutOffAudit

\* AuditInv is inductive.
LEMMA NextAudit == AuditInv /\ [Next]_vars => AuditInv'
<1>. SUFFICES ASSUME AuditInv, [Next]_vars PROVE AuditInv'
  OBVIOUS
<1>1. TInv'
  BY NextTInv DEF AuditInv
<1>2. CASE \E t \in Threads : Admit(t) \/ Step(t)
  <2>1. PICK t \in Threads : Admit(t) \/ Step(t)
    BY <1>2
  <2>. QED
    BY <1>1, <2>1, AdmitAudit, MovesAudit, CommandAudit, RecordAudit, EndsAudit DEF Step
<1>3. CASE Restart
  BY <1>1, <1>3, RestartAudit
<1>4. CASE UNCHANGED vars
  BY <1>1, <1>4 DEF vars, AuditInv, OwnIds, SpentIds, Stages, StageOf, Audited,
                    OneLinePerCommand, InFlight
<1>. QED
  BY <1>2, <1>3, <1>4 DEF Next

\* However many calls run at once, whatever SSH does and wherever the process is
\* killed: every command of a mutation that reached a switch is in the ledger
\* under the inputs the client sent, or its call is still running, or the call
\* was cut off by a crash or a failed write of the ledger.
THEOREM EveryCommandAudited == Spec => []Audited
<1>1. AuditInv => Audited
  BY DEF AuditInv
<1>. QED
  BY <1>1, InitAudit, NextAudit, PTL DEF Spec

\* A call has at most one ledger line and sends at most one command, an "ok" line
\* stands for a command that reached a switch, and a call cut off has no line.
THEOREM LedgerIsExact == Spec => []OneLinePerCommand
<1>1. AuditInv => OneLinePerCommand
  BY DEF AuditInv
<1>. QED
  BY <1>1, InitAudit, NextAudit, PTL DEF Spec

----------------------------------------------------------------------------
(* The policy gate.                                                        *)

\* A call in progress passed the gate with the tool it named, and the tool whose
\* handler it runs would pass it too, under the kill switch as it is now.
Gated(t) ==
    /\ Admits(task[t].sent.tool, enabled, AutoMode, task[t].confirm)
    /\ Admits(task[t].op.tool, enabled, AutoMode, task[t].confirm)
    /\ task[t].pc = "plan" => task[t].sent.tool = "rollback_mutation"

GateInv == TInv /\ (\A t \in InFlight : Gated(t)) /\ Authorised

\* The policy of rollback_mutation is the strictest there is: whoever may call it
\* may call every tool its planner can choose.
LEMMA RollbackIsStrictest ==
    ASSUME NEW tool, NEW en \in BOOLEAN, NEW confirm \in BOOLEAN,
           Admits("rollback_mutation", en, AutoMode, confirm)
    PROVE  Admits(tool, en, AutoMode, confirm)
<1>1. "rollback_mutation" \notin AutoTools
  BY DEF AutoTools
<1>2. en /\ ~AutoMode /\ confirm
  BY <1>1 DEF Admits, IsMutation, Risk, AllowedInAutoMode, RequiresConfirmation
<1>. QED
  BY <1>2 DEF Admits

\* The initial states.
LEMMA InitGate == Init => GateInv
<1>. SUFFICES ASSUME Init PROVE GateInv
  OBVIOUS
<1>1. InFlight = {} /\ DOMAIN journal = {}
  BY DEF Init, InFlight
<1>. QED
  BY <1>1, InitTInv DEF GateInv, Authorised

\* A call is admitted under the kill switch as it is.
LEMMA AdmitGate ==
    ASSUME GateInv, TInv', NEW t \in Threads, Admit(t) PROVE GateInv'
<1>1. PICK id \in fresh, sent \in ClientOps, confirm \in BOOLEAN,
           s \in Sessions, body \in BodySwitches :
         /\ Admits(sent.tool, enabled, AutoMode, confirm)
         /\ task' = [task EXCEPT ![t] = Started(id, sent, confirm, s, body)]
  BY DEF Admit
<1>. DEFINE x == Started(id, sent, confirm, s, body)
<1>2. /\ x.sent = sent /\ x.op = sent /\ x.confirm = confirm
      /\ x.pc = "plan" => x.sent.tool = "rollback_mutation"
  BY DEF Started
<1>3. task' = [task EXCEPT ![t] = x]
  BY <1>1
<1>. HIDE DEF x
<1>4. UNCHANGED <<enabled, journal>>
  BY DEF Admit
<1>5. ASSUME NEW u \in InFlight' PROVE Gated(u)'
  <2>1. task \in [Threads -> Tasks \cup {Idle}]
    BY DEF GateInv, TInv, TypeOK
  <2>2. CASE u = t
    BY <1>1, <1>2, <1>3, <1>4, <2>1, <2>2 DEF Gated
  <2>3. CASE u # t
    <3>1. task'[u] = task[u] /\ u \in InFlight
      BY <1>3, <1>5, <2>1, <2>3 DEF InFlight
    <3>. QED
      BY <1>4, <3>1 DEF GateInv, Gated
  <2>. QED
    BY <2>2, <2>3
<1>6. Authorised'
  BY <1>4 DEF GateInv, Authorised
<1>. QED
  BY <1>5, <1>6 DEF GateInv

\* The inverse that is planned needs no permission the rollback has not got.
LEMMA PlanGate ==
    ASSUME GateInv, TInv', NEW t \in Threads, Plan(t) PROVE GateInv'
<1>1. task[t] \in Tasks /\ t \in InFlight /\ task[t].pc = "plan"
  BY ActiveTask DEF Plan, GateInv, TInv, ActivePcs
<1>2. task \in [Threads -> Tasks \cup {Idle}] /\ enabled \in BOOLEAN
  BY DEF GateInv, TInv, TypeOK
<1>3. \A tool : Admits(tool, enabled, AutoMode, task[t].confirm)
  BY <1>1, <1>2, RollbackIsStrictest DEF GateInv, Gated, Tasks
<1>4. /\ task'[t].sent = task[t].sent /\ task'[t].confirm = task[t].confirm
      /\ task'[t].pc # "plan"
      /\ \A u \in Threads : u # t => task'[u] = task[u]
  BY <1>1, <1>2 DEF Plan, Tasks
<1>5. UNCHANGED <<enabled, journal>>
  BY DEF Plan
<1>6. ASSUME NEW u \in InFlight' PROVE Gated(u)'
  <2>1. CASE u = t
    BY <1>3, <1>4, <1>5, <2>1 DEF Gated
  <2>2. CASE u # t
    BY <1>4, <1>5, <1>6, <2>2 DEF GateInv, Gated, InFlight
  <2>. QED
    BY <2>1, <2>2
<1>7. Authorised'
  BY <1>5 DEF GateInv, Authorised
<1>. QED
  BY <1>6, <1>7 DEF GateInv

\* A step after which no call in progress has another tool, or a permission it
\* did not have, adds at most a command of a gated call to the journal.
LEMMA GateKept ==
    ASSUME GateInv, TInv', UNCHANGED enabled,
           \A u \in InFlight' :
             /\ u \in InFlight /\ task'[u].sent = task[u].sent
             /\ task'[u].op = task[u].op /\ task'[u].confirm = task[u].confirm
             /\ task'[u].pc # "plan" \/ task'[u] = task[u],
           \/ UNCHANGED journal
           \/ \E u \in InFlight : \E S, reply : journal' = Append(journal, Performed(u, S, reply))
    PROVE  GateInv'
<1>1. \A u \in InFlight' : Gated(u)'
  BY DEF GateInv, Gated
<1>2. Authorised'
  <2>1. CASE UNCHANGED journal
    BY <2>1 DEF GateInv, Authorised
  <2>2. CASE \E u \in InFlight : \E S, reply : journal' = Append(journal, Performed(u, S, reply))
    <3>0. PICK u \in InFlight : \E S, reply : journal' = Append(journal, Performed(u, S, reply))
      BY <2>2
    <3>1. PICK S, reply : journal' = Append(journal, Performed(u, S, reply))
      BY <3>0
    <3>. DEFINE j == Performed(u, S, reply)
    <3>2. /\ j.sent = task[u].sent /\ j.op = task[u].op
          /\ j.confirm = task[u].confirm /\ j.enabled = enabled
      BY DEF Performed
    <3>. HIDE DEF j
    <3>3. journal \in Seq(Commands)
      BY DEF GateInv, TInv, TypeOK
    <3>4. /\ DOMAIN journal' = DOMAIN journal \cup {Len(journal) + 1}
          /\ journal'[Len(journal) + 1] = j
          /\ \A i \in DOMAIN journal : journal'[i] = journal[i]
      BY <3>1, <3>3, AppendDomain DEF j
    <3>5. \A tool \in {j.sent.tool, j.op.tool} : Admits(tool, j.enabled, AutoMode, j.confirm)
      BY <3>2 DEF GateInv, Gated
    <3>. QED
      BY <3>4, <3>5 DEF GateInv, Authorised, Admits
  <2>. QED
    BY <2>1, <2>2
<1>. QED
  BY <1>1, <1>2 DEF GateInv

\* The other steps of a call change neither its tools nor its permission.
LEMMA StepGate ==
    ASSUME GateInv, TInv', NEW t \in Threads, Step(t), ~Plan(t) PROVE GateInv'
<1>1. task[t] \in Tasks /\ t \in InFlight /\ UNCHANGED enabled
  BY ActiveTask DEF Step, FirstReadFails, FirstRead, Command, SecondReadFails, SecondRead,
                    Record, RecordFails, Reply, GateInv, TInv, ActivePcs
<1>2. task \in [Threads -> Tasks \cup {Idle}]
  BY DEF GateInv, TInv, TypeOK
<1>3. \A u \in Threads : u # t => task'[u] = task[u]
  BY <1>2 DEF Step, FirstReadFails, FirstRead, Command, SecondReadFails, SecondRead,
              Record, RecordFails, Reply
<1>4. t \in InFlight' =>
        /\ task'[t].sent = task[t].sent /\ task'[t].op = task[t].op
        /\ task'[t].confirm = task[t].confirm /\ task'[t].pc # "plan"
  <2>1. CASE FirstReadFails(t) \/ SecondReadFails(t)
    BY <1>1, <1>2, <2>1 DEF FirstReadFails, SecondReadFails, Tasks
  <2>2. CASE FirstRead(t)
    BY <1>1, <1>2, <2>2 DEF FirstRead, Tasks
  <2>3. CASE Command(t)
    BY <1>1, <1>2, <2>3 DEF Command, Tasks
  <2>4. CASE SecondRead(t)
    BY <1>1, <1>2, <2>4 DEF SecondRead, Tasks
  <2>5. CASE Record(t) \/ RecordFails(t) \/ Reply(t)
    BY <1>1, <1>2, <2>5 DEF Record, RecordFails, Reply, Tasks, InFlight
  <2>. QED
    BY <2>1, <2>2, <2>3, <2>4, <2>5 DEF Step
<1>5. \/ UNCHANGED journal
      \/ \E S, reply : journal' = Append(journal, Performed(t, S, reply))
  BY DEF Step, FirstReadFails, FirstRead, Command, SecondReadFails, SecondRead,
         Record, RecordFails, Reply
<1>6. \A u \in InFlight' :
        /\ u \in InFlight /\ task'[u].sent = task[u].sent
        /\ task'[u].op = task[u].op /\ task'[u].confirm = task[u].confirm
        /\ task'[u].pc # "plan" \/ task'[u] = task[u]
  BY <1>1, <1>3, <1>4 DEF InFlight
<1>. QED
  BY <1>1, <1>5, <1>6, GateKept

\* GateInv is inductive.
LEMMA NextGate == GateInv /\ [Next]_vars => GateInv'
<1>. SUFFICES ASSUME GateInv, [Next]_vars PROVE GateInv'
  OBVIOUS
<1>1. TInv'
  BY NextTInv DEF GateInv
<1>2. CASE \E t \in Threads : Admit(t) \/ Step(t)
  <2>1. PICK t \in Threads : Admit(t) \/ Step(t)
    BY <1>2
  <2>. QED
    BY <1>1, <2>1, AdmitGate, PlanGate, StepGate
<1>3. CASE Restart
  <2>1. InFlight' = {} /\ UNCHANGED journal
    BY <1>3 DEF Restart, InFlight
  <2>. QED
    BY <1>1, <2>1 DEF GateInv, Authorised
<1>4. CASE UNCHANGED vars
  BY <1>1, <1>4 DEF vars, GateInv, Gated, Authorised, InFlight
<1>. QED
  BY <1>2, <1>3, <1>4 DEF Next

\* No command reaches a switch that enforce_policy would have refused to the
\* caller, though rollback_mutation calls the inverse's handler without asking it
\* and the kill switch may change at a restart: neither the tool that was called
\* nor the inverse that ran.
THEOREM GateHolds == Spec => []Authorised
<1>1. GateInv => Authorised
  BY DEF GateInv
<1>. QED
  BY <1>1, InitGate, NextGate, PTL DEF Spec

----------------------------------------------------------------------------
(* What a rollback runs.                                                   *)

\* The planner chooses an op only for a tool with a handler, keeps its switch, and
\* the inverse writes no cell that the mutation could not have written.
LEMMA ReverseKeeps ==
    ASSUME NEW e \in Entries, NEW o \in Reverse(e)
    PROVE  /\ e.op.tool \in HandlerTools
           /\ o.switch_ip = e.op.switch_ip
           /\ Valid(e.op) => Touched(o) \subseteq Touched(e.op)
<1>1. e.op \in Ops
  BY DEF Entries
<1>2. CASE e.op.tool \in {"set_interface_admin_status", "set_interface_mtu",
                          "set_interface_description", "set_bgp_neighbor_admin",
                          "set_ip_interface", "set_portchannel_member"}
  <2>1. e.op.tool # "remove_static_route" /\ e.op.tool \notin DOMAIN InverseTool
    BY <1>2 DEF InverseTool
  <2>2. PICK v : o = [e.op EXCEPT !.value = v]
    BY <1>2, <2>1 DEF Reverse
  <2>3. o.tool = e.op.tool /\ o.switch_ip = e.op.switch_ip /\ o.object = e.op.object
    BY <1>1, <2>2 DEF Ops
  <2>4. Touched(o) = Touched(e.op)
    BY <2>3 DEF Touched
  <2>. QED
    BY <1>2, <2>3, <2>4 DEF HandlerTools, Handlers
<1>3. CASE e.op.tool \in DOMAIN InverseTool
  <2>. /\ e.op.tool \notin {"set_interface_admin_status", "set_interface_mtu",
                            "set_interface_description", "set_bgp_neighbor_admin"}
       /\ e.op.tool \notin {"set_ip_interface", "set_portchannel_member"}
    BY <1>3 DEF InverseTool
  <2>0. ~(e.op.tool = "remove_static_route" /\ e.op.object[2] = None)
    BY <1>3 DEF Reverse, InverseTool
  <2>1. o = [e.op EXCEPT !.tool = InverseTool[e.op.tool]]
    BY <1>3, <2>0 DEF Reverse, InverseTool
  <2>2. /\ o.tool = InverseTool[e.op.tool]
        /\ o.switch_ip = e.op.switch_ip /\ o.object = e.op.object
    BY <1>1, <2>1 DEF Ops
  <2>3. e.op.tool \in HandlerTools
    BY <1>3 DEF InverseTool, HandlerTools, Handlers
  <2>4. ASSUME Valid(e.op) PROVE Touched(o) \subseteq Touched(e.op)
    <3>1. Handlers[o.tool].kind = Handlers[e.op.tool].kind
      BY <1>3, <2>2 DEF InverseTool, Handlers, add_vlan, remove_vlan, add_static_route,
                        remove_static_route, drain_switch, undrain_switch
    <3>2. o.tool \in DrainTools <=> e.op.tool \in DrainTools
      BY <1>3, <2>2 DEF InverseTool, DrainTools
    <3>3. o.tool = "remove_static_route" => o.object[2] # None
      BY <1>3, <2>2, <2>4 DEF InverseTool, Valid
    <3>. QED
      BY <2>2, <3>1, <3>2, <3>3 DEF Touched
  <2>. QED
    BY <2>2, <2>3, <2>4
<1>. QED
  BY <1>2, <1>3 DEF Reverse

\* Two cells of one kind about one object are one cell.
LEMMA CellsArePairs ==
    ASSUME NEW c \in Cells, NEW d \in Cells, c[1] = d[1], c[2] = d[2]
    PROVE  c = d
  BY DEF Cells

\* If the first read of configuration d gave the setting of cell c, or the mutation
\* writes into c something other than d has and it is no description, the inverse
\* writes into c what d has.
LEMMA ReverseRestores ==
    ASSUME NEW e \in Entries, NEW o \in Reverse(e), Valid(e.op),
           NEW d \in Configs, WellFormed(d), e.pre \in ReadResults(d, e.op),
           NEW c \in Touched(e.op), NEW v, v = d[c],
           \/ /\ e.op.tool \in {"set_interface_admin_status", "set_interface_mtu",
                                 "set_interface_description", "set_bgp_neighbor_admin"}
              /\ e.pre[c] # None
           \/ v # Goal(e.op) /\ c[1] # "descr"
    PROVE  c \in Touched(o) /\ Goal(o) = v
<1>1. /\ e.op \in Ops /\ c \in Cells /\ c[1] = Handlers[e.op.tool].kind
      /\ e.op.value \in DOMAIN Handlers[e.op.tool].writes
      /\ v \in ValuesOf(c[1])
  BY DEF Entries, Touched, Valid, WellFormed
<1>2. CASE e.op.tool \in {"set_interface_admin_status", "set_interface_mtu",
                          "set_interface_description", "set_bgp_neighbor_admin"}
  <2>1. /\ e.op.tool \notin {"set_ip_interface", "set_portchannel_member",
                             "remove_static_route"} \cup DrainTools
        /\ e.op.tool \notin DOMAIN InverseTool
    BY <1>2 DEF InverseTool, DrainTools
  <2>2. v # None
    BY <1>1, CellValues, ConstantsAssumption DEF Values, Presence, AdminStatus
  <2>3. \A b \in Touched(e.op) : b = c
    BY <1>1, <2>1, CellsArePairs DEF Touched
  <2>4. /\ \A b \in Cells : b # c => e.pre[b] = None
        /\ e.pre[c] \in {None, v}
    <3>1. Handlers[e.op.tool].kind \in {"admin", "mtu", "descr", "bgp"}
      BY <1>2 DEF Handlers, set_interface_admin_status, set_interface_mtu,
                  set_interface_description, set_bgp_neighbor_admin
    <3>2. PICK S \in SUBSET Touched(e.op) :
            e.pre = [b \in Cells |-> IF b \in S THEN None ELSE Truth(d, e.op)[b]]
      BY <3>1 DEF ReadResults
    <3>3. Truth(d, e.op)[c] = v
      BY <1>1, <3>1 DEF Truth
    <3>4. \A b \in Cells : b # c => Truth(d, e.op)[b] = None
      BY <2>3 DEF Truth
    <3>. QED
      BY <1>1, <3>2, <3>3, <3>4
  <2>5. SettingsBefore(e) = {v}
    <3>1. CASE e.pre[c] # None
      <4>1. Recorded(e) = {v}
        BY <1>1, <2>2, <2>4, <3>1 DEF Recorded
      <4>. QED
        BY <4>1 DEF SettingsBefore
    <3>2. CASE e.pre[c] = None
      <4>1. Recorded(e) = {} /\ v # Goal(e.op) /\ c[1] # "descr"
        BY <2>4, <3>2 DEF Recorded
      <4>2. e.op.tool # "set_interface_description"
        BY <1>1, <4>1 DEF Handlers, set_interface_description
      <4>3. e.op.tool # "set_interface_mtu"
        BY <4>1, <2>1 DEF Reverse, SettingsBefore
      <4>4. e.op.tool \in {"set_interface_admin_status", "set_bgp_neighbor_admin"}
        BY <1>2, <4>2, <4>3
      <4>5. Handlers[e.op.tool] \in {set_interface_admin_status, set_bgp_neighbor_admin}
        BY <4>4 DEF Handlers
      <4>6. v \in AdminStatus /\ e.op.value \in AdminStatus /\ v # e.op.value
        BY <1>1, <4>1, <4>5, CellValues
           DEF Goal, set_interface_admin_status, set_bgp_neighbor_admin
      <4>7. Inverted(e.op.value) = {v}
        <5>1. e.op.value \in DOMAIN Inverse /\ Inverse[e.op.value] = v
          BY <4>6 DEF Inverse, AdminStatus
        <5>. QED
          BY <5>1 DEF Inverted
      <4>. QED
        BY <4>1, <4>2, <4>3, <4>7 DEF SettingsBefore
    <3>. QED
      BY <3>1, <3>2
  <2>6. o = [e.op EXCEPT !.value = v]
    BY <1>2, <2>1, <2>5 DEF Reverse
  <2>7. o.tool = e.op.tool /\ o.object = e.op.object /\ o.value = v
    BY <1>1, <2>6 DEF Ops
  <2>8. Touched(o) = Touched(e.op)
    BY <2>7 DEF Touched
  <2>9. Goal(o) = v
    <3>1. CASE e.op.tool \in {"set_interface_admin_status", "set_bgp_neighbor_admin"}
      <4>1. Handlers[e.op.tool] \in {set_interface_admin_status, set_bgp_neighbor_admin}
        BY <3>1 DEF Handlers
      <4>2. v \in AdminStatus /\ Handlers[o.tool].writes = [w \in AdminStatus |-> w]
        BY <1>1, <2>7, <4>1, CellValues DEF set_interface_admin_status, set_bgp_neighbor_admin
      <4>. QED
        BY <2>7, <4>2 DEF Goal
    <3>2. CASE e.op.tool = "set_interface_mtu"
      <4>1. v \in Mtus /\ Handlers[o.tool].writes = [w \in Mtus |-> w]
        BY <1>1, <2>7, <3>2, CellValues DEF Handlers, set_interface_mtu
      <4>. QED
        BY <2>7, <4>1 DEF Goal
    <3>3. CASE e.op.tool = "set_interface_description"
      <4>1. v \in Descs /\ Handlers[o.tool].writes = [w \in Descs |-> w]
        BY <1>1, <2>7, <3>3, CellValues DEF Handlers, set_interface_description
      <4>. QED
        BY <2>7, <4>1 DEF Goal
    <3>. QED
      BY <1>2, <3>1, <3>2, <3>3
  <2>. QED
    BY <2>8, <2>9
<1>3. CASE e.op.tool \in {"set_ip_interface", "set_portchannel_member"}
  <2>1. /\ e.op.tool \notin {"set_interface_admin_status", "set_interface_mtu",
                             "set_interface_description", "set_bgp_neighbor_admin",
                             "remove_static_route"}
        /\ e.op.tool \notin DOMAIN InverseTool
    BY <1>3 DEF InverseTool
  <2>2. Handlers[e.op.tool] \in {set_ip_interface, set_portchannel_member}
    BY <1>3 DEF Handlers
  <2>3. Handlers[e.op.tool].writes = Outcome /\ v \in Presence /\ e.op.value \in Actions
    BY <1>1, <2>2, CellValues DEF set_ip_interface, set_portchannel_member, Outcome
  <2>4. PICK w \in Inverted(e.op.value) : o = [e.op EXCEPT !.value = w]
    BY <1>3, <2>1 DEF Reverse
  <2>5. w \in Actions /\ w # e.op.value
    BY <2>3, <2>4 DEF Inverted, Inverse, Actions
  <2>6. o.tool = e.op.tool /\ o.object = e.op.object /\ o.value = w
    BY <1>1, <2>4 DEF Ops
  <2>7. Touched(o) = Touched(e.op)
    BY <2>6 DEF Touched
  <2>8. Goal(o) = Outcome[w] /\ Goal(e.op) = Outcome[e.op.value]
    BY <2>3, <2>6 DEF Goal
  <2>. QED
    BY <2>1, <2>3, <2>5, <2>7, <2>8 DEF Outcome, Actions, Presence
<1>4. CASE e.op.tool \in DOMAIN InverseTool
  <2>0. v # Goal(e.op)
    BY <1>4 DEF InverseTool
  <2>1. /\ ~(e.op.tool = "remove_static_route" /\ e.op.object[2] = None)
        /\ o = [e.op EXCEPT !.tool = InverseTool[e.op.tool]]
    BY <1>4 DEF Reverse, InverseTool
  <2>2. o.tool = InverseTool[e.op.tool] /\ o.object = e.op.object /\ o.value = e.op.value
    BY <1>1, <2>1 DEF Ops
  <2>3. /\ Handlers[o.tool].kind = Handlers[e.op.tool].kind
        /\ o.tool \in DrainTools <=> e.op.tool \in DrainTools
    BY <1>4, <2>2 DEF InverseTool, DrainTools, Handlers, add_vlan, remove_vlan,
                      add_static_route, remove_static_route, drain_switch, undrain_switch
  <2>4. c \in Touched(o)
    BY <2>1, <2>2, <2>3 DEF Touched
  <2>5. Goal(o) = v
    <3>1. CASE e.op.tool \in {"add_vlan", "remove_vlan"}
      BY <1>1, <2>0, <2>2, <3>1, CellValues
         DEF InverseTool, Handlers, add_vlan, remove_vlan, Goal, Presence
    <3>2. CASE e.op.tool \in {"add_static_route", "remove_static_route"}
      BY <1>1, <2>0, <2>2, <3>2, CellValues
         DEF InverseTool, Handlers, add_static_route, remove_static_route, Goal, Presence
    <3>3. CASE e.op.tool \in DrainTools
      BY <1>1, <2>0, <2>2, <3>3, CellValues
         DEF InverseTool, Handlers, drain_switch, undrain_switch, DrainTools, Goal, AdminStatus
    <3>. QED
      BY <1>4, <3>1, <3>2, <3>3 DEF InverseTool, DrainTools
  <2>. QED
    BY <2>4, <2>5
<1>. QED
  BY <1>2, <1>3, <1>4 DEF Reverse

\* What a handler runs for the inputs sent, given ledger L: a rollback runs the
\* inverse of a line that said "ok", every other tool what it was asked to.
Planned(L, sent, op) ==
    IF sent.tool = "rollback_mutation"
      THEN \E k \in DOMAIN L :
             /\ L[k].id = sent.object /\ L[k].status = "ok"
             /\ op \in Reverse(L[k])
      ELSE op = sent

\* What was read for op before its command: the answers pre, of a switch that had d.
Captured(op, pre, d) == d \in Configs /\ WellFormed(d) /\ pre \in ReadResults(d, op)

\* A call whose handler goes on as planned, and what it has read by then.
Ready(L, x) ==
    /\ x.pc \in {"read", "command", "verify", "ok"} => Planned(L, x.sent, x.op)
    /\ x.pc \in {"command", "verify", "ok"} => Captured(x.op, x.pre, x.seen)

\* A command in the journal: planned, legal, with what was read before it, on the
\* switch its inputs name if they name one, and with the effect its reply stands for.
Ran(L, j) ==
    /\ Planned(L, j.sent, j.op)
    /\ Valid(j.op)
    /\ Captured(j.op, j.pre, j.seen)
    /\ j.op.switch_ip # None => j.switch = j.op.switch_ip
    /\ \A c \in Cells : j.before[c] # j.after[c] => c \in Touched(j.op) /\ j.after[c] = Goal(j.op)
    /\ j.reply = "zero" => \A c \in Touched(j.op) : j.after[c] = Goal(j.op)

\* What a mutation read before its command is what its ledger line says it read.
Linked ==
    \A i \in DOMAIN journal : journal[i].sent.tool # "rollback_mutation" =>
        /\ \A k \in DOMAIN ledger :
             ledger[k].id = journal[i].id /\ ledger[k].status = "ok" =>
                ledger[k].pre = journal[i].pre
        /\ \A t \in InFlight :
             task[t].id = journal[i].id /\ task[t].pc \in {"verify", "ok"} =>
                task[t].pre = journal[i].pre

RollInv ==
    /\ AuditInv
    /\ Linked
    /\ \A t \in InFlight : Ready(ledger, task[t])
    /\ \A i \in DOMAIN journal : Ran(ledger, journal[i])

\* A call that goes on past its command keeps what it has read, and its line has it.
LEMMA LinkedStays ==
    ASSUME AuditInv, Linked, NEW t \in InFlight, NEW x,
           task' = [task EXCEPT ![t] = x],
           \/ x = Idle \/ x.pc \notin {"verify", "ok"}
           \/ task[t].pc = "verify" /\ x.id = task[t].id /\ x.pre = task[t].pre,
           UNCHANGED journal,
           \/ UNCHANGED ledger
           \/ task[t].pc \in {"ok", "failed"} /\ ledger' = Append(ledger, Entry(t))
    PROVE  Linked'
<1>1. task \in [Threads -> Tasks \cup {Idle}] /\ ledger \in Seq(Entries) /\ t \in Threads
  BY DEF AuditInv, TInv, TypeOK, InFlight
<1>. SUFFICES ASSUME NEW i \in DOMAIN journal, journal[i].sent.tool # "rollback_mutation"
              PROVE  /\ \A k \in DOMAIN ledger' :
                          ledger'[k].id = journal[i].id /\ ledger'[k].status = "ok" =>
                             ledger'[k].pre = journal[i].pre
                     /\ \A u \in InFlight' :
                          task'[u].id = journal[i].id /\ task'[u].pc \in {"verify", "ok"} =>
                             task'[u].pre = journal[i].pre
  BY DEF Linked
<1>2. ASSUME NEW u \in InFlight', task'[u].id = journal[i].id, task'[u].pc \in {"verify", "ok"}
      PROVE  task'[u].pre = journal[i].pre
  <2>1. CASE u = t
    BY <1>1, <1>2, <2>1 DEF Linked, InFlight
  <2>2. CASE u # t
    BY <1>1, <1>2, <2>2 DEF Linked, InFlight
  <2>. QED
    BY <2>1, <2>2
<1>3. ASSUME NEW k \in DOMAIN ledger', ledger'[k].id = journal[i].id, ledger'[k].status = "ok"
      PROVE  ledger'[k].pre = journal[i].pre
  <2>1. CASE k \in DOMAIN ledger /\ ledger'[k] = ledger[k]
    BY <1>3, <2>1 DEF Linked
  <2>2. CASE ~(k \in DOMAIN ledger /\ ledger'[k] = ledger[k])
    <3>1. /\ task[t].pc \in {"ok", "failed"}
          /\ ledger'[k] = Entry(t)
      BY <1>1, <2>2, AppendDomain
    <3>2. task[t].id = journal[i].id /\ task[t].pc = "ok"
      BY <1>3, <3>1 DEF Entry
    <3>3. journal[i].sent = task[t].sent
      BY <3>2 DEF AuditInv, Stages, StageOf
    <3>4. Entry(t).pre = task[t].pre
      BY <3>2, <3>3 DEF Entry
    <3>. QED
      BY <3>1, <3>2, <3>4 DEF Linked
  <2>. QED
    BY <2>1, <2>2
<1>. QED
  BY <1>2, <1>3

\* A command is a call's first: no line and no other call has its id.
LEMMA CommandLinked ==
    ASSUME AuditInv, Linked, NEW t \in Threads, Command(t) PROVE Linked'
<1>1. task[t] \in Tasks /\ task[t].pc = "command" /\ t \in InFlight
  BY ActiveTask DEF Command, AuditInv, TInv, ActivePcs
<1>2. task \in [Threads -> Tasks \cup {Idle}] /\ journal \in Seq(Commands)
  BY DEF AuditInv, TInv, TypeOK
<1>3. PICK S, reply :
        /\ journal' = Append(journal, Performed(t, S, reply))
        /\ \E pc : task' = [task EXCEPT ![t].pc = pc]
  BY DEF Command
<1>4. /\ \A k \in DOMAIN ledger : ledger[k].id # task[t].id
      /\ \A i \in DOMAIN journal : journal[i].id # task[t].id
      /\ \A u \in InFlight : task[u].id = task[t].id => u = t
  BY <1>1 DEF AuditInv, Stages, StageOf, OwnIds
<1>5. /\ InFlight' \subseteq InFlight
      /\ \A u \in InFlight' : task'[u].id = task[u].id /\ task'[u].pre = task[u].pre
      /\ \A u \in InFlight' : u # t => task'[u] = task[u]
  <2>1. PICK pc : task' = [task EXCEPT ![t].pc = pc]
    BY <1>3
  <2>. QED
    BY <1>1, <1>2, <2>1 DEF InFlight, Tasks
<1>. DEFINE j == Performed(t, S, reply)
<1>6. j.id = task[t].id /\ j.pre = task[t].pre
  BY DEF Performed
<1>. HIDE DEF j
<1>7. /\ DOMAIN journal' = DOMAIN journal \cup {Len(journal) + 1}
      /\ journal'[Len(journal) + 1] = j
      /\ \A i \in DOMAIN journal : journal'[i] = journal[i]
  BY <1>2, <1>3, AppendDomain DEF j
<1>8. UNCHANGED ledger
  BY DEF Command
<1>9. ASSUME NEW i \in DOMAIN journal, journal[i].sent.tool # "rollback_mutation",
             NEW u \in InFlight', task'[u].id = journal[i].id, task'[u].pc \in {"verify", "ok"}
      PROVE  task'[u].pre = journal[i].pre
  <2>1. u # t /\ u \in InFlight /\ task'[u] = task[u]
    BY <1>1, <1>4, <1>5, <1>9
  <2>. QED
    BY <1>9, <2>1 DEF Linked
<1>10. ASSUME NEW u \in InFlight', task'[u].id = j.id
       PROVE  task'[u].pre = j.pre
  BY <1>4, <1>5, <1>6, <1>10
<1>. QED
  BY <1>4, <1>6, <1>7, <1>8, <1>9, <1>10 DEF Linked

\* Linked is inductive, next to AuditInv.
LEMMA NextLinked == AuditInv /\ Linked /\ [Next]_vars => Linked'
<1>. SUFFICES ASSUME AuditInv, Linked, [Next]_vars PROVE Linked'
  OBVIOUS
<1>0. task \in [Threads -> Tasks \cup {Idle}]
  BY DEF AuditInv, TInv, TypeOK
<1>1. ASSUME NEW t \in Threads, Admit(t) PROVE Linked'
  <2>1. PICK x : task' = [task EXCEPT ![t] = x] /\ x.pc \notin {"verify", "ok"}
    <3>1. PICK id \in fresh, sent \in ClientOps, confirm \in BOOLEAN,
               s \in Sessions, body \in BodySwitches :
             task' = [task EXCEPT ![t] = Started(id, sent, confirm, s, body)]
      BY <1>1 DEF Admit
    <3>2. Started(id, sent, confirm, s, body).pc \notin {"verify", "ok"}
      BY DEF Started
    <3>. QED
      BY <3>1, <3>2
  <2>2. \A u \in InFlight' : task'[u].pc \in {"verify", "ok"} =>
                               u \in InFlight /\ task'[u] = task[u]
    BY <1>0, <2>1 DEF InFlight
  <2>. QED
    BY <1>1, <2>2 DEF Admit, Linked
<1>2. ASSUME NEW t \in Threads, Step(t) PROVE Linked'
  <2>1. task[t] \in Tasks /\ t \in InFlight
    BY <1>2, ActiveTask DEF Step, Plan, FirstReadFails, FirstRead, Command, SecondReadFails,
         SecondRead, Record, RecordFails, Reply, AuditInv, TInv, ActivePcs
  <2>2. CASE Plan(t) \/ FirstReadFails(t) \/ FirstRead(t) \/ SecondReadFails(t)
    <3>1. task' = [task EXCEPT ![t] = task'[t]] /\ task'[t].pc \notin {"verify", "ok"}
      <4>1. CASE Plan(t)
        BY <1>0, <2>1, <4>1 DEF Plan, Tasks
      <4>2. CASE FirstReadFails(t) \/ SecondReadFails(t)
        BY <1>0, <2>1, <4>2 DEF FirstReadFails, SecondReadFails, Tasks
      <4>3. CASE FirstRead(t)
        <5>1. PICK r : task' = [task EXCEPT ![t].pc = "command", ![t].pre = r,
                                            ![t].seen = running[Target(t)]]
          BY <4>3 DEF FirstRead
        <5>. QED
          BY <1>0, <2>1, <5>1 DEF Tasks
      <4>. QED
        BY <2>2, <4>1, <4>2, <4>3
    <3>. QED
      BY <2>1, <2>2, <3>1, LinkedStays DEF Plan, FirstReadFails, FirstRead, SecondReadFails
  <2>3. CASE Command(t)
    BY <2>3, CommandLinked
  <2>4. CASE SecondRead(t)
    <3>1. PICK r, pc : task' = [task EXCEPT ![t].post = r, ![t].pc = pc]
      BY <2>4 DEF SecondRead
    <3>2. /\ task' = [task EXCEPT ![t] = task'[t]]
          /\ task'[t].id = task[t].id /\ task'[t].pre = task[t].pre
      BY <1>0, <2>1, <3>1 DEF Tasks
    <3>. QED
      BY <2>1, <2>4, <3>2, LinkedStays DEF SecondRead
  <2>5. CASE Record(t) \/ RecordFails(t) \/ Reply(t)
    <3>1. PICK x : /\ task' = [task EXCEPT ![t] = x]
                   /\ x = Idle \/ x = [task[t] EXCEPT !.pc = "reply"]
      BY <2>5 DEF Record, RecordFails, Reply
    <3>2. x = Idle \/ x.pc \notin {"verify", "ok"}
      BY <2>1, <3>1 DEF Tasks
    <3>. QED
      BY <2>1, <2>5, <3>1, <3>2, LinkedStays DEF Record, RecordFails, Reply
  <2>. QED
    BY <1>2, <2>2, <2>3, <2>4, <2>5 DEF Step
<1>3. CASE Restart
  BY <1>3 DEF Restart, InFlight, Linked
<1>4. CASE UNCHANGED vars
  BY <1>4 DEF vars, InFlight, Linked
<1>. QED
  BY <1>1, <1>2, <1>3, <1>4 DEF Next

\* Lines of the ledger stay, and so does what was planned from them.
LEMMA PlannedStays ==
    ASSUME NEW L, NEW M, NEW sent, NEW op,
           \A k \in DOMAIN L : k \in DOMAIN M /\ M[k] = L[k],
           Planned(L, sent, op)
    PROVE  Planned(M, sent, op)
  BY DEF Planned

\* The initial states.
LEMMA InitRoll == Init => RollInv
<1>. SUFFICES ASSUME Init PROVE RollInv
  OBVIOUS
<1>1. InFlight = {} /\ DOMAIN journal = {} /\ DOMAIN ledger = {}
  BY DEF Init, InFlight
<1>. QED
  BY <1>1, InitAudit DEF RollInv, Linked

\* A step that plans nothing new but by the planner and adds at most the command of a
\* call that is ready for it and at most a line.
LEMMA RollKept ==
    ASSUME RollInv, AuditInv', Linked',
           \A u \in InFlight' : Ready(ledger, task'[u]),
           \/ UNCHANGED ledger
           \/ \E e : ledger' = Append(ledger, e),
           \/ UNCHANGED journal
           \/ \E u \in Threads : \E S \in SUBSET Touched(task[u].op), reply \in Replies :
                /\ task[u].pc = "command"
                /\ reply = "zero" => S = Touched(task[u].op)
                /\ journal' = Append(journal, Performed(u, S, reply))
    PROVE  RollInv'
<1>1. \A k \in DOMAIN ledger : k \in DOMAIN ledger' /\ ledger'[k] = ledger[k]
  <2>1. ledger \in Seq(Entries)
    BY DEF RollInv, AuditInv, TInv, TypeOK
  <2>. QED
    BY <2>1, AppendDomain
<1>2. ASSUME NEW u \in InFlight' PROVE Ready(ledger', task'[u])
  BY <1>1, <1>2, PlannedStays DEF Ready
<1>3. ASSUME NEW j, Ran(ledger, j) PROVE Ran(ledger', j)
  <2>1. Planned(ledger', j.sent, j.op)
    BY <1>1, <1>3, PlannedStays DEF Ran
  <2>. QED
    BY <1>3, <2>1 DEF Ran
<1>4. CASE UNCHANGED journal
  BY <1>1, <1>2, <1>3, <1>4 DEF RollInv
<1>5. CASE \E u \in Threads : \E S \in SUBSET Touched(task[u].op), reply \in Replies :
             /\ task[u].pc = "command"
             /\ reply = "zero" => S = Touched(task[u].op)
             /\ journal' = Append(journal, Performed(u, S, reply))
  <2>1. PICK u \in Threads : \E S \in SUBSET Touched(task[u].op), reply \in Replies :
             /\ task[u].pc = "command"
             /\ reply = "zero" => S = Touched(task[u].op)
             /\ journal' = Append(journal, Performed(u, S, reply))
    BY <1>5
  <2>2. PICK S \in SUBSET Touched(task[u].op), reply \in Replies :
             /\ task[u].pc = "command"
             /\ reply = "zero" => S = Touched(task[u].op)
             /\ journal' = Append(journal, Performed(u, S, reply))
    BY <2>1
  <2>3. u \in InFlight /\ Valid(task[u].op) /\ Target(u) \in Switches
    BY <2>2, ActiveTask DEF RollInv, AuditInv, TInv, Checked, ActivePcs
  <2>. DEFINE j == Performed(u, S, reply)
  <2>4. Ran(ledger, j)
    <3>1. Planned(ledger, j.sent, j.op) /\ Valid(j.op)
      BY <2>2, <2>3 DEF RollInv, Ready, Performed
    <3>2. j.op.switch_ip # None => j.switch = j.op.switch_ip
      BY DEF Performed, Target, RequireSwitchIp
    <3>3. \A c \in Cells :
            j.before[c] # j.after[c] => c \in Touched(j.op) /\ j.after[c] = Goal(j.op)
      BY DEF Performed, Written
    <3>4. j.reply = "zero" => \A c \in Touched(j.op) : j.after[c] = Goal(j.op)
      BY <2>2 DEF Performed, Written, Touched
    <3>5. Captured(j.op, j.pre, j.seen)
      BY <2>2, <2>3 DEF RollInv, Ready, Performed
    <3>. QED
      BY <3>1, <3>2, <3>3, <3>4, <3>5 DEF Ran
  <2>. HIDE DEF j
  <2>5. Ran(ledger', j)
    BY <1>3, <2>4
  <2>6. journal \in Seq(Commands) /\ journal' = Append(journal, j)
    BY <2>2 DEF RollInv, AuditInv, TInv, TypeOK, j
  <2>7. /\ DOMAIN journal' = DOMAIN journal \cup {Len(journal) + 1}
        /\ journal'[Len(journal) + 1] = j
        /\ \A i \in DOMAIN journal : journal'[i] = journal[i]
    BY <2>6, AppendDomain
  <2>. QED
    BY <1>1, <1>2, <1>3, <2>5, <2>7 DEF RollInv
<1>. QED
  BY <1>4, <1>5

\* A step of one thread leaves the others as ready as they were.
LEMMA ReadyStays ==
    ASSUME RollInv, NEW t \in Threads, NEW x, task' = [task EXCEPT ![t] = x],
           x # Idle => Ready(ledger, x)
    PROVE  \A u \in InFlight' : Ready(ledger, task'[u])
<1>1. task \in [Threads -> Tasks \cup {Idle}]
  BY DEF RollInv, AuditInv, TInv, TypeOK
<1>2. ASSUME NEW u \in InFlight' PROVE Ready(ledger, task'[u])
  <2>1. CASE u = t
    BY <1>1, <1>2, <2>1 DEF InFlight
  <2>2. CASE u # t
    <3>1. u \in InFlight /\ task'[u] = task[u]
      BY <1>1, <1>2, <2>2 DEF InFlight
    <3>. QED
      BY <3>1 DEF RollInv
  <2>. QED
    BY <2>1, <2>2
<1>. QED
  BY <1>2

\* A call that is admitted plans what it was sent, unless the planner comes first.
LEMMA AdmitRoll ==
    ASSUME RollInv, AuditInv', Linked', NEW t \in Threads, Admit(t) PROVE RollInv'
<1>1. PICK id \in fresh, sent \in ClientOps, confirm \in BOOLEAN,
           s \in Sessions, body \in BodySwitches :
         task' = [task EXCEPT ![t] = Started(id, sent, confirm, s, body)]
  BY DEF Admit
<1>2. Ready(ledger, Started(id, sent, confirm, s, body))
  BY DEF Started, Ready, Planned
<1>3. \A u \in InFlight' : Ready(ledger, task'[u])
  BY <1>1, <1>2, ReadyStays
<1>. QED
  BY <1>3, RollKept DEF Admit

\* The planner takes a line of the ledger that has the id it was given and says
\* "ok".
LEMMA PlanRoll ==
    ASSUME RollInv, AuditInv', Linked', GateInv, NEW t \in Threads, Plan(t) PROVE RollInv'
<1>1. task[t] \in Tasks /\ t \in InFlight /\ task[t].pc = "plan"
  BY ActiveTask DEF Plan, GateInv, TInv, ActivePcs
<1>2. task \in [Threads -> Tasks \cup {Idle}] /\ task[t].sent.tool = "rollback_mutation"
  BY <1>1 DEF GateInv, Gated, TInv, TypeOK
<1>3. \A u \in InFlight' : Ready(ledger, task'[u])
  <2>1. CASE task' = [task EXCEPT ![t].pc = "failed"]
    <3>. DEFINE x == [task[t] EXCEPT !.pc = "failed"]
    <3>1. x.pc = "failed" /\ task' = [task EXCEPT ![t] = x]
      BY <1>1, <1>2, <2>1 DEF Tasks
    <3>. HIDE DEF x
    <3>2. Ready(ledger, x)
      BY <3>1 DEF Ready
    <3>. QED
      BY <3>1, <3>2, ReadyStays
  <2>2. CASE task' # [task EXCEPT ![t].pc = "failed"]
    <3>1. PICK o \in UNION {Reverse(e) : e \in Undoable(task[t].sent.object)} :
               task' = [task EXCEPT ![t].pc = "read", ![t].op = o]
      BY <2>2 DEF Plan
    <3>2. PICK e \in Undoable(task[t].sent.object) : o \in Reverse(e)
      BY <3>1
    <3>3. PICK k \in DOMAIN ledger : e = ledger[k]
      BY DEF Undoable, Tail5000, GateInv, TInv, TypeOK
    <3>. DEFINE x == [task[t] EXCEPT !.pc = "read", !.op = o]
    <3>4. /\ x.pc = "read" /\ x.op = o /\ x.sent = task[t].sent
          /\ task' = [task EXCEPT ![t] = x]
      BY <1>1, <1>2, <3>1 DEF Tasks
    <3>. HIDE DEF x
    <3>5. Ready(ledger, x)
      BY <1>2, <3>2, <3>3, <3>4 DEF Ready, Planned, Undoable
    <3>. QED
      BY <3>4, <3>5, ReadyStays
  <2>. QED
    BY <2>1, <2>2
<1>. QED
  BY <1>3, RollKept DEF Plan

\* The reads, the command and their failures run what was planned.
LEMMA StepRoll ==
    ASSUME RollInv, AuditInv', Linked', NEW t \in Threads,
           FirstReadFails(t) \/ FirstRead(t) \/ Command(t) \/ SecondReadFails(t) \/ SecondRead(t)
    PROVE  RollInv'
<1>1. task[t] \in Tasks /\ t \in InFlight
  BY ActiveTask DEF FirstReadFails, FirstRead, Command, SecondReadFails, SecondRead,
                    RollInv, AuditInv, TInv, ActivePcs
<1>2. task \in [Threads -> Tasks \cup {Idle}] /\ Ready(ledger, task[t])
  BY <1>1 DEF RollInv, AuditInv, TInv, TypeOK
<1>3. PICK x : task' = [task EXCEPT ![t] = x] /\ Ready(ledger, x)
  <2>1. CASE FirstReadFails(t) \/ SecondReadFails(t)
    <3>. DEFINE x == [task[t] EXCEPT !.pc = "failed"]
    <3>1. x.pc = "failed" /\ task' = [task EXCEPT ![t] = x]
      BY <1>1, <1>2, <2>1 DEF FirstReadFails, SecondReadFails, Tasks
    <3>. HIDE DEF x
    <3>. QED
      BY <3>1 DEF Ready
  <2>2. CASE FirstRead(t)
    <3>1. PICK r \in ReadResults(running[Target(t)], task[t].op) :
             task' = [task EXCEPT ![t].pc = "command", ![t].pre = r,
                                  ![t].seen = running[Target(t)]]
      BY <2>2 DEF FirstRead
    <3>. DEFINE x == [task[t] EXCEPT !.pc = "command", !.pre = r, !.seen = running[Target(t)]]
    <3>2. /\ x.pc = "command" /\ x.pre = r /\ x.seen = running[Target(t)]
          /\ x.op = task[t].op /\ x.sent = task[t].sent
          /\ task' = [task EXCEPT ![t] = x]
      BY <1>1, <1>2, <3>1 DEF Tasks
    <3>. HIDE DEF x
    <3>3. Target(t) \in Switches
      BY <1>1, <2>2 DEF FirstRead, Target, RequireSwitchIp, Tasks, Ops
    <3>4. Captured(task[t].op, r, running[Target(t)])
      BY <3>3 DEF Captured, RollInv, AuditInv, TInv, TypeOK
    <3>5. Ready(ledger, x)
      BY <1>2, <2>2, <3>2, <3>4 DEF Ready, FirstRead
    <3>. QED
      BY <3>2, <3>5
  <2>3. CASE Command(t)
    <3>1. PICK pc \in {"failed", "verify"} : task' = [task EXCEPT ![t].pc = pc]
      BY <2>3 DEF Command
    <3>. DEFINE x == [task[t] EXCEPT !.pc = pc]
    <3>2. /\ x.pc = pc /\ x.pre = task[t].pre /\ x.seen = task[t].seen
          /\ x.op = task[t].op /\ x.sent = task[t].sent
          /\ task' = [task EXCEPT ![t] = x]
      BY <1>1, <1>2, <3>1 DEF Tasks
    <3>. HIDE DEF x
    <3>3. Ready(ledger, x)
      BY <1>2, <2>3, <3>1, <3>2 DEF Ready, Command
    <3>. QED
      BY <3>2, <3>3
  <2>4. CASE SecondRead(t)
    <3>1. PICK r : task' = [task EXCEPT ![t].post = r,
                                        ![t].pc = IF Rejects(task[t].op, task[t].pre, r)
                                                    THEN "failed" ELSE "ok"]
      BY <2>4 DEF SecondRead
    <3>2. PICK pc \in {"failed", "ok"} : task' = [task EXCEPT ![t].post = r, ![t].pc = pc]
      BY <3>1
    <3>. DEFINE x == [task[t] EXCEPT !.post = r, !.pc = pc]
    <3>3. /\ x.pc = pc /\ x.pre = task[t].pre /\ x.seen = task[t].seen
          /\ x.op = task[t].op /\ x.sent = task[t].sent
          /\ task' = [task EXCEPT ![t] = x]
      BY <1>1, <1>2, <3>2 DEF Tasks
    <3>. HIDE DEF x
    <3>4. Ready(ledger, x)
      BY <1>2, <2>4, <3>2, <3>3 DEF Ready, SecondRead
    <3>. QED
      BY <3>3, <3>4
  <2>. QED
    BY <2>1, <2>2, <2>3, <2>4
<1>4. \A u \in InFlight' : Ready(ledger, task'[u])
  BY <1>3, ReadyStays
<1>5. \/ UNCHANGED journal
      \/ \E S \in SUBSET Touched(task[t].op), reply \in Replies :
           /\ task[t].pc = "command"
           /\ reply = "zero" => S = Touched(task[t].op)
           /\ journal' = Append(journal, Performed(t, S, reply))
  BY DEF FirstReadFails, FirstRead, Command, SecondReadFails, SecondRead
<1>6. UNCHANGED ledger
  BY DEF FirstReadFails, FirstRead, Command, SecondReadFails, SecondRead
<1>. QED
  BY <1>4, <1>5, <1>6, RollKept

\* A call that ends plans nothing.
LEMMA EndsRoll ==
    ASSUME RollInv, AuditInv', Linked', NEW t \in Threads, Record(t) \/ RecordFails(t) \/ Reply(t)
    PROVE  RollInv'
<1>1. task[t] \in Tasks /\ t \in InFlight
  BY ActiveTask DEF Record, RecordFails, Reply, RollInv, AuditInv, TInv, ActivePcs
<1>2. task \in [Threads -> Tasks \cup {Idle}] /\ Ready(ledger, task[t])
  BY <1>1 DEF RollInv, AuditInv, TInv, TypeOK
<1>3. PICK x : task' = [task EXCEPT ![t] = x] /\ (x = Idle \/ x = [task[t] EXCEPT !.pc = "reply"])
  BY DEF Record, RecordFails, Reply
<1>4. x # Idle => Ready(ledger, x)
  BY <1>1, <1>3 DEF Ready, Tasks
<1>5. \A u \in InFlight' : Ready(ledger, task'[u])
  BY <1>3, <1>4, ReadyStays
<1>6. UNCHANGED ledger \/ \E e : ledger' = Append(ledger, e)
  BY DEF Record, RecordFails, Reply
<1>7. UNCHANGED journal
  BY DEF Record, RecordFails, Reply
<1>. QED
  BY <1>5, <1>6, <1>7, RollKept

\* RollInv is inductive, next to GateInv.
LEMMA NextRoll == RollInv /\ GateInv /\ [Next]_vars => RollInv'
<1>. SUFFICES ASSUME RollInv, GateInv, [Next]_vars PROVE RollInv'
  OBVIOUS
<1>1. AuditInv' /\ Linked'
  BY NextAudit, NextLinked DEF RollInv
<1>2. CASE \E t \in Threads : Admit(t) \/ Step(t)
  <2>1. PICK t \in Threads : Admit(t) \/ Step(t)
    BY <1>2
  <2>. QED
    BY <1>1, <2>1, AdmitRoll, PlanRoll, StepRoll, EndsRoll DEF Step
<1>3. CASE Restart
  <2>1. InFlight' = {} /\ UNCHANGED <<journal, ledger>>
    BY <1>3 DEF Restart, InFlight
  <2>. QED
    BY <1>1, <2>1 DEF RollInv
<1>4. CASE UNCHANGED vars
  BY <1>1, <1>4 DEF vars, RollInv, InFlight
<1>. QED
  BY <1>2, <1>3, <1>4 DEF Next

\* The mutation that a rollback undoes is the one its ledger line describes.
LEMMA UndoneIsPlanned ==
    ASSUME RollInv, NEW i \in DOMAIN journal, NEW k \in DOMAIN journal,
           Undoes(journal[k], journal[i])
    PROVE  /\ journal[i].op = journal[i].sent
           /\ journal[k].op.switch_ip = journal[i].op.switch_ip
           /\ Touched(journal[k].op) \subseteq Touched(journal[i].op)
<1>1. Ran(ledger, journal[i]) /\ Ran(ledger, journal[k])
  BY DEF RollInv
<1>2. PICK n \in DOMAIN ledger :
        /\ ledger[n].id = journal[i].id /\ ledger[n].status = "ok"
        /\ journal[k].op \in Reverse(ledger[n])
  BY <1>1 DEF Ran, Planned, Undoes
<1>3. ledger[n].op = journal[i].sent
  BY <1>2 DEF RollInv, AuditInv, OneLinePerCommand
<1>4. ledger[n] \in Entries
  BY DEF RollInv, AuditInv, TInv, TypeOK
<1>5. /\ ledger[n].op.tool \in HandlerTools
      /\ journal[k].op.switch_ip = ledger[n].op.switch_ip
      /\ Valid(ledger[n].op) => Touched(journal[k].op) \subseteq Touched(ledger[n].op)
  BY <1>2, <1>4, ReverseKeeps
<1>6. journal[i].op = journal[i].sent
  BY <1>1, <1>3, <1>5 DEF Ran, Planned, HandlerTools, Handlers
<1>. QED
  BY <1>1, <1>3, <1>5, <1>6 DEF Ran

\* A rollback acts on the switch of the mutation it undoes whenever the client had
\* named that switch: the inverse's inputs carry it, so no session and no body
\* context of the rollback can send it elsewhere.
THEOREM RollbackStaysOnSwitch == Spec => []RollbackOnSameSwitch
<1>1. RollInv => RollbackOnSameSwitch
  <2>. SUFFICES ASSUME RollInv, NEW i \in DOMAIN journal, NEW k \in DOMAIN journal,
                       Undoes(journal[k], journal[i]), journal[i].sent.switch_ip # None
                PROVE  journal[k].switch = journal[i].switch
    BY DEF RollbackOnSameSwitch
  <2>1. Ran(ledger, journal[i]) /\ Ran(ledger, journal[k])
    BY DEF RollInv
  <2>. QED
    BY <2>1, UndoneIsPlanned DEF Ran
<1>. QED
  BY <1>1, InitRoll, NextRoll, InitGate, NextGate, PTL DEF Spec

\* Whatever configuration it meets and however its command ends, a rollback changes
\* no cell but those the mutation it undoes was about.
THEOREM RollbackStaysConfined == Spec => []RollbackConfined
<1>1. RollInv => RollbackConfined
  <2>. SUFFICES ASSUME RollInv, NEW i \in DOMAIN journal, NEW k \in DOMAIN journal,
                       Undoes(journal[k], journal[i]), NEW c \in Cells,
                       journal[k].before[c] # journal[k].after[c]
                PROVE  c \in Touched(journal[i].op)
    BY DEF RollbackConfined
  <2>1. Ran(ledger, journal[k])
    BY DEF RollInv
  <2>. QED
    BY <2>1, UndoneIsPlanned DEF Ran
<1>. QED
  BY <1>1, InitRoll, NextRoll, InitGate, NextGate, PTL DEF Spec

\* A rollback that the switch carries out leaves in each cell of the mutation what the
\* mutation had read there first, if its ledger line determines that: whatever other
\* calls and other rollbacks have written to the cell at any moment since, whatever the
\* mutation's own command reported, and with any number of threads and calls.
THEOREM RollbackGivesBack == Spec => []RollbackRestores
<1>1. RollInv => RollbackRestores
  <2>. SUFFICES ASSUME RollInv, NEW i \in DOMAIN journal, NEW k \in DOMAIN journal,
                       Undoes(journal[k], journal[i]), journal[k].reply = "zero",
                       NEW c \in Touched(journal[i].op), Recoverable(journal[i], c)
                PROVE  journal[k].after[c] = journal[i].seen[c]
    BY DEF RollbackRestores
  <2>1. Ran(ledger, journal[i]) /\ Ran(ledger, journal[k])
    BY DEF RollInv
  <2>2. PICK n \in DOMAIN ledger :
          /\ ledger[n].id = journal[i].id /\ ledger[n].status = "ok"
          /\ journal[k].op \in Reverse(ledger[n])
    BY <2>1 DEF Ran, Planned, Undoes
  <2>3. ledger[n].op = journal[i].sent /\ journal[i].op = journal[i].sent
    BY <2>2, UndoneIsPlanned DEF RollInv, AuditInv, OneLinePerCommand
  <2>4. ledger[n] \in Entries
    BY DEF RollInv, AuditInv, TInv, TypeOK
  <2>5. ledger[n].pre = journal[i].pre
    <3>1. ledger[n].op.tool \in HandlerTools
      BY <2>2, <2>4, ReverseKeeps
    <3>2. journal[i].sent.tool # "rollback_mutation"
      BY <2>3, <3>1 DEF HandlerTools, Handlers
    <3>. QED
      BY <2>2, <3>2 DEF RollInv, Linked
  <2>6. /\ journal[i].seen \in Configs /\ WellFormed(journal[i].seen)
        /\ ledger[n].pre \in ReadResults(journal[i].seen, ledger[n].op)
        /\ Valid(ledger[n].op)
    BY <2>1, <2>3, <2>5 DEF Ran, Captured
  <2>7. c \in Touched(journal[k].op) /\ Goal(journal[k].op) = journal[i].seen[c]
    BY <2>2, <2>3, <2>4, <2>5, <2>6, ReverseRestores DEF Recoverable
  <2>. QED
    BY <2>1, <2>7 DEF Ran
<1>. QED
  BY <1>1, InitRoll, NextRoll, InitGate, NextGate, PTL DEF Spec

=============================================================================
