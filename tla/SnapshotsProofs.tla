--------------------------- MODULE SnapshotsProofs ---------------------------
(***************************************************************************)
(* Proofs about Snapshots: what a save or a restore reports stays true of  *)
(* the disk and of the switches, and a comparison names exactly what       *)
(* differs, for any switches, names, tasks, configurations and bounds.     *)
(***************************************************************************)
EXTENDS Snapshots, TLAPS

SaveStages == {"pull", "open", "write", "metaopen", "metawrite"}
RestoreStages == {"file", "push", "tee", "reload"}
SwitchStages == {"pull", "open", "write", "file", "push", "tee", "reload"}

\* What a task has at each stage: a save ends as an idle task, a restore keeps its report.
Shaped(r) ==
    /\ r.stage \in SaveStages <=> r.op = "save"
    /\ r.stage \in RestoreStages => r.op = "restore"
    /\ r.stage # "over" => r.name \in Names /\ r.list # << >>
    /\ r.stage \in SwitchStages => r.todo # << >>
    /\ r.stage \in {"open", "write", "push", "tee"} => r.text \in Configs

TypeInv == TypeOK /\ \A t \in Tasks : Shaped(task[t])

\* Two restores never go by the same number, nothing is written in the name of a call that
\* has not begun, a startup configuration that is being written is nobody else's, and one
\* that a call wrote alone is empty until it is whole.
WriterInv ==
    /\ \A s \in Switches : writer[s] \in 0..calls
    /\ \A t \in Tasks : task[t].op = "restore" => task[t].by \in 1..calls
    /\ \A t, u \in Tasks :
           task[t].op = "restore" /\ task[u].op = "restore" /\ task[t].by = task[u].by => t = u
    /\ \A s \in Switches, t \in Tasks :
           TeesTo(t, s) =>
               /\ writer[s] \in {0, task[t].by}
               /\ writer[s] = task[t].by =>
                      startup[s] = Torn /\ \A u \in Tasks \ {t} : ~TeesTo(u, s)
    /\ \A s \in Switches, t \in Tasks :
           At(t, "restore", "reload") /\ Current(t) = s /\ task[t].by = writer[s] =>
               startup[s] # Torn

\* While a save of a clean name is on its way it is the only one, the files of the switches
\* it has done are as its entries say, and what it has opened and not written yet is torn.
OnTheWay(t, n) ==
    /\ \A s \in Switches :
           task[t].entry[s] \in Configs /\ ~(task[t].stage = "write" /\ Current(t) = s) =>
               files[n][s] = task[t].entry[s]
    /\ task[t].stage = "write" => files[n][Current(t)] = Torn
    /\ task[t].stage = "metawrite" => meta[n] = Torn

Kept(n) ==
    last[n] # None =>
        /\ meta[n] = last[n].list
        /\ \A s \in Switches : last[n].entry[s] \in Configs => files[n][s] = last[n].entry[s]

FilesInv ==
    \A n \in Names :
        clean[n] =>
            /\ \A t, u \in Tasks : Saves(t, n) /\ Saves(u, n) => t = u
            /\ \A t \in Tasks : Saves(t, n) => OnTheWay(t, n)
            /\ (\A t \in Tasks : ~Saves(t, n)) => Kept(n)

----------------------------------------------------------------------------
Tsk == [op : {"idle", "save", "restore"}, name : Names \cup {None},
        list : Lists \cup {<< >>}, todo : Seq(Switches), skip : BOOLEAN,
        stage : Stages, text : Configs \cup {None},
        entry : [Switches -> Configs \cup Statuses \cup {None}], by : Nat]

\* The constants are typed as the assumption says.
LEMMA SnapshotsConstants ==
    /\ Configs \cap Statuses = {} /\ None \notin Statuses /\ None \notin Configs
    /\ Torn \notin Configs /\ Missing \notin Configs /\ None # Torn
    /\ \A l \in Lists : l \in Seq(Switches) /\ l # << >>
    /\ Torn \notin Lists /\ Missing \notin Lists
    /\ \A b \in Boot : b \in [Switches -> Configs]
BY SnapshotsAssumption

\* A task that is at a switch names one of the switches.
LEMMA CurrentIsSwitch ==
    ASSUME TypeInv, NEW t \in Tasks,
           task[t].stage \in SwitchStages
    PROVE  /\ task[t] \in Tsk
           /\ task[t].todo \in Seq(Switches) /\ task[t].todo # << >>
           /\ Current(t) \in Switches
           /\ Tail(task[t].todo) \in Seq(Switches)
           /\ task[t].name \in Names
BY DEF TypeInv, TypeOK, Shaped, Tsk, Current, SwitchStages

\* What Entered changes, and what it leaves as it was.
LEMMA EnteredFields ==
    ASSUME TypeInv, NEW t \in Tasks, NEW e, NEW next, NEW end,
           task[t].stage \in SwitchStages
    PROVE  /\ Entered(t, e, next, end).op = task[t].op
           /\ Entered(t, e, next, end).name = task[t].name
           /\ Entered(t, e, next, end).list = task[t].list
           /\ Entered(t, e, next, end).by = task[t].by
           /\ Entered(t, e, next, end).todo = Tail(task[t].todo)
           /\ Entered(t, e, next, end).stage \in {next, end}
           /\ Entered(t, e, next, end).stage # end => Entered(t, e, next, end).todo # << >>
           /\ Entered(t, e, next, end).entry[Current(t)] = e
           /\ \A s \in Switches \ {Current(t)} :
                  Entered(t, e, next, end).entry[s] = task[t].entry[s]
<1>1. task[t] \in Tsk /\ Current(t) \in Switches  BY CurrentIsSwitch
<1>2. QED  BY <1>1 DEF Entered, Tsk

\* The entry of a switch, and going on to the next switch or to the end, keep a task's type.
LEMMA EnteredType ==
    ASSUME TypeInv, NEW t \in Tasks, NEW e \in Configs \cup Statuses,
           NEW next \in Stages, NEW end \in Stages,
           task[t].stage \in SwitchStages,
           \/ task[t].op = "save" /\ next = "pull" /\ end = "metaopen"
           \/ task[t].op = "restore" /\ next = "file" /\ end = "over"
    PROVE  Entered(t, e, next, end) \in Tsk /\ Shaped(Entered(t, e, next, end))
<1>1. /\ task[t] \in Tsk /\ Shaped(task[t]) /\ Current(t) \in Switches
      /\ Tail(task[t].todo) \in Seq(Switches)
  BY CurrentIsSwitch DEF TypeInv
<1>2. Entered(t, e, next, end) \in Tsk  BY <1>1 DEF Entered, Tsk
<1>3. Shaped(Entered(t, e, next, end))
  BY <1>1, EnteredFields DEF Shaped, SaveStages, RestoreStages, SwitchStages, Stages
<1>4. QED  BY <1>2, <1>3

\* A step that gives one task a well-formed record keeps the tasks well-formed.
LEMMA TaskStep ==
    ASSUME TypeInv, NEW t \in Tasks, NEW r \in Tsk, Shaped(r),
           task' = [task EXCEPT ![t] = r]
    PROVE  task' \in [Tasks -> Tsk] /\ \A u \in Tasks : Shaped(task'[u])
BY DEF TypeInv, TypeOK, Tsk

\* A task that has not been called has its type.
LEMMA IdleType == Idle \in Tsk /\ Shaped(Idle)
<1>1. << >> \in Seq(Switches)  OBVIOUS
<1>2. QED
  BY <1>1 DEF Idle, Tsk, Shaped, Stages, SaveStages, RestoreStages, SwitchStages, NoEntries

\* The types hold before the first call.
LEMMA SnapshotsInitType == Init => TypeInv
<1>1. SUFFICES ASSUME Init PROVE TypeInv  OBVIOUS
<1>2. task \in [Tasks -> Tsk] /\ \A t \in Tasks : Shaped(task[t])  BY <1>1, IdleType DEF Init
<1>3. QED  BY <1>1, <1>2, SnapshotsAssumption DEF Init, TypeInv, TypeOK, Tsk

\* Beginning a save or a restore keeps the types.
LEMMA BeginType ==
    ASSUME TypeInv, NEW t \in Tasks, NEW n \in Names, NEW list \in Lists, NEW skip \in BOOLEAN,
           NEW op, NEW stage,
           \/ op = "save" /\ stage = "pull"
           \/ op = "restore" /\ stage = "file",
           Begin(t, op, n, list, skip, stage), clean' \in [Names -> BOOLEAN]
    PROVE  TypeInv'
<1> DEFINE r == [op |-> op, name |-> n, list |-> list, todo |-> list, skip |-> skip,
                 stage |-> stage, text |-> None, entry |-> NoEntries,
                 by |-> IF op = "restore" THEN calls + 1 ELSE 0]
<1>1. list \in Seq(Switches) /\ list # << >>  BY SnapshotsConstants
<1>2. calls \in Nat /\ calls' \in 0..MaxCalls
  BY SnapshotsAssumption DEF TypeInv, TypeOK, Begin
<1>3. r \in Tsk  BY <1>1, <1>2 DEF Tsk, Stages, NoEntries
<1>4. Shaped(r)  BY <1>1 DEF Shaped, SaveStages, RestoreStages, SwitchStages
<1>5. task' = [task EXCEPT ![t] = r]  BY DEF Begin
<1>6. task' \in [Tasks -> Tsk] /\ \A u \in Tasks : Shaped(task'[u])
  BY <1>3, <1>4, <1>5, TaskStep
<1>7. QED  BY <1>2, <1>6 DEF Begin, TypeInv, TypeOK, Tsk, switchVars, disk

\* Every step of a save keeps the types and the shape of the tasks.
LEMMA SaveStepType ==
    ASSUME TypeInv, NEW t \in Tasks, SaveStep(t)
    PROVE  TypeInv'
<1>0. task[t] \in Tsk /\ Shaped(task[t])  BY DEF TypeInv, TypeOK, Tsk
<1>1. ASSUME NEW n \in Names, NEW list \in Lists, BeginSave(t, n, list) PROVE TypeInv'
  <2>1. clean' \in [Names -> BOOLEAN]  BY <1>1 DEF BeginSave, TypeInv, TypeOK
  <2>2. QED  BY <1>1, <2>1, BeginType DEF BeginSave
<1>2. CASE Pull(t)
  <2> DEFINE r == [task[t] EXCEPT !.text = startup[Current(t)], !.stage = "open"]
  <2>1. task[t].stage \in SwitchStages  BY <1>2 DEF Pull, At, SwitchStages
  <2>2. startup[Current(t)] \in Configs
    BY <1>2, <2>1, CurrentIsSwitch DEF Pull, TypeInv, TypeOK
  <2>3. r \in Tsk /\ Shaped(r)
    BY <1>0, <1>2, <2>2 DEF Pull, At, Tsk, Shaped, Stages, SaveStages, RestoreStages, SwitchStages
  <2>4. task' = [task EXCEPT ![t] = r]  BY <1>2, <1>0 DEF Pull, TypeInv, TypeOK
  <2>5. task' \in [Tasks -> Tsk] /\ \A u \in Tasks : Shaped(task'[u])  BY <2>3, <2>4, TaskStep
  <2>6. QED  BY <1>2, <2>5 DEF Pull, TypeInv, TypeOK, Tsk, switchVars, disk, bounds, history
<1>3. CASE Open(t)
  <2> DEFINE r == [task[t] EXCEPT !.stage = "write"]
  <2>1. r \in Tsk /\ Shaped(r)
    BY <1>0, <1>3 DEF Open, At, Tsk, Shaped, Stages, SaveStages, RestoreStages, SwitchStages
  <2>2. task' = [task EXCEPT ![t] = r]  BY <1>3, <1>0 DEF Open, TypeInv, TypeOK
  <2>3. task' \in [Tasks -> Tsk] /\ \A u \in Tasks : Shaped(task'[u])  BY <2>1, <2>2, TaskStep
  <2>4. files' \in [Names -> [Switches -> Configs \cup {Torn, Missing}]]
    BY <1>3 DEF Open, TypeInv, TypeOK
  <2>5. QED  BY <1>3, <2>3, <2>4 DEF Open, TypeInv, TypeOK, Tsk, switchVars, disk, bounds, history
<1>4. CASE Write(t)
  <2> DEFINE r == Entered(t, task[t].text, "pull", "metaopen")
  <2>1. /\ task[t].stage \in SwitchStages /\ task[t].op = "save"
        /\ task[t].text \in Configs
    BY <1>0, <1>4 DEF Write, At, Shaped, SwitchStages
  <2>2. r \in Tsk /\ Shaped(r)  BY <2>1, EnteredType DEF Stages
  <2>3. task' = [task EXCEPT ![t] = r]  BY <1>4 DEF Write
  <2>4. task' \in [Tasks -> Tsk] /\ \A u \in Tasks : Shaped(task'[u])  BY <2>2, <2>3, TaskStep
  <2>5. files' \in [Names -> [Switches -> Configs \cup {Torn, Missing}]]
    <3>1. PICK text \in {task[t].text, Torn} :
              files' = [files EXCEPT ![task[t].name][Current(t)] = text]
      BY <1>4 DEF Write
    <3>2. QED  BY <2>1, <3>1 DEF TypeInv, TypeOK
  <2>6. QED
    BY <1>4, <2>4, <2>5 DEF Write, TypeInv, TypeOK, Tsk, switchVars, disk, bounds, history
<1>5. CASE SwitchFails(t)
  <2> DEFINE r == Entered(t, "error", "pull", "metaopen")
  <2>1. task[t].stage \in SwitchStages /\ task[t].op = "save"
    BY <1>5 DEF SwitchFails, SwitchStages
  <2>2. r \in Tsk /\ Shaped(r)  BY <2>1, EnteredType DEF Stages, Statuses
  <2>3. task' = [task EXCEPT ![t] = r]  BY <1>5 DEF SwitchFails
  <2>4. task' \in [Tasks -> Tsk] /\ \A u \in Tasks : Shaped(task'[u])  BY <2>2, <2>3, TaskStep
  <2>5. QED
    BY <1>5, <2>4 DEF SwitchFails, TypeInv, TypeOK, Tsk, switchVars, disk, bounds, history
<1>6. CASE MetaOpen(t)
  <2> DEFINE r == [task[t] EXCEPT !.stage = "metawrite"]
  <2>1. r \in Tsk /\ Shaped(r)
    BY <1>0, <1>6 DEF MetaOpen, At, Tsk, Shaped, Stages, SaveStages, RestoreStages, SwitchStages
  <2>2. task' = [task EXCEPT ![t] = r]  BY <1>6, <1>0 DEF MetaOpen, TypeInv, TypeOK
  <2>3. task' \in [Tasks -> Tsk] /\ \A u \in Tasks : Shaped(task'[u])  BY <2>1, <2>2, TaskStep
  <2>4. meta' \in [Names -> Lists \cup {Torn, Missing}]  BY <1>6 DEF MetaOpen, TypeInv, TypeOK
  <2>5. QED
    BY <1>6, <2>3, <2>4 DEF MetaOpen, TypeInv, TypeOK, Tsk, switchVars, disk, bounds, history
<1>7. CASE MetaWrite(t)
  <2>1. task[t].list \in Lists
    BY <1>0, <1>7 DEF MetaWrite, At, Tsk, Shaped, SaveStages
  <2>2. task' \in [Tasks -> Tsk] /\ \A u \in Tasks : Shaped(task'[u])
    BY <1>7, IdleType, TaskStep DEF MetaWrite
  <2>3. meta' \in [Names -> Lists \cup {Torn, Missing}]
    BY <1>7, <2>1 DEF MetaWrite, TypeInv, TypeOK
  <2>4. last' \in [Names -> [list : Lists, entry : [Switches -> Configs \cup Statuses \cup {None}]]
                        \cup {None}]
    <3>1. [list |-> task[t].list, entry |-> task[t].entry]
            \in [list : Lists, entry : [Switches -> Configs \cup Statuses \cup {None}]]
      BY <1>0, <2>1 DEF Tsk
    <3>2. QED  BY <1>7, <3>1 DEF MetaWrite, TypeInv, TypeOK
  <2>5. QED
    BY <1>7, <2>2, <2>3, <2>4 DEF MetaWrite, TypeInv, TypeOK, Tsk, switchVars, bounds
<1>8. CASE MetaFails(t)
  <2>1. task' \in [Tasks -> Tsk] /\ \A u \in Tasks : Shaped(task'[u])
    BY <1>8, IdleType, TaskStep DEF MetaFails
  <2>2. clean' \in [Names -> BOOLEAN]  BY <1>8 DEF MetaFails, TypeInv, TypeOK
  <2>3. QED
    BY <1>8, <2>1, <2>2 DEF MetaFails, TypeInv, TypeOK, Tsk, switchVars, disk, bounds
<1>9. QED  BY <1>1, <1>2, <1>3, <1>4, <1>5, <1>6, <1>7, <1>8 DEF SaveStep

\* Every step of a restore keeps the types and the shape of the tasks.
LEMMA RestoreStepType ==
    ASSUME TypeInv, NEW t \in Tasks, RestoreStep(t)
    PROVE  TypeInv'
<1>0. task[t] \in Tsk /\ Shaped(task[t])  BY DEF TypeInv, TypeOK, Tsk
<1>1. ASSUME NEW n \in Names, NEW scope \in Lists \cup {<< >>}, NEW skip \in BOOLEAN,
             BeginRestore(t, n, scope, skip)
      PROVE  TypeInv'
  <2>1. meta[n] \in Lists  BY <1>1 DEF BeginRestore, TypeInv, TypeOK
  <2>2. clean' \in [Names -> BOOLEAN]  BY <1>1 DEF BeginRestore, TypeInv, TypeOK
  <2>3. QED  BY <1>1, <2>1, <2>2, BeginType DEF BeginRestore
<1>2. CASE ReadFile(t)
  <2> DEFINE r == [task[t] EXCEPT !.text = files[task[t].name][Current(t)], !.stage = "push"]
  <2>1. task[t].stage \in SwitchStages  BY <1>2 DEF ReadFile, At, SwitchStages
  <2>2. files[task[t].name][Current(t)] \in Configs
    BY <1>2, <2>1, CurrentIsSwitch DEF ReadFile, TypeInv, TypeOK
  <2>3. r \in Tsk /\ Shaped(r)
    BY <1>0, <1>2, <2>2
       DEF ReadFile, At, Tsk, Shaped, Stages, SaveStages, RestoreStages, SwitchStages
  <2>4. task' = [task EXCEPT ![t] = r]  BY <1>2, <1>0 DEF ReadFile, TypeInv, TypeOK
  <2>5. task' \in [Tasks -> Tsk] /\ \A u \in Tasks : Shaped(task'[u])  BY <2>3, <2>4, TaskStep
  <2>6. QED
    BY <1>2, <2>5 DEF ReadFile, TypeInv, TypeOK, Tsk, switchVars, disk, bounds, history
<1>3. CASE ReadFileFails(t)
  <2> DEFINE r == Entered(t, "error", "file", "over")
  <2>1. task[t].stage \in SwitchStages /\ task[t].op = "restore"
    BY <1>3 DEF ReadFileFails, At, SwitchStages
  <2>2. r \in Tsk /\ Shaped(r)  BY <2>1, EnteredType DEF Stages, Statuses
  <2>3. task' = [task EXCEPT ![t] = r]  BY <1>3 DEF ReadFileFails
  <2>4. task' \in [Tasks -> Tsk] /\ \A u \in Tasks : Shaped(task'[u])  BY <2>2, <2>3, TaskStep
  <2>5. QED
    BY <1>3, <2>4 DEF ReadFileFails, TypeInv, TypeOK, Tsk, switchVars, disk, bounds, history
<1>9. CASE PushOpen(t)
  <2> DEFINE r == [task[t] EXCEPT !.stage = "tee"]
  <2>1. r \in Tsk /\ Shaped(r)
    BY <1>0, <1>9
       DEF PushOpen, At, Tsk, Shaped, Stages, SaveStages, RestoreStages, SwitchStages
  <2>2. task' = [task EXCEPT ![t] = r]  BY <1>9, <1>0 DEF PushOpen, TypeInv, TypeOK
  <2>3. task' \in [Tasks -> Tsk] /\ \A u \in Tasks : Shaped(task'[u])  BY <2>1, <2>2, TaskStep
  <2>4. startup' \in [Switches -> Configs \cup {Torn}]  BY <1>9 DEF PushOpen, TypeInv, TypeOK
  <2>5. writer' \in [Switches -> Nat]
    <3>1. task[t].by \in Nat  BY <1>0 DEF Tsk
    <3>2. QED  BY <1>9, <3>1 DEF PushOpen, TypeInv, TypeOK
  <2>6. QED  BY <1>9, <2>3, <2>4, <2>5 DEF PushOpen, TypeInv, TypeOK, Tsk, disk, bounds
<1>4. CASE Push(t)
  <2> DEFINE r == IF task[t].skip THEN Entered(t, "uploaded", "file", "over")
                                  ELSE [task[t] EXCEPT !.stage = "reload"]
  <2>1. /\ task[t].stage \in SwitchStages /\ task[t].op = "restore"
        /\ task[t].text \in Configs
    BY <1>0, <1>4 DEF Push, At, Shaped, SwitchStages
  <2>2. r \in Tsk /\ Shaped(r)
    <3>1. CASE task[t].skip
      <4>1. r = Entered(t, "uploaded", "file", "over")  BY <3>1
      <4>2. QED  BY <4>1, <2>1, EnteredType DEF Stages, Statuses
    <3>2. CASE ~task[t].skip
      <4>1. r = [task[t] EXCEPT !.stage = "reload"]  BY <3>2
      <4>2. QED
        BY <4>1, <1>0, <2>1 DEF Tsk, Shaped, Stages, SaveStages, RestoreStages, SwitchStages
    <3>3. QED  BY <3>1, <3>2
  <2>3. task' = [task EXCEPT ![t] = r]  BY <1>4, <1>0 DEF Push, TypeInv, TypeOK
  <2>4. task' \in [Tasks -> Tsk] /\ \A u \in Tasks : Shaped(task'[u])  BY <2>2, <2>3, TaskStep
  <2>5. startup' \in [Switches -> Configs \cup {Torn}]
    <3>1. PICK text \in {task[t].text, Torn} : startup' = [startup EXCEPT ![Current(t)] = text]
      BY <1>4 DEF Push
    <3>2. QED  BY <2>1, <3>1 DEF TypeInv, TypeOK
  <2>6. QED
    BY <1>4, <2>4, <2>5 DEF Push, TypeInv, TypeOK, Tsk, disk, bounds, history
<1>5. CASE PushFails(t)
  <2> DEFINE r == Entered(t, "error", "file", "over")
  <2>1. /\ task[t].stage \in SwitchStages /\ task[t].op = "restore"
        /\ task[t].text \in Configs
    BY <1>0, <1>5 DEF PushFails, Shaped, SwitchStages
  <2>2. r \in Tsk /\ Shaped(r)  BY <2>1, EnteredType DEF Stages, Statuses
  <2>3. task' = [task EXCEPT ![t] = r]  BY <1>5 DEF PushFails
  <2>4. task' \in [Tasks -> Tsk] /\ \A u \in Tasks : Shaped(task'[u])  BY <2>2, <2>3, TaskStep
  <2>5. startup[Current(t)] \in Configs \cup {Torn}
    BY <2>1, CurrentIsSwitch DEF TypeInv, TypeOK
  <2>6. startup' \in [Switches -> Configs \cup {Torn}]
    <3>1. PICK text \in {startup[Current(t)], task[t].text, Torn} :
              startup' = [startup EXCEPT ![Current(t)] = text]
      BY <1>5 DEF PushFails
    <3>2. QED  BY <2>1, <2>5, <3>1 DEF TypeInv, TypeOK
  <2>7. QED
    BY <1>5, <2>4, <2>6 DEF PushFails, TypeInv, TypeOK, Tsk, disk, bounds, history
<1>6. CASE Reload(t)
  <2>1. PICK e \in {"reloaded", "reload_error"} :
            task' = [task EXCEPT ![t] = Entered(t, e, "file", "over")]
    BY <1>6 DEF Reload
  <2>2. task[t].stage \in SwitchStages /\ task[t].op = "restore"
    BY <1>6 DEF Reload, At, SwitchStages
  <2>3. Entered(t, e, "file", "over") \in Tsk /\ Shaped(Entered(t, e, "file", "over"))
    BY <2>2, EnteredType DEF Stages, Statuses
  <2>4. task' \in [Tasks -> Tsk] /\ \A u \in Tasks : Shaped(task'[u])  BY <2>1, <2>3, TaskStep
  <2>5. Current(t) \in Switches  BY <2>2, CurrentIsSwitch
  <2>6. PICK c \in Configs : running' = [running EXCEPT ![Current(t)] = c]
    BY <1>6, <2>5 DEF Reload, TypeInv, TypeOK
  <2>7. running' \in [Switches -> Configs]  BY <2>6 DEF TypeInv, TypeOK
  <2>8. QED  BY <1>6, <2>4, <2>7 DEF Reload, TypeInv, TypeOK, Tsk, disk, bounds, history
<1>7. CASE Disconnect(t)
  <2> DEFINE r == Entered(t, "reload_disconnected", "file", "over")
  <2>1. task[t].stage \in SwitchStages /\ task[t].op = "restore"
    BY <1>7 DEF Disconnect, At, SwitchStages
  <2>2. r \in Tsk /\ Shaped(r)  BY <2>1, EnteredType DEF Stages, Statuses
  <2>3. task' = [task EXCEPT ![t] = r]  BY <1>7 DEF Disconnect
  <2>4. task' \in [Tasks -> Tsk] /\ \A u \in Tasks : Shaped(task'[u])  BY <2>2, <2>3, TaskStep
  <2>5. Current(t) \in Switches  BY <2>1, CurrentIsSwitch
  <2>6. QED
    BY <1>7, <2>4, <2>5 DEF Disconnect, TypeInv, TypeOK, Tsk, disk, bounds, history
<1>8. QED  BY <1>1, <1>2, <1>3, <1>9, <1>4, <1>5, <1>6, <1>7 DEF RestoreStep

\* So does every other step.
LEMMA SnapshotsNextType ==
    ASSUME TypeInv, [Next]_vars
    PROVE  TypeInv'
<1>1. ASSUME NEW t \in Tasks, SaveStep(t) \/ RestoreStep(t) PROVE TypeInv'
  BY <1>1, SaveStepType, RestoreStepType
<1>2. ASSUME NEW s \in Switches, ReloadEnds(s) PROVE TypeInv'
  <2>1. PICK c \in Configs : running' = [running EXCEPT ![s] = c]
    BY <1>2 DEF ReloadEnds, TypeInv, TypeOK
  <2>3. running' \in [Switches -> Configs] /\ reloading' \subseteq Switches
    BY <1>2, <2>1 DEF ReloadEnds, TypeInv, TypeOK
  <2>2. QED  BY <1>2, <2>3 DEF ReloadEnds, TypeInv, TypeOK, disk, bounds, history
<1>3. ASSUME NEW s \in Switches, NEW c \in Configs, Configure(s, c) PROVE TypeInv'
  <2>1. /\ startup' \in [Switches -> Configs \cup {Torn}]
        /\ running' \in [Switches -> Configs]
        /\ writer' \in [Switches -> Nat]
    BY <1>3 DEF Configure, TypeInv, TypeOK
  <2>2. changes' \in 0..MaxChanges
    BY <1>3, SnapshotsAssumption DEF Configure, TypeInv, TypeOK
  <2>3. QED  BY <1>3, <2>1, <2>2 DEF Configure, TypeInv, TypeOK, disk
<1>4. CASE Crash
  <2>1. task' \in [Tasks -> Tsk] /\ \A u \in Tasks : Shaped(task'[u])
    BY <1>4, IdleType DEF Crash
  <2>2. crashes' \in 0..MaxCrashes
    BY <1>4, SnapshotsAssumption DEF Crash, TypeInv, TypeOK
  <2>3. \A t \in Tasks : At(t, "restore", "reload") => Current(t) \in Switches
    BY CurrentIsSwitch DEF At, SwitchStages
  <2>4. reloading' \subseteq Switches  BY <1>4, <2>3 DEF Crash, TypeInv, TypeOK
  <2>5. clean' \in [Names -> BOOLEAN] /\ startup' \in [Switches -> Configs \cup {Torn}]
    BY <1>4 DEF Crash, TypeInv, TypeOK
  <2>6. QED  BY <1>4, <2>1, <2>2, <2>4, <2>5 DEF Crash, TypeInv, TypeOK, Tsk, disk
<1>5. CASE UNCHANGED vars
  BY <1>5 DEF vars, TypeInv, TypeOK, Shaped, switchVars, disk, bounds, history
<1>6. QED  BY <1>1, <1>2, <1>3, <1>4, <1>5 DEF Next

----------------------------------------------------------------------------
\* ReportsAreTrue for one switch and one task.
Reported(s, t) ==
    task[t].op = "restore" /\ task[t].by = writer[s] /\ ~Again(t, s) =>
        /\ task[t].entry[s] = "reloaded" => running[s] = startup[s]
        /\ startup[s] = Torn => task[t].entry[s] = "error"

ReportsInv == TypeInv /\ WriterInv /\ \A s \in Switches, t \in Tasks : Reported(s, t)

\* A step of a task that is no restore, or is none any more, breaks no report.
LEMMA QuietStep ==
    ASSUME ReportsInv, NEW t \in Tasks,
           task' = [task EXCEPT ![t] = task'[t]], task'[t].op # "restore",
           UNCHANGED <<startup, running, reloading, writer>>,
           calls' \in {calls, calls + 1}
    PROVE  WriterInv' /\ \A s \in Switches, u \in Tasks : Reported(s, u)'
<1>1. \A u \in Tasks : task'[u].op = "restore" => task'[u] = task[u]
  BY DEF ReportsInv, TypeInv, TypeOK
<1>2. calls \in Nat  BY SnapshotsAssumption DEF ReportsInv, TypeInv, TypeOK
<1>3. \A u \in Tasks, s \in Switches :
          /\ TeesTo(u, s)' => TeesTo(u, s) /\ task'[u] = task[u]
          /\ At(u, "restore", "reload")' => At(u, "restore", "reload") /\ task'[u] = task[u]
  BY <1>1 DEF TeesTo, At, Current
<1>4. WriterInv'
  <2>1. /\ \A s \in Switches : (writer[s] \in 0..calls)'
        /\ \A u \in Tasks : (task[u].op = "restore" => task[u].by \in 1..calls)'
    BY <1>1, <1>2 DEF ReportsInv, WriterInv
  <2>2. \A u, v \in Tasks :
            (task[u].op = "restore" /\ task[v].op = "restore" /\ task[u].by = task[v].by => u = v)'
    BY <1>1 DEF ReportsInv, WriterInv
  <2>3. ASSUME NEW s \in Switches, NEW u \in Tasks, TeesTo(u, s)'
        PROVE  /\ (writer[s] \in {0, task[u].by})'
               /\ (writer[s] = task[u].by =>
                      startup[s] = Torn /\ \A v \in Tasks \ {u} : ~TeesTo(v, s))'
    BY <1>3, <2>3 DEF ReportsInv, WriterInv
  <2>4. ASSUME NEW s \in Switches, NEW u \in Tasks, At(u, "restore", "reload")',
               Current(u)' = s, (task[u].by = writer[s])'
        PROVE  startup'[s] # Torn
    BY <1>3, <2>4 DEF ReportsInv, WriterInv, Current
  <2>5. QED  BY <2>1, <2>2, <2>3, <2>4 DEF WriterInv
<1>5. ASSUME NEW s \in Switches, NEW u \in Tasks PROVE Reported(s, u)'
  BY <1>1 DEF ReportsInv, Reported, Again, At, Current
<1>6. QED  BY <1>4, <1>5

\* A save writes to no switch and reports nothing that another call could make untrue.
LEMMA SaveStepReports ==
    ASSUME ReportsInv, NEW t \in Tasks, SaveStep(t)
    PROVE  WriterInv' /\ \A s \in Switches, u \in Tasks : Reported(s, u)'
<1>0. TypeInv /\ task[t] \in Tsk /\ Shaped(task[t])  BY DEF ReportsInv, TypeInv, TypeOK, Tsk
<1>1. task' = [task EXCEPT ![t] = task'[t]] /\ task'[t].op # "restore"
  <2>1. CASE \E n \in Names, list \in Lists : BeginSave(t, n, list)
    BY <1>0, <2>1 DEF BeginSave, Begin, TypeInv, TypeOK
  <2>2. CASE Pull(t)
    BY <1>0, <2>2 DEF Pull, At, Tsk, TypeInv, TypeOK
  <2>3. CASE Open(t)
    BY <1>0, <2>3 DEF Open, At, Tsk, TypeInv, TypeOK
  <2>4. CASE Write(t) \/ SwitchFails(t)
    <3>1. task[t].op = "save" /\ task[t].stage \in SwitchStages
      BY <2>4 DEF Write, SwitchFails, At, SwitchStages
    <3>2. PICK e : task' = [task EXCEPT ![t] = Entered(t, e, "pull", "metaopen")]
      BY <2>4 DEF Write, SwitchFails
    <3>3. QED  BY <1>0, <3>1, <3>2, EnteredFields DEF TypeInv, TypeOK
  <2>5. CASE MetaOpen(t)
    BY <1>0, <2>5 DEF MetaOpen, At, Tsk, TypeInv, TypeOK
  <2>6. CASE MetaWrite(t) \/ MetaFails(t)
    BY <1>0, <2>6 DEF MetaWrite, MetaFails, Idle, TypeInv, TypeOK
  <2>7. QED  BY <2>1, <2>2, <2>3, <2>4, <2>5, <2>6 DEF SaveStep
<1>2. UNCHANGED <<startup, running, reloading, writer>> /\ calls' \in {calls, calls + 1}
  BY DEF SaveStep, BeginSave, Begin, Pull, Open, Write, SwitchFails, MetaOpen, MetaWrite,
         MetaFails, switchVars, bounds, history
<1>3. QED  BY <1>1, <1>2, QuietStep

\* A restore that takes up its next switch, or ends, has reported on this one and on no
\* other, and no other task has changed.
LEMMA RestoreEntered ==
    ASSUME TypeInv, NEW t \in Tasks, task[t].op = "restore", task[t].stage \in SwitchStages,
           NEW e, task' = [task EXCEPT ![t] = Entered(t, e, "file", "over")]
    PROVE  /\ \A u \in Tasks \ {t} : task'[u] = task[u]
           /\ task'[t].op = "restore" /\ task'[t].by = task[t].by
           /\ task'[t].stage \in {"file", "over"}
           /\ task'[t].entry[Current(t)] = e
           /\ \A s \in Switches \ {Current(t)} : task'[t].entry[s] = task[t].entry[s]
           /\ \A s \in Switches : ~Again(t, s)'
<1>1. task'[t] = Entered(t, e, "file", "over")  BY DEF TypeInv, TypeOK
<1>2. \A u \in Tasks \ {t} : task'[u] = task[u]  BY DEF TypeInv, TypeOK
<1>3. /\ task'[t].op = "restore" /\ task'[t].by = task[t].by
      /\ task'[t].stage \in {"file", "over"}
      /\ task'[t].entry[Current(t)] = e
      /\ \A s \in Switches \ {Current(t)} : task'[t].entry[s] = task[t].entry[s]
  BY <1>1, EnteredFields
<1>4. \A s \in Switches : ~Again(t, s)'  BY <1>3 DEF Again, At
<1>5. QED  BY <1>2, <1>3, <1>4

\* A restore that begins has reported nothing yet, and no call has its number.
LEMMA RestoreBeginReports ==
    ASSUME ReportsInv, NEW t \in Tasks, NEW n \in Names, NEW scope \in Lists \cup {<< >>},
           NEW skip \in BOOLEAN, BeginRestore(t, n, scope, skip)
    PROVE  WriterInv' /\ \A s \in Switches, u \in Tasks : Reported(s, u)'
<1>1. TypeInv /\ calls \in Nat /\ calls' = calls + 1
  BY SnapshotsAssumption DEF ReportsInv, TypeInv, TypeOK, BeginRestore, Begin
<1>2. /\ \A u \in Tasks \ {t} : task'[u] = task[u]
      /\ task'[t].op = "restore" /\ task'[t].stage = "file" /\ task'[t].by = calls + 1
      /\ UNCHANGED <<startup, running, reloading, writer>>
  BY <1>1 DEF BeginRestore, Begin, TypeInv, TypeOK, switchVars
<1>3. \A s \in Switches : writer[s] \in 0..calls  BY DEF ReportsInv, WriterInv
<1>4. \A u \in Tasks : task[u].op = "restore" => task[u].by \in 1..calls
  BY DEF ReportsInv, WriterInv
<1>5. WriterInv'
  <2>1. \A s \in Switches : (writer[s] \in 0..calls)'  BY <1>1, <1>2, <1>3
  <2>2. \A u \in Tasks : (task[u].op = "restore" => task[u].by \in 1..calls)'
    BY <1>1, <1>2, <1>4
  <2>3. \A u, v \in Tasks :
            (task[u].op = "restore" /\ task[v].op = "restore" /\ task[u].by = task[v].by => u = v)'
    BY <1>1, <1>2, <1>4 DEF ReportsInv, WriterInv
  <2>4. \A u \in Tasks, s \in Switches :
            /\ TeesTo(u, s)' => u # t /\ TeesTo(u, s)
            /\ At(u, "restore", "reload")' =>
                   u # t /\ At(u, "restore", "reload") /\ task'[u] = task[u]
    BY <1>2 DEF TeesTo, At, Current
  <2>5. ASSUME NEW s \in Switches, NEW u \in Tasks
        PROVE  /\ (TeesTo(u, s) =>
                      /\ writer[s] \in {0, task[u].by}
                      /\ writer[s] = task[u].by =>
                             startup[s] = Torn /\ \A v \in Tasks \ {u} : ~TeesTo(v, s))'
               /\ (At(u, "restore", "reload") /\ Current(u) = s /\ task[u].by = writer[s] =>
                       startup[s] # Torn)'
    BY <1>2, <2>4 DEF ReportsInv, WriterInv, Current
  <2>6. QED  BY <2>1, <2>2, <2>3, <2>5 DEF WriterInv
<1>6. ASSUME NEW s \in Switches, NEW u \in Tasks PROVE Reported(s, u)'
  <2>1. CASE u = t  BY <1>1, <1>2, <1>3, <2>1 DEF Reported
  <2>2. CASE u # t  BY <1>2, <2>2 DEF ReportsInv, Reported, Again, At, Current
  <2>3. QED  BY <2>1, <2>2
<1>7. QED  BY <1>5, <1>6

\* The parts of WriterInv and of the reports that are about one switch.
WrittenAt(s) ==
    /\ \A t \in Tasks :
           TeesTo(t, s) =>
               /\ writer[s] \in {0, task[t].by}
               /\ writer[s] = task[t].by =>
                      startup[s] = Torn /\ \A u \in Tasks \ {t} : ~TeesTo(u, s)
    /\ \A t \in Tasks :
           At(t, "restore", "reload") /\ Current(t) = s /\ task[t].by = writer[s] =>
               startup[s] # Torn

\* A step of a restore at one switch has to be right about that one.
LEMMA StepAtSwitch ==
    ASSUME ReportsInv, NEW t \in Tasks, NEW c \in Switches,
           task[t].op = "restore", task[t].stage \in SwitchStages, Current(t) = c,
           \A u \in Tasks \ {t} : task'[u] = task[u],
           task'[t].op = "restore", task'[t].by = task[t].by,
           \/ task'[t].stage \in {"file", "over", "push"}
           \/ task'[t].stage \in {"tee", "reload"} /\ Current(t)' = c,
           writer'[c] \in {writer[c], 0, task[t].by}, calls' = calls,
           \A s \in Switches \ {c} :
               /\ startup'[s] = startup[s] /\ running'[s] = running[s] /\ writer'[s] = writer[s]
               /\ task'[t].entry[s] = task[t].entry[s],
           WrittenAt(c)', \A u \in Tasks : Reported(c, u)'
    PROVE  WriterInv' /\ \A s \in Switches, u \in Tasks : Reported(s, u)'
<1>1. /\ \A s \in Switches : writer[s] \in 0..calls
      /\ \A u \in Tasks : task[u].op = "restore" => task[u].by \in 1..calls
      /\ \A u, v \in Tasks :
             task[u].op = "restore" /\ task[v].op = "restore" /\ task[u].by = task[v].by => u = v
      /\ \A s \in Switches : WrittenAt(s)
      /\ \A s \in Switches, u \in Tasks : Reported(s, u)
      /\ calls \in Nat
  BY SnapshotsAssumption DEF ReportsInv, WriterInv, WrittenAt, TypeInv, TypeOK
<1>2. ASSUME NEW s \in Switches \ {c}
      PROVE  /\ \A u \in Tasks : TeesTo(u, s)' => u # t /\ TeesTo(u, s)
             /\ \A u \in Tasks : u # t => (TeesTo(u, s)' <=> TeesTo(u, s))
             /\ ~TeesTo(t, s)
             /\ \A u \in Tasks : At(u, "restore", "reload")' /\ Current(u)' = s =>
                    u # t /\ At(u, "restore", "reload") /\ Current(u) = s
             /\ ~Again(t, s) /\ \A u \in Tasks \ {t} : Again(u, s)' <=> Again(u, s)
  BY DEF TeesTo, At, Current, Again
<1>3. ASSUME NEW s \in Switches PROVE WrittenAt(s)'
  <2>1. CASE s = c  BY <2>1
  <2>2. CASE s # c
    <3>1. WrittenAt(s)  BY <1>1
    <3>2. ASSUME NEW u \in Tasks, TeesTo(u, s)'
          PROVE  /\ (writer[s] \in {0, task[u].by})'
                 /\ (writer[s] = task[u].by =>
                         startup[s] = Torn /\ \A v \in Tasks \ {u} : ~TeesTo(v, s))'
      <4>1. u # t /\ TeesTo(u, s) /\ task'[u] = task[u]  BY <1>2, <2>2, <3>2
      <4>2. \A v \in Tasks : TeesTo(v, s)' => TeesTo(v, s)  BY <1>2, <2>2
      <4>3. QED  BY <2>2, <3>1, <4>1, <4>2 DEF WrittenAt
    <3>3. ASSUME NEW u \in Tasks, At(u, "restore", "reload")', Current(u)' = s,
                 (task[u].by = writer[s])'
          PROVE  startup'[s] # Torn
      <4>1. u # t /\ At(u, "restore", "reload") /\ Current(u) = s /\ task'[u] = task[u]
        BY <1>2, <2>2, <3>3
      <4>2. QED  BY <2>2, <3>1, <3>3, <4>1 DEF WrittenAt
    <3>4. QED  BY <3>2, <3>3 DEF WrittenAt
  <2>3. QED  BY <2>1, <2>2
<1>4. WriterInv'
  <2>1. \A s \in Switches : (writer[s] \in 0..calls)'  BY <1>1
  <2>2. \A u \in Tasks : (task[u].op = "restore" => task[u].by \in 1..calls)'  BY <1>1
  <2>3. \A u, v \in Tasks :
            (task[u].op = "restore" /\ task[v].op = "restore" /\ task[u].by = task[v].by => u = v)'
    BY <1>1
  <2>4. QED  BY <1>3, <2>1, <2>2, <2>3 DEF WriterInv, WrittenAt
<1>5. ASSUME NEW s \in Switches, NEW u \in Tasks PROVE Reported(s, u)'
  <2>1. CASE s = c  BY <2>1
  <2>2. CASE s # c /\ u = t
    <3>1. Reported(s, t) /\ ~Again(t, s)  BY <1>1, <1>2, <2>2
    <3>2. task'[t].entry[s] = task[t].entry[s] /\ startup'[s] = startup[s]
          /\ running'[s] = running[s] /\ writer'[s] = writer[s]
      BY <2>2
    <3>3. QED  BY <2>2, <3>1, <3>2 DEF Reported
  <2>3. CASE s # c /\ u # t
    <3>1. task'[u] = task[u] /\ (Again(u, s)' <=> Again(u, s)) /\ Reported(s, u)
      BY <1>1, <1>2, <2>3
    <3>2. QED  BY <2>3, <3>1 DEF Reported
  <2>4. QED  BY <2>1, <2>2, <2>3
<1>6. QED  BY <1>4, <1>5

\* What the number of a call at a switch says of the others there.
LEMMA NumbersDiffer ==
    ASSUME ReportsInv, NEW t \in Tasks, task[t].op = "restore"
    PROVE  /\ calls \in Nat /\ task[t].by \in 1..calls /\ task[t].by # 0
           /\ \A u \in Tasks \ {t} : task[u].op = "restore" =>
                  task[u].by # task[t].by /\ task[u].by # 0
           /\ \A s \in Switches : WrittenAt(s)
           /\ \A s \in Switches, u \in Tasks : Reported(s, u)
BY SnapshotsAssumption DEF ReportsInv, WriterInv, WrittenAt, TypeInv, TypeOK

\* tee opens: the file is empty, and it is this call's if no other tee has it open.
LEMMA PushOpenReports ==
    ASSUME ReportsInv, NEW t \in Tasks, PushOpen(t)
    PROVE  WriterInv' /\ \A s \in Switches, u \in Tasks : Reported(s, u)'
<1>0. PICK c : c = Current(t)  OBVIOUS
<1>1. /\ TypeInv /\ task[t] \in Tsk /\ c \in Switches /\ c = Current(t)
      /\ task[t].op = "restore" /\ task[t].stage = "push" /\ task[t].stage \in SwitchStages
  BY <1>0, CurrentIsSwitch DEF ReportsInv, PushOpen, At, SwitchStages
<1>2. /\ running' = running /\ calls' = calls
      /\ startup'[c] = Torn
      /\ writer'[c] = IF \E u \in Tasks : TeesTo(u, c) THEN 0 ELSE task[t].by
      /\ \A s \in Switches \ {c} : startup'[s] = startup[s] /\ writer'[s] = writer[s]
  BY <1>1 DEF PushOpen, bounds, TypeInv, TypeOK
<1>3. /\ \A u \in Tasks \ {t} : task'[u] = task[u]
      /\ task'[t].op = "restore" /\ task'[t].by = task[t].by /\ task'[t].stage = "tee"
      /\ task'[t].entry = task[t].entry /\ Current(t)' = c
  <2>1. task' = [task EXCEPT ![t] = [task[t] EXCEPT !.stage = "tee"]]  BY DEF PushOpen
  <2>2. task'[t] = [task[t] EXCEPT !.stage = "tee"]  BY <1>1, <2>1 DEF TypeInv, TypeOK
  <2>3. QED  BY <1>1, <2>1, <2>2 DEF Tsk, Current
<1>4. /\ ~TeesTo(t, c)
      /\ \A u \in Tasks \ {t} : TeesTo(u, c)' <=> TeesTo(u, c)
  BY <1>1, <1>3 DEF TeesTo, At, Current
<1>5. /\ task[t].by # 0
      /\ \A u \in Tasks \ {t} : task[u].op = "restore" => task[u].by \notin {task[t].by, 0}
  BY <1>1, NumbersDiffer
<1>6. WrittenAt(c)'
  <2>1. ASSUME NEW u \in Tasks, TeesTo(u, c)'
        PROVE  /\ (writer[c] \in {0, task[u].by})'
               /\ (writer[c] = task[u].by =>
                       startup[c] = Torn /\ \A v \in Tasks \ {u} : ~TeesTo(v, c))'
    <3>1. CASE u = t
      <4>1. writer'[c] \in {0, task[t].by}  BY <1>2
      <4>2. ASSUME writer'[c] = task[t].by PROVE \A v \in Tasks \ {t} : ~TeesTo(v, c)'
        <5>1. ~\E v \in Tasks : TeesTo(v, c)  BY <1>2, <1>5, <4>2
        <5>2. QED  BY <1>4, <5>1
      <4>3. QED  BY <1>2, <1>3, <3>1, <4>1, <4>2
    <3>2. CASE u # t
      <4>1. TeesTo(u, c) /\ task'[u] = task[u]  BY <1>3, <1>4, <2>1, <3>2
      <4>2. task[u].op = "restore"  BY <4>1 DEF TeesTo, At
      <4>3. writer'[c] = 0 /\ task[u].by # 0  BY <1>2, <1>5, <3>2, <4>1, <4>2
      <4>4. QED  BY <4>1, <4>3
    <3>3. QED  BY <3>1, <3>2
  <2>2. ASSUME NEW u \in Tasks, At(u, "restore", "reload")', Current(u)' = c,
               (task[u].by = writer[c])'
        PROVE  FALSE
    <3>1. u # t  BY <1>3, <2>2 DEF At
    <3>2. task'[u] = task[u]  BY <1>3, <3>1
    <3>3. task[u].op = "restore"  BY <2>2, <3>2 DEF At
    <3>4. QED  BY <1>2, <1>5, <2>2, <3>1, <3>2, <3>3
  <2>3. QED  BY <2>1, <2>2 DEF WrittenAt
<1>7. ASSUME NEW u \in Tasks PROVE Reported(c, u)'
  <2>1. CASE u = t  BY <1>3, <2>1 DEF Reported, Again
  <2>2. CASE u # t
    <3>1. task[u].op = "restore" => writer'[c] # task[u].by
      BY <1>2, <1>5, <2>2
    <3>2. QED  BY <1>3, <2>2, <3>1 DEF Reported
  <2>3. QED  BY <2>1, <2>2
<1>8. QED  BY <1>1, <1>2, <1>3, <1>6, <1>7, StepAtSwitch

\* tee ends: where the call was alone its text is whole.
LEMMA PushReports ==
    ASSUME ReportsInv, NEW t \in Tasks, Push(t)
    PROVE  WriterInv' /\ \A s \in Switches, u \in Tasks : Reported(s, u)'
<1>0. PICK c : c = Current(t)  OBVIOUS
<1>1. /\ TypeInv /\ task[t] \in Tsk /\ c \in Switches /\ c = Current(t)
      /\ task[t].op = "restore" /\ task[t].stage \in SwitchStages /\ TeesTo(t, c)
      /\ task[t].text \in Configs
  BY <1>0, CurrentIsSwitch DEF ReportsInv, TypeInv, Shaped, Push, TeesTo, At, SwitchStages
<1>2. /\ writer' = writer /\ running' = running /\ calls' = calls
      /\ \A s \in Switches \ {c} : startup'[s] = startup[s]
  BY <1>1 DEF Push, bounds, history, TypeInv, TypeOK
<1>3. writer[c] = task[t].by => startup'[c] = task[t].text
  <2>1. SUFFICES ASSUME writer[c] = task[t].by PROVE startup'[c] = task[t].text  OBVIOUS
  <2>2. startup[c] = Torn /\ \A u \in Tasks \ {t} : ~TeesTo(u, c)
    BY <1>1, <2>1, NumbersDiffer DEF WrittenAt
  <2>3. startup' = [startup EXCEPT ![c] = task[t].text]  BY <1>1, <2>2 DEF Push
  <2>4. QED  BY <1>1, <2>3 DEF TypeInv, TypeOK
<1>4. /\ \A u \in Tasks \ {t} : task'[u] = task[u]
      /\ task'[t].op = "restore" /\ task'[t].by = task[t].by
      /\ \A s \in Switches \ {c} : task'[t].entry[s] = task[t].entry[s]
      /\ \/ task'[t].stage = "reload" /\ Current(t)' = c
         \/ task'[t].stage \in {"file", "over"} /\ task'[t].entry[c] = "uploaded"
  <2>1. CASE ~task[t].skip
    <3>1. task' = [task EXCEPT ![t] = [task[t] EXCEPT !.stage = "reload"]]  BY <2>1 DEF Push
    <3>2. task'[t] = [task[t] EXCEPT !.stage = "reload"]  BY <1>1, <3>1 DEF TypeInv, TypeOK
    <3>3. QED  BY <1>1, <3>1, <3>2 DEF Tsk, Current
  <2>2. CASE task[t].skip
    <3>1. task' = [task EXCEPT ![t] = Entered(t, "uploaded", "file", "over")]
      BY <2>2 DEF Push
    <3>2. /\ \A u \in Tasks \ {t} : task'[u] = task[u]
          /\ task'[t].op = "restore" /\ task'[t].by = task[t].by
          /\ task'[t].stage \in {"file", "over"} /\ task'[t].entry[Current(t)] = "uploaded"
          /\ \A s \in Switches \ {Current(t)} : task'[t].entry[s] = task[t].entry[s]
      BY <1>1, <3>1, RestoreEntered
    <3>3. QED  BY <1>1, <3>2
  <2>3. QED  BY <2>1, <2>2
<1>5. WrittenAt(c) /\ \A u \in Tasks \ {t} : task[u].op = "restore" => writer[c] # task[u].by
  BY <1>1, NumbersDiffer DEF WrittenAt
<1>6. task[t].text # Torn  BY <1>1, SnapshotsConstants
<1>7. WrittenAt(c)'
  <2>1. ASSUME NEW u \in Tasks, TeesTo(u, c)'
        PROVE  (writer[c] = 0 /\ writer[c] # task[u].by)'
    <3>1. u # t /\ task'[u] = task[u] /\ TeesTo(u, c)  BY <1>4, <2>1 DEF TeesTo, At, Current
    <3>2. task[u].op = "restore"  BY <3>1 DEF TeesTo, At
    <3>3. QED  BY <1>2, <1>5, <3>1, <3>2 DEF WrittenAt
  <2>2. ASSUME NEW u \in Tasks, At(u, "restore", "reload")', Current(u)' = c,
               (task[u].by = writer[c])'
        PROVE  startup'[c] # Torn
    <3>1. CASE u = t  BY <1>2, <1>3, <1>4, <1>6, <2>2, <3>1
    <3>2. CASE u # t  BY <1>2, <1>4, <1>5, <2>2, <3>2 DEF At
    <3>3. QED  BY <3>1, <3>2
  <2>3. QED  BY <2>1, <2>2 DEF WrittenAt
<1>8. ASSUME NEW u \in Tasks PROVE Reported(c, u)'
  <2>1. CASE u = t  BY <1>2, <1>3, <1>4, <1>6, <2>1 DEF Reported, Again
  <2>2. CASE u # t  BY <1>2, <1>4, <1>5, <2>2 DEF Reported
  <2>3. QED  BY <2>1, <2>2
<1>9. QED  BY <1>1, <1>2, <1>4, <1>7, <1>8, StepAtSwitch

\* A push that fails says so.
LEMMA PushFailsReports ==
    ASSUME ReportsInv, NEW t \in Tasks, PushFails(t)
    PROVE  WriterInv' /\ \A s \in Switches, u \in Tasks : Reported(s, u)'
<1>0. PICK c : c = Current(t)  OBVIOUS
<1>1. /\ TypeInv /\ task[t] \in Tsk /\ c \in Switches /\ c = Current(t)
      /\ task[t].op = "restore" /\ task[t].stage \in SwitchStages
      /\ task[t].stage \in {"push", "tee"}
  BY <1>0, CurrentIsSwitch DEF ReportsInv, PushFails, SwitchStages
<1>2. /\ writer' = writer /\ running' = running /\ calls' = calls
      /\ \A s \in Switches \ {c} : startup'[s] = startup[s]
      /\ task[t].stage = "push" => startup'[c] = startup[c]
  BY <1>1 DEF PushFails, bounds, history, TypeInv, TypeOK
<1>3. /\ \A u \in Tasks \ {t} : task'[u] = task[u]
      /\ task'[t].op = "restore" /\ task'[t].by = task[t].by
      /\ task'[t].stage \in {"file", "over"} /\ task'[t].entry[c] = "error"
      /\ \A s \in Switches \ {c} : task'[t].entry[s] = task[t].entry[s]
  BY <1>1, RestoreEntered DEF PushFails
<1>4. \A u \in Tasks : /\ TeesTo(u, c)' => u # t /\ TeesTo(u, c)
                       /\ At(u, "restore", "reload")' =>
                              u # t /\ At(u, "restore", "reload") /\ task'[u] = task[u]
                       /\ u # t => (Again(u, c)' <=> Again(u, c))
  BY <1>3 DEF TeesTo, At, Current, Again
<1>5. WrittenAt(c) /\ \A u \in Tasks : Reported(c, u)  BY <1>1, NumbersDiffer
<1>6. CASE task[t].stage = "push"
  <2>1. WrittenAt(c)'  BY <1>2, <1>3, <1>4, <1>5, <1>6 DEF WrittenAt, Current
  <2>2. ASSUME NEW u \in Tasks PROVE Reported(c, u)'
    <3>1. CASE u = t  BY <1>3, <3>1 DEF Reported
    <3>2. CASE u # t  BY <1>2, <1>3, <1>4, <1>5, <1>6, <3>2 DEF Reported
    <3>3. QED  BY <3>1, <3>2
  <2>3. QED  BY <1>1, <1>2, <1>3, <2>1, <2>2, StepAtSwitch
<1>7. CASE task[t].stage = "tee"
  <2>1. TeesTo(t, c)  BY <1>1, <1>7 DEF TeesTo, At
  <2>2. \A u \in Tasks \ {t} : task[u].op = "restore" => writer[c] # task[u].by
    BY <1>1, <1>5, <2>1, NumbersDiffer DEF WrittenAt
  <2>3. WrittenAt(c)'
    <3>1. ASSUME NEW u \in Tasks, TeesTo(u, c)'
          PROVE  (writer[c] = 0 /\ writer[c] # task[u].by)'
      <4>1. u # t /\ task'[u] = task[u] /\ TeesTo(u, c)  BY <1>3, <1>4, <3>1
      <4>2. task[u].op = "restore"  BY <4>1 DEF TeesTo, At
      <4>3. QED  BY <1>2, <1>5, <2>2, <4>1, <4>2 DEF WrittenAt
    <3>2. ASSUME NEW u \in Tasks, At(u, "restore", "reload")', (task[u].by = writer[c])'
          PROVE  FALSE
      BY <1>2, <1>4, <2>2, <3>2 DEF At
    <3>3. QED  BY <3>1, <3>2 DEF WrittenAt
  <2>4. ASSUME NEW u \in Tasks PROVE Reported(c, u)'
    <3>1. CASE u = t  BY <1>3, <3>1 DEF Reported
    <3>2. CASE u # t  BY <1>2, <1>3, <2>2, <3>2 DEF Reported
    <3>3. QED  BY <3>1, <3>2
  <2>5. QED  BY <1>1, <1>2, <1>3, <2>3, <2>4, StepAtSwitch
<1>8. QED  BY <1>1, <1>6, <1>7

\* A reload that returns or raises, and a file that cannot be read: where "reloaded" is said
\* the switch has loaded what it was given.
LEMMA ReloadReports ==
    ASSUME ReportsInv, NEW t \in Tasks, Reload(t) \/ Disconnect(t) \/ ReadFileFails(t)
    PROVE  WriterInv' /\ \A s \in Switches, u \in Tasks : Reported(s, u)'
<1>0. PICK c : c = Current(t)  OBVIOUS
<1>1. /\ TypeInv /\ task[t] \in Tsk /\ c \in Switches /\ c = Current(t)
      /\ task[t].op = "restore" /\ task[t].stage \in SwitchStages
      /\ task[t].stage \in {"file", "reload"}
  BY <1>0, CurrentIsSwitch DEF ReportsInv, Reload, Disconnect, ReadFileFails, At, SwitchStages
<1>2. /\ UNCHANGED <<startup, writer, calls>>
      /\ \A s \in Switches \ {c} : running'[s] = running[s]
      /\ running'[c] \in {running[c], startup[c]}
  BY <1>1 DEF Reload, Disconnect, ReadFileFails, switchVars, bounds, history, TypeInv, TypeOK
<1>3. PICK e : /\ task' = [task EXCEPT ![t] = Entered(t, e, "file", "over")]
               /\ \/ e = "reloaded" /\ running'[c] = startup[c] /\ task[t].stage = "reload"
                  \/ e \in {"reload_error", "reload_disconnected"} /\ task[t].stage = "reload"
                  \/ e = "error"
  BY <1>1 DEF Reload, Disconnect, ReadFileFails, At, TypeInv, TypeOK
<1>4. /\ \A u \in Tasks \ {t} : task'[u] = task[u]
      /\ task'[t].op = "restore" /\ task'[t].by = task[t].by
      /\ task'[t].stage \in {"file", "over"} /\ task'[t].entry[c] = e
      /\ \A s \in Switches \ {c} : task'[t].entry[s] = task[t].entry[s]
  <2>1. /\ \A u \in Tasks \ {t} : task'[u] = task[u]
        /\ task'[t].op = "restore" /\ task'[t].by = task[t].by
        /\ task'[t].stage \in {"file", "over"} /\ task'[t].entry[Current(t)] = e
        /\ \A s \in Switches \ {Current(t)} : task'[t].entry[s] = task[t].entry[s]
    BY <1>1, <1>3, RestoreEntered
  <2>2. QED  BY <1>1, <2>1
<1>5. \A u \in Tasks : /\ TeesTo(u, c)' => u # t /\ TeesTo(u, c)
                       /\ At(u, "restore", "reload")' =>
                              u # t /\ At(u, "restore", "reload") /\ task'[u] = task[u]
                       /\ u # t => (Again(u, c)' <=> Again(u, c))
  BY <1>4 DEF TeesTo, At, Current, Again
<1>6. WrittenAt(c) /\ \A u \in Tasks : Reported(c, u)  BY <1>1, NumbersDiffer
<1>7. WrittenAt(c)'  BY <1>2, <1>4, <1>5, <1>6 DEF WrittenAt, Current
<1>8. ASSUME NEW u \in Tasks PROVE Reported(c, u)'
  <2>1. CASE u = t
    <3>1. task[t].stage = "reload" /\ task[t].by = writer[c] => startup[c] # Torn
      BY <1>1, <1>6 DEF WrittenAt, At
    <3>2. QED  BY <1>2, <1>3, <1>4, <2>1, <3>1 DEF Reported
  <2>2. CASE u # t  BY <1>2, <1>4, <1>5, <1>6, <2>2 DEF Reported
  <2>3. QED  BY <2>1, <2>2
<1>9. QED  BY <1>1, <1>2, <1>4, <1>7, <1>8, StepAtSwitch

\* Every other step of a restore.
LEMMA RestoreStepReports ==
    ASSUME ReportsInv, NEW t \in Tasks, RestoreStep(t)
    PROVE  WriterInv' /\ \A s \in Switches, u \in Tasks : Reported(s, u)'
<1>1. CASE ReadFile(t)
  <2>0. PICK c : c = Current(t)  OBVIOUS
  <2>1. /\ TypeInv /\ task[t] \in Tsk /\ c \in Switches /\ c = Current(t)
        /\ task[t].op = "restore" /\ task[t].stage \in SwitchStages /\ task[t].stage = "file"
    BY <1>1, <2>0, CurrentIsSwitch DEF ReportsInv, TypeInv, ReadFile, At, SwitchStages
  <2>2. task' = [task EXCEPT ![t] = [task[t] EXCEPT
                    !.text = files[task[t].name][Current(t)], !.stage = "push"]]
    BY <1>1 DEF ReadFile
  <2>3. /\ task'[t].op = "restore" /\ task'[t].by = task[t].by
        /\ task'[t].entry = task[t].entry /\ task'[t].stage = "push"
        /\ \A u \in Tasks \ {t} : task'[u] = task[u]
    BY <2>1, <2>2 DEF Tsk, TypeInv, TypeOK
  <2>4. UNCHANGED <<startup, running, writer, calls>>
    BY <1>1 DEF ReadFile, switchVars, bounds, history
  <2>5. \A u \in Tasks : /\ TeesTo(u, c)' => u # t /\ TeesTo(u, c)
                         /\ At(u, "restore", "reload")' =>
                                u # t /\ At(u, "restore", "reload") /\ task'[u] = task[u]
                         /\ Again(u, c)' <=> Again(u, c)
    BY <2>1, <2>3 DEF TeesTo, At, Current, Again
  <2>6. WrittenAt(c) /\ \A u \in Tasks : Reported(c, u)  BY <2>1, NumbersDiffer
  <2>7. WrittenAt(c)'  BY <2>3, <2>4, <2>5, <2>6 DEF WrittenAt, Current
  <2>8. \A u \in Tasks : Reported(c, u)'  BY <2>1, <2>3, <2>4, <2>5, <2>6 DEF Reported
  <2>9. QED  BY <2>1, <2>3, <2>4, <2>7, <2>8, StepAtSwitch
<1>2. QED
  BY <1>1, RestoreBeginReports, PushOpenReports, PushReports, PushFailsReports, ReloadReports
     DEF RestoreStep

\* Every step keeps the reports true.
LEMMA ReportsNext ==
    ASSUME ReportsInv, [Next]_vars
    PROVE  ReportsInv'
<1>0. TypeInv /\ TypeInv'  BY SnapshotsNextType DEF ReportsInv
<1>1. SUFFICES WriterInv' /\ \A s \in Switches, u \in Tasks : Reported(s, u)'
  BY <1>0 DEF ReportsInv
<1>2. ASSUME NEW t \in Tasks, SaveStep(t) \/ RestoreStep(t)
      PROVE  WriterInv' /\ \A s \in Switches, u \in Tasks : Reported(s, u)'
  BY <1>2, SaveStepReports, RestoreStepReports
<1>3. ASSUME NEW c \in Switches, ReloadEnds(c)
      PROVE  WriterInv' /\ \A s \in Switches, u \in Tasks : Reported(s, u)'
  <2>1. UNCHANGED <<startup, task, writer, calls>>  BY <1>3 DEF ReloadEnds, bounds, history
  <2>2. WriterInv'  BY <2>1 DEF ReportsInv, WriterInv, TeesTo, At, Current
  <2>3. ASSUME NEW s \in Switches, NEW u \in Tasks PROVE Reported(s, u)'
    <3>1. Reported(s, u) /\ (Again(u, s)' <=> Again(u, s))
      BY <2>1 DEF ReportsInv, Again, At, Current
    <3>2. running'[s] \in {running[s], startup[s]}
      BY <1>0, <1>3 DEF ReloadEnds, TypeInv, TypeOK
    <3>3. QED  BY <2>1, <3>1, <3>2 DEF Reported
  <2>4. QED  BY <2>2, <2>3
<1>4. ASSUME NEW c \in Switches, NEW new \in Configs, Configure(c, new)
      PROVE  WriterInv' /\ \A s \in Switches, u \in Tasks : Reported(s, u)'
  <2>1. /\ UNCHANGED <<task, calls, reloading>>
        /\ writer' = [writer EXCEPT ![c] = 0]
        /\ startup' = [startup EXCEPT ![c] = new]
        /\ running' = [running EXCEPT ![c] = new]
    BY <1>4 DEF Configure
  <2>2. calls \in Nat /\ \A u \in Tasks : task[u].op = "restore" => task[u].by \in 1..calls
    BY <1>0, SnapshotsAssumption DEF ReportsInv, WriterInv, TypeInv, TypeOK
  <2>3. /\ writer'[c] = 0
        /\ \A s \in Switches \ {c} : /\ writer'[s] = writer[s] /\ startup'[s] = startup[s]
                                     /\ running'[s] = running[s]
    BY <1>0, <2>1 DEF TypeInv, TypeOK
  <2>4. WriterInv'
    <3>1. \A s \in Switches : (writer[s] \in 0..calls)'
      BY <2>1, <2>2, <2>3 DEF ReportsInv, WriterInv
    <3>2. \A u \in Tasks, s \in Switches :
              /\ TeesTo(u, s)' <=> TeesTo(u, s)
              /\ TeesTo(u, s) \/ At(u, "restore", "reload") => task[u].by # 0
              /\ At(u, "restore", "reload")' <=> At(u, "restore", "reload")
      BY <2>1, <2>2 DEF TeesTo, At, Current
    <3>3. ASSUME NEW s \in Switches, NEW u \in Tasks
          PROVE  /\ (TeesTo(u, s) =>
                        /\ writer[s] \in {0, task[u].by}
                        /\ writer[s] = task[u].by =>
                               startup[s] = Torn /\ \A v \in Tasks \ {u} : ~TeesTo(v, s))'
                 /\ (At(u, "restore", "reload") /\ Current(u) = s /\ task[u].by = writer[s] =>
                         startup[s] # Torn)'
      <4>1. CASE s = c  BY <2>1, <2>3, <3>2, <4>1
      <4>2. CASE s # c  BY <2>1, <2>3, <3>2, <4>2 DEF ReportsInv, WriterInv, Current
      <4>3. QED  BY <4>1, <4>2
    <3>4. QED  BY <2>1, <3>1, <3>3 DEF ReportsInv, WriterInv
  <2>5. ASSUME NEW s \in Switches, NEW u \in Tasks PROVE Reported(s, u)'
    <3>1. Reported(s, u) /\ (Again(u, s)' <=> Again(u, s))
      BY <2>1 DEF ReportsInv, Again, At, Current
    <3>2. CASE s = c  BY <2>1, <2>2, <2>3, <3>2 DEF Reported
    <3>3. CASE s # c  BY <2>1, <2>3, <3>1, <3>3 DEF Reported
    <3>4. QED  BY <3>2, <3>3
  <2>6. QED  BY <2>4, <2>5
<1>5. CASE Crash
  <2>1. \A u \in Tasks : task'[u].op = "idle"  BY <1>5 DEF Crash, Idle
  <2>2. WriterInv'  BY <1>5, <2>1 DEF Crash, ReportsInv, WriterInv, At, TeesTo
  <2>3. QED  BY <2>1, <2>2 DEF Reported
<1>6. CASE UNCHANGED vars
  <2>1. UNCHANGED <<startup, running, reloading, task, writer, calls>>
    BY <1>6 DEF vars, switchVars, bounds, history
  <2>2. WriterInv'  BY <2>1 DEF ReportsInv, WriterInv, TeesTo, At, Current
  <2>3. QED  BY <2>1, <2>2 DEF ReportsInv, Reported, Again, At, Current
<1>7. QED  BY <1>2, <1>3, <1>4, <1>5, <1>6 DEF Next

\* Nothing has been reported before the first call.
LEMMA ReportsInit == Init => ReportsInv
<1>1. SUFFICES ASSUME Init PROVE ReportsInv  OBVIOUS
<1>2. \A t \in Tasks : task[t].op = "idle"  BY <1>1 DEF Init, Idle
<1>3. WriterInv  BY <1>1, <1>2 DEF Init, WriterInv, TeesTo, At
<1>4. QED  BY <1>1, <1>2, <1>3, SnapshotsInitType DEF ReportsInv, Reported

\* Every variable of the snapshots has its type in every reachable state: what a task is
\* going to write is a whole text, and the file or the startup configuration of a switch is
\* a whole text, a torn one or (a file) none.
THEOREM SnapshotsTypeCorrect == Spec => []TypeOK
<1>1. ReportsInv => TypeOK  BY DEF ReportsInv, TypeInv
<1>2. QED  BY <1>1, ReportsInit, ReportsNext, PTL DEF Spec

\* What restore_fabric_snapshot has reported of a switch is true, and a startup configuration
\* is torn only where "error" was said, as long as no other call writes there at the same time
\* or later: with any number of restores and saves at once, operators who configure, pushes
\* and reloads that fail, connections that are lost before or after a command is sent, reloads
\* that end by themselves, and crashes.
THEOREM ReportsStayTrue == Spec => []ReportsAreTrue
<1>1. ReportsInv => ReportsAreTrue  BY DEF ReportsInv, ReportsAreTrue, Reported
<1>2. QED  BY <1>1, ReportsInit, ReportsNext, PTL DEF Spec

----------------------------------------------------------------------------
\* A step that touches no file and no save keeps the files as they should be.
LEMMA FilesQuiet ==
    ASSUME FilesInv, UNCHANGED <<files, meta, last, clean>>,
           \A u \in Tasks, n \in Names : /\ Saves(u, n) <=> Saves(u, n)'
                                         /\ Saves(u, n) => task'[u] = task[u]
    PROVE  FilesInv'
<1>1. SUFFICES ASSUME NEW n \in Names, clean'[n]
               PROVE  /\ \A t, u \in Tasks : Saves(t, n)' /\ Saves(u, n)' => t = u
                      /\ \A t \in Tasks : Saves(t, n)' => OnTheWay(t, n)'
                      /\ (\A t \in Tasks : ~Saves(t, n)') => Kept(n)'
  BY DEF FilesInv
<1>2. clean[n]  BY <1>1
<1>3. \A t, u \in Tasks : Saves(t, n)' /\ Saves(u, n)' => t = u  BY <1>2 DEF FilesInv
<1>4. ASSUME NEW t \in Tasks, Saves(t, n)' PROVE OnTheWay(t, n)'
  <2>1. OnTheWay(t, n) /\ task'[t] = task[t]  BY <1>2, <1>4 DEF FilesInv
  <2>2. QED  BY <2>1 DEF OnTheWay, Current
<1>5. ASSUME \A t \in Tasks : ~Saves(t, n)' PROVE Kept(n)'
  <2>1. Kept(n)  BY <1>2, <1>5 DEF FilesInv
  <2>2. QED  BY <2>1 DEF Kept
<1>6. QED  BY <1>3, <1>4, <1>5

\* A step of a save touches its own name only: it has to be right about that one.
LEMMA FilesOfOne ==
    ASSUME FilesInv, TypeInv, NEW t \in Tasks, NEW m \in Names, Saves(t, m),
           \A u \in Tasks \ {t} : task'[u] = task[u],
           \A n \in Names \ {m} : /\ files'[n] = files[n] /\ meta'[n] = meta[n]
                                  /\ last'[n] = last[n] /\ clean'[n] = clean[n]
                                  /\ ~Saves(t, n)',
           clean'[m] => clean[m],
           clean'[m] => IF Saves(t, m)' THEN OnTheWay(t, m)' ELSE Kept(m)'
    PROVE  FilesInv'
<1>1. SUFFICES ASSUME NEW n \in Names, clean'[n]
               PROVE  /\ \A v, u \in Tasks : Saves(v, n)' /\ Saves(u, n)' => v = u
                      /\ \A u \in Tasks : Saves(u, n)' => OnTheWay(u, n)'
                      /\ (\A u \in Tasks : ~Saves(u, n)') => Kept(n)'
  BY DEF FilesInv
<1>2. clean[n]  BY <1>1
<1>3. \A u \in Tasks \ {t} : Saves(u, n)' <=> Saves(u, n)  BY DEF Saves
<1>4. CASE n = m
  <2>1. \A u \in Tasks \ {t} : ~Saves(u, m)'  BY <1>2, <1>3, <1>4 DEF FilesInv
  <2>2. QED  BY <1>1, <1>4, <2>1
<1>5. CASE n # m
  <2>1. ~Saves(t, n) /\ ~Saves(t, n)'  BY <1>5 DEF Saves
  <2>2. \A v, u \in Tasks : Saves(v, n)' /\ Saves(u, n)' => v = u
    BY <1>2, <1>3, <2>1 DEF FilesInv
  <2>3. ASSUME NEW u \in Tasks, Saves(u, n)' PROVE OnTheWay(u, n)'
    <3>1. u # t /\ OnTheWay(u, n) /\ task'[u] = task[u]
      BY <1>2, <1>3, <2>1, <2>3 DEF FilesInv
    <3>2. QED  BY <1>5, <3>1 DEF OnTheWay, Current
  <2>4. ASSUME \A u \in Tasks : ~Saves(u, n)' PROVE Kept(n)'
    <3>1. Kept(n)  BY <1>2, <1>3, <2>1, <2>4 DEF FilesInv
    <3>2. QED  BY <1>5, <3>1 DEF Kept
  <2>5. QED  BY <2>2, <2>3, <2>4
<1>6. QED  BY <1>4, <1>5

\* A save that begins alone has done no switch yet.
LEMMA FilesBeginSave ==
    ASSUME FilesInv, TypeInv, NEW t \in Tasks, NEW m \in Names, NEW list \in Lists,
           BeginSave(t, m, list)
    PROVE  FilesInv'
<1>1. /\ \A u \in Tasks \ {t} : task'[u] = task[u]
      /\ task'[t].stage = "pull" /\ task'[t].name = m /\ task'[t].op = "save"
      /\ \A s \in Switches : task'[t].entry[s] = None
      /\ \A n \in Names : ~Saves(t, n)
      /\ UNCHANGED <<files, meta, last>>
      /\ clean' = [clean EXCEPT ![m] = \A u \in Tasks : ~Saves(u, m)]
  BY DEF BeginSave, Begin, NoEntries, Saves, TypeInv, TypeOK, disk
<1>2. /\ \A n \in Names \ {m} : clean'[n] = clean[n]
      /\ clean'[m] => \A u \in Tasks : ~Saves(u, m)
  BY <1>1 DEF TypeInv, TypeOK
<1>3. SUFFICES ASSUME NEW n \in Names, clean'[n]
               PROVE  /\ \A v, u \in Tasks : Saves(v, n)' /\ Saves(u, n)' => v = u
                      /\ \A u \in Tasks : Saves(u, n)' => OnTheWay(u, n)'
                      /\ (\A u \in Tasks : ~Saves(u, n)') => Kept(n)'
  BY DEF FilesInv
<1>4. n # m => clean[n]  BY <1>2, <1>3
<1>5. \A u \in Tasks \ {t} : Saves(u, n)' <=> Saves(u, n)  BY <1>1 DEF Saves
<1>6. CASE n = m
  <2>1. \A u \in Tasks \ {t} : ~Saves(u, m)'  BY <1>2, <1>3, <1>5, <1>6
  <2>2. Saves(t, m)'  BY <1>1 DEF Saves
  <2>3. OnTheWay(t, m)'  BY <1>1, SnapshotsConstants DEF OnTheWay
  <2>4. QED  BY <1>6, <2>1, <2>2, <2>3
<1>7. CASE n # m
  <2>1. ~Saves(t, n) /\ ~Saves(t, n)'  BY <1>1, <1>7 DEF Saves
  <2>2. \A v, u \in Tasks : Saves(v, n)' /\ Saves(u, n)' => v = u
    BY <1>4, <1>5, <1>7, <2>1 DEF FilesInv
  <2>3. ASSUME NEW u \in Tasks, Saves(u, n)' PROVE OnTheWay(u, n)'
    <3>1. u # t /\ OnTheWay(u, n) /\ task'[u] = task[u]
      BY <1>1, <1>4, <1>5, <1>7, <2>1, <2>3 DEF FilesInv
    <3>2. QED  BY <1>1, <3>1 DEF OnTheWay, Current
  <2>4. ASSUME \A u \in Tasks : ~Saves(u, n)' PROVE Kept(n)'
    <3>1. Kept(n)  BY <1>4, <1>5, <1>7, <2>1, <2>4 DEF FilesInv
    <3>2. QED  BY <1>1, <3>1 DEF Kept
  <2>5. QED  BY <2>2, <2>3, <2>4
<1>8. QED  BY <1>6, <1>7

\* A save that ends with a switch keeps its name, and has a new entry for this one only.
LEMMA SaveEntered ==
    ASSUME TypeInv, NEW t \in Tasks, task[t].op = "save", task[t].stage \in SwitchStages,
           NEW e, task' = [task EXCEPT ![t] = Entered(t, e, "pull", "metaopen")]
    PROVE  /\ \A u \in Tasks \ {t} : task'[u] = task[u]
           /\ task'[t].op = "save" /\ task'[t].name = task[t].name
           /\ task'[t].stage \in {"pull", "metaopen"}
           /\ task'[t].entry[Current(t)] = e
           /\ \A s \in Switches \ {Current(t)} : task'[t].entry[s] = task[t].entry[s]
<1>1. task'[t] = Entered(t, e, "pull", "metaopen")  BY DEF TypeInv, TypeOK
<1>2. \A u \in Tasks \ {t} : task'[u] = task[u]  BY DEF TypeInv, TypeOK
<1>3. /\ task'[t].op = "save" /\ task'[t].name = task[t].name
      /\ task'[t].stage \in {"pull", "metaopen"}
      /\ task'[t].entry[Current(t)] = e
      /\ \A s \in Switches \ {Current(t)} : task'[t].entry[s] = task[t].entry[s]
  BY <1>1, EnteredFields
<1>4. QED  BY <1>2, <1>3

\* The steps of a save at one switch: pull, open, write, or failure.
LEMMA FilesSwitchSteps ==
    ASSUME FilesInv, TypeInv, NEW t \in Tasks, NEW m, task[t].name = m,
           Pull(t) \/ Open(t) \/ Write(t) \/ SwitchFails(t)
    PROVE  FilesInv'
<1> DEFINE c == Current(t)
<1>1. /\ task[t] \in Tsk /\ Shaped(task[t]) /\ m \in Names /\ c \in Switches
      /\ task[t].op = "save" /\ task[t].stage \in SwitchStages /\ Saves(t, m)
  BY CurrentIsSwitch DEF TypeInv, Pull, Open, Write, SwitchFails, At, SwitchStages, Saves
<1>2. UNCHANGED <<meta, last, clean>>
  BY DEF Pull, Open, Write, SwitchFails, disk, history
<1>3. CASE Pull(t)
  <2>1. task' = [task EXCEPT ![t] = [task[t] EXCEPT !.text = startup[c], !.stage = "open"]]
    BY <1>3 DEF Pull
  <2>2. /\ task'[t].op = "save" /\ task'[t].name = m /\ task'[t].stage = "open"
        /\ task'[t].entry = task[t].entry
        /\ \A u \in Tasks \ {t} : task'[u] = task[u]
    BY <1>1, <2>1 DEF Tsk, TypeInv, TypeOK
  <2>3. task[t].stage = "pull" /\ files' = files  BY <1>3 DEF Pull, At, disk
  <2>4. Saves(t, m)' /\ \A n \in Names \ {m} : ~Saves(t, n)'  BY <2>2 DEF Saves
  <2>5. clean[m] => OnTheWay(t, m)  BY <1>1 DEF FilesInv
  <2>6. clean'[m] => OnTheWay(t, m)'  BY <1>2, <2>2, <2>3, <2>5 DEF OnTheWay
  <2>7. QED  BY <1>1, <1>2, <2>2, <2>3, <2>4, <2>6, FilesOfOne
<1>4. CASE Open(t)
  <2>1. task' = [task EXCEPT ![t] = [task[t] EXCEPT !.stage = "write"]]
    BY <1>4 DEF Open
  <2>2. /\ task'[t].op = "save" /\ task'[t].name = m /\ task'[t].stage = "write"
        /\ task'[t].entry = task[t].entry /\ task'[t].todo = task[t].todo
        /\ \A u \in Tasks \ {t} : task'[u] = task[u]
    BY <1>1, <2>1 DEF Tsk, TypeInv, TypeOK
  <2>3. task[t].stage = "open" /\ files' = [files EXCEPT ![m][c] = Torn]
    BY <1>4 DEF Open, At
  <2>4. /\ files'[m][c] = Torn /\ \A s \in Switches \ {c} : files'[m][s] = files[m][s]
        /\ \A n \in Names \ {m} : files'[n] = files[n]
    BY <1>1, <2>3 DEF TypeInv, TypeOK
  <2>5. Saves(t, m)' /\ \A n \in Names \ {m} : ~Saves(t, n)'  BY <2>2 DEF Saves
  <2>6. clean[m] => OnTheWay(t, m)  BY <1>1 DEF FilesInv
  <2>7. clean'[m] => OnTheWay(t, m)'
    BY <1>2, <2>2, <2>3, <2>4, <2>6 DEF OnTheWay, Current
  <2>8. QED  BY <1>1, <1>2, <2>2, <2>4, <2>5, <2>7, FilesOfOne
<1>5. CASE Write(t)
  <2>1. task' = [task EXCEPT ![t] = Entered(t, task[t].text, "pull", "metaopen")]
    BY <1>5 DEF Write
  <2>2. /\ \A u \in Tasks \ {t} : task'[u] = task[u]
        /\ Saves(t, m)' /\ \A n \in Names \ {m} : ~Saves(t, n)'
        /\ task'[t].stage \in {"pull", "metaopen"}
        /\ task'[t].entry[c] = task[t].text
        /\ \A s \in Switches \ {c} : task'[t].entry[s] = task[t].entry[s]
    BY <1>1, <2>1, SaveEntered DEF Saves
  <2>3. PICK text \in {task[t].text} \cup (IF Meets(t, "write", files[m][c]) THEN {Torn} ELSE {}) :
            files' = [files EXCEPT ![m][c] = text]
    BY <1>5 DEF Write
  <2>4. /\ files'[m][c] = text /\ \A s \in Switches \ {c} : files'[m][s] = files[m][s]
        /\ \A n \in Names \ {m} : files'[n] = files[n]
    BY <1>1, <2>3 DEF TypeInv, TypeOK
  <2>5. ASSUME clean[m] PROVE text = task[t].text
    <3>1. files[m][c] = Torn  BY <1>1, <1>5, <2>5 DEF FilesInv, OnTheWay, Write, At
    <3>2. \A u \in Tasks \ {t} : ~Saves(u, m)  BY <1>1, <2>5 DEF FilesInv
    <3>3. ~Meets(t, "write", files[m][c])  BY <3>1, <3>2 DEF Meets, At, Saves
    <3>4. QED  BY <2>3, <3>3
  <2>6. clean[m] => OnTheWay(t, m)  BY <1>1 DEF FilesInv
  <2>7. clean'[m] => OnTheWay(t, m)'
    BY <1>2, <2>2, <2>4, <2>5, <2>6 DEF OnTheWay
  <2>8. QED  BY <1>1, <1>2, <2>2, <2>4, <2>7, FilesOfOne
<1>6. CASE SwitchFails(t)
  <2>1. task' = [task EXCEPT ![t] = Entered(t, "error", "pull", "metaopen")] /\ files' = files
    BY <1>6 DEF SwitchFails, disk
  <2>2. /\ \A u \in Tasks \ {t} : task'[u] = task[u]
        /\ Saves(t, m)' /\ \A n \in Names \ {m} : ~Saves(t, n)'
        /\ task'[t].stage \in {"pull", "metaopen"}
        /\ task'[t].entry[c] = "error"
        /\ \A s \in Switches \ {c} : task'[t].entry[s] = task[t].entry[s]
    BY <1>1, <2>1, SaveEntered DEF Saves
  <2>3. "error" \notin Configs  BY SnapshotsConstants DEF Statuses
  <2>4. clean[m] => OnTheWay(t, m)  BY <1>1 DEF FilesInv
  <2>5. clean'[m] => OnTheWay(t, m)'
    BY <1>2, <2>1, <2>2, <2>3, <2>4 DEF OnTheWay
  <2>6. QED  BY <1>1, <1>2, <2>1, <2>2, <2>5, FilesOfOne
<1>7. QED  BY <1>3, <1>4, <1>5, <1>6

\* The steps of a save at its metadata, the last of which ends it.
LEMMA FilesMetaSteps ==
    ASSUME FilesInv, TypeInv, NEW t \in Tasks, NEW m, task[t].name = m,
           MetaOpen(t) \/ MetaWrite(t) \/ MetaFails(t)
    PROVE  FilesInv'
<1>1. /\ task[t] \in Tsk /\ Shaped(task[t]) /\ m \in Names
      /\ task[t].op = "save" /\ Saves(t, m)
      /\ task[t].stage \in {"metaopen", "metawrite"}
  BY DEF TypeInv, TypeOK, Tsk, Shaped, MetaOpen, MetaWrite, MetaFails, At, Saves
<1>2. files' = files  BY DEF MetaOpen, MetaWrite, MetaFails, disk
<1>3. clean[m] => OnTheWay(t, m)  BY <1>1 DEF FilesInv
<1>4. CASE MetaOpen(t)
  <2>1. task' = [task EXCEPT ![t] = [task[t] EXCEPT !.stage = "metawrite"]]
    BY <1>4 DEF MetaOpen
  <2>2. /\ task'[t].op = "save" /\ task'[t].name = m /\ task'[t].stage = "metawrite"
        /\ task'[t].entry = task[t].entry
        /\ \A u \in Tasks \ {t} : task'[u] = task[u]
    BY <1>1, <2>1 DEF Tsk, TypeInv, TypeOK
  <2>3. UNCHANGED <<last, clean>> /\ meta' = [meta EXCEPT ![m] = Torn]
    BY <1>4 DEF MetaOpen, history
  <2>4. meta'[m] = Torn /\ \A n \in Names \ {m} : meta'[n] = meta[n]
    BY <1>1, <2>3 DEF TypeInv, TypeOK
  <2>5. Saves(t, m)' /\ \A n \in Names \ {m} : ~Saves(t, n)'  BY <2>2 DEF Saves
  <2>6. clean'[m] => OnTheWay(t, m)'
    BY <1>1, <1>2, <1>3, <2>2, <2>3, <2>4 DEF OnTheWay
  <2>7. QED  BY <1>1, <1>2, <2>2, <2>3, <2>4, <2>5, <2>6, FilesOfOne
<1>5. CASE MetaWrite(t)
  <2>1. /\ \A u \in Tasks \ {t} : task'[u] = task[u]
        /\ \A n \in Names : ~Saves(t, n)'
    BY <1>5 DEF MetaWrite, Idle, Saves, TypeInv, TypeOK
  <2>2. PICK text \in {task[t].list} \cup (IF Meets(t, "metawrite", meta[m]) THEN {Torn} ELSE {}) :
            meta' = [meta EXCEPT ![m] = text]
    BY <1>5 DEF MetaWrite
  <2>3. /\ last' = [last EXCEPT ![m] = [list |-> task[t].list, entry |-> task[t].entry]]
        /\ clean' = clean
    BY <1>5 DEF MetaWrite
  <2>4. /\ meta'[m] = text
        /\ last'[m] = [list |-> task[t].list, entry |-> task[t].entry]
        /\ \A n \in Names \ {m} : meta'[n] = meta[n] /\ last'[n] = last[n]
    BY <1>1, <2>2, <2>3 DEF TypeInv, TypeOK
  <2>5. ASSUME clean[m] PROVE text = task[t].list
    <3>1. meta[m] = Torn  BY <1>3, <1>5, <2>5 DEF OnTheWay, MetaWrite, At
    <3>2. \A u \in Tasks \ {t} : ~Saves(u, m)  BY <1>1, <2>5 DEF FilesInv
    <3>3. ~Meets(t, "metawrite", meta[m])  BY <3>1, <3>2 DEF Meets, At, Saves
    <3>4. QED  BY <2>2, <3>3
  <2>6. task[t].stage # "write"  BY <1>1
  <2>7. clean'[m] => Kept(m)'
    BY <1>2, <1>3, <2>3, <2>4, <2>5, <2>6 DEF OnTheWay, Kept
  <2>8. QED  BY <1>1, <1>2, <2>1, <2>3, <2>4, <2>7, FilesOfOne
<1>6. CASE MetaFails(t)
  <2>1. /\ \A u \in Tasks \ {t} : task'[u] = task[u]
        /\ \A n \in Names : ~Saves(t, n)'
    BY <1>6 DEF MetaFails, Idle, Saves, TypeInv, TypeOK
  <2>2. /\ ~clean'[m] /\ \A n \in Names \ {m} : clean'[n] = clean[n]
        /\ UNCHANGED <<meta, last>>
    BY <1>1, <1>6 DEF MetaFails, TypeInv, TypeOK, disk
  <2>3. QED  BY <1>1, <1>2, <2>1, <2>2, FilesOfOne
<1>7. QED  BY <1>4, <1>5, <1>6

FilesNameInv == TypeInv /\ FilesInv

\* Every step keeps the invariant of the files.
LEMMA FilesNext ==
    ASSUME FilesNameInv, [Next]_vars
    PROVE  FilesNameInv'
<1>0. TypeInv /\ FilesInv /\ TypeInv'  BY SnapshotsNextType DEF FilesNameInv
<1>1. SUFFICES FilesInv'  BY <1>0 DEF FilesNameInv
<1>2. ASSUME NEW t \in Tasks, SaveStep(t) PROVE FilesInv'
  <2>1. PICK m : task[t].name = m  OBVIOUS
  <2>2. QED  BY <1>0, <1>2, <2>1, FilesBeginSave, FilesSwitchSteps, FilesMetaSteps DEF SaveStep
<1>3. ASSUME NEW t \in Tasks, RestoreStep(t) PROVE FilesInv'
  <2>1. UNCHANGED <<files, meta, last, clean>>
    BY <1>3 DEF RestoreStep, BeginRestore, Begin, ReadFile, ReadFileFails, PushOpen, Push, PushFails,
                Reload, Disconnect, disk, history
  <2>2. \A u \in Tasks \ {t} : task'[u] = task[u]
    BY <1>0, <1>3 DEF RestoreStep, BeginRestore, Begin, ReadFile, ReadFileFails, PushOpen, Push, PushFails,
                Reload, Disconnect, TypeInv, TypeOK
  <2>3. task[t].op # "save" \/ task[t].stage = "over"
    BY <1>3 DEF RestoreStep, BeginRestore, Begin, ReadFile, ReadFileFails, PushOpen, Push, PushFails,
                Reload, Disconnect, At
  <2>4. task'[t].op = "restore"
    <3>1. task[t] \in Tsk  BY <1>0 DEF TypeInv, TypeOK, Tsk
    <3>2. CASE \E n \in Names, scope \in Lists \cup {<< >>}, skip \in BOOLEAN :
                   BeginRestore(t, n, scope, skip)
      BY <1>0, <3>2 DEF BeginRestore, Begin, TypeInv, TypeOK
    <3>3. CASE ReadFile(t)
      <4>1. task' = [task EXCEPT ![t] = [task[t] EXCEPT
                        !.text = files[task[t].name][Current(t)], !.stage = "push"]]
        BY <3>3 DEF ReadFile
      <4>2. QED  BY <1>0, <3>1, <3>3, <4>1 DEF ReadFile, At, Tsk, TypeInv, TypeOK
    <3>4. CASE Push(t) /\ ~task[t].skip
      <4>1. task' = [task EXCEPT ![t] = [task[t] EXCEPT !.stage = "reload"]]
        BY <3>4 DEF Push
      <4>2. QED  BY <1>0, <3>1, <3>4, <4>1 DEF Push, At, Tsk, TypeInv, TypeOK
    <3>7. CASE PushOpen(t)
      <4>1. task' = [task EXCEPT ![t] = [task[t] EXCEPT !.stage = "tee"]]  BY <3>7 DEF PushOpen
      <4>2. QED  BY <1>0, <3>1, <3>7, <4>1 DEF PushOpen, At, Tsk, TypeInv, TypeOK
    <3>5. CASE \/ ReadFileFails(t)
               \/ Push(t) /\ task[t].skip
               \/ PushFails(t)
               \/ Reload(t)
               \/ Disconnect(t)
      <4>1. task[t].op = "restore" /\ task[t].stage \in SwitchStages
        BY <3>5 DEF ReadFileFails, Push, PushFails, Reload, Disconnect, At, SwitchStages
      <4>2. PICK e : task' = [task EXCEPT ![t] = Entered(t, e, "file", "over")]
        BY <3>5 DEF ReadFileFails, Push, PushFails, Reload, Disconnect
      <4>3. QED  BY <1>0, <4>1, <4>2, RestoreEntered
    <3>6. QED  BY <1>3, <3>2, <3>3, <3>4, <3>7, <3>5 DEF RestoreStep
  <2>5. \A u \in Tasks, n \in Names : /\ Saves(u, n) <=> Saves(u, n)'
                                      /\ Saves(u, n) => task'[u] = task[u]
    BY <2>2, <2>3, <2>4 DEF Saves
  <2>6. QED  BY <1>0, <2>1, <2>5, FilesQuiet
<1>4. CASE \E s \in Switches : ReloadEnds(s) \/ \E c \in Configs : Configure(s, c)
  <2>1. UNCHANGED <<files, meta, last, clean, task>>
    BY <1>4 DEF ReloadEnds, Configure, disk, history
  <2>2. QED  BY <1>0, <2>1, FilesQuiet DEF Saves
<1>5. CASE Crash
  <2>1. \A u \in Tasks, n \in Names : ~Saves(u, n)'  BY <1>5 DEF Crash, Idle, Saves
  <2>2. UNCHANGED <<files, meta, last>>  BY <1>5 DEF Crash, disk
  <2>3. \A n \in Names : clean'[n] => clean[n] /\ \A u \in Tasks : ~Saves(u, n)
    BY <1>5 DEF Crash
  <2>4. \A n \in Names : clean'[n] => Kept(n)  BY <1>0, <2>3 DEF FilesInv
  <2>5. \A n \in Names : clean'[n] => Kept(n)'  BY <2>2, <2>4 DEF Kept
  <2>6. QED  BY <2>1, <2>5 DEF FilesInv
<1>6. CASE UNCHANGED vars
  <2>1. UNCHANGED <<files, meta, last, clean, task>>  BY <1>6 DEF vars, disk, history
  <2>2. QED  BY <1>0, <2>1, FilesQuiet DEF Saves
<1>7. QED  BY <1>2, <1>3, <1>4, <1>5, <1>6 DEF Next

\* No name has been saved before the first call.
LEMMA FilesInit == Init => FilesNameInv
<1>1. SUFFICES ASSUME Init PROVE FilesInv  BY SnapshotsInitType DEF FilesNameInv
<1>2. /\ \A t \in Tasks, n \in Names : ~Saves(t, n)
      /\ \A n \in Names : last[n] = None
  BY <1>1 DEF Init, Idle, Saves
<1>3. \A n \in Names : Kept(n)  BY <1>2 DEF Kept
<1>4. QED  BY <1>2, <1>3 DEF FilesInv

\* A snapshot is the one that was saved last: if the save of its name that began last met no
\* other and did not raise or die, the metadata and the file of every switch that it reported
\* "ok" are its own, whatever saves before it left, and whatever other saves of other names,
\* restores and crashes there were.
THEOREM FilesStayTheLastSave == Spec => []FilesAreTheLastSave
<1>1. FilesNameInv => FilesAreTheLastSave
  <2>1. SUFFICES ASSUME FilesNameInv, NEW n \in Names, clean[n], last[n] # None,
                        \A t \in Tasks : ~Saves(t, n),
                        NEW i \in DOMAIN last[n].list, last[n].entry[last[n].list[i]] \in Configs
                 PROVE  /\ meta[n] = last[n].list
                        /\ files[n][last[n].list[i]] = last[n].entry[last[n].list[i]]
    <3>1. SUFFICES ASSUME FilesNameInv, NEW n \in Names, clean[n], last[n] # None,
                          \A t \in Tasks : ~Saves(t, n)
                   PROVE  meta[n] = last[n].list
      BY DEF FilesAreTheLastSave
    <3>2. QED  BY <3>1 DEF FilesNameInv, FilesInv, Kept
  <2>2. last[n].list \in Lists  BY <2>1 DEF FilesNameInv, TypeInv, TypeOK
  <2>3. last[n].list[i] \in Switches  BY <2>1, <2>2, SnapshotsConstants
  <2>4. QED  BY <2>1, <2>3 DEF FilesNameInv, FilesInv, Kept
<1>2. QED  BY <1>1, FilesInit, FilesNext, PTL DEF Spec

----------------------------------------------------------------------------
\* A field that one side has and the other has not, or has with another value, makes the
\* two differ, and nothing else does.
LEMMA FieldsDiffer ==
    ASSUME NEW left, NEW right,
           left = [f \in DOMAIN left |-> left[f]], right = [f \in DOMAIN right |-> right[f]],
           \A f \in DOMAIN left : left[f] # None, \A f \in DOMAIN right : right[f] # None
    PROVE  (\E f \in DOMAIN left \cup DOMAIN right : D!Get(left, f) # D!Get(right, f))
               <=> left # right
<1>1. ASSUME \A f \in DOMAIN left \cup DOMAIN right : D!Get(left, f) = D!Get(right, f)
      PROVE  left = right
  <2>1. DOMAIN left = DOMAIN right  BY <1>1 DEF D!Get
  <2>2. \A f \in DOMAIN left : left[f] = right[f]  BY <1>1, <2>1 DEF D!Get
  <2>3. QED  BY <2>1, <2>2
<1>2. QED  BY <1>1

\* A configuration is made of fields and values.
Fields(x) == x = [f \in DOMAIN x |-> x[f]] /\ \A f \in DOMAIN x : x[f] # None

\* The comparison of two sides names a key that only one of them has, or that both have with
\* different fields, and no other.
LEMMA NamedKeys ==
    ASSUME NEW left, NEW right, NEW k,
           k \in DOMAIN left \cap DOMAIN right => Fields(left[k]) /\ Fields(right[k])
    PROVE  k \in D!Named(D!DiffOne(left, right)) <=>
               \/ k \in DOMAIN left /\ k \notin DOMAIN right
               \/ k \in DOMAIN right /\ k \notin DOMAIN left
               \/ k \in DOMAIN left \cap DOMAIN right /\ left[k] # right[k]
<1>1. CASE k \in DOMAIN left \cap DOMAIN right
  <2>1. (\E f \in DOMAIN left[k] \cup DOMAIN right[k] :
             D!Get(left[k], f) # D!Get(right[k], f)) <=> left[k] # right[k]
    BY <1>1, FieldsDiffer DEF Fields
  <2>2. QED  BY <1>1, <2>1 DEF D!Named, D!DiffOne
<1>2. CASE k \notin DOMAIN left \cap DOMAIN right  BY <1>2 DEF D!Named, D!DiffOne
<1>3. QED  BY <1>1, <1>2

\* The keys of configurations have tables, and their fields have values.
LEMMA ContentFields ==
    ASSUME NEW c \in DOMAIN Content
    PROVE  /\ DOMAIN Content[c] \subseteq DOMAIN Table
           /\ \A k \in DOMAIN Content[c] : Fields(Content[c][k])
BY ContentAssumption DEF Fields

\* The comparison of two files is exact for every two configurations and all sets of tables.
LEMMA CompareIsExact ==
    ASSUME NEW a \in DOMAIN Content, NEW b \in DOMAIN Content, NEW tables
    PROVE  D!Named(Compare(a, b, tables)) = Differ(a, b, tables)
<1> DEFINE A == D!Extract(Content[a], tables)
           B == D!Extract(Content[b], tables)
<1>1. /\ DOMAIN A = {k \in DOMAIN Content[a] : Table[k] \in tables}
      /\ DOMAIN B = {k \in DOMAIN Content[b] : Table[k] \in tables}
      /\ \A k \in DOMAIN A : A[k] = Content[a][k]
      /\ \A k \in DOMAIN B : B[k] = Content[b][k]
  BY DEF D!Extract
<1>2. \A k \in DOMAIN A \cap DOMAIN B : Fields(A[k]) /\ Fields(B[k])  BY <1>1, ContentFields
<1> HIDE DEF A, B
<1>3. \A k : k \in D!Named(D!DiffOne(A, B)) <=>
                 \/ k \in DOMAIN A /\ k \notin DOMAIN B
                 \/ k \in DOMAIN B /\ k \notin DOMAIN A
                 \/ k \in DOMAIN A \cap DOMAIN B /\ A[k] # B[k]
  BY <1>2, NamedKeys
<1>4. \A k : k \in D!Named(D!DiffOne(A, B)) <=> k \in Differ(a, b, tables)
  BY <1>1, <1>3 DEF Differ
<1>5. D!Named(D!DiffOne(A, B)) \subseteq DOMAIN A \cup DOMAIN B  BY DEF D!Named, D!DiffOne
<1>6. D!Named(D!DiffOne(A, B)) = Differ(a, b, tables)  BY <1>4
<1>7. QED  BY <1>6 DEF Compare, A, B

\* Outside the keys that could not be read or parsed on a side, a live comparison names what
\* differs.
LEMMA CompareLiveIsExact ==
    ASSUME NEW a \in DOMAIN Content, NEW b \in DOMAIN Content, NEW tables,
           NEW failed, NEW garbled
    PROVE  D!Named(CompareLive(a, b, tables, failed, garbled)) \ Unread(failed, garbled) =
               Differ(a, b, tables) \ Unread(failed, garbled)
<1> DEFINE A == D!Dump(Content[a], tables, failed.left, garbled.left)
           B == D!Dump(Content[b], tables, failed.right, garbled.right)
<1>1. /\ \A k \in DOMAIN A : k \in DOMAIN Content[a]
      /\ \A k \in DOMAIN B : k \in DOMAIN Content[b]
  BY DEF D!Dump
<1>2. ASSUME NEW k, k \notin Unread(failed, garbled), k \in DOMAIN Table
      PROVE  /\ k \in DOMAIN A <=> k \in DOMAIN Content[a] /\ Table[k] \in tables
             /\ k \in DOMAIN B <=> k \in DOMAIN Content[b] /\ Table[k] \in tables
             /\ k \in DOMAIN A => A[k] = Content[a][k]
             /\ k \in DOMAIN B => B[k] = Content[b][k]
  BY <1>2 DEF D!Dump, Unread, Sides
<1> HIDE DEF A, B
<1>3. ASSUME NEW k, k \notin Unread(failed, garbled)
      PROVE  k \in D!Named(D!DiffOne(A, B)) <=> k \in Differ(a, b, tables)
  <2>1. CASE k \in DOMAIN Table
    <3>1. k \in DOMAIN A \cap DOMAIN B => Fields(A[k]) /\ Fields(B[k])
      BY <1>1, <1>2, <1>3, <2>1, ContentFields
    <3>2. k \in D!Named(D!DiffOne(A, B)) <=>
              \/ k \in DOMAIN A /\ k \notin DOMAIN B
              \/ k \in DOMAIN B /\ k \notin DOMAIN A
              \/ k \in DOMAIN A \cap DOMAIN B /\ A[k] # B[k]
      BY <3>1, NamedKeys
    <3>3. QED  BY <1>2, <1>3, <2>1, <3>2 DEF Differ
  <2>2. CASE k \notin DOMAIN Table
    BY <1>1, <2>2, ContentFields DEF Differ, D!Named, D!DiffOne
  <2>3. QED  BY <2>1, <2>2
<1>4. QED  BY <1>3 DEF CompareLive, A, B

\* So both comparisons are exact for any two configurations.
LEMMA ExactEverywhere ==
    ASSUME NEW a \in DOMAIN Content, NEW b \in DOMAIN Content
    PROVE  Exact[a][b]
<1>1. ASSUME NEW tables \in Compared PROVE ExactOn(a, b, tables)
  BY CompareIsExact, CompareLiveIsExact DEF ExactOn
<1>2. QED  BY <1>1 DEF Exact

\* Whatever has been saved, restored and configured, a comparison of two snapshots or of two
\* running switches names exactly the keys on which they differ, as far as it could read
\* them.
THEOREM ComparisonsAreTrue == Spec => []CompareIsTrue
<1>1. ReportsInv => CompareIsTrue
  <2>1. Configs \subseteq DOMAIN Content  BY SnapshotsAssumption
  <2>2. SUFFICES ASSUME ReportsInv
                 PROVE  /\ \A l, r \in Names, s \in Switches :
                               l # r /\ {files[l][s], files[r][s]} \subseteq Configs =>
                                   Exact[files[l][s]][files[r][s]]
                        /\ \A l, r \in Switches : l # r => Exact[running[l]][running[r]]
    BY DEF CompareIsTrue
  <2>3. \A l \in Switches : running[l] \in Configs  BY <2>2 DEF ReportsInv, TypeInv, TypeOK
  <2>4. \A a, b \in Configs : Exact[a][b]  BY <2>1, ExactEverywhere
  <2>5. QED  BY <2>3, <2>4
<1>2. QED  BY <1>1, ReportsInit, ReportsNext, PTL DEF Spec

=============================================================================
