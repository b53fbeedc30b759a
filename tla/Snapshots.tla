------------------------------ MODULE Snapshots ------------------------------
(***************************************************************************)
(* save_fabric_snapshot, restore_fabric_snapshot and the two comparisons.  *)
(* A snapshot is a directory with a file for every switch and a metadata   *)
(* file that names the switches.  Saving goes switch by switch: the        *)
(* startup configuration is read and written to its file, the metadata     *)
(* comes last.  Restoring goes switch by switch too: the file is read and  *)
(* checked, written over the startup configuration and loaded.  Nothing is *)
(* locked and no file is replaced atomically, here or on the switches, so  *)
(* saves and restores meet, a crash leaves what was written so far, and    *)
(* anything that is half written is no JSON text: it is Torn.              *)
(***************************************************************************)
EXTENDS Naturals, Sequences, FiniteSets

CONSTANTS
    Switches,
    Names,         \* the labels of snapshots
    Boot,          \* the configurations of the switches at the start
    Tasks,         \* the threads that run the tools
    Configs,       \* configurations of a switch
    Content,       \* the keys, fields and values of each
    Torn,          \* a text that is not JSON
    Missing,       \* a file that does not exist
    None,
    Lists,         \* the lists of switches that a call may name
    Table,         \* the table of each key of a configuration
    Compared,      \* the sets of tables that are compared
    MaxCalls,      \* these bound the behaviours
    MaxChanges,
    MaxCrashes

Statuses == {"error", "uploaded", "reloaded", "reload_error", "reload_disconnected"}

ASSUME SnapshotsAssumption ==
    /\ Boot \subseteq [Switches -> Configs]
    /\ Configs \subseteq DOMAIN Content
    /\ Configs \cap Statuses = {}
    /\ None \notin Statuses
    /\ Lists \subseteq {l \in Seq(Switches) : l # << >>}
    /\ Torn \notin Configs /\ Missing \notin Configs /\ None \notin Configs \cup {Torn, Missing}
    /\ Torn \notin Lists /\ Missing \notin Lists
    /\ MaxCalls \in Nat /\ MaxChanges \in Nat /\ MaxCrashes \in Nat

\* A configuration is a function from keys to fields, and those from names to values.
ASSUME ContentAssumption ==
    \A c \in DOMAIN Content :
        /\ Content[c] = [k \in DOMAIN Content[c] |-> Content[c][k]]
        /\ DOMAIN Content[c] \subseteq DOMAIN Table
        /\ \A k \in DOMAIN Content[c] :
               LET fields == Content[c][k]
               IN /\ fields = [f \in DOMAIN fields |-> fields[f]]
                  /\ \A f \in DOMAIN fields : fields[f] # None

D == INSTANCE ConfigDiff

VARIABLES
    startup,       \* /etc/sonic/config_db.json of each switch
    running,       \* the configuration each switch works with
    reloading,     \* switches that load on their own, the connection being lost
    files,         \* per name and switch, the file
    meta,          \* per name, the metadata file: the list of switches
    task,
    calls,
    changes,
    crashes,
    writer,        \* history: the restore that wrote each startup last and met no other
                   \* while it did; 0 for operators and for restores that met
    last,          \* history: per name, the report of the save that ended last
    clean          \* history: the save of this name that began last met no other, nor did
                   \* it raise or die

disk == <<files, meta>>
switchVars == <<startup, running, reloading>>
bounds == <<calls, changes, crashes>>
history == <<writer, last, clean>>
vars == <<switchVars, disk, task, bounds, history>>

NoEntries == [s \in Switches |-> None]
Idle == [op |-> "idle", name |-> None, list |-> << >>, todo |-> << >>, skip |-> FALSE,
         stage |-> "over", text |-> None, entry |-> NoEntries, by |-> 0]

Stages == {"pull", "open", "write", "metaopen", "metawrite", "file", "push", "tee",
           "reload", "over"}

TypeOK ==
    /\ startup \in [Switches -> Configs \cup {Torn}]
    /\ running \in [Switches -> Configs]
    /\ reloading \subseteq Switches
    /\ files \in [Names -> [Switches -> Configs \cup {Torn, Missing}]]
    /\ meta \in [Names -> Lists \cup {Torn, Missing}]
    /\ task \in [Tasks -> [op : {"idle", "save", "restore"}, name : Names \cup {None},
                           list : Lists \cup {<< >>}, todo : Seq(Switches), skip : BOOLEAN,
                           stage : Stages, text : Configs \cup {None},
                           entry : [Switches -> Configs \cup Statuses \cup {None}], by : Nat]]
    /\ calls \in 0..MaxCalls /\ changes \in 0..MaxChanges /\ crashes \in 0..MaxCrashes
    /\ writer \in [Switches -> Nat]
    /\ last \in [Names -> [list : Lists, entry : [Switches -> Configs \cup Statuses \cup {None}]]
                        \cup {None}]
    /\ clean \in [Names -> BOOLEAN]

Init ==
    /\ startup \in Boot
    /\ running = startup
    /\ reloading = {}
    /\ files = [n \in Names |-> [s \in Switches |-> Missing]]
    /\ meta = [n \in Names |-> Missing]
    /\ task = [t \in Tasks |-> Idle]
    /\ calls = 0 /\ changes = 0 /\ crashes = 0
    /\ writer = [s \in Switches |-> 0]
    /\ last = [n \in Names |-> None]
    /\ clean = [n \in Names |-> TRUE]

At(t, op, stage) == task[t].op = op /\ task[t].stage = stage
Current(t) == Head(task[t].todo)
Saves(t, n) == task[t].op = "save" /\ task[t].stage # "over" /\ task[t].name = n

\* The task with a new entry for its switch, at the next switch or at the end.
Entered(t, e, next, end) ==
    [task[t] EXCEPT !.entry[Current(t)] = e,
                    !.todo = Tail(@),
                    !.text = None,
                    !.stage = IF Tail(task[t].todo) = << >> THEN end ELSE next]

Begin(t, op, n, list, skip, stage) ==
    /\ task[t].stage = "over"
    /\ calls < MaxCalls
    /\ calls' = calls + 1
    /\ task' = [task EXCEPT ![t] = [op |-> op, name |-> n, list |-> list, todo |-> list,
                                    skip |-> skip, stage |-> stage, text |-> None,
                                    entry |-> NoEntries,
                                    by |-> IF op = "restore" THEN calls + 1 ELSE 0]]
    /\ UNCHANGED <<switchVars, disk, changes, crashes, writer, last>>

----------------------------------------------------------------------------
\* save_fabric_snapshot

BeginSave(t, n, list) ==
    /\ Begin(t, "save", n, list, FALSE, "pull")
    /\ clean' = [clean EXCEPT ![n] = \A u \in Tasks : ~Saves(u, n)]

\* _pull_config_db: what is not JSON is an error.
Pull(t) ==
    /\ At(t, "save", "pull")
    /\ startup[Current(t)] # Torn
    /\ task' = [task EXCEPT ![t].text = startup[Current(t)], ![t].stage = "open"]
    /\ UNCHANGED <<switchVars, disk, bounds, history>>

\* write_text opens the file, which empties it ...
Open(t) ==
    /\ At(t, "save", "open")
    /\ files' = [files EXCEPT ![task[t].name][Current(t)] = Torn]
    /\ task' = [task EXCEPT ![t].stage = "write"]
    /\ UNCHANGED <<switchVars, meta, bounds, history>>

\* ... and writes.  With two writers the file may end up with parts of both.
Meets(t, stage, content) ==
    \/ content # Torn
    \/ \E u \in Tasks \ {t} : /\ At(u, "save", stage) /\ task[u].name = task[t].name
                              /\ stage = "write" => Current(u) = Current(t)

Write(t) ==
    /\ At(t, "save", "write")
    /\ LET n == task[t].name
           s == Current(t)
       IN \E text \in {task[t].text} \cup (IF Meets(t, "write", files[n][s]) THEN {Torn} ELSE {}) :
              files' = [files EXCEPT ![n][s] = text]
    /\ task' = [task EXCEPT ![t] = Entered(t, task[t].text, "pull", "metaopen")]
    /\ UNCHANGED <<switchVars, meta, bounds, history>>

\* Mutant: the entry is made before the file is written.
MutSwitchFails(t) ==
    /\ task[t].op = "save" /\ task[t].stage \in {"pull", "open", "write"}
    /\ LET e == IF task[t].stage = "write" THEN task[t].text ELSE "error"
       IN task' = [task EXCEPT ![t] = Entered(t, e, "pull", "metaopen")]
    /\ UNCHANGED <<switchVars, disk, bounds, history>>

\* The switch does not answer, or the file cannot be opened or written to its end.
SwitchFails(t) ==
    /\ task[t].op = "save" /\ task[t].stage \in {"pull", "open", "write"}
    /\ task' = [task EXCEPT ![t] = Entered(t, "error", "pull", "metaopen")]
    /\ UNCHANGED <<switchVars, disk, bounds, history>>

MetaOpen(t) ==
    /\ At(t, "save", "metaopen")
    /\ meta' = [meta EXCEPT ![task[t].name] = Torn]
    /\ task' = [task EXCEPT ![t].stage = "metawrite"]
    /\ UNCHANGED <<switchVars, files, bounds, history>>

MetaWrite(t) ==
    /\ At(t, "save", "metawrite")
    /\ LET n == task[t].name
       IN /\ \E text \in {task[t].list} \cup (IF Meets(t, "metawrite", meta[n]) THEN {Torn} ELSE {}) :
                 meta' = [meta EXCEPT ![n] = text]
          /\ last' = [last EXCEPT ![n] = [list |-> task[t].list, entry |-> task[t].entry]]
    /\ task' = [task EXCEPT ![t] = Idle]
    /\ UNCHANGED <<switchVars, files, bounds, writer, clean>>

\* The metadata cannot be written: the tool raises, the files stay.
MetaFails(t) ==
    /\ task[t].op = "save" /\ task[t].stage \in {"metaopen", "metawrite"}
    /\ task' = [task EXCEPT ![t] = Idle]
    /\ clean' = [clean EXCEPT ![task[t].name] = FALSE]
    /\ UNCHANGED <<switchVars, disk, bounds, writer, last>>

----------------------------------------------------------------------------
\* restore_fabric_snapshot

\* Without metadata, or with metadata that cannot be read or does not list a switch of the
\* scope, the tool raises before it has done anything.
BeginRestore(t, n, scope, skip) ==
    /\ meta[n] \notin {Missing, Torn}
    /\ \A i \in DOMAIN scope : \E j \in DOMAIN meta[n] : meta[n][j] = scope[i]
    /\ Begin(t, "restore", n, IF scope = << >> THEN meta[n] ELSE scope, skip, "file")
    /\ UNCHANGED clean

\* Mutant: the text of the file is not parsed before it is used.
MutReadFile(t) ==
    /\ At(t, "restore", "file")
    /\ files[task[t].name][Current(t)] # Missing
    /\ task' = [task EXCEPT ![t].text = files[task[t].name][Current(t)], ![t].stage = "push"]
    /\ UNCHANGED <<switchVars, disk, bounds, history>>

ReadFile(t) ==
    /\ At(t, "restore", "file")
    /\ files[task[t].name][Current(t)] \notin {Missing, Torn}
    /\ task' = [task EXCEPT ![t].text = files[task[t].name][Current(t)], ![t].stage = "push"]
    /\ UNCHANGED <<switchVars, disk, bounds, history>>

ReadFileFails(t) ==
    /\ At(t, "restore", "file")
    /\ task' = [task EXCEPT ![t] = Entered(t, "error", "file", "over")]
    /\ UNCHANGED <<switchVars, disk, bounds, history>>

\* _push_config: `sudo tee` opens the startup configuration, which empties it ...
TeesTo(t, s) == At(t, "restore", "tee") /\ Current(t) = s

PushOpen(t) ==
    /\ At(t, "restore", "push")
    /\ startup' = [startup EXCEPT ![Current(t)] = Torn]
    /\ writer' = [writer EXCEPT ![Current(t)] =
                      IF \E u \in Tasks : TeesTo(u, Current(t)) THEN 0 ELSE task[t].by]
    /\ task' = [task EXCEPT ![t].stage = "tee"]
    /\ UNCHANGED <<running, reloading, disk, bounds, last, clean>>

\* ... and writes.  What meets another tee, or was written over since, may end up torn.
Push(t) ==
    /\ At(t, "restore", "tee")
    /\ LET s == Current(t)
           met == startup[s] # Torn \/ \E u \in Tasks \ {t} : TeesTo(u, s)
       IN \E text \in {task[t].text} \cup (IF met THEN {Torn} ELSE {}) :
              startup' = [startup EXCEPT ![s] = text]
    /\ task' = [task EXCEPT ![t] = IF task[t].skip THEN Entered(t, "uploaded", "file", "over")
                                   ELSE [@ EXCEPT !.stage = "reload"]]
    /\ UNCHANGED <<running, reloading, disk, bounds, history>>

\* The command does not reach the switch or cannot open the file; or the connection is
\* lost or tee fails, and the file stays as it is or is whole.
PushFails(t) ==
    /\ task[t].op = "restore" /\ task[t].stage \in {"push", "tee"}
    /\ \E text \in {startup[Current(t)]}
                    \cup (IF task[t].stage = "tee" THEN {task[t].text, Torn} ELSE {}) :
           startup' = [startup EXCEPT ![Current(t)] = text]
    /\ task' = [task EXCEPT ![t] = Entered(t, "error", "file", "over")]
    /\ UNCHANGED <<running, reloading, disk, bounds, history>>

\* Mutant: what config reload answered is not looked at.
MutReload(t) ==
    /\ At(t, "restore", "reload")
    /\ \E c \in {running[Current(t)], startup[Current(t)]} \ {Torn} :
           running' = [running EXCEPT ![Current(t)] = c]
    /\ task' = [task EXCEPT ![t] = Entered(t, "reloaded", "file", "over")]
    /\ UNCHANGED <<startup, reloading, disk, bounds, history>>

\* _reload that comes back: it loaded the startup configuration, or it says that it
\* failed, loaded or not.
Reload(t) ==
    /\ At(t, "restore", "reload")
    /\ \/ /\ startup[Current(t)] # Torn
          /\ running' = [running EXCEPT ![Current(t)] = startup[Current(t)]]
          /\ task' = [task EXCEPT ![t] = Entered(t, "reloaded", "file", "over")]
       \/ /\ \E c \in {running[Current(t)], startup[Current(t)]} \ {Torn} :
                 running' = [running EXCEPT ![Current(t)] = c]
          /\ task' = [task EXCEPT ![t] = Entered(t, "reload_error", "file", "over")]
    /\ UNCHANGED <<startup, reloading, disk, bounds, history>>

\* _reload that raises: there was no connection to send the command on, or it was lost
\* after that and the switch goes on by itself.  The entry is the same.
Disconnect(t) ==
    /\ At(t, "restore", "reload")
    /\ reloading' \in {reloading, reloading \cup {Current(t)}}
    /\ task' = [task EXCEPT ![t] = Entered(t, "reload_disconnected", "file", "over")]
    /\ UNCHANGED <<startup, running, disk, bounds, history>>

\* It loads what it finds, or fails.
ReloadEnds(s) ==
    /\ s \in reloading
    /\ reloading' = reloading \ {s}
    /\ \E c \in {running[s], startup[s]} \ {Torn} : running' = [running EXCEPT ![s] = c]
    /\ UNCHANGED <<startup, disk, task, bounds, history>>

----------------------------------------------------------------------------
\* The comparisons change nothing, and a configuration is all they look at: one switch in
\* two snapshots for compare_fabric_snapshots ...
Compare(a, b, tables) ==
    D!DiffOne(D!Extract(Content[a], tables), D!Extract(Content[b], tables))

\* ... and two switches, of which some tables or keys cannot be read and some keys cannot be
\* parsed, for get_fabric_config_diff.
CompareLive(a, b, tables, failed, garbled) ==
    D!DiffOne(D!Dump(Content[a], tables, failed.left, garbled.left),
              D!Dump(Content[b], tables, failed.right, garbled.right))

----------------------------------------------------------------------------
\* An operator configures a switch and saves it there.
Configure(s, c) ==
    /\ changes < MaxChanges
    /\ changes' = changes + 1
    /\ startup' = [startup EXCEPT ![s] = c]
    /\ running' = [running EXCEPT ![s] = c]
    /\ writer' = [writer EXCEPT ![s] = 0]
    /\ UNCHANGED <<reloading, disk, task, calls, crashes, last, clean>>

\* The server dies: its tasks are gone, the files stay as they are, and a switch that was
\* told to write or to load a configuration goes on.
Crash ==
    /\ crashes < MaxCrashes
    /\ \E t \in Tasks : task[t].stage # "over"
    /\ crashes' = crashes + 1
    /\ task' = [t \in Tasks |-> Idle]
    /\ \E told \in SUBSET {Current(t) : t \in {t \in Tasks : At(t, "restore", "reload")}} :
           reloading' = reloading \cup told
    /\ startup' \in [Switches -> Configs \cup {Torn}]
    /\ \A s \in Switches :
           startup'[s] \in {startup[s]} \cup {task[t].text : t \in {t \in Tasks : TeesTo(t, s)}}
    /\ clean' = [n \in Names |-> clean[n] /\ \A t \in Tasks : ~Saves(t, n)]
    /\ UNCHANGED <<running, disk, calls, changes, writer, last>>

SaveStep(t) ==
    \/ \E n \in Names, list \in Lists : BeginSave(t, n, list)
    \/ Pull(t) \/ Open(t) \/ Write(t) \/ SwitchFails(t)
    \/ MetaOpen(t) \/ MetaWrite(t) \/ MetaFails(t)

RestoreStep(t) ==
    \/ \E n \in Names, scope \in Lists \cup {<< >>}, skip \in BOOLEAN : BeginRestore(t, n, scope, skip)
    \/ ReadFile(t) \/ ReadFileFails(t)
    \/ PushOpen(t) \/ Push(t) \/ PushFails(t) \/ Reload(t) \/ Disconnect(t)

Next ==
    \/ \E t \in Tasks : SaveStep(t) \/ RestoreStep(t)
    \/ \E s \in Switches : ReloadEnds(s) \/ \E c \in Configs : Configure(s, c)
    \/ Crash

Spec == Init /\ [][Next]_vars

----------------------------------------------------------------------------
\* What restore_fabric_snapshot reports of a switch is true as long as nobody else writes
\* there: after "reloaded" the switch works with the text it was given, and its startup
\* configuration is torn only if the call has said "error", or is gone.  What is loaded after
\* "reload_disconnected" it does not say.  (A switch that is named twice is on its way again
\* between its two texts.)
Again(t, s) ==
    task[t].op = "restore" /\ task[t].stage \in {"tee", "reload"} /\ Current(t) = s

ReportsAreTrue ==
    \A s \in Switches, t \in Tasks :
        task[t].op = "restore" /\ task[t].by = writer[s] /\ ~Again(t, s) =>
            /\ task[t].entry[s] = "reloaded" => running[s] = startup[s]
            /\ startup[s] = Torn => task[t].entry[s] = "error"

\* What restore_fabric_snapshot.py:144-145 says of "reload_disconnected", which is counted
\* as ok: the switch has loaded what it was given, or is still loading.
DisconnectedReloads ==
    \A s \in Switches, t \in Tasks :
        /\ task[t].op = "restore" /\ task[t].by = writer[s] /\ ~Again(t, s)
        /\ task[t].entry[s] = "reload_disconnected"
        => running[s] = startup[s] \/ s \in reloading

\* What save_fabric_snapshot reports is what is on the disk: unless the save of a name that
\* began last met another, raised or died, the metadata and the file of every switch whose
\* entry is "ok" are those of that save, however the other switches have fared, and whatever
\* saves before it left half done.
FilesAreTheLastSave ==
    \A n \in Names :
        clean[n] /\ last[n] # None /\ (\A t \in Tasks : ~Saves(t, n)) =>
            /\ meta[n] = last[n].list
            /\ \A i \in DOMAIN last[n].list :
                   LET s == last[n].list[i]
                   IN last[n].entry[s] \in Configs => files[n][s] = last[n].entry[s]

Differ(a, b, tables) ==
    {k \in DOMAIN Content[a] \cup DOMAIN Content[b] :
        /\ Table[k] \in tables
        /\ \/ k \notin DOMAIN Content[a] \cap DOMAIN Content[b]
           \/ Content[a][k] # Content[b][k]}

Sides == {"left", "right"}
Unread(failed, garbled) ==
    {k \in DOMAIN Table :
        \E side \in Sides : k \in garbled[side] \/ {k, Table[k]} \cap failed[side] # {}}

ExactOn(a, b, tables) ==
    /\ D!Named(Compare(a, b, tables)) = Differ(a, b, tables)
    /\ \A failed \in [Sides -> SUBSET (tables \cup DOMAIN Table)],
          garbled \in [Sides -> SUBSET DOMAIN Table] :
           D!Named(CompareLive(a, b, tables, failed, garbled)) \ Unread(failed, garbled) =
               Differ(a, b, tables) \ Unread(failed, garbled)

Exact == [a \in DOMAIN Content |->
             [b \in DOMAIN Content |-> \A tables \in Compared : ExactOn(a, b, tables)]]

\* A comparison of the files of two snapshots, or of two running switches, names exactly
\* the keys of the compared tables on which its two sides differ, so that "no differences"
\* means that there are none.  A live comparison says so only of what it could read on
\* both sides: what fails on one side is reported as missing there, what cannot be parsed as
\* having no fields, and what fails on both is not reported at all.
CompareIsTrue ==
    /\ \A l, r \in Names, s \in Switches :
           l # r /\ {files[l][s], files[r][s]} \subseteq Configs =>
               Exact[files[l][s]][files[r][s]]
    /\ \A l, r \in Switches : l # r => Exact[running[l]][running[r]]

=============================================================================
