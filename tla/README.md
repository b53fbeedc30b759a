# A TLA+ model of the SONiC MCP server

The server exposes some sixty tools over `POST /invoke` (and over MCP) that read and change SONiC
switches through SSH and RESTCONF. It keeps an audit ledger of every mutation, rolls mutations back
from that ledger, asks whole fabrics in parallel, saves and restores snapshots, and hot-reloads its
switch inventory from a JSON file. This directory holds TLA+ modules of the parts of the server that
keep or change state and of the algorithms that compute its reports, TLC configurations that check
them on small instances, and TLAPS proofs of the main results for every value of the constants.

To check: `tlc -workers 2 -config rotate.cfg MCDrainRotate.tla` for a run, `tlapm SnapshotsProofs.tla` and the like
for the proofs. `PROJECT.json` lists the runs, the mutants that show each property can fail, the source
lines of every definition, the findings, the hazards and the theorems.

## Inventory of the system

| Component | State | Operations | Interacts with | What is hard | What makes it correct | Model |
|---|---|---|---|---|---|---|
| Invocation pipeline (`mcp_runtime/server.py`, `api/app.py`) | calls in progress, one per pool thread | `invoke`: gate, context merge, handler, ledger line, session update | every other part | calls interleave at each SSH exchange; handlers raise after the switch has acted; the process dies between steps | each command on a switch has its ledger line, no call counts twice, every call ends | `InvokePipeline` |
| Policy (`mcp_runtime/policy.py`, `generated/mcp_tools.json`) | kill switch (`MCP_MUTATIONS_ENABLED`), `auto_mode` | `enforce_policy` | pipeline | rollback calls a handler past the gate | no command the policy refuses to its caller | `MutationTools` |
| Mutation ledger (`mcp_runtime/mutation_ledger.py`) | `logs/mutations.jsonl` | `record`, `tail` | pipeline, rollback | failing writes, crashes | at most one line per call; ok means done | `InvokePipeline` |
| Mutation tools (`sonic/tools/{interfaces,l2,routing,fabric,system}`) | none of their own: the switch's configuration | read, command, read again, check | transport | commands that fail half way, reads that give no answer, other writers between the two reads | the recorded pre-state is what rollback needs | `MutationTools` |
| Rollback (`rollback_mutation.py`) | reads the ledger | find entry, plan the inverse, call its handler | ledger, tools | stale or missing pre-states, sessions on other switches | restores what the mutation captured, on that switch, and nothing else | `MutationTools`, `InvokePipeline` |
| Sessions (`session.py`, `session_store.py`) | context per session, expiry, capacity | get or create, merge, update | pipeline | two calls of one session; two unlocked dictionaries | the capacity is exceeded only by overlapping calls; nobody loses a session early | `SessionStore` |
| Inventory (`sonic/inventory.py`, `/inventory` endpoints) | `inventory.json`, list in memory, remembered mtime | hot reload, `save`, GET, PUT, POST, DELETE | every tool | unlocked read-modify-write, hand edits at any moment, broken files | no stale list, edits change one switch | `Inventory` |
| Rolling drain (`fabric_drain_rotate.py`) | one loop per call, lasting minutes | drain, soak, undrain, wait | tools, health | overlapping rotations, aborts, crashes while a switch is drained | no switch left drained unnoticed; it ends | `DrainRotate` |
| Transport (`transport_ssh.py`, `transport_restconf.py`) | pool of SSH clients, sessions, one lock each | connect, run, close | tools, probe | a failing call closes another call's client; a connect holds the lock | a call's failure stays its own | `TransportPool` |
| Fan-out (`_fanout.py`) | futures of one call | run a function on all switches | transport | one slow switch against the overall timeout; a switch named twice | every target has an answer of its own | `Gather`, `FanOut` |
| Fabric analysis (`get_fabric_*`, `discover_…`, `detect_routing_loop`, `validate_…`) | none | functions of device data | fan-out | several fan-outs under one report while switches change; unreachable switches; graph walks | what is reported was so | `FabricReports`, `FabricPaths`, `FabricTools` |
| Snapshots (`save_`, `restore_`, `compare_fabric_snapshots.py`, `get_fabric_config_diff.py`) | files per switch and name | save, restore, compare | transport | failures half way, overlapping saves, crashes, reloads that cut their own connection | reports true of disk and switches | `ConfigDiff`, `Snapshots` |
| Front end (rest of `api/app.py`) | rate-limit windows, fabric intent file, probe lock | limit, probe, put intent, metrics | transport, inventory | times out of order; shared temporary file; swapped inventory during a probe | bounded rate; an intent is never lost by a failed PUT; a probe's login stays in the probe | `RateLimiter`, `IntentFile`, `TransportPool` |
| Commit tokens, intents, workflows (`mcp_runtime/`) | tokens with expiry, audit log | create, confirm, run steps | pipeline | double confirmation, expiry meanwhile | a token commits once, the log says so | `CommitTokens` |
| Read-only tools, MCP adapter, docs, metrics, logging | none that matters | parse and print | pipeline | | | |

"Not modelled" below says what is left of the parts that `PROJECT.json` calls partly modelled, and of
the last row. The hazards of all of them are in `PROJECT.json`, each at its line.

## Modules

### Mutations

`SwitchConfig` is the outside world: the configuration of a switch as a function from cells (the MTU of
an interface, the existence of a VLAN, a route with its next hop, a neighbour's shutdown flag ...) to
values, and what a read of it may return. It is modelled from how the handlers use `config`,
`sonic-db-cli`, `vtysh` and RESTCONF.

`MutationTools` holds the single-switch handlers as data: for each the cells its command writes, whether
it raises on a non-zero exit, which read errors reach it, which second reads it rejects; then the policy
gate (`Admits`), `require_switch_ip`, the reads with their silent failures (`ReadResults`) and the
reversal planner of `rollback_mutation` (`Reverse`).

`InvokePipeline` extends it with the order of things. Every thread of FastAPI's pool runs
`Admit`, `Plan` (rollback only), `FirstRead`, `Command`, `SecondRead`, `Record`, `Reply`, or the failing
variant of a step; `Restart` kills all of them. Between two steps another thread may act: these are
the points where the code waits for a switch or takes a lock. `journal` and `lost` are history variables:
the commands that reached a switch, and the calls that a crash or a failed ledger write cut off.

`DrainRotate` extends `MutationTools` too: a rotation runs the drain and undrain handlers of that
module on one switch after the other, with `Converge` for `_wait_for_established`, any number of
rotations at once, and a `Restart` that resumes none. History: `blind` (an undrain was checked without
an answer for some neighbour) and `abandoned` (killed while at work on that switch).

### Inventory and transport

`Inventory` models `SonicInventory` and the endpoints over it. `Stat` is the part of `devices` or
`source` up to the mtime check, which takes the lock when a reload is due; `Parse` or `ParseRaises` is
the rest of it; `Save` replaces the file; `Edit` is a person with an editor, who respects no lock. GET,
and the answer of every other request, reads the list twice (`source`, then `devices`). The history
field `since` holds the lists the file has had since a request began or since its own save.

`TransportPool` stands on its own: the SSH clients and RESTCONF sessions that all calls share, and
`POST /inventory/probe`, which swaps the inventory under them. A call is `Acquire` (`_client_for` up to
its connect, which keeps the lock), `Connect` or `ConnectFails`, `Exec` or `ExecFails`, and `Fail` for
the except clause that drops whatever client is pooled by then; or `Session` and `Request`. A probe is
`Swap`, `Pop`, a request, a run, `Restore` and `Unpool`. `Drop` is a connection that goes down, `Edit` an
edited inventory. A client is named by the call that opened it, so the pool tells whose it is; `popped`
is a history variable, the clients that probes took out.

### Fabric

`Gather` says what a tool may expect of `fan_out`: every target has an answer when it returns, and each is
an error or a state that the switch had since the call began; or it raises. `FanOut` is the code: the
targets as submitted, workers that `Start` and `Finish` futures in the order of the queue,
`Collect` for a turn of the `as_completed` loop, `Return`, `TimeOut` of the whole and `Raise` when
leaving the executor has waited for the workers. `world` is what the switches are, and changes
meanwhile; `since` is history, the states of each switch since the call began.

`FabricReports` (topology, health, MTU pairs, drift from an intent) and `FabricPaths` (the walk along
LLDP neighbours, the lines of a traceroute and the search for a loop in them) are pure operators.
`FabricTools` composes them: a tool is a sequence of fan-outs (`NextRead`, the steps of `FanOut`,
`Returned`) and a report. The order in which a fan-out's dictionary lists the switches is part of its
result, for an address carried twice goes to the last of them. `Lookup` is the one extra
read of the MTU tool per edge. The targets of a fan-out are drawn from `scene.lists` each time, since without
named switches `fan_out` reads the inventory anew and an edit may have come in between; the topology has
four fan-outs, of which the last (LLDP) counts only for failing and for the time it takes.
`NoIntent` is the check without an intent file or with a broken one. `had` is history: the states of each switch since the tool was called.

`Snapshots` models save, restore and both comparisons, over `ConfigDiff` (tables, what a dump that
fails in part gives, `DiffOne`). A save is `Pull`, `Open`, `Write` per switch and `MetaOpen`, `MetaWrite`;
a restore is `ReadFile`, `PushOpen`, `Push`, `Reload` or `Disconnect` per switch, and a `ReloadEnds` of its own,
since a reload goes on without its connection, if its command has reached the switch, and may fail unseen.
Each has its failing variant, `Crash` ends all tasks but not what a switch was told to do.
Opening a file to write cuts it to nothing, on the server and under `sudo tee` on the switch: until it is
written it is `Torn`, and so is what two writers have mixed. History: `last` (per name, the report of the
save that ended last), `clean` (the save of the name that began last met no other and neither raised nor died)
and `writer` (the call that wrote a switch's startup configuration and met no other while it did).

### Front end

`ServerClock` is the clock. `SessionStore` runs `get_or_create` statement by statement on `sessions` and
`lastSeen`, whose loops raise when the other thread changes the size of the dictionary; `overlapped` and
`given` are history (how many calls ran beside another, which object each id was given last). `RateLimiter` separates the
reading of the clock (`Arrive`) from the lock (`Admit`, `Refuse`); `admitted` and `refusal` are history.
`IntentFile` models files rather than names: a PUT opens the temporary name, writes to what it then
stands for and renames it, so two PUTs may hold the same file, and each of these may fail (`PutFails`,
`WriteFails`); `met` (two PUTs have
overlapped), `current` (the texts that the file may hold) and `seen` (what the last GET read) are history.
`CommitTokens` is `MCPIntentExecutor` with `CommitRegistry.pop` statement by statement; its audit log is
the code's. `FrontEnd` puts the four together. They share the threads and the clock, and nothing else,
so a behaviour exercises one of them: `traffic` says which.

`MCInvokePipeline`, `MCDrainRotate`, `MCInventory`, `MCTransportPool`, `MCFabric`, `MCSnapshots` and
`MCFrontEnd` instantiate these for TLC. `MutationToolsProofs` (lemmas on the handlers),
`InvokePipelineProofs`, `DrainRotateProofs`, `InventoryProofs`, `TransportPoolProofs`, `FabricProofs`,
`SnapshotsProofs` and `FrontEndProofs` hold the proofs.

## Runs

| Run | Question | Instance |
|---|---|---|
| `invoke_concurrent` | Is every command in the ledger, once, and allowed, and does every call end? (`Audited`, `OneLinePerCommand`, `Authorised`, `EveryCallEnds`) | two threads, two calls per behaviour, adding and removing one VLAN, setting a description, a read, rollbacks; crashes, kill switch flipped at restart |
| `rollback` | Does a rollback hit the same switch, touch nothing else, and give back what the mutation read, whatever others have written since? (`RollbackOnSameSwitch`, `RollbackRestores`, `RollbackConfined`) | every tool with legal and illegal inputs, with and without a switch in them, on bare and mixed configurations of two switches with two neighbours and two next hops, then one rollback; and two settings of one MTU with three values, interleaved with one rollback on two threads |
| `inventory` | Is a stale list ever served, is a good file ever forgotten, do edits spill over? (`Coherent`, `ReadsAreFresh`, `AloneEditsOne`) | two threads, two addresses, three writes by requests or by hand, restarts |
| `rotate` | Is a switch ever left drained behind a rotation that went on? Does every rotation end? (`DrainedIsAttended`, `RotationsEnd`) | two rotations over two switches with two neighbours each |
| `transport` | Do probes give back what they borrow, is a connection ever lost, does anybody wait for ever? (`Restored`, `ProbesLeaveNothing`, `NoLeak`, `EveryRunEnds`) | two threads, two switches, two logins, one call and two probes, dropped connections, inventory edits |
| `fabric` | Was what a report says ever so; does each fan-out keep its promise; do the walks find what is there; does every tool come back? (`LinksWereReal`, `PairsAreTrue`, `DriftIsTrue`, `WalkIsReachability`, `LoopsAreReal`, `Gathers`, `ToolEnds`) | two switches on one subnet that answer, fail or are late, one change while a tool runs, two workers, target lists with a duplicate, without targets and different from one fan-out to the next; an intent that is there, absent or broken; one that does not say its AS number or MTU; every wiring of three nodes; every route over them, cut at one, four and six hops |
| `snapshots` | Is what a save or a restore reports true, are the files those of the last save, does a comparison name what differs? (`ReportsAreTrue`, `FilesAreTheLastSave`, `CompareIsTrue`) | two switches, two names, lists with both and with one twice, two tasks, three calls, one change by an operator, one crash; disks, reads, writes, reloads and connections that fail |
| `front_end` | What do sessions, limiter, intent file and tokens still guarantee when their calls overlap, fail half way or die? (`CapHolds`, `SessionKept`, `WindowKept`, `IntentKept`, `CommitsOnce`, `LogAccounts`) | two threads; five session ids for two places and five calls; a window of one tick with two admissions and five requests; four PUTs of two texts, one crash; two tokens and three confirmations; three moments of time |
| `failed_effect`, `probe_login`, `intent_torn`, `reload_lost` | What the documentation says and the code does not do, see below | one thread for the first, one name and two calls for the last, else those of `transport` and `front_end` |

The bounds. Calls are bounded by the set of mutation ids, by `MaxCalls`, `MaxRequests`, `MaxPuts`,
`MaxConfirms`, writes of the inventory file by `MaxStamp`, rotations by the set `Rotations` (a rotation
runs once), time by `MaxTime`, what happens from outside by `MaxChanges` and `MaxCrashes`. Two threads
are enough for every interference of two calls, and the properties relate at most two calls; a third id
in `rollback` makes room for a mutation, an interfering one and a rollback. Two neighbours
and two next hops are the least for which a command can take effect in part and for which withdrawing a
prefix differs from withdrawing a route. `MaxStamp = 4` gives three writes: an edit, a save that meets
it, and a repair. Rows of one value suffice in `inventory` because lists already differ by their
addresses; the theorems cover the rest. Two workers and three targets make a queue; one change
splits the fan-outs of a tool into those before and those after it, and since a report compares
readings of at most two moments of one switch, a second change of it adds none. Three nodes give paths of
two lengths to one node and loops of one, two and three nodes; four hops are the least that must show a loop among three nodes, and
six is the tools' default. Two names give the comparison two texts of one switch. Five session calls on two places
are a pair that overlaps and three that have to evict what it left behind; the bound of `CapHolds` is
then four, and there are five ids to exceed it with. Five requests fill a window of two twice.
Three snapshot calls are two saves that meet and a restore, a save, a crash and a save, or a save and two
restores that meet.

State and action constraints cut off calls of no interest to the property. In `rollback`,
`ToolsOrInterference` keeps the behaviours of the two kinds in the table and leaves crashes and failing
ledger writes to `invoke_concurrent`; where calls interleave, the first setting is to `m2`, commands exit with
zero or do not answer (a non-zero exit raises like no answer does), and the switch starts bare. `OnePair` in
`front_end` keeps one pair of overlapping session calls among the five, and `NewInOrder` takes unused ids in
their order. `SavesOnly` in `snapshots` keeps restores away where both names are in use, and where an
operator's change and a crash have both occurred; `Twice` lets a list with a duplicate, and a skipped reload,
occur in restores only. `FewErrors` in `fabric` admits two failed entries in a tool with four fan-outs, and
`InOrder` fixes the order of a health report's answers except in the scene with an address carried twice,
where alone it matters. The theorems have none of these bounds.
Symmetry is over ids, threads, tasks, tokens and texts, only in runs without liveness
properties. Where deadlock is not checked, the bounds stop the system: all calls have been made.

Fairness. `EveryCallEnds`, `RotationsEnd` and `EveryRunEnds` assume weak fairness of the steps of a call
that was admitted, and nothing of clients, operators or restarts. Weak fairness of a step that takes a
lock says that a lock which stays free is taken; that one thread is never overtaken for ever by others
follows only because the calls of a behaviour are bounded. The code justifies it by timeouts: SSH
connects and commands and RESTCONF requests carry one, the lock of the ledger is held for one write,
both waits of a rotation have a deadline. One place rests on the peer instead: `recv_exit_status`
(`transport_ssh.py:106`) waits without a timeout of its own for the exit status, after the output has
been read to its end. `ToolEnds` assumes weak fairness of a tool's own steps taken together (its
workers and the calling thread), not of any one of them, and nothing of the switches. `snapshots` and
`front_end` state only invariants.

Refinement. `Gathers` is `Gather`'s specification with `asked` for the set of the submitted targets,
`answer` for `results` and `phase` for what the calling thread is doing (waiting for the workers after the
timeout is still asking). Most steps stutter there: queueing, starting, finishing. The mutants of
`Collect` show what it excludes: an answer entered under the switch of another target, a target
left without an entry.

## Where the documentation and the code disagree

With a run that shows it:

- `failed_effect`: a call recorded as failed may have changed the switch (an SSH timeout after the
  command was carried out, a batch that stopped half way, a verification that got no answer);
  `rollback_mutation.py:22` refuses it since "there is nothing to undo".
- `probe_login`: `app.py:693` says that the pooled client is dropped so that the probe uses the login it
  was given; a call that is connecting at that moment puts a client with the live login in the pool, and
  the probe reports on that. Nor does the swap keep to the probed switch: a call on another one opens a
  session with the environment's login meanwhile, which stays in the pool.
- `intent_torn`: `app.py:519` says that readers of the fabric intent never see a half-written file. Two PUTs
  share the temporary file; one opens it, and so cuts it to nothing, while the other renames it.
- `reload_lost`: `restore_fabric_snapshot.py:144` says of a reload that raised that "the switch will finish
  reloading server-side regardless", reports `reload_disconnected` and counts it as ok. The clause
  also catches a connection that could not be opened, when the switch never got the command. It
  keeps working with the old configuration, and has the new one at its next boot.

Met while modelling, and in the model, without a run of their own:

- `add_vlan` of a VLAN that exists succeeds, and its rollback deletes the VLAN, though README.md:401 says
  that a rollback re-applies the recorded pre-state. The same planner un-shuts, after a drain, the
  neighbours that were shut before it.
- CLIENT_CONTRACT.md:272 says that passing a new `switch_ip` updates the session's context; the code keeps
  the first one. `RollbackOnSameSwitch` is therefore about calls that name their switch.
- PUT of an empty inventory is saved and ignored by the reload (`app.py:611`), so the old list stays until
  something else is written.
- The docstring of `fabric_drain_rotate` (line 10) says it stops at the first failure; a switch that does
  not converge does not stop it.
- The capacity of `session_store.py:7` is not hard: overlapping creators exceed it, and a call that runs
  between another's two pops leaves an id in one dictionary only. `CapHolds` bounds the excess by
  the calls that ran beside another, at every moment and for both dictionaries.

Worth knowing when reading a report or a log:

- Restore takes any file of a name: one that the last save did not write, because its switch failed then,
  is from an earlier save.
- In the topology a switch is unreachable when its system read failed; the other reads do not count. A
  session is also an orphan when the address read of its other end failed, and an address that two
  switches carry goes to the one that answered last.
- A switch that cannot be read is compliant with an intent that names no neighbours and no addresses for it.
- `get_fabric_health.py:12` calls a switch unreachable if none of three reads answered; see above.
- A report put together from several fan-outs may show a link that no single moment had: a session of one
  moment and an address of another, each of them real (`LinksWereReal`), or, if both switches of a pair change,
  a verdict on two MTUs of different moments (`PairsAreTrue`).
- Two restores that write to one switch at a time may leave a mix of both there, and each reports success.
- `detect_routing_loop` recognises its target only as an IPv4 literal, and the answers for a target that
  is down may look like a loop.
- The live configuration difference takes a table that cannot be read for an empty one, and fields
  that cannot be parsed for none.
- Requests that are stalled before the limiter's lock enter the window out of order; counted by
  arrival time more than the limit may then fall in one window. `WindowKept` says what still holds.
- A replay of a token is logged as `INVALID_TOKEN`, since the token was deleted with its first use;
  `REPLAY_ATTEMPT` is logged only when two confirmations meet, and a token may then be logged as expired
  and as confirmed. No endpoint creates the executor today.

## Hazards without a property

`PROJECT.json` lists them with the rest, each with its reason. What the code does wrong by itself and
promises nowhere to do right cannot be a property that holds: a rollback of a call that named no switch
runs on the switch of its own context; the inverse of an addition that changed nothing is a removal;
two edits of the inventory that meet lose one; an emptied inventory file is ignored; an undrain checked blind
and a process that dies leave a switch drained; a rotation goes on past a switch that has not converged; two
restores mix their texts on a switch. The properties next to these name the exception (`blind`,
`abandoned`, an edit that meets another write, a call that names its switch, `writer`) and say that there
is no other. Beyond the model are a torn ledger line, the 5000 lines that a rollback searches (the
window is modelled, but the ledgers of the runs do not outgrow it), and the deadline inside the wait of a
rotation, which is one step here.

## What is proved

For any sets of switches, neighbours, threads, addresses, names and calls:

- `InvokePipelineProofs!TypeCorrect`, from `TInv == TypeOK /\ Checked`. `Checked` says that a call past
  its first read has a switch and valid inputs. Without it a command could write a value that is none.
  The weight is in `ReverseIsOp`: whatever entry rollback finds, the inputs it plans are legal.
- `InvokePipelineProofs!EveryCommandAudited` and `LedgerIsExact`. Neither property is inductive. `AuditInv`
  adds that ids in use are not fresh and belong to one thread (`OwnIds`, `SpentIds`), and says for each
  stage of a call whether it has a command in the journal and a line in the ledger (`Stages`). The
  step from "has a command" to "has a line" is `Record`; a crash moves the call to `lost`.
- `InvokePipelineProofs!GateHolds`. `GateInv` carries along, for each call in flight, what the gate let through;
  a rollback runs another tool than it was admitted for, and `RollbackIsStrictest` shows that whoever may
  roll back may run any tool that an inverse may be.
- `InvokePipelineProofs!RollbackStaysOnSwitch`, `RollbackStaysConfined`, `RollbackGivesBack`. `RollInv` says that a
  rollback on its way runs the inverse planned from an "ok" line of the id it was given (`Planned`), that what
  a call has read are answers of the switch as it was then (`Captured`), that the line of a mutation has what
  its command had before it (`Linked`), and that a command in the journal did what its reply says (`Ran`).
  That the line found describes the mutation of that id and not another is `OneLinePerCommand`, and that the
  planned tool may run is `GateInv`; so the three rest on the theorems above. The algebra is in
  `ReverseKeeps` (the inverse writes no other cells, on the same switch) and `ReverseRestores` (it writes
  what was read, or undoes what was made). Nothing is assumed of other calls: `RollbackRestores` compares what
  a rollback leaves with the configuration of the moment of the mutation's first read (`seen`), and
  `Recoverable` leaves out only what the line cannot tell: a setting whose first read gave no answer and
  a value that was there before.
- `InventoryProofs!TypeCorrect`, `NeverStale`, `FreshReads`, `EditsStayLocal`. The invariant adds that
  remembered and freshly read mtimes are never ahead of the file's (`PastMtimes`), that the lock is held
  by a reading thread only, and that what an edit will save was computed from a fresh list.
- `DrainRotateProofs!TypeCorrect`, `NoneLeftBehind`. `DrainedIsAttended` is inductive with `TypeOK`:
  each step of a rotation either keeps answering for its switch or, at the check of the undrain, has seen
  all neighbours up (`CheckedUndrain`), a fact about that moment's configuration that no other
  rotation's earlier command can undo without answering for the switch itself.
- `TransportPoolProofs!TypeCorrect`, `InventoryRestored`, `NothingLeftBehind`, `NoneLost`. The invariant
  adds that a thread holds the SSH lock exactly while it connects and that no live client of its switch
  is in the pool meanwhile (`Connecting`), so a connect replaces none; that a probe holds its lock from
  the swap to the end (`ProbeLocked`); and that what a probe opened is in the pools for the one switch
  which it will clear (`Owned`).
- `FabricProofs!TypeCorrect`, `GathersCorrect`: the fan-out under the tools implements `Gather`, for any
  number of workers and any list of targets. `FanInv` adds that every answer at hand is an error or a
  state its switch has had since the call began, that what was collected is entered (`Filed`), and that
  the dictionary lists each entry and nothing else (`Listed`). Initial states map to initial states
  (`InitRefines`), every step to a step or a stutter (`StepRefines`).
- `FabricProofs!LinksCorrect`, `DriftCorrect`, `PairsCorrect`: the reports, for any fabric and whatever
  changes while they are put together. `ReportInv` adds to `FanInv` that whatever was read of a switch, in a
  fan-out or a lookup, is an error or a state it had since the tool was called (`Kept`), and that a report is the function of
  what all fan-outs returned, none of which is made after it (`Frozen`). The rest is about those
  functions. An address belongs to the last switch of the dictionaries that carries it: the greatest
  position in a finite sequence, which exists (`LeastExists`, `OwnerCarries`, `CarriersRead`). So every
  session with an address that a switch carries has its edge (`SessionHasEdge`), and an edge's ends were
  read in the states shown (`EdgesRead`). The MTU tool makes one more read per edge, later than all of those;
  that each end of a pair has its address and its MTU from the time of the call needs no more than `Kept`
  (`PairsRead`), and where nothing changed all reads are of one state (`StillPairs`). `DriftIsTrue` is proved
  part by part, each from its own read (`DriftStep`).
- `FabricProofs!LoopsCorrect`, `WalkCorrect`: the algorithms on graphs of any size. They are recursive
  functions over the hops; `IteratesExist` shows that a function with such an equation exists, since the
  initial segments below each hop agree, and `Steps` is induction over a set of naturals from the
  well-foundedness of `<`. In a trace a repeated address is a node met twice, from where the route repeats
  itself (`TwiceIsEndless`); more hops than nodes must meet one twice, by the pigeonhole of
  `FiniteSetTheorems` (`EndlessGoesOn`). In a walk, after h rounds what was visited is what h steps reach
  (`Covers`), and one more round loses nothing by skipping what was seen (`ReachGrows`).
- `SnapshotsProofs!SnapshotsTypeCorrect`, `ReportsStayTrue`, `FilesStayTheLastSave`, `ComparisonsAreTrue`.
  `TypeInv` says what a task has at each stage (`Shaped`). `ReportsInv` adds that no two restores go by
  one number and none writes in the name of a call to come, that a startup configuration which a call
  writes alone is empty until it is whole, and that a call which is loading what it wrote alone wrote all of
  it (`WriterInv`); without the numbers a later restore could be taken for the one whose report is looked at.
  `FilesInv` follows a save of a name with a clean history: it is alone, its files are those of its entries so
  far, its metadata or the file in hand is torn until it is written (`OnTheWay`), and when it has ended they
  stay so (`Kept`); it need not know what was there before. `ComparisonsAreTrue` is algebra: extracts and dumps are
  restrictions of the configurations to what was read, but for keys without fields, and they differ in a key
  that both sides read exactly if the configurations do (`FieldsDiffer`, `CompareLiveIsExact`).
- `FrontEndProofs!TypeCorrect`, `CommitsOnceCorrect`, `LogAccountsCorrect`, `IntentKeptCorrect`.
  `TokenInv`: at most one confirmation is past the deletion of a token and that token is gone
  (`OneHolder`, `HolderFirst`), a confirmed token is gone and a token that is gone has its holder or its
  entry in the log (`ConfirmedGone`, `GoneAccounted`), what is to be dropped has expired and is logged
  (`ExpiredGoes`, `DropLogged`), and what is to be deleted after use is marked used (`UsedTaken`).
  `IntentInv` says, as long as no two PUTs have met, that one PUT is under way at most, that the file it
  opens is not the one in place, and that what it renames is whole.
- `FrontEndProofs!WindowKeptCorrect`. The window of an address is a list of times, the property counts
  admissions. `RateInv` relates them by a function from the positions of the list to the admissions
  (`Matches`): one to one, in the order of the lock, and missing none that the window should count; an
  eviction from the front stops early and so drops none of them.
- `FrontEndProofs!CapHoldsCorrect`. What a call leaves behind is weighed (`CapInv`): the sessions that
  nobody is about to stamp, or the capacity if that is more, plus the times without a session and the
  calls about to add one weigh at most the capacity plus the calls that ran beside another; and the sessions
  without a time and the calls about to insert one are no more than those calls. A step of a call that has
  met another may add one to the weight once, when it meets it; a call that is alone knows what it read
  (`Knows`), and adds only where there is room. That bounds both dictionaries at every moment: what is about
  to be stamped or to be popped is counted by the calls about to do it (`CountOwned`).
- `FrontEndProofs!SessionKeptCorrect`. `SoloInv`: as long as no calls overlapped, between two calls both
  dictionaries have the same keys, each with what was last given, and whoever was given a session that is
  gone had idled too long or had as many rivals as there are places (`Quiet`); and at each statement of
  the one call how far that is restored (`Midway`, `Looping`, `Telling`).

The assumptions are the named ASSUMEs of `SwitchConfig`, `InvokePipeline`, `Inventory`, `DrainRotate`,
`TransportPool`, `FanOut`, `FabricTools`, `Snapshots`, `ServerClock`, `SessionStore`, `RateLimiter`,
`IntentFile` and `CommitTokens`; TLC evaluates them in the runs. They say what the constants are: that
sets of threads, ids and nodes are finite, that bounds are naturals, that `None`, `Torn`, `Missing` and
`Error` are no values of anything else, that an intent names addresses and interfaces there are, that a
scene's graph is one over `Nodes`.

Every invariant of a passing run is the consequence of a theorem, and so is the refinement `Gathers`. Only
model-checked are the four liveness properties (`EveryCallEnds`, `RotationsEnd`, `EveryRunEnds`, `ToolEnds`),
since fairness and ENABLED are out of the prover's reach, and the four runs that show the documentation
wrong, which are counterexamples. No module uses RECURSIVE operators; recursion is by recursive functions.

## What the model leaves out

- Two calls never get the same id; in the code it is eight hexadecimal digits. A crash never leaves
  half a ledger line. `_redact_inputs` hides credentials, which no mutation tool takes.
- Switches have at least one BGP neighbour where a drain is modelled; the drain of a switch without
  neighbours changes nothing. An exit status of zero means that the whole command took effect.
- Policy refusals and unknown tools leave no trace in the code and take no step in the model.
- Each write of `inventory.json` has an mtime of its own; two within one tick of the clock would be
  taken for one. Lists have no duplicate addresses: `_validate_devices` refuses them, a hand-edited
  file may have them. The reload at boot is one step. The name of the source in GET's answer is not
  modelled.
- The health of the fabric is not computed in `Converge`: both outcomes are possible at any time.
- The two inventories of a probe (RESTCONF and SSH) are swapped in one step, as are its two pops: the code
  does each pair in adjacent statements, of which a call sees one only, since it uses one transport at
  a time. The probe's request and run go one after the other instead of side by side: they share
  nothing but the inventory in place. Nothing of the pools survives the process, so a restart is `Init`.
- A rotation is called by clients through `POST /invoke` like any tool; its gate and ledger line are
  those of `InvokePipeline`, which it does not interleave with in the model.
- A handler under a fan-out reads its switch at one moment, when it ends. The counts in the envelope
  (`ok`, `failed`) follow from the entries and are left out.
- A `sudo tee` or a reload that goes on after its call is over ends at once (`PushFails`) or loads what is
  there at one moment (`ReloadEnds`). The mix that two writers leave is one value, `Torn`, and no JSON text;
  two texts could, in theory, mix to a valid one.
- Comparisons of snapshots and of running switches only read; the model evaluates them in every state
  instead of giving them steps. Their dumps read all tables at one moment.
- The session store reads the clock and stores it in one step where nothing lies between; sessions keep
  their object but not its context, which is in `InvokePipeline`.
- Agents, wordings and the rating of an intent are enumerated; that the word "add" is also found in
  "address", so that a reading intent is rated as a mutation, is a property of wordings, which are
  not spelled out.

## Not modelled

- The MCP protocol adapter: a second caller of `MCPServer.invoke` with the same steps and no session;
  JSON-RPC itself is a library's.
- Documentation endpoints, metrics, logging, explanations: no state that a property depends on. The
  throttle of the fabric gauges in `/metrics` is checked and set without a lock; two scrapes that
  meet compute them twice.
- The parsing of device output in the read-only tools. They take part as calls without effect.
- Planner and normalizer, which match words; and the workflow runner, which needs attributes of the server
  (`mutations`, `mutation_ledger`) that it does not have, so it cannot run against it.
- Bandwidth, reachability matrix, routes by prefix, ping and iperf: they measure and print. (A rate is
  divided by the interval that was asked for, not by the time that went by.)
- `close_all` at shutdown and the discovery of tool modules in files, which happen once, alone.
