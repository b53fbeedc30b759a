------------------------------ MODULE Inventory ------------------------------
(***************************************************************************)
(* The switch inventory: SonicInventory keeps the list of switches in      *)
(* memory and reloads it from inventory.json whenever a read finds that    *)
(* the file's mtime has changed; GET, PUT, POST and DELETE /inventory of   *)
(* api/app.py read and rewrite it from the server's threads, and operators *)
(* edit the file by hand.                                                  *)
(*                                                                         *)
(* A list is a function from management addresses to rows: a row is what   *)
(* an entry says besides its address (name, tags, credentials).  Bodies    *)
(* that _validate_devices refuses (no address, an address twice) change    *)
(* nothing and are left out.                                               *)
(***************************************************************************)
EXTENDS Naturals

CONSTANTS
    Ips,         \* management addresses
    Rows,        \* what an entry says about a switch
    Threads,     \* threads of the server
    Hardcoded,   \* _HARDCODED_FALLBACK
    NoThread,    \* nobody holds the lock
    MaxStamp     \* bound: writes of the file in a behaviour

Lists == UNION {[S -> Rows] : S \in SUBSET Ips}

EmptyList == [ip \in {} |-> ip]

ASSUME InventoryAssumption ==
    /\ Hardcoded \in Lists /\ Hardcoded # EmptyList
    /\ NoThread \notin Threads
    /\ MaxStamp \in Nat

VARIABLES
    file,       \* inventory.json: its state, the list that it parses to, its mtime
    devices,    \* SonicInventory._devices
    lastMtime,  \* _last_mtime, 0 for None
    lock,       \* the thread that holds _lock across a reload, or NoThread
    stamp,      \* the mtime that thread has just read
    req         \* the request every thread is serving

vars == <<file, devices, lastMtime, lock, stamp, req>>

\* "absent" stands for every failing stat, "garbled" for a file that cannot be
\* read or is not JSON.  Writes never share an mtime: every one takes the next.
Files == [kind : {"absent", "garbled", "list"}, list : Lists, mtime : Nat]

Requests == [kind : {"get"}] \cup [kind : {"put"}, list : Lists]
            \cup [kind : {"add"}, ip : Ips, row : Rows] \cup [kind : {"delete"}, ip : Ips]

Idle == [pc |-> "idle"]

Reading == {"list", "source", "answer"}

\* "list" reads the list to edit, "save" writes the edited one; the answer reads
\* the list twice, for its source and for its rows.  The field since is history:
\* the lists that the file has held since the request began, or since its own
\* save; EmptyList is among them if the file gave no list for a while.
Serving == [pc : Reading \cup {"save"}, what : Requests, edited : Lists,
            since : SUBSET Lists]

\* The types; and there is always a switch to serve.
TypeOK ==
    /\ file \in Files
    /\ devices \in Lists \ {EmptyList}
    /\ lastMtime \in Nat
    /\ lock \in Threads \cup {NoThread}
    /\ stamp \in Nat
    /\ req \in [Threads -> Serving \cup {Idle}]

----------------------------------------------------------------------------

\* The list that request r writes after it has read l.
Edited(r, l) ==
    CASE r.kind = "put"    -> r.list
      [] r.kind = "add"    -> [ip \in DOMAIN l \cup {r.ip} |-> IF ip = r.ip THEN r.row ELSE l[ip]]
      [] r.kind = "delete" -> [ip \in DOMAIN l \ {r.ip} |-> l[ip]]
      [] r.kind = "get"    -> l

\* Mutant: takes a file that lists no switch.
MutLoads(f) == f.kind = "list"

\* The file gives a list.
Loads(f) == f.kind = "list" /\ f.list # EmptyList

\* SonicInventory.__init__: the hardcoded list, then an eager first load.
Booted(f, d, m) ==
    IF Loads(f) THEN d = f.list /\ m = f.mtime ELSE d = Hardcoded /\ m = 0

Init ==
    /\ \E kind \in {"absent", "garbled", "list"}, l \in Lists :
         /\ kind # "list" => l = EmptyList
         /\ file = [kind |-> kind, list |-> l, mtime |-> 1]
    /\ Booted(file, devices, lastMtime)
    /\ lock = NoThread
    /\ stamp = 0
    /\ req = [t \in Threads |-> Idle]

\* A PUT saves at once, the edits first read the list, a GET only answers.
Begin(t) ==
    /\ req[t] = Idle
    /\ \E r \in Requests :
         req' = [req EXCEPT ![t] =
            [pc |-> CASE r.kind = "put" -> "save" [] r.kind = "get" -> "source" [] OTHER -> "list",
             what |-> r,
             edited |-> IF r.kind = "put" THEN r.list ELSE EmptyList,
             since |-> {file.list}]]
    /\ UNCHANGED <<file, devices, lastMtime, lock, stamp>>

\* The request of t after its read of the list returned l: an edit goes on to
\* save, but a DELETE of an address that is not there answers 404.
Returned(t, l) ==
    CASE req[t].pc = "list" /\ (req[t].what.kind = "delete" => req[t].what.ip \in DOMAIN l) ->
           [req[t] EXCEPT !.pc = "save", !.edited = Edited(req[t].what, l)]
      [] req[t].pc = "source" -> [req[t] EXCEPT !.pc = "answer"]
      [] OTHER -> Idle

\* Mutant: a file that has been loaded once is never loaded again.
MutUnchanged == file.kind = "absent" \/ lastMtime # 0

\* _reload_if_changed has nothing to read.
Unchanged == file.kind = "absent" \/ file.mtime = lastMtime

\* SonicInventory.devices up to the stat of the file; it returns at once when
\* there is nothing to read.
Stat(t) ==
    /\ req[t].pc \in Reading
    /\ lock = NoThread
    /\ IF Unchanged
         THEN /\ req' = [req EXCEPT ![t] = Returned(t, devices)]
              /\ UNCHANGED <<lock, stamp>>
         ELSE /\ lock' = t
              /\ stamp' = file.mtime
              /\ UNCHANGED req
    /\ UNCHANGED <<file, devices, lastMtime>>

\* Mutant: remembers the mtime of a file it could not use.
MutParse(t) ==
    /\ lock = t
    /\ devices' = IF Loads(file) THEN file.list ELSE devices
    /\ lastMtime' = stamp
    /\ req' = [req EXCEPT ![t] = Returned(t, devices')]
    /\ lock' = NoThread
    /\ UNCHANGED <<file, stamp>>

\* It reads and parses the file, and keeps the previous list if that gives none.
Parse(t) ==
    /\ lock = t
    /\ IF Loads(file)
         THEN devices' = file.list /\ lastMtime' = stamp
         ELSE UNCHANGED <<devices, lastMtime>>
    /\ req' = [req EXCEPT ![t] = Returned(t, devices')]
    /\ lock' = NoThread
    /\ UNCHANGED <<file, stamp>>

\* What it finds is not text at all: the error, which is neither a JSON nor an OS
\* error and is not caught, ends the request.
ParseRaises(t) ==
    /\ lock = t
    /\ file.kind = "garbled"
    /\ req' = [req EXCEPT ![t] = Idle]
    /\ lock' = NoThread
    /\ UNCHANGED <<file, devices, lastMtime, stamp>>

\* The requests in progress when the file has come to hold l.
Seen(l) ==
    [t \in Threads |->
        IF req[t] = Idle THEN Idle ELSE [req[t] EXCEPT !.since = @ \cup {l}]]

\* The file holds l from now on.
Writes(kind, l) ==
    /\ file.mtime < MaxStamp
    /\ file' = [kind |-> kind, list |-> l, mtime |-> file.mtime + 1]

\* Mutant: does not ask for a reload.
MutSave(t) ==
    /\ req[t].pc = "save"
    /\ lock = NoThread
    /\ Writes("list", req[t].edited)
    /\ lastMtime' = file'.mtime
    /\ req' = [Seen(file'.list) EXCEPT ![t].pc = "source", ![t].since = {file'.list}]
    /\ UNCHANGED <<devices, lock, stamp>>

\* SonicInventory.save: replaces the file and asks for a reload.
Save(t) ==
    /\ req[t].pc = "save"
    /\ lock = NoThread
    /\ Writes("list", req[t].edited)
    /\ lastMtime' = 0
    /\ req' = [Seen(file'.list) EXCEPT ![t].pc = "source", ![t].since = {file'.list}]
    /\ UNCHANGED <<devices, lock, stamp>>

\* Writing the temporary file or renaming it fails.
SaveFails(t) ==
    /\ req[t].pc = "save"
    /\ lock = NoThread
    /\ req' = [req EXCEPT ![t] = Idle]
    /\ UNCHANGED <<file, devices, lastMtime, lock, stamp>>

\* An operator edits, breaks or removes the file, between any two steps.
Edit ==
    /\ \E kind \in {"absent", "garbled", "list"}, l \in Lists :
         /\ kind # "list" => l = EmptyList
         /\ Writes(kind, l)
    /\ req' = Seen(file'.list)
    /\ UNCHANGED <<devices, lastMtime, lock, stamp>>

\* Killed and started again.
Restart ==
    /\ devices' \in {file.list, Hardcoded}
    /\ lastMtime' \in {0, file.mtime}
    /\ Booted(file, devices', lastMtime')
    /\ lock' = NoThread
    /\ req' = [t \in Threads |-> Idle]
    /\ UNCHANGED <<file, stamp>>

Next ==
    \/ \E t \in Threads :
         Begin(t) \/ Stat(t) \/ Parse(t) \/ ParseRaises(t) \/ Save(t) \/ SaveFails(t)
    \/ Edit
    \/ Restart

Spec == Init /\ [][Next]_vars

----------------------------------------------------------------------------

\* A remembered mtime that is still the file's says that the list in memory is
\* the file's: a file that was broken, empty or gone is read again when it is good.
Coherent == lastMtime = file.mtime => Loads(file) /\ devices = file.list

\* Thread t's read of the list returns in this step.
Returns(t) == (Stat(t) \/ Parse(t)) /\ req'[t] # req[t]

\* A read returns a list that the file has held since the request began, or since
\* its own save, unless the file gave none for a while: the check of the mtime
\* never serves an old list, however saves and edits fall between stat and read.
ReadsAreFresh ==
    [][\A t \in Threads :
        Returns(t) => devices' \in req[t].since \/ EmptyList \in req[t].since]_vars

Agree(f, g, ip) ==
    /\ ip \in DOMAIN f <=> ip \in DOMAIN g
    /\ ip \in DOMAIN f => f[ip] = g[ip]

\* POST and DELETE change the switch they name and no other, if nobody writes the
\* file between their read and their save, which hold the lock one at a time.
AloneEditsOne ==
    [][\A t \in Threads :
        /\ Save(t)
        /\ req[t].what.kind \in {"add", "delete"}
        /\ req[t].since = {file.list}
        /\ file.list # EmptyList
        => \A ip \in Ips \ {req[t].what.ip} : Agree(file.list, file'.list, ip)]_vars

=============================================================================
