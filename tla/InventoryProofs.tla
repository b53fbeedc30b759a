--------------------------- MODULE InventoryProofs ---------------------------
(***************************************************************************)
(* The inventory for any number of threads, addresses and writes: the      *)
(* remembered mtime never vouches for a list that is not the file's, reads *)
(* are fresh, and an edit that meets no other writer changes one switch.   *)
(***************************************************************************)
EXTENDS Inventory, TLAPS

\* A file that cannot be read or parsed gives no list.
FileShape == file.kind # "list" => file.list = EmptyList

\* The mtimes that have been read are not ahead of the file's.
PastMtimes == file.mtime > 0 /\ lastMtime <= file.mtime /\ stamp <= file.mtime

\* The lock is held across a reload only.
LockHeld ==
    lock # NoThread => lock \in Threads /\ req[lock] # Idle /\ req[lock].pc \in Reading

\* Every request in progress has seen the list that the file holds.
CurrentSeen == \A t \in Threads : req[t] # Idle => file.list \in req[t].since

\* l is a list that a read of thread t may return.
FreshFor(t, l) == l \in req[t].since \/ EmptyList \in req[t].since

\* What an edit is about to save was computed from a fresh read.
EditsFresh ==
    \A t \in Threads :
        /\ req[t] # Idle
        /\ req[t].pc = "save"
        /\ req[t].what.kind \in {"add", "delete"}
        => \E l \in Lists : req[t].edited = Edited(req[t].what, l) /\ FreshFor(t, l)

IInv == TypeOK /\ FileShape /\ PastMtimes /\ LockHeld /\ Coherent /\ CurrentSeen /\ EditsFresh

\* An edit of a list is a list.
LEMMA EditedType ==
    ASSUME NEW r \in Requests, NEW l \in Lists PROVE Edited(r, l) \in Lists
<1>1. PICK S \in SUBSET Ips : l \in [S -> Rows]
  BY DEF Lists
<1>2. CASE r.kind = "put"
  BY <1>2 DEF Edited, Requests
<1>3. CASE r.kind = "add"
  <2>1. r.ip \in Ips /\ r.row \in Rows
    BY <1>3 DEF Requests
  <2>2. Edited(r, l) \in [S \cup {r.ip} -> Rows]
    BY <1>1, <1>3, <2>1 DEF Edited
  <2>. QED
    BY <2>1, <2>2 DEF Lists
<1>4. CASE r.kind = "delete"
  <2>1. Edited(r, l) \in [S \ {r.ip} -> Rows]
    BY <1>1, <1>4 DEF Edited
  <2>. QED
    BY <2>1 DEF Lists
<1>5. CASE r.kind = "get"
  BY <1>5 DEF Edited
<1>. QED
  BY <1>2, <1>3, <1>4, <1>5 DEF Requests

\* The empty list is a list.
LEMMA EmptyIsList == EmptyList \in Lists
<1>1. EmptyList \in [{} -> Rows]
  BY DEF EmptyList
<1>. QED
  BY <1>1 DEF Lists

\* A thread that is not idle is serving a request.
LEMMA ServingTask ==
    ASSUME TypeOK, NEW t \in Threads, req[t].pc # "idle" \/ req[t] # Idle
    PROVE  req[t] \in Serving /\ req[t] # Idle
<1>1. Idle.pc = "idle"
  BY DEF Idle
<1>2. req[t] \in Serving \cup {Idle}
  BY DEF TypeOK
<1>. QED
  BY <1>1, <1>2

\* The request after its read is well typed.
LEMMA ReturnedType ==
    ASSUME TypeOK, NEW t \in Threads, req[t] # Idle, NEW l \in Lists
    PROVE  Returned(t, l) \in Serving \cup {Idle}
<1>1. req[t] \in Serving
  BY ServingTask
<1>2. Edited(req[t].what, l) \in Lists
  BY <1>1, EditedType DEF Serving
<1>. QED
  BY <1>1, <1>2 DEF Returned, Serving, Reading

\* A write of the file keeps the requests in progress well typed and adds the
\* list to what they have seen.
LEMMA SeenType ==
    ASSUME TypeOK, NEW l \in Lists
    PROVE  /\ Seen(l) \in [Threads -> Serving \cup {Idle}]
           /\ \A t \in Threads : req[t] = Idle => Seen(l)[t] = Idle
           /\ \A t \in Threads : req[t] # Idle =>
                /\ Seen(l)[t] # Idle
                /\ Seen(l)[t].pc = req[t].pc /\ Seen(l)[t].what = req[t].what
                /\ Seen(l)[t].edited = req[t].edited
                /\ Seen(l)[t].since = req[t].since \cup {l}
<1>1. \A t \in Threads : req[t] # Idle =>
        /\ Seen(l)[t] \in Serving
        /\ Seen(l)[t].pc = req[t].pc /\ Seen(l)[t].what = req[t].what
        /\ Seen(l)[t].edited = req[t].edited
        /\ Seen(l)[t].since = req[t].since \cup {l}
  BY ServingTask DEF Seen, Serving
<1>2. \A t \in Threads : req[t] = Idle => Seen(l)[t] = Idle
  BY DEF Seen
<1>3. \A x \in Serving : x # Idle
  <2>1. \A x \in Serving : x.pc # "idle"
    BY DEF Serving, Reading
  <2>. QED
    BY <2>1 DEF Idle
<1>. QED
  BY <1>1, <1>2, <1>3 DEF Seen

\* The initial states.
LEMMA InitIInv == Init => IInv
<1>. SUFFICES ASSUME Init PROVE IInv
  OBVIOUS
<1>1. file \in Files /\ FileShape /\ file.mtime = 1
  BY EmptyIsList DEF Init, Files, FileShape
<1>2. Booted(file, devices, lastMtime)
  BY DEF Init
<1>3. devices \in Lists \ {EmptyList} /\ lastMtime \in {0, 1} /\ Coherent
  BY <1>1, <1>2, InventoryAssumption DEF Booted, Loads, Files, Coherent
<1>4. TypeOK
  BY <1>1, <1>3 DEF Init, TypeOK
<1>. QED
  BY <1>1, <1>3, <1>4 DEF Init, IInv, PastMtimes, LockHeld, CurrentSeen, EditsFresh

\* What a read returns is fresh, and the request that goes on with it is as the
\* invariant wants it.
LEMMA ReturnStep ==
    ASSUME IInv, NEW t \in Threads, req[t] # Idle, NEW l \in Lists, FreshFor(t, l),
           req' = [req EXCEPT ![t] = Returned(t, l)], file' = file
    PROVE  /\ req' \in [Threads -> Serving \cup {Idle}]
           /\ CurrentSeen' /\ EditsFresh'
<1>. DEFINE x == Returned(t, l)
<1>1. req \in [Threads -> Serving \cup {Idle}] /\ x \in Serving \cup {Idle}
  BY ReturnedType DEF IInv, TypeOK
<1>2. req'[t] = x /\ \A u \in Threads : u # t => req'[u] = req[u]
  BY <1>1
<1>3. req[t] \in Serving
  BY ServingTask DEF IInv
<1>4. x # Idle => /\ x.since = req[t].since /\ x.what = req[t].what
                  /\ x.pc = "save" => x.edited = Edited(req[t].what, l)
  BY <1>3 DEF Returned, Serving
<1>. HIDE DEF x
<1>5. CurrentSeen'
  BY <1>2, <1>4 DEF CurrentSeen, IInv
<1>6. EditsFresh'
  <2>1. ASSUME NEW u \in Threads, req'[u] # Idle, req'[u].pc = "save",
               req'[u].what.kind \in {"add", "delete"}
        PROVE  \E k \in Lists : req'[u].edited = Edited(req'[u].what, k) /\ FreshFor(u, k)'
    <3>1. CASE u = t
      BY <1>2, <1>4, <2>1, <3>1 DEF FreshFor
    <3>2. CASE u # t
      <4>1. req'[u] = req[u]
        BY <1>2, <3>2
      <4>2. PICK k \in Lists : req[u].edited = Edited(req[u].what, k) /\ FreshFor(u, k)
        BY <2>1, <4>1 DEF IInv, EditsFresh
      <4>. QED
        BY <4>1, <4>2 DEF FreshFor
    <3>. QED
      BY <3>1, <3>2
  <2>. QED
    BY <2>1 DEF EditsFresh
<1>. QED
  BY <1>1, <1>2, <1>5, <1>6

\* A read that returns at once returns the file's list, or the file gives none.
LEMMA StatFresh ==
    ASSUME IInv, NEW t \in Threads, req[t] # Idle, Unchanged PROVE FreshFor(t, devices)
<1>1. file.list \in req[t].since
  BY DEF IInv, CurrentSeen
<1>. QED
  BY <1>1 DEF IInv, Unchanged, Coherent, FileShape, FreshFor

\* So does a read that parses the file.
LEMMA ParseFresh ==
    ASSUME IInv, NEW t \in Threads, Parse(t)
    PROVE  /\ req[t] # Idle /\ req[t].pc \in Reading
           /\ devices' \in Lists \ {EmptyList} /\ FreshFor(t, devices')
<1>1. lock # NoThread
  BY InventoryAssumption DEF Parse
<1>2. req[t] # Idle /\ req[t].pc \in Reading
  BY <1>1 DEF Parse, IInv, LockHeld
<1>3. file.list \in req[t].since
  BY <1>2 DEF IInv, CurrentSeen
<1>. QED
  BY <1>2, <1>3 DEF Parse, Loads, IInv, TypeOK, Files, FreshFor, FileShape

\* Begin, Stat and Parse leave the file alone.
LEMMA BeginIInv == ASSUME IInv, NEW t \in Threads, Begin(t) PROVE IInv'
<1>1. PICK r \in Requests : req' = [req EXCEPT ![t] =
            [pc |-> CASE r.kind = "put" -> "save" [] r.kind = "get" -> "source" [] OTHER -> "list",
             what |-> r,
             edited |-> IF r.kind = "put" THEN r.list ELSE EmptyList,
             since |-> {file.list}]]
  BY DEF Begin
<1>2. req \in [Threads -> Serving \cup {Idle}] /\ file.list \in Lists
  BY DEF IInv, TypeOK, Files
<1>3. r.kind = "put" => r.list \in Lists
  BY DEF Requests
<1>4. /\ req'[t] \in Serving /\ req'[t].since = {file.list} /\ req'[t].what = r
      /\ req'[t].pc = "save" => r.kind = "put"
  BY <1>1, <1>2, <1>3, EmptyIsList DEF Serving, Reading
<1>5. req' \in [Threads -> Serving \cup {Idle}] /\ \A u \in Threads : u # t => req'[u] = req[u]
  BY <1>1, <1>2, <1>4
<1>6. UNCHANGED <<file, devices, lastMtime, lock, stamp>> /\ lock # t
  BY InventoryAssumption DEF Begin, IInv, LockHeld
<1>7. TypeOK' /\ FileShape' /\ PastMtimes' /\ Coherent'
  BY <1>5, <1>6 DEF IInv, TypeOK, FileShape, PastMtimes, Coherent
<1>8. LockHeld'
  BY <1>5, <1>6 DEF IInv, LockHeld
<1>9. CurrentSeen'
  BY <1>4, <1>5, <1>6 DEF IInv, CurrentSeen
<1>10. EditsFresh'
  <2>1. ASSUME NEW u \in Threads, req'[u] # Idle, req'[u].pc = "save",
               req'[u].what.kind \in {"add", "delete"}
        PROVE  \E k \in Lists : req'[u].edited = Edited(req'[u].what, k) /\ FreshFor(u, k)'
    <3>1. req'[u] = req[u]
      BY <1>4, <1>5, <2>1
    <3>2. PICK k \in Lists : req[u].edited = Edited(req[u].what, k) /\ FreshFor(u, k)
      BY <2>1, <3>1 DEF IInv, EditsFresh
    <3>. QED
      BY <3>1, <3>2 DEF FreshFor
  <2>. QED
    BY <2>1 DEF EditsFresh
<1>. QED
  BY <1>7, <1>8, <1>9, <1>10 DEF IInv

\* A request compares mtimes, and takes the lock if a reload is due.
LEMMA StatIInv == ASSUME IInv, NEW t \in Threads, Stat(t) PROVE IInv'
<1>1. req[t] # Idle /\ UNCHANGED <<file, devices, lastMtime>>
  BY DEF Stat, Idle, Reading
<1>2. FileShape' /\ Coherent'
  BY <1>1 DEF IInv, FileShape, Coherent
<1>3. CASE Unchanged
  <2>1. req' = [req EXCEPT ![t] = Returned(t, devices)] /\ UNCHANGED <<lock, stamp>>
    BY <1>3 DEF Stat
  <2>2. /\ req' \in [Threads -> Serving \cup {Idle}]
        /\ CurrentSeen' /\ EditsFresh'
    BY <1>1, <1>3, <2>1, StatFresh, ReturnStep DEF IInv, TypeOK
  <2>3. LockHeld'
    BY <2>1 DEF Stat, LockHeld
  <2>. QED
    BY <1>1, <1>2, <2>1, <2>2, <2>3 DEF IInv, TypeOK, PastMtimes
<1>4. CASE ~Unchanged
  <2>1. lock' = t /\ stamp' = file.mtime /\ UNCHANGED req
    BY <1>4 DEF Stat
  <2>2. LockHeld'
    BY <1>1, <2>1 DEF Stat, LockHeld
  <2>3. TypeOK' /\ PastMtimes'
    BY <1>1, <2>1 DEF IInv, TypeOK, PastMtimes, Files
  <2>4. CurrentSeen' /\ EditsFresh'
    BY <1>1, <2>1 DEF IInv, CurrentSeen, EditsFresh, FreshFor
  <2>. QED
    BY <1>2, <2>2, <2>3, <2>4 DEF IInv
<1>. QED
  BY <1>3, <1>4

\* A reload ends, with the file's list or with the one that was.
LEMMA ParseIInv == ASSUME IInv, NEW t \in Threads, Parse(t) PROVE IInv'
<1>1. /\ req[t] # Idle
      /\ devices' \in Lists \ {EmptyList} /\ FreshFor(t, devices')
  BY ParseFresh
<1>2. /\ req' = [req EXCEPT ![t] = Returned(t, devices')]
      /\ lock' = NoThread /\ UNCHANGED <<file, stamp>>
  BY DEF Parse
<1>3. req' \in [Threads -> Serving \cup {Idle}] /\ CurrentSeen' /\ EditsFresh'
  BY <1>1, <1>2, ReturnStep
<1>4. lastMtime' \in {lastMtime, stamp}
  BY DEF Parse
<1>5. TypeOK'
  BY <1>1, <1>2, <1>3, <1>4 DEF IInv, TypeOK
<1>6. FileShape' /\ PastMtimes' /\ LockHeld'
  BY <1>2, <1>4 DEF IInv, FileShape, PastMtimes, LockHeld
<1>7. Coherent'
  BY <1>2 DEF Parse, IInv, Coherent
<1>. QED
  BY <1>3, <1>5, <1>6, <1>7 DEF IInv

\* A write of the file: whatever was remembered of it is out of date.
LEMMA WriteStep ==
    ASSUME IInv, NEW kind \in {"absent", "garbled", "list"}, NEW l \in Lists,
           kind # "list" => l = EmptyList, Writes(kind, l), lastMtime' \in {0, lastMtime},
           UNCHANGED <<devices, stamp>>
    PROVE  /\ file' \in Files /\ file'.list = l /\ lastMtime' \in Nat
           /\ FileShape' /\ PastMtimes' /\ Coherent'
<1>1. /\ file' = [kind |-> kind, list |-> l, mtime |-> file.mtime + 1]
      /\ file.mtime \in Nat /\ lastMtime \in Nat /\ stamp \in Nat
  BY DEF Writes, IInv, TypeOK, Files
<1>2. file' \in Files /\ file'.mtime = file.mtime + 1 /\ file'.list = l /\ file'.kind = kind
  BY <1>1 DEF Files
<1>3. lastMtime' < file'.mtime /\ stamp' < file'.mtime /\ file'.mtime > 0
  BY <1>1, <1>2 DEF IInv, PastMtimes
<1>. QED
  BY <1>1, <1>2, <1>3 DEF FileShape, PastMtimes, Coherent

\* What an edit has read stays fresh for it: since only grows.
LEMMA SeenStep ==
    ASSUME IInv, NEW l \in Lists, NEW u \in Threads, req'[u] = Seen(l)[u],
           req'[u] # Idle, req'[u].pc = "save", req'[u].what.kind \in {"add", "delete"}
    PROVE  \E k \in Lists : req'[u].edited = Edited(req'[u].what, k) /\ FreshFor(u, k)'
<1>1. /\ req[u] # Idle /\ req'[u].pc = req[u].pc /\ req'[u].what = req[u].what
      /\ req'[u].edited = req[u].edited /\ req'[u].since = req[u].since \cup {l}
  BY SeenType DEF IInv
<1>2. PICK k \in Lists : req[u].edited = Edited(req[u].what, k) /\ FreshFor(u, k)
  BY <1>1 DEF IInv, EditsFresh
<1>. QED
  BY <1>1, <1>2 DEF FreshFor

\* A request replaces the file.
LEMMA SaveIInv == ASSUME IInv, NEW t \in Threads, Save(t) PROVE IInv'
<1>1. req[t] \in Serving /\ req[t] # Idle
  BY ServingTask DEF Save, IInv
<1>. DEFINE l == req[t].edited
<1>2. l \in Lists
  BY <1>1 DEF Serving
<1>. HIDE DEF l
<1>3. /\ Writes("list", l) /\ lastMtime' = 0 /\ UNCHANGED <<devices, lock, stamp>>
      /\ lock = NoThread
  BY DEF Save, l
<1>4. /\ file' \in Files /\ file'.list = l /\ lastMtime' \in Nat
      /\ FileShape' /\ PastMtimes' /\ Coherent'
  BY <1>2, <1>3, WriteStep
<1>5. req' = [Seen(l) EXCEPT ![t].pc = "source", ![t].since = {l}]
  BY <1>4 DEF Save
<1>6. /\ Seen(l) \in [Threads -> Serving \cup {Idle}]
      /\ Seen(l)[t] # Idle
      /\ \A u \in Threads : req[u] # Idle => l \in Seen(l)[u].since
      /\ \A u \in Threads : req[u] = Idle => Seen(l)[u] = Idle
  BY <1>1, <1>2, SeenType DEF IInv
<1>7. Seen(l)[t] \in Serving
  BY <1>6
<1>8. /\ req'[t] \in Serving /\ req'[t].pc = "source" /\ req'[t].since = {l}
      /\ \A u \in Threads : u # t => req'[u] = Seen(l)[u]
      /\ req' \in [Threads -> Serving \cup {Idle}]
  BY <1>2, <1>5, <1>6, <1>7 DEF Serving, Reading
<1>9. TypeOK' /\ LockHeld'
  BY <1>3, <1>4, <1>8 DEF IInv, TypeOK, LockHeld
<1>10. CurrentSeen'
  BY <1>4, <1>6, <1>8 DEF CurrentSeen
<1>11. EditsFresh'
  <2>1. ASSUME NEW u \in Threads, req'[u] # Idle, req'[u].pc = "save",
               req'[u].what.kind \in {"add", "delete"}
        PROVE  \E k \in Lists : req'[u].edited = Edited(req'[u].what, k) /\ FreshFor(u, k)'
    <3>1. req'[u] = Seen(l)[u]
      BY <1>8, <2>1
    <3>. QED
      BY <1>2, <2>1, <3>1, SeenStep
  <2>. QED
    BY <2>1 DEF EditsFresh
<1>. QED
  BY <1>4, <1>9, <1>10, <1>11 DEF IInv

\* A person replaces the file.
LEMMA EditIInv == ASSUME IInv, Edit PROVE IInv'
<1>1. PICK kind \in {"absent", "garbled", "list"}, l \in Lists :
         (kind # "list" => l = EmptyList) /\ Writes(kind, l)
  BY DEF Edit
<1>2. UNCHANGED <<devices, lastMtime, lock, stamp>>
  BY DEF Edit
<1>3. /\ file' \in Files /\ file'.list = l /\ lastMtime' \in Nat
      /\ FileShape' /\ PastMtimes' /\ Coherent'
  BY <1>1, <1>2, WriteStep
<1>4. req' = Seen(l)
  BY <1>3 DEF Edit
<1>5. /\ req' \in [Threads -> Serving \cup {Idle}]
      /\ \A u \in Threads : req[u] = Idle => req'[u] = Idle
      /\ \A u \in Threads : req[u] # Idle =>
            req'[u] # Idle /\ req'[u].pc = req[u].pc /\ l \in req'[u].since
  BY <1>4, SeenType DEF IInv
<1>6. TypeOK' /\ LockHeld'
  BY <1>2, <1>3, <1>5 DEF IInv, TypeOK, LockHeld
<1>7. CurrentSeen'
  BY <1>3, <1>5 DEF CurrentSeen
<1>8. EditsFresh'
  BY <1>4, SeenStep DEF EditsFresh
<1>. QED
  BY <1>3, <1>6, <1>7, <1>8 DEF IInv

\* A failed parse or save ends a request, a restart ends them all.
LEMMA EndIInv ==
    ASSUME IInv, (\E t \in Threads : ParseRaises(t) \/ SaveFails(t)) \/ Restart PROVE IInv'
<1>1. ASSUME NEW t \in Threads, ParseRaises(t) \/ SaveFails(t) PROVE IInv'
  <2>1. /\ req \in [Threads -> Serving \cup {Idle}] /\ req' = [req EXCEPT ![t] = Idle]
        /\ UNCHANGED <<file, devices, lastMtime, stamp>> /\ lock' = NoThread
    BY <1>1 DEF ParseRaises, SaveFails, IInv, TypeOK
  <2>2. TypeOK' /\ FileShape' /\ PastMtimes' /\ LockHeld' /\ Coherent' /\ CurrentSeen'
    BY <2>1 DEF IInv, TypeOK, FileShape, PastMtimes, LockHeld, Coherent, CurrentSeen
  <2>3. EditsFresh'
    BY <2>1 DEF IInv, EditsFresh, FreshFor
  <2>. QED
    BY <2>2, <2>3 DEF IInv
<1>2. CASE Restart
  <2>1. /\ devices' \in Lists \ {EmptyList} /\ lastMtime' \in Nat /\ lastMtime' <= file.mtime
        /\ Coherent'
    BY <1>2, InventoryAssumption
       DEF Restart, Booted, Loads, IInv, TypeOK, Files, PastMtimes, Coherent
  <2>2. TypeOK' /\ FileShape' /\ PastMtimes'
    BY <1>2, <2>1 DEF Restart, IInv, TypeOK, FileShape, PastMtimes
  <2>3. LockHeld' /\ CurrentSeen' /\ EditsFresh'
    BY <1>2 DEF Restart, LockHeld, CurrentSeen, EditsFresh
  <2>. QED
    BY <2>1, <2>2, <2>3 DEF IInv
<1>. QED
  BY <1>1, <1>2

\* Every step preserves the invariant.
LEMMA NextIInv == IInv /\ [Next]_vars => IInv'
<1>. SUFFICES ASSUME IInv, [Next]_vars PROVE IInv'
  OBVIOUS
<1>1. CASE UNCHANGED vars
  <2>1. TypeOK' /\ FileShape' /\ PastMtimes' /\ LockHeld' /\ Coherent' /\ CurrentSeen'
    BY <1>1 DEF vars, IInv, TypeOK, FileShape, PastMtimes, LockHeld, Coherent, CurrentSeen
  <2>2. EditsFresh'
    BY <1>1 DEF vars, IInv, EditsFresh, FreshFor
  <2>. QED
    BY <2>1, <2>2 DEF IInv
<1>2. CASE Next
  BY <1>2, BeginIInv, StatIInv, ParseIInv, SaveIInv, EditIInv, EndIInv DEF Next
<1>. QED
  BY <1>1, <1>2

\* Whatever the threads and the operators do, the inventory keeps its types and
\* there is always a switch to serve.
THEOREM TypeCorrect == Spec => []TypeOK
<1>1. IInv => TypeOK
  BY DEF IInv
<1>. QED
  BY <1>1, InitIInv, NextIInv, PTL DEF Spec

\* The remembered mtime never vouches for a list that is not the file's.
THEOREM NeverStale == Spec => []Coherent
<1>1. IInv => Coherent
  BY DEF IInv
<1>. QED
  BY <1>1, InitIInv, NextIInv, PTL DEF Spec

\* Reads are fresh: a list is returned only if the file has held it since the
\* request began, or if the file gave no list for a while.
THEOREM FreshReads == Spec => ReadsAreFresh
<1>1. ASSUME IInv, NEW t \in Threads, Returns(t)
      PROVE  devices' \in req[t].since \/ EmptyList \in req[t].since
  <2>1. CASE Stat(t)
    <3>1. Unchanged /\ req[t] # Idle /\ devices' = devices
      BY <1>1, <2>1 DEF Stat, Returns, Idle, Reading
    <3>. QED
      BY <1>1, <3>1, StatFresh DEF FreshFor
  <2>2. CASE Parse(t)
    BY <1>1, <2>2, ParseFresh DEF FreshFor
  <2>. QED
    BY <1>1, <2>1, <2>2 DEF Returns
<1>2. IInv /\ [Next]_vars =>
        [\A t \in Threads :
            Returns(t) => devices' \in req[t].since \/ EmptyList \in req[t].since]_vars
  BY <1>1
<1>. QED
  BY <1>2, InitIInv, NextIInv, PTL DEF Spec, ReadsAreFresh

\* An edit changes the row it names and no other.
LEMMA EditedAgrees ==
    ASSUME NEW r \in Requests, r.kind \in {"add", "delete"}, NEW l \in Lists,
           NEW ip \in Ips \ {r.ip}
    PROVE  Agree(l, Edited(r, l), ip)
<1>1. CASE r.kind = "add"
  <2>1. Edited(r, l) = [i \in DOMAIN l \cup {r.ip} |-> IF i = r.ip THEN r.row ELSE l[i]]
    BY <1>1 DEF Edited
  <2>. QED
    BY <2>1 DEF Agree
<1>2. CASE r.kind = "delete"
  <2>1. Edited(r, l) = [i \in DOMAIN l \ {r.ip} |-> l[i]]
    BY <1>2 DEF Edited
  <2>. QED
    BY <2>1 DEF Agree
<1>. QED
  BY <1>1, <1>2

\* An edit that no other write meets changes the switch it names and no other.
THEOREM EditsStayLocal == Spec => AloneEditsOne
<1>1. ASSUME IInv, NEW t \in Threads, Save(t), req[t].what.kind \in {"add", "delete"},
             req[t].since = {file.list}, file.list # EmptyList,
             NEW ip \in Ips \ {req[t].what.ip}
      PROVE  Agree(file.list, file'.list, ip)
  <2>1. req[t] \in Serving /\ req[t] # Idle
    BY <1>1, ServingTask DEF Save, IInv
  <2>2. PICK l \in Lists : req[t].edited = Edited(req[t].what, l) /\ FreshFor(t, l)
    BY <1>1, <2>1 DEF IInv, EditsFresh, Save
  <2>3. l = file.list
    BY <1>1, <2>2 DEF FreshFor
  <2>4. file'.list = Edited(req[t].what, file.list)
    BY <1>1, <2>2, <2>3 DEF Save, Writes
  <2>. QED
    BY <1>1, <2>1, <2>3, <2>4, EditedAgrees DEF Serving
<1>2. IInv /\ [Next]_vars =>
        [\A t \in Threads :
            /\ Save(t)
            /\ req[t].what.kind \in {"add", "delete"}
            /\ req[t].since = {file.list}
            /\ file.list # EmptyList
            => \A ip \in Ips \ {req[t].what.ip} : Agree(file.list, file'.list, ip)]_vars
  BY <1>1
<1>. QED
  BY <1>2, InitIInv, NextIInv, PTL DEF Spec, AloneEditsOne

=============================================================================
