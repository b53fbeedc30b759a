------------------------------ MODULE IntentFile ------------------------------
(***************************************************************************)
(* GET and PUT /fabric/intent: a PUT writes a temporary file of a fixed    *)
(* name and renames it over the file.  The file system is modelled by what *)
(* the names stand for and what was written to it: two PUTs may have the   *)
(* same temporary file open, and either may rename it.                     *)
(***************************************************************************)
EXTENDS ServerClock

CONSTANTS
    Texts,         \* the intents that clients put, as written
    Empty,         \* contents of a file that was opened for writing
    Torn,          \* contents of a file that is written in part, or by two
    MaxPuts,       \* bounds the PUTs
    MaxCrashes     \* bounds the restarts

ASSUME IntentAssumption ==
    /\ None \notin Texts \cup {Empty, Torn}
    /\ Empty # Torn /\ Empty \notin Texts /\ Torn \notin Texts
    /\ MaxPuts \in Nat /\ MaxCrashes \in Nat

VARIABLES
    contents,      \* of each file ever created, by its number
    path,          \* the file of the intent, or None
    tmp,           \* the temporary file, or None
    put,           \* what every thread is doing
    puts,          \* PUTs so far
    crashes,       \* restarts so far
    met,           \* history: two PUTs have overlapped
    current,       \* history: the texts that the file may hold
    seen           \* history: what the last GET of each thread has read

intentVars == <<contents, path, tmp, put, puts, crashes, met, current, seen>>

Files == 1..MaxPuts
NoPut == [pc |-> "idle"]
Again == [pc |-> "again"]
Putting == {t \in Threads : put[t] \notin {NoPut, Again}}

\* A PUT under way has its text, and the file that it will create or has opened; files
\* are called by the number of the PUT that creates them.
IntentTypeOK ==
    /\ contents \in [Files -> Texts \cup {Empty, Torn, None}]
    /\ path \in Files \cup {None} /\ tmp \in Files \cup {None}
    /\ \A f \in {path, tmp} \ {None} : contents[f] # None
    /\ put \in [Threads -> [pc : {"open", "write", "replace", "reply"}, text : Texts,
                            file : Files] \cup {NoPut, Again}]
    /\ puts \in 0..MaxPuts /\ crashes \in 0..MaxCrashes
    /\ met \in BOOLEAN
    /\ current \subseteq Texts \cup {None}
    /\ seen \in [Threads -> Texts \cup {Empty, Torn, None}]

IntentInit ==
    /\ contents = [f \in Files |-> None]
    /\ path = None /\ tmp = None
    /\ put = [t \in Threads |-> NoPut]
    /\ puts = 0 /\ crashes = 0
    /\ met = FALSE
    /\ current = {None}
    /\ seen = [t \in Threads |-> None]

\* A PUT whose body is a JSON object; any other body is refused without a trace.
Put(t, text) ==
    /\ put[t] = NoPut
    /\ puts < MaxPuts
    /\ puts' = puts + 1
    /\ met' = (met \/ Putting # {})
    /\ put' = [put EXCEPT ![t] = [pc |-> "open", text |-> text, file |-> puts + 1]]
    /\ UNCHANGED <<contents, path, tmp, crashes, current, seen>>

PutAt(t, pc) == put[t].pc = pc

\* write_text opens the temporary file: a new one, or the one there is, cut to nothing.
Open(t) ==
    /\ PutAt(t, "open")
    /\ LET f == IF tmp # None THEN tmp ELSE put[t].file
       IN /\ contents' = [contents EXCEPT ![f] = Empty]
          /\ tmp' = f
          /\ put' = [put EXCEPT ![t].pc = "write", ![t].file = f]
    /\ UNCHANGED <<path, puts, crashes, met, current, seen>>

\* What is in a file after a text was written to it from its start.
Written(old, text) == IF old \in {Empty, text} THEN text ELSE Torn

Write(t) ==
    /\ PutAt(t, "write")
    /\ contents' = [contents EXCEPT ![put[t].file] = Written(@, put[t].text)]
    /\ put' = [put EXCEPT ![t].pc = "replace"]
    /\ UNCHANGED <<path, tmp, puts, crashes, met, current, seen>>

\* Mutant: the rename is done whether or not the text was written.
MutWriteFails(t) ==
    /\ PutAt(t, "write")
    /\ contents' = [contents EXCEPT ![put[t].file] = Torn]
    /\ put' = [put EXCEPT ![t].pc = "replace"]
    /\ UNCHANGED <<path, tmp, puts, crashes, met, current, seen>>

\* The disk is full: an OSError, and the temporary file stays.
WriteFails(t) ==
    /\ PutAt(t, "write")
    /\ contents' = [contents EXCEPT ![put[t].file] = Torn]
    /\ put' = [put EXCEPT ![t] = NoPut]
    /\ UNCHANGED <<path, tmp, puts, crashes, met, current, seen>>

\* The temporary file of this moment is renamed, whoever wrote it.
Replace(t) ==
    /\ PutAt(t, "replace")
    /\ tmp # None
    /\ path' = tmp
    /\ tmp' = None
    /\ current' = current \cup {put[t].text}
    /\ put' = [put EXCEPT ![t].pc = "reply"]
    /\ UNCHANGED <<contents, puts, crashes, met, seen>>

\* An OSError that leaves the files as they are: of mkdir or the opening, or of the rename,
\* for one because another PUT has renamed the file.
PutFails(t) ==
    /\ PutAt(t, "open") \/ PutAt(t, "replace")
    /\ put' = [put EXCEPT ![t] = NoPut]
    /\ UNCHANGED <<contents, path, tmp, puts, crashes, met, current, seen>>

Reply(t) ==
    /\ PutAt(t, "reply")
    /\ current' = {put[t].text}
    /\ put' = [put EXCEPT ![t] = NoPut]
    /\ UNCHANGED <<contents, path, tmp, puts, crashes, met, seen>>

Contents == IF path = None THEN None ELSE contents[path]

\* fabric_intent_get: text that does not parse is read again for the answer.
Get(t) ==
    /\ put[t] = NoPut
    /\ IF Contents \in {Empty, Torn}
         THEN put' = [put EXCEPT ![t] = Again] /\ UNCHANGED seen
         ELSE seen' = [seen EXCEPT ![t] = Contents] /\ UNCHANGED put
    /\ UNCHANGED <<contents, path, tmp, puts, crashes, met, current>>

GetAgain(t) ==
    /\ PutAt(t, "again")
    /\ seen' = [seen EXCEPT ![t] = Contents]
    /\ put' = [put EXCEPT ![t] = NoPut]
    /\ UNCHANGED <<contents, path, tmp, puts, crashes, met, current>>

\* The process dies and starts again; what is on disk stays.
Restart ==
    /\ crashes < MaxCrashes
    /\ crashes' = crashes + 1
    /\ put' = [t \in Threads |-> NoPut]
    /\ UNCHANGED <<contents, path, tmp, puts, met, current, seen>>

IntentNext ==
    \/ \E t \in Threads :
           \/ Open(t) \/ Write(t) \/ WriteFails(t) \/ Replace(t) \/ PutFails(t) \/ Reply(t)
           \/ Get(t) \/ GetAgain(t)
           \/ \E text \in Texts : Put(t, text)
    \/ Restart

IntentSpec == IntentInit /\ [][IntentNext]_intentVars

----------------------------------------------------------------------------
\* As long as no two PUTs overlap, and whatever fails or dies in between, the file holds
\* a whole intent: the one that was acknowledged last, or one whose PUT has renamed it and
\* was not answered; and nobody has read anything else than whole intents.
IntentKept ==
    ~met =>
        /\ Contents \in current
        /\ \A t \in Threads : seen[t] \in Texts \cup {None}

\* What the docstring of fabric_intent_put promises: readers never see a half-written
\* file.  Two PUTs that overlap break it.
ReadersSeeWhole == \A t \in Threads : seen[t] \in Texts \cup {None}

=============================================================================
