----------------------------- MODULE SessionStore -----------------------------
(***************************************************************************)
(* SessionStore.get_or_create, as the threads of the server run it: without *)
(* a lock, on two dictionaries that it keeps in step only between calls.   *)
(* Another thread may run between any two steps: the turns of the loops    *)
(* and the statements that read or write a dictionary.  A dictionary that  *)
(* has changed its size under a loop makes the loop raise.                 *)
(*                                                                         *)
(* A session object is named by the call that created it.  A request       *)
(* without an id stands for one with an id that nobody has used: the code  *)
(* makes one up.                                                           *)
(***************************************************************************)
EXTENDS ServerClock, FiniteSets

CONSTANTS
    Ids,           \* session ids
    MaxSessions,
    Ttl,           \* time without a call after which a session is evicted
    MaxCalls       \* bounds the calls

ASSUME SessionAssumption ==
    /\ MaxSessions \in Nat \ {0} /\ Ttl \in Nat /\ MaxCalls \in Nat
    /\ None \notin Ids \cup [object : Nat, at : Nat]
    /\ IsFiniteSet(Ids) /\ IsFiniteSet(Threads)

VARIABLES
    sessions,      \* the object of each id
    lastSeen,      \* when each id was last asked for
    call,          \* what every thread is doing
    calls,         \* calls so far
    overlapped,    \* history: calls that ran beside another one
    given          \* history: the object each id was given last, and when

sessVars == <<time, sessions, lastSeen, call, calls, overlapped, given>>

NoCall == [pc |-> "idle"]
Busy == {t \in Threads : call[t] # NoCall}
Keys(dict) == {i \in Ids : dict[i] # None}

\* A call past its start: its number, its id and the clock it has read last; the loop
\* that is under way, with the size it started from, the ids it has looked at and those
\* it has found; the id that is being popped; and if another call ran beside this one.
CallRecords ==
    [pc : {"scan", "pop", "unsee", "check", "touch", "fetch", "room", "least", "oldest",
           "insert", "stamp"},
     number : Nat, id : Ids, now : Times, size : Nat, looked : SUBSET Ids,
     doomed : SUBSET Ids, least : Times, current : Ids \cup {None},
     next : {"check", "insert"}, met : BOOLEAN]

SessTypeOK ==
    /\ time \in Times
    /\ sessions \in [Ids -> Nat \cup {None}]
    /\ lastSeen \in [Ids -> Times \cup {None}]
    /\ call \in [Threads -> CallRecords \cup {NoCall}]
    /\ calls \in Nat
    /\ overlapped \in Nat
    /\ given \in [Ids -> [object : Nat, at : Times] \cup {None}]

SessInit ==
    /\ ClockInit
    /\ sessions = [i \in Ids |-> None]
    /\ lastSeen = [i \in Ids |-> None]
    /\ call = [t \in Threads |-> NoCall]
    /\ calls = 0
    /\ overlapped = 0
    /\ given = [i \in Ids |-> None]

SessTick == Tick /\ UNCHANGED <<sessions, lastSeen, call, calls, overlapped, given>>

\* A request comes; _evict_expired reads the clock and starts its loop.
Begin(t, id) ==
    /\ call[t] = NoCall
    /\ calls < MaxCalls
    /\ calls' = calls + 1
    /\ overlapped' = overlapped + Cardinality({u \in Busy : ~call[u].met})
                     + (IF Busy = {} THEN 0 ELSE 1)
    /\ call' = [u \in Threads |->
           IF u = t THEN [pc |-> "scan", number |-> calls + 1, id |-> id, now |-> time,
                          size |-> Cardinality(Keys(lastSeen)), looked |-> {},
                          doomed |-> {}, least |-> 0, current |-> None,
                          next |-> "check", met |-> Busy # {}]
           ELSE IF u \in Busy THEN [call[u] EXCEPT !.met = TRUE] ELSE NoCall]
    /\ UNCHANGED <<time, sessions, lastSeen, given>>

CallAt(t, pc) == call[t] # NoCall /\ call[t].pc = pc

\* The ids a loop has still to look at; it goes on while the size is what it was.
Ahead(t) == Keys(lastSeen) \ call[t].looked
SameSize(t) == Cardinality(Keys(lastSeen)) = call[t].size

Fails(t) ==
    /\ call' = [call EXCEPT ![t] = NoCall]
    /\ UNCHANGED <<time, sessions, lastSeen, calls, overlapped, given>>

\* RuntimeError: the dictionary has changed its size during the iteration.
LoopRaises(t) == (CallAt(t, "scan") \/ CallAt(t, "oldest")) /\ ~SameSize(t) /\ Fails(t)

\* Mutant: a session expires a moment early.
MutExpired(t, i) == call[t].now - lastSeen[i] >= Ttl

Expired(t, i) == call[t].now - lastSeen[i] > Ttl

\* A turn of the comprehension in _evict_expired, or its end.
Scan(t) ==
    /\ CallAt(t, "scan") /\ SameSize(t)
    /\ \/ \E i \in Ahead(t) :
              call' = [call EXCEPT ![t].looked = @ \cup {i},
                                   ![t].doomed = IF Expired(t, i) THEN @ \cup {i} ELSE @]
       \/ /\ Ahead(t) = {}
          /\ call' = [call EXCEPT ![t].pc = IF call[t].doomed = {} THEN "check" ELSE "pop"]
    /\ UNCHANGED <<time, sessions, lastSeen, calls, overlapped, given>>

\* The two pops of an eviction, which do not mind a missing key.
Pop(t) ==
    /\ CallAt(t, "pop")
    /\ \E i \in call[t].doomed :
           /\ sessions' = [sessions EXCEPT ![i] = None]
           /\ call' = [call EXCEPT ![t].pc = "unsee", ![t].current = i]
    /\ UNCHANGED <<time, lastSeen, calls, overlapped, given>>

Unsee(t) ==
    /\ CallAt(t, "unsee")
    /\ lastSeen' = [lastSeen EXCEPT ![call[t].current] = None]
    /\ LET left == call[t].doomed \ {call[t].current}
       IN call' = [call EXCEPT ![t].pc = IF left = {} THEN call[t].next ELSE "pop",
                               ![t].doomed = left, ![t].current = None]
    /\ UNCHANGED <<time, sessions, calls, overlapped, given>>

\* Is there a session of this id?
Check(t) ==
    /\ CallAt(t, "check")
    /\ call' = [call EXCEPT ![t].pc = IF sessions[call[t].id] # None THEN "touch" ELSE "room"]
    /\ UNCHANGED <<time, sessions, lastSeen, calls, overlapped, given>>

Touch(t) ==
    /\ CallAt(t, "touch")
    /\ lastSeen' = [lastSeen EXCEPT ![call[t].id] = time]
    /\ call' = [call EXCEPT ![t].pc = "fetch", ![t].now = time]
    /\ UNCHANGED <<time, sessions, calls, overlapped, given>>

\* The call ends with an object for its id.
Gives(t, object, at) ==
    /\ given' = [given EXCEPT ![call[t].id] = [object |-> object, at |-> at]]
    /\ call' = [call EXCEPT ![t] = NoCall]

\* The dictionary is looked up once more.
Fetch(t) ==
    /\ CallAt(t, "fetch")
    /\ sessions[call[t].id] # None
    /\ Gives(t, sessions[call[t].id], call[t].now)
    /\ UNCHANGED <<time, sessions, lastSeen, calls, overlapped>>

\* KeyError: the session has gone since the check.
FetchRaises(t) == CallAt(t, "fetch") /\ sessions[call[t].id] = None /\ Fails(t)

\* Mutant: the store is full at its capacity only, not beyond it.
MutRoom(t) ==
    /\ CallAt(t, "room")
    /\ LET full == Cardinality(Keys(sessions)) = MaxSessions
       IN call' = [call EXCEPT ![t].pc = IF full THEN "least" ELSE "insert"]
    /\ UNCHANGED <<time, sessions, lastSeen, calls, overlapped, given>>

Room(t) ==
    /\ CallAt(t, "room")
    /\ LET full == Cardinality(Keys(sessions)) >= MaxSessions
       IN call' = [call EXCEPT ![t].pc = IF full THEN "least" ELSE "insert"]
    /\ UNCHANGED <<time, sessions, lastSeen, calls, overlapped, given>>

\* _evict_oldest starts its loop, unless no id was ever seen.
Least(t) ==
    /\ CallAt(t, "least")
    /\ call' = [call EXCEPT ![t].pc = IF Keys(lastSeen) = {} THEN "insert" ELSE "oldest",
                            ![t].size = Cardinality(Keys(lastSeen)), ![t].looked = {}]
    /\ UNCHANGED <<time, sessions, lastSeen, calls, overlapped, given>>

\* A turn of min, or its end.
Oldest(t) ==
    /\ CallAt(t, "oldest") /\ SameSize(t)
    /\ \/ \E i \in Ahead(t) :
              LET better == call[t].doomed = {} \/ lastSeen[i] < call[t].least
              IN call' = [call EXCEPT ![t].looked = @ \cup {i},
                                      ![t].doomed = IF better THEN {i} ELSE @,
                                      ![t].least = IF better THEN lastSeen[i] ELSE @]
       \/ /\ Ahead(t) = {} /\ call[t].doomed # {}
          /\ call' = [call EXCEPT ![t].pc = "pop", ![t].next = "insert"]
    /\ UNCHANGED <<time, sessions, lastSeen, calls, overlapped, given>>

Insert(t) ==
    /\ CallAt(t, "insert")
    /\ sessions' = [sessions EXCEPT ![call[t].id] = call[t].number]
    /\ call' = [call EXCEPT ![t].pc = "stamp"]
    /\ UNCHANGED <<time, lastSeen, calls, overlapped, given>>

\* The new object is returned, whatever the dictionary holds by now.
Stamp(t) ==
    /\ CallAt(t, "stamp")
    /\ lastSeen' = [lastSeen EXCEPT ![call[t].id] = time]
    /\ Gives(t, call[t].number, time)
    /\ UNCHANGED <<time, sessions, calls, overlapped>>

SessStep(t) ==
    \/ LoopRaises(t) \/ Scan(t) \/ Pop(t) \/ Unsee(t)
    \/ Check(t) \/ Touch(t) \/ Fetch(t) \/ FetchRaises(t)
    \/ Room(t) \/ Least(t) \/ Oldest(t) \/ Insert(t) \/ Stamp(t)

SessNext == SessTick \/ \E t \in Threads : SessStep(t) \/ \E id \in Ids : Begin(t, id)

SessSpec == SessInit /\ [][SessNext]_sessVars

----------------------------------------------------------------------------
\* The cap holds but for calls that overlap, in every moment: the sessions in excess are
\* at most as many as the calls that ran beside another one, however their statements
\* mix and whatever they leave for the later calls to evict.  The ids of the two
\* dictionaries together are no more than that either, but for those whose session is
\* popped and whose time is about to be.  Without any overlap every session has its time
\* and every time its session whenever no call is under way.
CapHolds ==
    /\ Cardinality(Keys(sessions)) <= MaxSessions + overlapped
    /\ Cardinality(Keys(sessions) \cup Keys(lastSeen)) <=
           MaxSessions + overlapped + Cardinality({t \in Busy : call[t].pc = "unsee"})
    /\ Busy = {} /\ overlapped = 0 => Keys(sessions) = Keys(lastSeen)

\* As long as no two calls overlap, a client finds its session again: it is only evicted
\* after it was idle for longer than Ttl, or when MaxSessions others were given a session
\* no earlier.
SessionKept ==
    overlapped = 0 /\ Busy = {} =>
        \A i \in Keys(given) :
            LET rivals == {j \in Keys(given) \ {i} : given[j].at >= given[i].at}
            IN time - given[i].at <= Ttl /\ Cardinality(rivals) < MaxSessions =>
                   sessions[i] = given[i].object

=============================================================================
