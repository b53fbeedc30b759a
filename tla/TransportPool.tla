---------------------------- MODULE TransportPool ----------------------------
(***************************************************************************)
(* The connections of SonicTransport: one SSH client and one RESTCONF      *)
(* session per switch, shared by all calls of the process, and             *)
(* POST /inventory/probe, which puts an inventory of its own into the      *)
(* shared transports while it tries a switch with the logins it was given. *)
(*                                                                         *)
(* A client or a session is named by the call that opened it: no call      *)
(* opens two.  Only what a login is for is modelled, not what is sent.     *)
(***************************************************************************)
CONSTANTS
    Switches,
    Logins,        \* user names with their passwords
    EnvLogin,      \* the login for a switch that no inventory entry overrides
    Threads,       \* threads of the server
    Calls,         \* calls of a behaviour: bounds it
    Probes,        \* those among them that are probes
    None           \* Python's None

ASSUME PoolAssumption ==
    /\ EnvLogin \in Logins
    /\ Probes \subseteq Calls
    /\ None \notin Switches \cup Logins \cup Threads \cup Calls

VARIABLES
    listed,      \* the login that the live inventory resolves for each switch
    override,    \* the inventory of a probe while it is in place, or None
    probeLock,   \* the thread that holds _probe_lock, or None
    clients,     \* SonicSshTransport._clients
    open,        \* SSH clients whose connection is up
    sessions,    \* SonicRestconfTransport._sessions
    login,       \* the login each client or session was opened with
    sshLock,     \* the thread that holds _lock of the SSH transport while it connects
    task,        \* what every thread is doing
    fresh,       \* calls that have not been made yet
    popped       \* history: clients a probe has taken out of the pool

vars == <<listed, override, probeLock, clients, open, sessions, login, sshLock, task, fresh, popped>>

Idle == [pc |-> "idle"]

\* The stages of SonicSshTransport.run, of a RESTCONF request, and of a probe.
RunPcs == {"acquire", "connect", "exec", "failed"}
RestPcs == {"session", "request"}
InPlacePcs == RunPcs \cup RestPcs \cup {"pop", "restore"}

\* A call on a switch; probe is the login that it tries, None if it is no probe.
\* The client is the one its command runs on.
Tasks == [pc : InPlacePcs \cup {"swap", "unpool"}, call : Calls, switch : Switches,
          probe : Logins \cup {None}, client : Calls \cup {None}]

Overrides == [switch : Switches, login : Logins]

\* The types; and whatever is open was opened with a login.
TypeOK ==
    /\ listed \in [Switches -> Logins]
    /\ override \in Overrides \cup {None}
    /\ probeLock \in Threads \cup {None}
    /\ clients \in [Switches -> Calls \cup {None}]
    /\ open \subseteq Calls
    /\ sessions \in [Switches -> Calls \cup {None}]
    /\ login \in [Calls -> Logins \cup {None}] /\ \A c \in open : login[c] # None
    /\ sshLock \in Threads \cup {None}
    /\ task \in [Threads -> Tasks \cup {Idle}]
    /\ fresh \subseteq Calls
    /\ popped \subseteq Calls

----------------------------------------------------------------------------

\* Mutant: a switch that the inventory in place does not list has no login.
MutResolved(s) ==
    IF override = None THEN listed[s]
    ELSE IF override.switch = s THEN override.login ELSE None

\* The login for switch s under the inventory in place: that of a probe lists one
\* switch, and for all others resolve makes up an entry without overrides.
Resolved(s) ==
    IF override = None THEN listed[s]
    ELSE IF override.switch = s THEN override.login ELSE EnvLogin

Init ==
    /\ listed \in [Switches -> Logins]
    /\ override = None
    /\ probeLock = None
    /\ clients = [s \in Switches |-> None]
    /\ open = {}
    /\ sessions = [s \in Switches |-> None]
    /\ login = [c \in Calls |-> None]
    /\ sshLock = None
    /\ task = [t \in Threads |-> Idle]
    /\ fresh = Calls
    /\ popped = {}

\* A handler runs a command over SSH or makes a RESTCONF request, or a client asks
\* for a probe.
Begin(t) ==
    /\ task[t] = Idle
    /\ \E c \in fresh, s \in Switches, p \in Logins \cup {None},
          pc \in {"acquire", "session", "swap"} :
         /\ c \in Probes <=> pc = "swap"
         /\ p # None <=> pc = "swap"
         /\ fresh' = fresh \ {c}
         /\ task' = [task EXCEPT ![t] =
                [pc |-> pc, call |-> c, switch |-> s, probe |-> p, client |-> None]]
    /\ UNCHANGED <<listed, override, probeLock, clients, open, sessions, login, sshLock, popped>>

\* inventory_probe takes its lock and swaps the inventory of both transports.
Swap(t) ==
    /\ task[t].pc = "swap"
    /\ probeLock = None
    /\ probeLock' = t
    /\ override' = [switch |-> task[t].switch, login |-> task[t].probe]
    /\ task' = [task EXCEPT ![t].pc = "pop"]
    /\ UNCHANGED <<listed, clients, open, sessions, login, sshLock, fresh, popped>>

\* What the probe takes out of both pools, under neither of their locks.  The
\* client is not closed.
Unpooled(s) ==
    /\ sessions' = [sessions EXCEPT ![s] = None]
    /\ clients' = [clients EXCEPT ![s] = None]
    /\ popped' = popped \cup ({clients[s]} \ {None})

Pop(t) ==
    /\ task[t].pc = "pop"
    /\ Unpooled(task[t].switch)
    /\ task' = [task EXCEPT ![t].pc = "session"]
    /\ UNCHANGED <<listed, override, probeLock, open, login, sshLock, fresh>>

\* The task of t after its SSH run or its RESTCONF request.  The two runs of a
\* probe share nothing but its inventory, so one after the other stands for both.
Finished(t) ==
    IF task[t].probe = None THEN Idle
    ELSE [task[t] EXCEPT !.pc = IF @ = "request" THEN "acquire" ELSE "restore"]

----------------------------------------------------------------------------
(* SonicRestconfTransport.request.                                         *)

\* _session_for: one critical section, without a connection.
Session(t) ==
    /\ task[t].pc = "session"
    /\ LET s == task[t].switch
       IN  IF sessions[s] # None
             THEN UNCHANGED <<sessions, login>>
             ELSE /\ sessions' = [sessions EXCEPT ![s] = task[t].call]
                  /\ login' = [login EXCEPT ![task[t].call] = Resolved(s)]
    /\ task' = [task EXCEPT ![t].pc = "request"]
    /\ UNCHANGED <<listed, override, probeLock, clients, open, sshLock, fresh, popped>>

\* The answer or the error: a session is kept either way.
Request(t) ==
    /\ task[t].pc = "request"
    /\ task' = [task EXCEPT ![t] = Finished(t)]
    /\ UNCHANGED <<listed, override, probeLock, clients, open, sessions, login, sshLock,
                   fresh, popped>>

----------------------------------------------------------------------------
(* SonicSshTransport.run.                                                  *)

\* _client_for finds a live client; or it keeps the lock, looks up the login and
\* goes on to connect.
Acquire(t) ==
    /\ task[t].pc = "acquire"
    /\ sshLock = None
    /\ LET s == task[t].switch
       IN  IF clients[s] \in open
             THEN /\ task' = [task EXCEPT ![t].pc = "exec", ![t].client = clients[s]]
                  /\ UNCHANGED <<login, sshLock>>
             ELSE /\ task' = [task EXCEPT ![t].pc = "connect"]
                  /\ login' = [login EXCEPT ![task[t].call] = Resolved(s)]
                  /\ sshLock' = t
    /\ UNCHANGED <<listed, override, probeLock, clients, open, sessions, fresh, popped>>

Connect(t) ==
    /\ task[t].pc = "connect"
    /\ clients' = [clients EXCEPT ![task[t].switch] = task[t].call]
    /\ open' = open \cup {task[t].call}
    /\ sshLock' = None
    /\ task' = [task EXCEPT ![t].pc = "exec", ![t].client = task[t].call]
    /\ UNCHANGED <<listed, override, probeLock, sessions, login, fresh, popped>>

\* Mutant: keeps the lock when the switch does not answer.
MutConnectFails(t) ==
    /\ task[t].pc = "connect"
    /\ task' = [task EXCEPT ![t].pc = "failed"]
    /\ UNCHANGED <<listed, override, probeLock, clients, open, sessions, login, sshLock,
                   fresh, popped>>

\* No route, a refused login, or the timeout.
ConnectFails(t) ==
    /\ task[t].pc = "connect"
    /\ sshLock' = None
    /\ task' = [task EXCEPT ![t].pc = "failed"]
    /\ UNCHANGED <<listed, override, probeLock, clients, open, sessions, login, fresh, popped>>

\* The command ends with an exit status, -1 if another call has closed the client.
Exec(t) ==
    /\ task[t].pc = "exec"
    /\ task' = [task EXCEPT ![t] = Finished(t)]
    /\ UNCHANGED <<listed, override, probeLock, clients, open, sessions, login, sshLock,
                   fresh, popped>>

\* A timeout or a broken channel.
ExecFails(t) ==
    /\ task[t].pc = "exec"
    /\ task' = [task EXCEPT ![t].pc = "failed"]
    /\ UNCHANGED <<listed, override, probeLock, clients, open, sessions, login, sshLock,
                   fresh, popped>>

\* Mutant: takes the client out of the pool and leaves its connection up.
MutFail(t) ==
    /\ task[t].pc = "failed"
    /\ sshLock = None
    /\ clients' = [clients EXCEPT ![task[t].switch] = None]
    /\ task' = [task EXCEPT ![t] = Finished(t)]
    /\ UNCHANGED <<listed, override, probeLock, open, sessions, login, sshLock, fresh, popped>>

\* run raises: it drops the client of the switch that is in the pool by now, which
\* need not be the one it used, and closes it.
Fail(t) ==
    /\ task[t].pc = "failed"
    /\ sshLock = None
    /\ open' = open \ {clients[task[t].switch]}
    /\ clients' = [clients EXCEPT ![task[t].switch] = None]
    /\ task' = [task EXCEPT ![t] = Finished(t)]
    /\ UNCHANGED <<listed, override, probeLock, sessions, login, sshLock, fresh, popped>>

----------------------------------------------------------------------------

\* Mutant: the probe leaves its inventory in place.
MutRestore(t) ==
    /\ task[t].pc = "restore"
    /\ task' = [task EXCEPT ![t].pc = "unpool"]
    /\ UNCHANGED <<listed, override, probeLock, clients, open, sessions, login, sshLock,
                   fresh, popped>>

\* The probe puts the live inventory back ...
Restore(t) ==
    /\ task[t].pc = "restore"
    /\ override' = None
    /\ task' = [task EXCEPT ![t].pc = "unpool"]
    /\ UNCHANGED <<listed, probeLock, clients, open, sessions, login, sshLock, fresh, popped>>

\* Mutant: ... and keeps what it has opened.
MutUnpool(t) ==
    /\ task[t].pc = "unpool"
    /\ probeLock' = None
    /\ task' = [task EXCEPT ![t] = Idle]
    /\ UNCHANGED <<listed, override, clients, open, sessions, login, sshLock, fresh, popped>>

\* ... and takes what it has opened out of the pools.
Unpool(t) ==
    /\ task[t].pc = "unpool"
    /\ Unpooled(task[t].switch)
    /\ probeLock' = None
    /\ task' = [task EXCEPT ![t] = Idle]
    /\ UNCHANGED <<listed, override, open, login, sshLock, fresh>>

\* A connection goes down by itself: keepalive, a reload of the switch.
Drop ==
    /\ \E c \in open : open' = open \ {c}
    /\ UNCHANGED <<listed, override, probeLock, clients, sessions, login, sshLock, task,
                   fresh, popped>>

\* The inventory is edited, and every later lookup sees it.
Edit ==
    /\ \E s \in Switches : \E x \in Logins \ {listed[s]} : listed' = [listed EXCEPT ![s] = x]
    /\ UNCHANGED <<override, probeLock, clients, open, sessions, login, sshLock, task,
                   fresh, popped>>

Step(t) ==
    \/ Swap(t) \/ Pop(t)
    \/ Session(t) \/ Request(t)
    \/ Acquire(t) \/ Connect(t) \/ ConnectFails(t) \/ Exec(t) \/ ExecFails(t) \/ Fail(t)
    \/ Restore(t) \/ Unpool(t)

Next ==
    \/ \E t \in Threads : Begin(t) \/ Step(t)
    \/ Drop
    \/ Edit

Spec == Init /\ [][Next]_vars

\* Connecting, commands and requests have timeouts, and a lock that stays free is
\* taken.
FairSpec == Spec /\ \A t \in Threads : WF_vars(Step(t))

----------------------------------------------------------------------------

\* The probe of thread t has its inventory in place.
InPlace(t) == task[t].pc \in InPlacePcs /\ task[t].probe # None

\* The shared transports use another inventory than the live one exactly while a
\* probe is at work, however it ends, and then it is that probe's own: probes
\* never overlap.
Restored ==
    /\ override # None => \E t \in Threads : InPlace(t)
    /\ \A t \in Threads :
        InPlace(t) => override = [switch |-> task[t].switch, login |-> task[t].probe]

\* What a probe opens is out of the pools when it ends: only a call of somebody
\* else, that connects meanwhile, can leave a connection with its login behind.
ProbesLeaveNothing ==
    \A s \in Switches, c \in Probes :
        c \in {clients[s], sessions[s]} =>
            \E t \in Threads : task[t] # Idle /\ task[t].call = c

\* Every connection that is up is in the pool, where the next call finds it and
\* the next failure closes it, but for those a probe has taken out: failures,
\* reconnections and calls that close each other's clients lose none.
NoLeak == \A c \in open : c \in popped \/ \E s \in Switches : clients[s] = c

\* Every call and every probe ends: nobody waits for ever for a lock.
EveryRunEnds == \A t \in Threads : task[t] # Idle ~> task[t] = Idle

----------------------------------------------------------------------------
(* What the code's own comments say and it does not do.                    *)

\* inventory_probe drops the pooled client "so the probe actually uses the supplied
\* credentials": its command runs on a client that was opened with them.
ProbeUsesItsLogin ==
    \A t \in Threads :
        InPlace(t) /\ task[t].pc = "exec" => login[task[t].client] = task[t].probe

=============================================================================
