------------------------- MODULE TransportPoolProofs -------------------------
(***************************************************************************)
(* The connection pools for any number of switches, logins, threads and    *)
(* calls: what a probe borrows it gives back, and no connection is lost.   *)
(***************************************************************************)
EXTENDS TransportPool, TLAPS

\* A thread holds the SSH lock exactly while it connects, with a login that is
\* already looked up, and meanwhile the pool has no live client of its switch.
Connecting ==
    /\ \A t \in Threads : sshLock = t <=> task[t].pc = "connect"
    /\ \A t \in Threads : task[t].pc = "connect" =>
        login[task[t].call] # None /\ clients[task[t].switch] \notin open

\* A thread holds _probe_lock from the swap to the end of its probe.
Probing(t) == InPlace(t) \/ task[t].pc = "unpool"

ProbeLocked ==
    /\ \A t \in Threads : Probing(t) => probeLock = t
    /\ \A t \in Threads : task[t].pc \in {"swap", "pop", "restore", "unpool"} => task[t].probe # None

\* A call is one thread's, it is not fresh any more, and a probe is called a probe.
Named ==
    /\ \A t \in Threads : task[t] # Idle =>
        task[t].call \notin fresh /\ (task[t].call \in Probes <=> task[t].probe # None)
    /\ \A t, u \in Threads :
        task[t] # Idle /\ task[u] # Idle /\ task[t].call = task[u].call => t = u

\* What a probe has put in the pools is there for the switch that it will clear.
Owned ==
    \A s \in Switches, c \in Probes :
        c \in {clients[s], sessions[s]} =>
            \E t \in Threads : Probing(t) /\ task[t].call = c /\ task[t].switch = s

IInv == TypeOK /\ Connecting /\ ProbeLocked /\ Restored /\ Named /\ Owned /\ NoLeak

\* None is apart from every name.
LEMMA NoneIsNone ==
    None \notin Switches /\ None \notin Logins /\ None \notin Threads /\ None \notin Calls
BY PoolAssumption

\* A thread that is not idle has a whole task.
LEMMA Busy ==
    ASSUME TypeOK, NEW t \in Threads, task[t].pc # "idle"
    PROVE  /\ task[t] \in Tasks /\ task[t] # Idle
           /\ task[t].call \in Calls /\ task[t].switch \in Switches
           /\ task[t].probe \in Logins \cup {None}
<1>1. task[t] \in Tasks
  BY DEF TypeOK, Idle
<1>. QED
  BY <1>1 DEF Tasks, Idle

\* The initial states.
LEMMA InitIInv == Init => IInv
<1>. SUFFICES ASSUME Init PROVE IInv
  OBVIOUS
<1>1. TypeOK
  BY PoolAssumption DEF Init, TypeOK
<1>2. \A t \in Threads : task[t].pc = "idle" /\ task[t] = Idle
  BY DEF Init, Idle
<1>3. \A t \in Threads : ~InPlace(t) /\ ~Probing(t)
  BY <1>2 DEF InPlace, Probing, InPlacePcs, RunPcs, RestPcs
<1>4. Connecting
  BY <1>2, NoneIsNone DEF Connecting, Init
<1>5. ProbeLocked /\ Restored
  BY <1>2, <1>3 DEF ProbeLocked, Restored, Init
<1>6. Named
  BY <1>2 DEF Named
<1>7. Owned
  BY NoneIsNone, PoolAssumption DEF Owned, Init
<1>8. NoLeak
  BY DEF NoLeak, Init
<1>. QED
  BY <1>1, <1>4, <1>5, <1>6, <1>7, <1>8 DEF IInv

\* The stages of a run or a request on the way to its end.
Stages == RunPcs \cup RestPcs

\* What x, the task of t after a step of its run or request, has in common with the
\* task before.
Continues(t, x) ==
    \/ x = Idle /\ task[t].probe = None
    \/ /\ x \in Tasks
       /\ x.call = task[t].call /\ x.switch = task[t].switch /\ x.probe = task[t].probe
       /\ x.pc \in Stages \/ (x.pc = "restore" /\ x.probe # None)

\* A task that is over goes on, and never to a connect.
LEMMA FinishedContinues ==
    ASSUME TypeOK, NEW t \in Threads, task[t].pc \in Stages
    PROVE  Continues(t, Finished(t)) /\ Finished(t).pc # "connect"
<1>1. task[t] \in Tasks
  BY Busy DEF Stages, RunPcs, RestPcs
<1>2. CASE task[t].probe = None
  BY <1>2 DEF Finished, Continues, Idle
<1>3. CASE task[t].probe # None
  <2>. DEFINE next == IF task[t].pc = "request" THEN "acquire" ELSE "restore"
  <2>1. Finished(t) = [task[t] EXCEPT !.pc = next]
    BY <1>3 DEF Finished
  <2>. QED
    BY <1>1, <1>3, <2>1
       DEF Continues, Tasks, Stages, InPlacePcs, RunPcs, RestPcs
<1>. QED
  BY <1>2, <1>3

\* A step of a run or a request leaves the probes as they are, and what it puts in
\* a pool is its own.
LEMMA StageStep ==
    ASSUME IInv, NEW t \in Threads, NEW x, task[t].pc \in Stages,
           Continues(t, x), task' = [task EXCEPT ![t] = x],
           UNCHANGED <<override, probeLock, fresh>>,
           \A s \in Switches, c \in Probes :
               c \in {clients'[s], sessions'[s]} =>
                   c \in {clients[s], sessions[s]} \/ (c = task[t].call /\ s = task[t].switch)
    PROVE  ProbeLocked' /\ Restored' /\ Named' /\ Owned'
<1>. USE DEF IInv
<1>1. /\ task'[t] = x /\ \A u \in Threads \ {t} : task'[u] = task[u]
      /\ task[t].pc \notin {"idle", "swap", "pop", "restore", "unpool"}
      /\ task[t] # Idle /\ (x = Idle => x.pc = "idle") /\ task[t].call \notin fresh
  BY DEF TypeOK, Stages, RunPcs, RestPcs, Idle, Named
<1>2. \A u \in Threads : InPlace(u)' <=> InPlace(u)
  <2>1. InPlace(t)' <=> InPlace(t)
    BY <1>1 DEF InPlace, InPlacePcs, Stages, Continues, RunPcs, RestPcs, Idle
  <2>. QED
    BY <1>1, <2>1 DEF InPlace
<1>3. \A u \in Threads : Probing(u)' <=> Probing(u)
  <2>1. task'[t].pc # "unpool" /\ task[t].pc # "unpool"
    BY <1>1 DEF Stages, Continues, RunPcs, RestPcs, Idle
  <2>. QED
    BY <1>1, <1>2, <2>1 DEF Probing
<1>4. \A u \in Threads : task'[u] # Idle =>
        /\ task[u] # Idle
        /\ task'[u].call = task[u].call /\ task'[u].probe = task[u].probe
        /\ task'[u].switch = task[u].switch
  BY <1>1 DEF Continues
<1>5. ProbeLocked'
  <2>1. task'[t].pc \in {"swap", "pop", "restore", "unpool"} => task'[t].probe # None
    BY <1>1 DEF Continues, Stages, RunPcs, RestPcs, Idle
  <2>. QED
    BY <1>1, <1>3, <2>1 DEF ProbeLocked
<1>6. \A u \in Threads : Probing(u) => task'[u] # Idle
  BY <1>3 DEF Probing, InPlace, Idle, InPlacePcs, RunPcs, RestPcs
<1>7. Restored'
  BY <1>2, <1>4, <1>6 DEF Restored, Probing
<1>8. Named'
  BY <1>4 DEF Named
<1>9. Owned'
  <2>. SUFFICES ASSUME NEW s \in Switches, NEW c \in Probes, c \in {clients'[s], sessions'[s]}
                PROVE  \E u \in Threads :
                         Probing(u)' /\ task'[u].call = c /\ task'[u].switch = s
    BY DEF Owned
  <2>1. CASE c \in {clients[s], sessions[s]}
    BY <1>3, <1>4, <1>6, <2>1 DEF Owned
  <2>2. CASE c = task[t].call /\ s = task[t].switch
    <3>1. task[t].probe # None
      BY <1>1, <2>2 DEF Named
    <3>2. Probing(t)
      BY <3>1 DEF Probing, InPlace, InPlacePcs, Stages
    <3>. QED
      BY <1>3, <1>4, <1>6, <2>2, <3>2
  <2>. QED
    BY <2>1, <2>2
<1>. QED
  BY <1>5, <1>7, <1>8, <1>9

\* A step in which nobody connects or ends connecting, no login that is looked up
\* changes, and a client that is live in the pool was so before.
LEMMA ConnectingStep ==
    ASSUME IInv, NEW t \in Threads, NEW x, task' = [task EXCEPT ![t] = x],
           task[t].pc # "connect", x.pc # "connect", sshLock' = sshLock,
           \A u \in Threads \ {t} : task[u].pc = "connect" =>
               login'[task[u].call] = login[task[u].call],
           \A s \in Switches : clients'[s] \in open' => clients[s] \in open
    PROVE  Connecting'
<1>1. task'[t] = x /\ \A u \in Threads \ {t} : task'[u] = task[u]
  BY DEF IInv, TypeOK
<1>2. \A u \in Threads : task[u].pc = "connect" => task[u].switch \in Switches
  BY Busy DEF IInv
<1>. QED
  BY <1>1, <1>2 DEF IInv, Connecting

\* A step that opens no connection loses none if every client that stays up stays
\* where it is in the pool or is taken out by a probe.
LEMMA LeakStep ==
    ASSUME IInv, open' \subseteq open, popped \subseteq popped',
           \A s \in Switches : clients[s] \in open' =>
               clients'[s] = clients[s] \/ clients[s] \in popped'
    PROVE  NoLeak'
BY DEF IInv, NoLeak

\* The type of the tasks after a step of t to x.
LEMMA TasksStep ==
    ASSUME TypeOK, NEW t \in Threads, NEW x \in Tasks \cup {Idle},
           task' = [task EXCEPT ![t] = x]
    PROVE  task' \in [Threads -> Tasks \cup {Idle}]
BY DEF TypeOK

\* A task that goes on to another stage of its run or request.
LEMMA NextStage ==
    ASSUME TypeOK, NEW t \in Threads, task[t].pc \in Stages, NEW pc \in Stages,
           NEW c \in Calls \cup {None}
    PROVE  /\ [task[t] EXCEPT !.pc = pc] \in Tasks
           /\ [task[t] EXCEPT !.pc = pc].pc = pc
           /\ Continues(t, [task[t] EXCEPT !.pc = pc])
           /\ [task[t] EXCEPT !.pc = pc, !.client = c] \in Tasks
           /\ [task[t] EXCEPT !.pc = pc, !.client = c].pc = pc
           /\ Continues(t, [task[t] EXCEPT !.pc = pc, !.client = c])
<1>1. task[t] \in Tasks
  BY Busy DEF Stages, RunPcs, RestPcs
<1>2. [task[t] EXCEPT !.pc = pc] \in Tasks /\ [task[t] EXCEPT !.pc = pc, !.client = c] \in Tasks
  BY <1>1 DEF Tasks, Stages, InPlacePcs
<1>. QED
  BY <1>1, <1>2 DEF Tasks, Continues

----------------------------------------------------------------------------
(* One lemma per action.                                                   *)

\* A task that has not begun has opened nothing and changes no pool.
LEMMA BeginIInv == ASSUME IInv, NEW t \in Threads, Begin(t) PROVE IInv'
<1>. USE DEF IInv
<1>1. PICK c \in fresh, s \in Switches, p \in Logins \cup {None},
           pc \in {"acquire", "session", "swap"} :
        /\ c \in Probes <=> pc = "swap"
        /\ p # None <=> pc = "swap"
        /\ fresh' = fresh \ {c}
        /\ task' = [task EXCEPT ![t] =
               [pc |-> pc, call |-> c, switch |-> s, probe |-> p, client |-> None]]
  BY DEF Begin
<1>. DEFINE x == [pc |-> pc, call |-> c, switch |-> s, probe |-> p, client |-> None]
<1>2. /\ x \in Tasks /\ x # Idle /\ c \in Calls
      /\ x.pc = pc /\ x.call = c /\ x.switch = s /\ x.probe = p
  BY DEF TypeOK, Tasks, InPlacePcs, RunPcs, RestPcs, Idle
<1>3. task' = [task EXCEPT ![t] = x]
  BY <1>1
<1>. HIDE DEF x
<1>4. /\ task'[t] = x /\ \A u \in Threads \ {t} : task'[u] = task[u]
      /\ task[t] = Idle /\ task[t].pc = "idle"
      /\ UNCHANGED <<listed, override, probeLock, clients, open, sessions, login, sshLock, popped>>
  BY <1>3 DEF TypeOK, Begin, Idle
<1>5. TypeOK'
  BY <1>1, <1>2, <1>3, <1>4, TasksStep DEF TypeOK
<1>6. Connecting'
  BY <1>1, <1>2, <1>3, <1>4, ConnectingStep
<1>7. \A u \in Threads : (InPlace(u)' <=> InPlace(u)) /\ (Probing(u)' <=> Probing(u))
  BY <1>1, <1>2, <1>4 DEF InPlace, Probing, InPlacePcs, RunPcs, RestPcs
<1>8. ProbeLocked' /\ Restored'
  <2>1. \A u \in Threads : InPlace(u) => u # t
    BY <1>4 DEF InPlace, InPlacePcs, RunPcs, RestPcs
  <2>. QED
    BY <1>1, <1>2, <1>4, <1>7, <2>1 DEF ProbeLocked, Restored
<1>9. Named'
  BY <1>1, <1>2, <1>4 DEF Named
<1>10. Owned'
  <2>1. \A u \in Threads : Probing(u) => u # t
    BY <1>4 DEF Probing, InPlace, InPlacePcs, RunPcs, RestPcs
  <2>. QED
    BY <1>4, <1>7, <2>1 DEF Owned
<1>11. NoLeak'
  BY <1>4, LeakStep
<1>. QED
  BY <1>5, <1>6, <1>8, <1>9, <1>10, <1>11

\* The session is the caller's own, or the one that is there.
LEMMA SessionIInv == ASSUME IInv, NEW t \in Threads, Session(t) PROVE IInv'
<1>. USE DEF IInv
<1>. DEFINE x == [task[t] EXCEPT !.pc = "request"]
<1>1. /\ task' = [task EXCEPT ![t] = x] /\ task[t].pc = "session"
      /\ UNCHANGED <<listed, override, probeLock, clients, open, sshLock, fresh, popped>>
  BY DEF Session
<1>2. /\ x \in Tasks /\ x.pc = "request" /\ Continues(t, x) /\ task[t].pc \in Stages
      /\ task[t].call \in Calls /\ task[t].switch \in Switches
  BY <1>1, NextStage, Busy DEF Stages, RunPcs, RestPcs
<1>. HIDE DEF x
<1>3. \/ UNCHANGED <<sessions, login>>
      \/ /\ sessions' = [sessions EXCEPT ![task[t].switch] = task[t].call]
         /\ login' = [login EXCEPT ![task[t].call] = Resolved(task[t].switch)]
  BY DEF Session
<1>4. Resolved(task[t].switch) \in Logins
  BY <1>2, PoolAssumption DEF Resolved, TypeOK, Overrides
<1>5. TypeOK'
  <2>1. task' \in [Threads -> Tasks \cup {Idle}]
    BY <1>1, <1>2, TasksStep
  <2>. QED
    BY <1>1, <1>2, <1>3, <1>4, <2>1, NoneIsNone DEF TypeOK
<1>6. Connecting'
  <2>1. \A u \in Threads \ {t} : task[u].pc = "connect" =>
            task[u].call # task[t].call /\ task[u].call \in Calls
    BY <1>1, Busy DEF Named, Idle
  <2>2. \A c \in Calls : c # task[t].call => login'[c] = login[c]
    BY <1>3 DEF TypeOK
  <2>3. \A s \in Switches : clients'[s] \in open' => clients[s] \in open
    BY <1>1
  <2>. QED
    BY <1>1, <1>2, <2>1, <2>2, <2>3, ConnectingStep
<1>7. ProbeLocked' /\ Restored' /\ Named' /\ Owned'
  BY <1>1, <1>2, <1>3, StageStep DEF TypeOK
<1>8. NoLeak'
  BY <1>1, LeakStep
<1>. QED
  BY <1>5, <1>6, <1>7, <1>8

\* The end of a request or a command.
LEMMA EndIInv ==
    ASSUME IInv, NEW t \in Threads, Request(t) \/ Exec(t)
    PROVE  IInv'
<1>. USE DEF IInv
<1>1. /\ task[t].pc \in Stages /\ task[t].pc # "connect"
      /\ task' = [task EXCEPT ![t] = Finished(t)]
      /\ UNCHANGED <<listed, override, probeLock, clients, open, sessions, login, sshLock,
                     fresh, popped>>
  BY DEF Request, Exec, Stages, RunPcs, RestPcs
<1>2. Continues(t, Finished(t)) /\ Finished(t).pc # "connect"
  BY <1>1, FinishedContinues
<1>3. TypeOK'
  BY <1>1, <1>2, TasksStep DEF TypeOK, Continues
<1>4. Connecting'
  BY <1>1, <1>2, ConnectingStep
<1>5. ProbeLocked' /\ Restored' /\ Named' /\ Owned'
  BY <1>1, <1>2, StageStep
<1>6. NoLeak'
  BY <1>1, LeakStep
<1>. QED
  BY <1>3, <1>4, <1>5, <1>6

\* The login is looked up before the connection is made, under the lock.
LEMMA AcquireIInv == ASSUME IInv, NEW t \in Threads, Acquire(t) PROVE IInv'
<1>. USE DEF IInv
<1>1. /\ task[t].pc = "acquire" /\ sshLock = None
      /\ UNCHANGED <<listed, override, probeLock, clients, open, sessions, fresh, popped>>
  BY DEF Acquire
<1>2. /\ task[t].pc \in Stages /\ task[t] # Idle
      /\ task[t].call \in Calls /\ task[t].switch \in Switches
  BY <1>1, Busy DEF Stages, RunPcs
<1>3. Resolved(task[t].switch) \in Logins
  BY <1>2, PoolAssumption DEF Resolved, TypeOK, Overrides
<1>4. \A u \in Threads : task[u].pc # "connect"
  BY <1>1, NoneIsNone DEF Connecting
<1>5. NoLeak'
  BY <1>1, LeakStep
<1>6. CASE clients[task[t].switch] \in open
  <2>. DEFINE c == clients[task[t].switch]
              x == [task[t] EXCEPT !.pc = "exec", !.client = c]
  <2>1. task' = [task EXCEPT ![t] = x] /\ UNCHANGED <<login, sshLock>>
    BY <1>6 DEF Acquire
  <2>2. c \in Calls \cup {None} /\ "exec" \in Stages
    BY <1>2 DEF TypeOK, Stages, RunPcs
  <2>. HIDE DEF c
  <2>3. x \in Tasks /\ x.pc = "exec" /\ Continues(t, x)
    BY <1>2, <2>2, NextStage
  <2>. HIDE DEF x
  <2>4. TypeOK'
    BY <1>1, <2>1, <2>3, TasksStep DEF TypeOK
  <2>5. Connecting'
    BY <1>1, <2>1, <2>3, ConnectingStep
  <2>6. ProbeLocked' /\ Restored' /\ Named' /\ Owned'
    BY <1>1, <1>2, <2>1, <2>3, StageStep
  <2>. QED
    BY <1>5, <2>4, <2>5, <2>6
<1>7. CASE clients[task[t].switch] \notin open
  <2>. DEFINE x == [task[t] EXCEPT !.pc = "connect"]
  <2>1. /\ task' = [task EXCEPT ![t] = x] /\ sshLock' = t
        /\ login' = [login EXCEPT ![task[t].call] = Resolved(task[t].switch)]
    BY <1>7 DEF Acquire
  <2>2. x \in Tasks /\ x.pc = "connect" /\ Continues(t, x)
    BY <1>2, NextStage DEF Stages, RunPcs
  <2>. HIDE DEF x
  <2>3. TypeOK'
    <3>1. task' \in [Threads -> Tasks \cup {Idle}]
      BY <2>1, <2>2, TasksStep
    <3>. QED
      BY <1>1, <1>2, <1>3, <2>1, <3>1, NoneIsNone DEF TypeOK
  <2>4. Connecting'
    <3>1. task'[t] = x /\ \A u \in Threads \ {t} : task'[u] = task[u]
      BY <2>1 DEF TypeOK
    <3>2. x.call = task[t].call /\ x.switch = task[t].switch
      BY <2>2 DEF Continues, Idle
    <3>3. login'[task[t].call] # None
      BY <1>2, <1>3, <2>1, NoneIsNone DEF TypeOK
    <3>. QED
      BY <1>1, <1>4, <1>7, <2>1, <2>2, <3>1, <3>2, <3>3 DEF Connecting
  <2>5. ProbeLocked' /\ Restored' /\ Named' /\ Owned'
    BY <1>1, <1>2, <2>1, <2>2, StageStep
  <2>. QED
    BY <1>5, <2>3, <2>4, <2>5
<1>. QED
  BY <1>6, <1>7

\* No two threads connect, and whoever connects replaces no live client.
LEMMA ConnectIInv == ASSUME IInv, NEW t \in Threads, Connect(t) PROVE IInv'
<1>. USE DEF IInv
<1>. DEFINE x == [task[t] EXCEPT !.pc = "exec", !.client = task[t].call]
            s == task[t].switch
            c == task[t].call
<1>1. /\ task[t].pc = "connect"
      /\ clients' = [clients EXCEPT ![s] = c] /\ open' = open \cup {c}
      /\ sshLock' = None /\ task' = [task EXCEPT ![t] = x]
      /\ UNCHANGED <<listed, override, probeLock, sessions, login, fresh, popped>>
  BY DEF Connect
<1>2. task[t].pc \in Stages /\ c \in Calls /\ s \in Switches /\ "exec" \in Stages
  BY <1>1, Busy DEF Stages, RunPcs
<1>3. x \in Tasks /\ x.pc = "exec" /\ Continues(t, x)
  <2>1. TypeOK /\ c \in Calls \cup {None}
    BY <1>2
  <2>. HIDE DEF IInv
  <2>. QED
    BY <1>2, <2>1, NextStage
<1>4. login[c] # None /\ clients[s] \notin open /\ sshLock = t
  BY <1>1 DEF Connecting
<1>5. task'[t] = x /\ \A u \in Threads \ {t} : task'[u] = task[u]
  BY <1>1 DEF TypeOK
<1>. HIDE DEF x, s, c
<1>6. TypeOK'
  <2>1. task' \in [Threads -> Tasks \cup {Idle}]
    BY <1>1, <1>3, TasksStep
  <2>. QED
    BY <1>1, <1>2, <1>4, <2>1 DEF TypeOK
<1>7. Connecting'
  <2>1. \A u \in Threads : task'[u].pc # "connect"
    BY <1>3, <1>4, <1>5 DEF Connecting
  <2>. QED
    BY <1>1, <2>1, NoneIsNone DEF Connecting
<1>8. ProbeLocked' /\ Restored' /\ Named' /\ Owned'
  <2>1. \A r \in Switches : clients'[r] = clients[r] \/ (clients'[r] = c /\ r = s)
    BY <1>1 DEF TypeOK
  <2>2. \A r \in Switches, q \in Probes : q \in {clients'[r], sessions'[r]} =>
            q \in {clients[r], sessions[r]} \/ (q = task[t].call /\ r = task[t].switch)
    BY <1>1, <2>1 DEF s, c
  <2>. QED
    BY <1>1, <1>2, <1>3, <2>2, StageStep
<1>9. NoLeak'
  <2>1. clients'[s] = c /\ \A r \in Switches \ {s} : clients'[r] = clients[r]
    BY <1>1, <1>2 DEF TypeOK
  <2>2. \A d \in open : d \in popped' \/ \E r \in Switches \ {s} : clients[r] = d
    BY <1>1, <1>4 DEF NoLeak
  <2>. QED
    BY <1>1, <1>2, <2>1, <2>2 DEF NoLeak
<1>. QED
  BY <1>6, <1>7, <1>8, <1>9

\* A connect fails and gives the lock back.
LEMMA ConnectFailsIInv == ASSUME IInv, NEW t \in Threads, ConnectFails(t) PROVE IInv'
<1>. USE DEF IInv
<1>. DEFINE x == [task[t] EXCEPT !.pc = "failed"]
<1>1. /\ task[t].pc = "connect" /\ sshLock' = None /\ task' = [task EXCEPT ![t] = x]
      /\ UNCHANGED <<listed, override, probeLock, clients, open, sessions, login, fresh, popped>>
  BY DEF ConnectFails
<1>2. task[t].pc \in Stages /\ "failed" \in Stages
  BY <1>1 DEF Stages, RunPcs
<1>3. x \in Tasks /\ x.pc = "failed" /\ Continues(t, x)
  BY <1>2, NextStage
<1>4. sshLock = t /\ task'[t] = x /\ \A u \in Threads \ {t} : task'[u] = task[u]
  BY <1>1 DEF Connecting, TypeOK
<1>. HIDE DEF x
<1>5. TypeOK'
  BY <1>1, <1>3, TasksStep DEF TypeOK
<1>6. Connecting'
  <2>1. \A u \in Threads : task'[u].pc # "connect"
    BY <1>3, <1>4 DEF Connecting
  <2>. QED
    BY <1>1, <2>1, NoneIsNone DEF Connecting
<1>7. ProbeLocked' /\ Restored' /\ Named' /\ Owned'
  BY <1>1, <1>2, <1>3, StageStep
<1>8. NoLeak'
  BY <1>1, LeakStep
<1>. QED
  BY <1>5, <1>6, <1>7, <1>8

\* A command fails; its client is dropped in the except clause to come.
LEMMA ExecFailsIInv == ASSUME IInv, NEW t \in Threads, ExecFails(t) PROVE IInv'
<1>. USE DEF IInv
<1>. DEFINE x == [task[t] EXCEPT !.pc = "failed"]
<1>1. /\ task[t].pc = "exec" /\ task' = [task EXCEPT ![t] = x]
      /\ UNCHANGED <<listed, override, probeLock, clients, open, sessions, login, sshLock,
                     fresh, popped>>
  BY DEF ExecFails
<1>2. task[t].pc \in Stages /\ "failed" \in Stages
  BY <1>1 DEF Stages, RunPcs
<1>3. x \in Tasks /\ x.pc = "failed" /\ Continues(t, x)
  BY <1>2, NextStage
<1>. HIDE DEF x
<1>4. TypeOK'
  BY <1>1, <1>3, TasksStep DEF TypeOK
<1>5. Connecting'
  BY <1>1, <1>3, ConnectingStep
<1>6. ProbeLocked' /\ Restored' /\ Named' /\ Owned'
  BY <1>1, <1>2, <1>3, StageStep
<1>7. NoLeak'
  BY <1>1, LeakStep
<1>. QED
  BY <1>4, <1>5, <1>6, <1>7

\* The client that is dropped is closed, whosever it is.
LEMMA FailIInv == ASSUME IInv, NEW t \in Threads, Fail(t) PROVE IInv'
<1>. USE DEF IInv
<1>1. /\ task[t].pc = "failed" /\ sshLock = None
      /\ open' = open \ {clients[task[t].switch]}
      /\ clients' = [clients EXCEPT ![task[t].switch] = None]
      /\ task' = [task EXCEPT ![t] = Finished(t)]
      /\ UNCHANGED <<listed, override, probeLock, sessions, login, sshLock, fresh, popped>>
  BY DEF Fail
<1>2. task[t].pc \in Stages /\ task[t].switch \in Switches
  BY <1>1, Busy DEF Stages, RunPcs
<1>3. Continues(t, Finished(t)) /\ Finished(t).pc # "connect"
  BY <1>2, FinishedContinues
<1>4. \A s \in Switches : clients'[s] = clients[s] \/ (clients'[s] = None /\ clients[s] \notin open')
  BY <1>1 DEF TypeOK
<1>5. None \notin open' /\ None \notin Probes
  BY <1>1, NoneIsNone, PoolAssumption DEF TypeOK
<1>6. TypeOK'
  <2>1. task' \in [Threads -> Tasks \cup {Idle}]
    BY <1>1, <1>3, TasksStep DEF Continues
  <2>. QED
    BY <1>1, <2>1 DEF TypeOK
<1>7. Connecting'
  <2>1. \A s \in Switches : clients'[s] \in open' => clients[s] \in open
    BY <1>1, <1>4, <1>5
  <2>. QED
    BY <1>1, <1>3, <2>1, ConnectingStep
<1>8. ProbeLocked' /\ Restored' /\ Named' /\ Owned'
  BY <1>1, <1>2, <1>3, <1>4, <1>5, StageStep
<1>9. NoLeak'
  BY <1>1, <1>4, LeakStep
<1>. QED
  BY <1>6, <1>7, <1>8, <1>9

\* A probe that takes the lock finds nobody else's inventory in place.
LEMMA SwapIInv == ASSUME IInv, NEW t \in Threads, Swap(t) PROVE IInv'
<1>. USE DEF IInv
<1>. DEFINE x == [task[t] EXCEPT !.pc = "pop"]
            o == [switch |-> task[t].switch, login |-> task[t].probe]
<1>1. /\ task[t].pc = "swap" /\ probeLock = None /\ probeLock' = t /\ override' = o
      /\ task' = [task EXCEPT ![t] = x]
      /\ UNCHANGED <<listed, clients, open, sessions, login, sshLock, fresh, popped>>
  BY DEF Swap
<1>2. /\ task[t] \in Tasks /\ task[t] # Idle /\ task[t].probe # None
      /\ task[t].switch \in Switches /\ task[t].probe \in Logins \cup {None}
  BY <1>1, Busy DEF ProbeLocked
<1>3. /\ x \in Tasks /\ x.pc = "pop" /\ x.call = task[t].call
      /\ x.switch = task[t].switch /\ x.probe = task[t].probe
  BY <1>2 DEF Tasks, InPlacePcs
<1>4. task'[t] = x /\ \A u \in Threads \ {t} : task'[u] = task[u]
  BY <1>1 DEF TypeOK
<1>5. o \in Overrides /\ x # Idle
  BY <1>2, <1>3 DEF Overrides, Idle
<1>6. \A u \in Threads : ~Probing(u)
  BY <1>1, NoneIsNone DEF ProbeLocked
<1>7. override' = [switch |-> x.switch, login |-> x.probe]
  BY <1>1, <1>3
<1>. HIDE DEF x, o
<1>8. TypeOK'
  BY <1>1, <1>3, <1>5, TasksStep DEF TypeOK
<1>9. Connecting'
  BY <1>1, <1>3, ConnectingStep
<1>10. \A u \in Threads : (InPlace(u)' <=> u = t) /\ (Probing(u)' <=> u = t)
  <2>1. InPlace(t)'
    BY <1>2, <1>3, <1>4 DEF InPlace, InPlacePcs
  <2>2. \A u \in Threads \ {t} : ~InPlace(u)' /\ ~Probing(u)'
    BY <1>4, <1>6 DEF InPlace, Probing
  <2>. QED
    BY <2>1, <2>2 DEF Probing
<1>11. ProbeLocked'
  BY <1>1, <1>2, <1>3, <1>4, <1>10 DEF ProbeLocked
<1>12. Restored'
  BY <1>4, <1>7, <1>10 DEF Restored
<1>13. Named'
  BY <1>1, <1>2, <1>3, <1>4 DEF Named
<1>14. Owned'
  BY <1>1, <1>6 DEF Owned
<1>15. NoLeak'
  BY <1>1, LeakStep
<1>. QED
  BY <1>8, <1>9, <1>11, <1>12, <1>13, <1>14, <1>15

\* Clearing a switch of both pools loses no client and leaves no new one.
LEMMA UnpooledStep ==
    ASSUME IInv, NEW s \in Switches, Unpooled(s)
    PROVE  /\ clients' \in [Switches -> Calls \cup {None}]
           /\ sessions' \in [Switches -> Calls \cup {None}]
           /\ popped' \subseteq Calls
           /\ clients'[s] = None /\ sessions'[s] = None
           /\ \A r \in Switches \ {s} : clients'[r] = clients[r] /\ sessions'[r] = sessions[r]
           /\ open' = open => NoLeak'
           /\ open' = open => \A r \in Switches : clients'[r] \in open' => clients[r] \in open
<1>. USE DEF IInv
<1>1. /\ sessions' = [sessions EXCEPT ![s] = None]
      /\ clients' = [clients EXCEPT ![s] = None]
      /\ popped' = popped \cup ({clients[s]} \ {None})
  BY DEF Unpooled
<1>2. /\ clients'[s] = None /\ sessions'[s] = None
      /\ \A r \in Switches \ {s} : clients'[r] = clients[r] /\ sessions'[r] = sessions[r]
  BY <1>1 DEF TypeOK
<1>3. None \notin open
  BY NoneIsNone DEF TypeOK
<1>4. open' = open => NoLeak'
  BY <1>1, <1>2, <1>3, LeakStep
<1>5. popped' \subseteq Calls
  BY <1>1 DEF TypeOK
<1>. QED
  BY <1>1, <1>2, <1>3, <1>4, <1>5 DEF TypeOK

\* A probe takes the pooled client out.
LEMMA PopIInv == ASSUME IInv, NEW t \in Threads, Pop(t) PROVE IInv'
<1>. USE DEF IInv
<1>. DEFINE x == [task[t] EXCEPT !.pc = "session"]
<1>1. /\ task[t].pc = "pop" /\ Unpooled(task[t].switch) /\ task' = [task EXCEPT ![t] = x]
      /\ UNCHANGED <<listed, override, probeLock, open, login, sshLock, fresh>>
  BY DEF Pop
<1>2. /\ task[t] \in Tasks /\ task[t] # Idle /\ task[t].probe # None
      /\ task[t].switch \in Switches
  BY <1>1, Busy DEF ProbeLocked
<1>3. /\ x \in Tasks /\ x.pc = "session" /\ x.call = task[t].call /\ x # Idle
      /\ x.switch = task[t].switch /\ x.probe = task[t].probe
  BY <1>2 DEF Tasks, InPlacePcs, RestPcs, Idle
<1>4. task'[t] = x /\ \A u \in Threads \ {t} : task'[u] = task[u]
  BY <1>1 DEF TypeOK
<1>. HIDE DEF x
<1>5. TypeOK'
  BY <1>1, <1>2, <1>3, TasksStep, UnpooledStep DEF TypeOK
<1>6. Connecting'
  BY <1>1, <1>2, <1>3, ConnectingStep, UnpooledStep
<1>7. \A u \in Threads : (InPlace(u)' <=> InPlace(u)) /\ (Probing(u)' <=> Probing(u))
  BY <1>1, <1>3, <1>4 DEF InPlace, Probing, InPlacePcs, RestPcs
<1>8. ProbeLocked' /\ Restored' /\ Named'
  BY <1>1, <1>2, <1>3, <1>4, <1>7 DEF ProbeLocked, Restored, Named
<1>9. Owned'
  <2>1. \A u \in Threads : task'[u].call = task[u].call /\ task'[u].switch = task[u].switch
    BY <1>3, <1>4
  <2>2. \A s \in Switches, c \in Probes :
            c \in {clients'[s], sessions'[s]} => c \in {clients[s], sessions[s]}
    BY <1>1, <1>2, UnpooledStep, PoolAssumption
  <2>. QED
    BY <1>7, <2>1, <2>2 DEF Owned
<1>10. NoLeak'
  BY <1>1, <1>2, UnpooledStep
<1>. QED
  BY <1>5, <1>6, <1>8, <1>9, <1>10

\* A probe puts the inventory back.
LEMMA RestoreIInv == ASSUME IInv, NEW t \in Threads, Restore(t) PROVE IInv'
<1>. USE DEF IInv
<1>. DEFINE x == [task[t] EXCEPT !.pc = "unpool"]
<1>1. /\ task[t].pc = "restore" /\ override' = None /\ task' = [task EXCEPT ![t] = x]
      /\ UNCHANGED <<listed, probeLock, clients, open, sessions, login, sshLock, fresh, popped>>
  BY DEF Restore
<1>2. task[t] \in Tasks /\ task[t] # Idle /\ task[t].probe # None
  BY <1>1, Busy DEF ProbeLocked
<1>3. /\ x \in Tasks /\ x.pc = "unpool" /\ x.call = task[t].call /\ x # Idle
      /\ x.switch = task[t].switch /\ x.probe = task[t].probe
  BY <1>2 DEF Tasks, Idle
<1>4. task'[t] = x /\ \A u \in Threads \ {t} : task'[u] = task[u]
  BY <1>1 DEF TypeOK
<1>. HIDE DEF x
<1>5. TypeOK'
  BY <1>1, <1>3, TasksStep DEF TypeOK
<1>6. Connecting'
  BY <1>1, <1>3, ConnectingStep
<1>7. Probing(t) /\ probeLock = t
  BY <1>1, <1>2 DEF Probing, InPlace, InPlacePcs, ProbeLocked
<1>8. \A u \in Threads : Probing(u)' <=> Probing(u)
  BY <1>3, <1>4, <1>7 DEF InPlace, Probing
<1>9. \A u \in Threads : ~InPlace(u)'
  <2>1. ~InPlace(t)'
    BY <1>3, <1>4 DEF InPlace, InPlacePcs, RunPcs, RestPcs
  <2>2. \A u \in Threads \ {t} : ~Probing(u)
    BY <1>7 DEF ProbeLocked
  <2>. QED
    BY <1>4, <2>1, <2>2 DEF InPlace, Probing
<1>10. ProbeLocked' /\ Restored' /\ Named'
  BY <1>1, <1>2, <1>3, <1>4, <1>8, <1>9 DEF ProbeLocked, Restored, Named
<1>11. Owned'
  BY <1>1, <1>3, <1>4, <1>8 DEF Owned
<1>12. NoLeak'
  BY <1>1, LeakStep
<1>. QED
  BY <1>5, <1>6, <1>10, <1>11, <1>12

\* A probe clears what it left in the pools and gives its lock back.
LEMMA UnpoolIInv == ASSUME IInv, NEW t \in Threads, Unpool(t) PROVE IInv'
<1>. USE DEF IInv
<1>1. /\ task[t].pc = "unpool" /\ Unpooled(task[t].switch) /\ probeLock' = None
      /\ task' = [task EXCEPT ![t] = Idle]
      /\ UNCHANGED <<listed, override, open, login, sshLock, fresh>>
  BY DEF Unpool
<1>2. task[t] # Idle /\ task[t].switch \in Switches /\ Idle.pc = "idle"
  BY <1>1, Busy DEF Idle
<1>3. task'[t] = Idle /\ \A u \in Threads \ {t} : task'[u] = task[u]
  BY <1>1 DEF TypeOK
<1>4. TypeOK'
  BY <1>1, <1>2, TasksStep, UnpooledStep DEF TypeOK
<1>5. Connecting'
  BY <1>1, <1>2, ConnectingStep, UnpooledStep
<1>6. \A u \in Threads : (Probing(u) <=> u = t) /\ ~InPlace(u)
  BY <1>1 DEF Probing, InPlace, ProbeLocked, InPlacePcs, RunPcs, RestPcs
<1>7. \A u \in Threads : ~Probing(u)' /\ ~InPlace(u)'
  <2>1. ~InPlace(t)' /\ ~Probing(t)'
    BY <1>2, <1>3 DEF InPlace, Probing, InPlacePcs, RunPcs, RestPcs
  <2>. QED
    BY <1>3, <1>6, <2>1 DEF InPlace, Probing
<1>8. ProbeLocked' /\ Restored' /\ Named'
  BY <1>1, <1>2, <1>3, <1>6, <1>7 DEF ProbeLocked, Restored, Named
<1>9. Owned'
  BY <1>1, <1>2, <1>6, UnpooledStep, NoneIsNone, PoolAssumption DEF Owned
<1>10. NoLeak'
  BY <1>1, <1>2, UnpooledStep
<1>. QED
  BY <1>4, <1>5, <1>8, <1>9, <1>10

\* A connection that goes down stays in the pool until somebody looks.
LEMMA DropIInv == ASSUME IInv, Drop PROVE IInv'
<1>. USE DEF IInv
<1>1. /\ open' \subseteq open
      /\ UNCHANGED <<listed, override, probeLock, clients, sessions, login, sshLock, task,
                     fresh, popped>>
  BY DEF Drop
<1>2. TypeOK'
  BY <1>1 DEF TypeOK
<1>3. Connecting'
  BY <1>1 DEF Connecting
<1>4. ProbeLocked' /\ Restored' /\ Named' /\ Owned'
  BY <1>1 DEF ProbeLocked, Restored, Named, Owned, Probing, InPlace
<1>5. NoLeak'
  BY <1>1, LeakStep
<1>. QED
  BY <1>2, <1>3, <1>4, <1>5

\* A step that changes no more than the inventory, or nothing.
LEMMA EditIInv ==
    ASSUME IInv, Edit \/ UNCHANGED vars
    PROVE  IInv'
<1>. USE DEF IInv
<1>1. UNCHANGED <<override, probeLock, clients, open, sessions, login, sshLock, task,
                  fresh, popped>>
  BY DEF Edit, vars
<1>2. TypeOK'
  <2>1. listed' \in [Switches -> Logins]
    BY DEF Edit, vars, TypeOK
  <2>. QED
    BY <1>1, <2>1 DEF TypeOK
<1>. QED
  BY <1>1, <1>2 DEF Connecting, ProbeLocked, Restored, Named, Owned, Probing, InPlace, NoLeak

----------------------------------------------------------------------------

\* Every step keeps the invariant.
LEMMA NextIInv == IInv /\ [Next]_vars => IInv'
<1>. SUFFICES ASSUME IInv, [Next]_vars PROVE IInv'
  OBVIOUS
<1>1. ASSUME NEW t \in Threads, Begin(t) \/ Step(t) PROVE IInv'
  BY <1>1, BeginIInv, SwapIInv, PopIInv, SessionIInv, EndIInv, AcquireIInv, ConnectIInv,
     ConnectFailsIInv, ExecFailsIInv, FailIInv, RestoreIInv, UnpoolIInv DEF Step
<1>. QED
  BY <1>1, DropIInv, EditIInv DEF Next

\* The inductive invariant holds of every behaviour.
THEOREM Invariance == Spec => []IInv
BY InitIInv, NextIInv, PTL DEF Spec

\* The types, and a client that is up was opened with a login (transport_ssh.py,
\* _client_for looks it up before it connects).
THEOREM TypeCorrect == Spec => []TypeOK
<1>1. IInv => TypeOK
  BY DEF IInv
<1>. QED
  BY <1>1, Invariance, PTL

\* The transports use a probe's inventory exactly while that probe is at work: the
\* swap and the restore of inventory_probe, for any number of probes at a time.
THEOREM InventoryRestored == Spec => []Restored
<1>1. IInv => Restored
  BY DEF IInv
<1>. QED
  BY <1>1, Invariance, PTL

\* Nothing that a probe has opened is in a pool after its end (the pops of
\* inventory_probe), whoever else connects, fails or drops clients meanwhile.
THEOREM NothingLeftBehind == Spec => []ProbesLeaveNothing
<1>1. IInv => ProbesLeaveNothing
  <2>1. \A t \in Threads : Probing(t) => task[t] # Idle
    BY DEF Probing, InPlace, InPlacePcs, RunPcs, RestPcs, Idle
  <2>. QED
    BY <2>1 DEF IInv, Owned, ProbesLeaveNothing
<1>. QED
  BY <1>1, Invariance, PTL

\* No connection that is up is lost from the pool (transport_ssh.py, run and
\* _client_for) but by a probe that takes it out.
THEOREM NoneLost == Spec => []NoLeak
<1>1. IInv => NoLeak
  BY DEF IInv
<1>. QED
  BY <1>1, Invariance, PTL
=============================================================================
