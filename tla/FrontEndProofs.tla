---------------------------- MODULE FrontEndProofs ----------------------------
(***************************************************************************)
(* The front end for any number of threads, ids, addresses, texts and      *)
(* tokens: its types; a commit token is confirmed once and the log         *)
(* accounts for it; the intent file is never lost; the rate limiter keeps  *)
(* its window; the session store keeps its cap and its sessions.           *)
(***************************************************************************)
EXTENDS FrontEnd, Integers, FiniteSetTheorems, SequenceTheorems, WellFoundedInduction, TLAPS

----------------------------------------------------------------------------
(* Types, part by part.                                                    *)

\* The clock is the parts' common variable.
TimeOK == time \in 0..MaxTime

\* All that a step does to the clock is to let time pass.
LEMMA TimeMoves == ASSUME [Next]_vars PROVE Tick \/ time' = time
<1>1. CASE UNCHANGED vars \/ UNCHANGED time
  BY <1>1 DEF vars
<1>2. CASE SessNext
  BY <1>2 DEF SessNext, SessTick, SessStep, LoopRaises, Scan, Pop, Unsee, Check, Touch,
         Fetch, FetchRaises, Room, Least, Oldest, Insert, Stamp, Begin, Fails
<1>3. CASE RateNext
  BY <1>3 DEF RateNext, RateTick, Admit, Refuse, Arrive
<1>4. CASE TokenNext
  BY <1>4 DEF TokenNext, TokenTick, PopStep, Look, CheckUsed, CheckExpiry, Use, Delete,
         Log, Execute, Confirm
<1>. QED
  BY <1>1, <1>2, <1>3, <1>4 DEF Next

\* The clock never runs back.
LEMMA TimeStep == ASSUME TimeOK, [Next]_vars PROVE TimeOK' /\ time <= time'
<1>1. CASE Tick
  BY <1>1, ClockAssumption DEF Tick, TimeOK
<1>2. CASE time' = time
  BY <1>2 DEF TimeOK
<1>. QED
  BY <1>1, <1>2, TimeMoves

\* The number of sessions kept is a number, since there are finitely many ids.
LEMMA CountsAreNat ==
    ASSUME NEW S
    PROVE  Cardinality({i \in Ids : S[i] # None}) \in Nat
<1>1. IsFiniteSet({i \in Ids : S[i] # None})
  BY SessionAssumption, FS_Subset
<1>. QED
  BY <1>1, FS_CardinalityType

\* So is the number of threads.
LEMMA BusyIsNat == \A S \in SUBSET Threads : Cardinality(S) \in Nat
BY SessionAssumption, FS_Subset, FS_CardinalityType

\* A thread in a call has all the fields of one.
LEMMA InCall ==
    ASSUME SessTypeOK, NEW t \in Threads, call[t] # NoCall
    PROVE  /\ call[t] \in CallRecords
           /\ call[t].id \in Ids /\ call[t].now \in 0..MaxTime /\ call[t].number \in Nat
           /\ call[t].doomed \in SUBSET Ids /\ call[t].least \in 0..MaxTime
<1>1. call[t] \in CallRecords
  BY DEF SessTypeOK
<1>. QED
  BY <1>1 DEF CallRecords, Times

\* The session store keeps its types.
LEMMA SessTypes ==
    ASSUME SessTypeOK, TimeOK, TimeOK', [Next]_vars
    PROVE  SessTypeOK'
<1>. USE DEF Times
<1>1. CASE UNCHANGED sessionVars
  BY <1>1 DEF SessTypeOK, sessionVars, TimeOK, CallRecords
<1>2. ASSUME NEW t \in Threads, NEW id \in Ids, Begin(t, id)
      PROVE  SessTypeOK'
  <2>1. Cardinality(Keys(lastSeen)) \in Nat
    BY CountsAreNat DEF Keys
  <2>2. overlapped' \in Nat
    <3>1. Cardinality({u \in Busy : ~call[u].met}) \in Nat
      BY BusyIsNat DEF Busy
    <3>. QED
      BY <1>2, <3>1 DEF Begin, SessTypeOK
  <2>3. call' \in [Threads -> CallRecords \cup {NoCall}]
    <3>1. ASSUME NEW u \in Threads
          PROVE  call'[u] \in CallRecords \cup {NoCall}
      <4>1. CASE u = t
        <5>1. calls + 1 \in Nat /\ 0 \in 0..MaxTime /\ time \in 0..MaxTime
          BY ClockAssumption DEF SessTypeOK, TimeOK
        <5>2. call'[u] = [pc |-> "scan", number |-> calls + 1, id |-> id, now |-> time,
                          size |-> Cardinality(Keys(lastSeen)), looked |-> {},
                          doomed |-> {}, least |-> 0, current |-> None,
                          next |-> "check", met |-> Busy # {}]
          BY <1>2, <4>1 DEF Begin
        <5>3. (Busy # {}) \in BOOLEAN
          OBVIOUS
        <5>. HIDE DEF Busy
        <5>. QED
          BY <5>1, <5>2, <5>3, <2>1 DEF CallRecords
      <4>2. CASE u # t /\ u \in Busy
        <5>1. call[u] \in CallRecords
          BY <4>2, InCall DEF Busy
        <5>2. call'[u] = [call[u] EXCEPT !.met = TRUE]
          BY <1>2, <4>2 DEF Begin
        <5>. QED
          BY <5>1, <5>2 DEF CallRecords
      <4>3. CASE u # t /\ u \notin Busy
        BY <1>2, <4>3 DEF Begin
      <4>. QED
        BY <4>1, <4>2, <4>3
    <3>. QED
      BY <1>2, <3>1 DEF Begin
  <2>. QED
    BY <1>2, <2>2, <2>3 DEF Begin, SessTypeOK, TimeOK
<1>3. ASSUME NEW t \in Threads, SessStep(t)
      PROVE  SessTypeOK'
  <2>. USE SessionAssumption
  <2>1. CASE LoopRaises(t) \/ FetchRaises(t)
    BY <2>1 DEF LoopRaises, FetchRaises, Fails, SessTypeOK
  <2>2. CASE Scan(t)
    <3>1. call[t] \in CallRecords
      BY <2>2, InCall DEF Scan, CallAt
    <3>2. \A i \in Ahead(t) : i \in Ids
      BY DEF Ahead, Keys
    <3>3. call'[t] \in CallRecords
      <4>1. CASE \E i \in Ahead(t) :
                   call' = [call EXCEPT ![t].looked = @ \cup {i},
                                        ![t].doomed = IF Expired(t, i) THEN @ \cup {i} ELSE @]
        <5>1. PICK i \in Ahead(t) :
                   call' = [call EXCEPT ![t].looked = @ \cup {i},
                                        ![t].doomed = IF Expired(t, i) THEN @ \cup {i} ELSE @]
          BY <4>1
        <5>. DEFINE L == call[t].looked \cup {i}
                    D == IF Expired(t, i) THEN call[t].doomed \cup {i} ELSE call[t].doomed
        <5>2. L \in SUBSET Ids /\ D \in SUBSET Ids
          BY <3>1, <3>2 DEF CallRecords
        <5>3. call'[t] = [call[t] EXCEPT !.looked = L, !.doomed = D]
          BY <5>1 DEF SessTypeOK
        <5>. HIDE DEF L, D
        <5>. QED
          BY <5>2, <5>3, <3>1 DEF CallRecords
      <4>2. CASE call' = [call EXCEPT ![t].pc =
                             IF call[t].doomed = {} THEN "check" ELSE "pop"]
        BY <4>2, <3>1 DEF CallRecords, SessTypeOK
      <4>. QED
        BY <2>2, <4>1, <4>2 DEF Scan
    <3>. QED
      BY <2>2, <3>3 DEF Scan, SessTypeOK
  <2>3. CASE Pop(t)
    <3>1. call[t] \in CallRecords
      BY <2>3, InCall DEF Pop, CallAt
    <3>2. call'[t] \in CallRecords
      <4>1. PICK i \in call[t].doomed :
                call' = [call EXCEPT ![t].pc = "unsee", ![t].current = i]
        BY <2>3 DEF Pop
      <4>2. i \in Ids
        BY <3>1, <4>1 DEF CallRecords
      <4>. QED
        BY <3>1, <4>1, <4>2 DEF CallRecords, SessTypeOK
    <3>. QED
      BY <2>3, <3>2 DEF Pop, SessTypeOK
  <2>4. CASE Unsee(t)
    <3>1. call[t] \in CallRecords
      BY <2>4, InCall DEF Unsee, CallAt
    <3>2. call'[t] \in CallRecords
      BY <2>4, <3>1 DEF Unsee, CallRecords, SessTypeOK
    <3>. QED
      BY <2>4, <3>2 DEF Unsee, SessTypeOK
  <2>5. CASE Check(t)
    <3>1. call[t] \in CallRecords
      BY <2>5, InCall DEF Check, CallAt
    <3>2. call'[t] \in CallRecords
      BY <2>5, <3>1 DEF Check, CallRecords, SessTypeOK
    <3>. QED
      BY <2>5, <3>2 DEF Check, SessTypeOK
  <2>6. CASE Touch(t)
    <3>1. call[t] \in CallRecords
      BY <2>6, InCall DEF Touch, CallAt
    <3>2. call'[t] \in CallRecords
      BY <2>6, <3>1 DEF Touch, CallRecords, SessTypeOK, TimeOK
    <3>. QED
      BY <2>6, <3>2 DEF Touch, SessTypeOK, TimeOK
  <2>7. CASE Fetch(t)
    <3>1. call[t] \in CallRecords /\ call[t].now \in 0..MaxTime
      BY <2>7, InCall DEF Fetch, CallAt
    <3>2. sessions[call[t].id] \in Nat
      BY <2>7, <3>1 DEF Fetch, SessTypeOK, CallRecords
    <3>. QED
      BY <2>7, <3>1, <3>2 DEF Fetch, Gives, SessTypeOK
  <2>8. CASE Room(t)
    <3>1. call[t] \in CallRecords
      BY <2>8, InCall DEF Room, CallAt
    <3>2. call'[t] \in CallRecords
      BY <2>8, <3>1 DEF Room, CallRecords, SessTypeOK
    <3>. QED
      BY <2>8, <3>2 DEF Room, SessTypeOK
  <2>9. CASE Least(t)
    <3>1. call[t] \in CallRecords
      BY <2>9, InCall DEF Least, CallAt
    <3>2. Cardinality(Keys(lastSeen)) \in Nat
      BY CountsAreNat DEF Keys
    <3>3. call'[t] \in CallRecords
      BY <2>9, <3>1, <3>2 DEF Least, CallRecords, SessTypeOK
    <3>. QED
      BY <2>9, <3>3 DEF Least, SessTypeOK
  <2>10. CASE Oldest(t)
    <3>1. call[t] \in CallRecords
      BY <2>10, InCall DEF Oldest, CallAt
    <3>2. \A i \in Ahead(t) : i \in Ids /\ lastSeen[i] \in 0..MaxTime
      BY DEF Ahead, Keys, SessTypeOK
    <3>3. call'[t] \in CallRecords
      <4>1. CASE call' = [call EXCEPT ![t].pc = "pop", ![t].next = "insert"]
        BY <4>1, <3>1 DEF CallRecords, SessTypeOK
      <4>2. ASSUME NEW i \in Ahead(t), NEW better \in BOOLEAN,
                   call' = [call EXCEPT ![t].looked = @ \cup {i},
                                        ![t].doomed = IF better THEN {i} ELSE @,
                                        ![t].least = IF better THEN lastSeen[i] ELSE @]
            PROVE  call'[t] \in CallRecords
        <5>. DEFINE L == call[t].looked \cup {i}
                    D == IF better THEN {i} ELSE call[t].doomed
                    m == IF better THEN lastSeen[i] ELSE call[t].least
        <5>1. L \in SUBSET Ids /\ D \in SUBSET Ids /\ m \in Times
          BY <3>1, <3>2 DEF CallRecords
        <5>2. call'[t] = [call[t] EXCEPT !.looked = L, !.doomed = D, !.least = m]
          BY <4>2 DEF SessTypeOK
        <5>. HIDE DEF L, D, m
        <5>. QED
          BY <5>1, <5>2, <3>1 DEF CallRecords
      <4>. QED
        BY <2>10, <4>1, <4>2 DEF Oldest
    <3>. QED
      BY <2>10, <3>3 DEF Oldest, SessTypeOK
  <2>11. CASE Insert(t)
    <3>1. call[t] \in CallRecords
      BY <2>11, InCall DEF Insert, CallAt
    <3>2. call'[t] \in CallRecords
      BY <2>11, <3>1 DEF Insert, CallRecords, SessTypeOK
    <3>. QED
      BY <2>11, <3>1, <3>2 DEF Insert, SessTypeOK, CallRecords
  <2>12. CASE Stamp(t)
    <3>1. call[t] \in CallRecords /\ call[t].number \in Nat
      BY <2>12, InCall DEF Stamp, CallAt
    <3>. QED
      BY <2>12, <3>1 DEF Stamp, Gives, SessTypeOK, TimeOK
  <2>. QED
    BY <1>3, <2>1, <2>2, <2>3, <2>4, <2>5, <2>6, <2>7, <2>8, <2>9, <2>10, <2>11, <2>12
       DEF SessStep
<1>. QED
  BY <1>1, <1>2, <1>3 DEF Next, vars, SessNext, SessTick, Tick, sessionVars

Less == {ss \in Nat \X Nat : ss[1] < ss[2]}

\* A set of numbers has a least one, as the oldest entries of a window do.
LEMMA LeastExists ==
    ASSUME NEW S \in SUBSET Nat, S # {}
    PROVE  \E i \in S : \A j \in S : i <= j
<1>1. IsWellFoundedOn(Less, Nat)
  BY NatLessThanWellFounded DEF OpToRel, Less
<1>2. PICK x \in S : \A y \in S : ~ (<<y, x>> \in Less)
  BY <1>1, WFMin
<1>3. ASSUME NEW y \in S PROVE x <= y
  <2>1. <<y, x>> \in Nat \X Nat /\ <<y, x>>[1] = y /\ <<y, x>>[2] = x
    OBVIOUS
  <2>2. ~ (y < x)
    BY <1>2, <2>1 DEF Less
  <2>. QED
    BY <2>2
<1>. QED
  BY <1>3

\* What is left of a window is what comes after the last of the oldest entries that count
\* no more: nothing is dropped that still counts, and what comes first counts.
LEMMA KeptIsWindow ==
    ASSUME NEW q \in Seq(Times), NEW now \in Times
    PROVE  /\ Kept(q, now) \in Seq(Times)
           /\ \E d \in 0..Len(q) :
                  /\ Len(Kept(q, now)) = Len(q) - d
                  /\ \A i \in 1..Len(q) - d : Kept(q, now)[i] = q[d + i]
                  /\ \A i \in 1..d : q[i] + Window < now
                  /\ d < Len(q) => q[d + 1] + Window >= now
<1>. DEFINE in == {i \in DOMAIN q : q[i] + Window >= now}
<1>1. in \in SUBSET Nat
  BY DEF in
<1>2. \A i \in 1..Len(q) : q[i] \in Nat
  <2>1. \A i \in 1..Len(q) : q[i] \in Times
    OBVIOUS
  <2>2. Times \subseteq Nat
    BY ClockAssumption DEF Times
  <2>. QED
    BY <2>1, <2>2
<1>3. CASE in = {}
  <2>1. Kept(q, now) = << >>
    BY <1>3 DEF Kept, in
  <2>2. << >> \in Seq(Times) /\ Len(<< >>) = 0 /\ Len(q) \in Nat
    OBVIOUS
  <2>3. \A i \in 1..Len(q) : q[i] + Window < now
    BY <1>2, <1>3, RateAssumption DEF in, Times
  <2>4. /\ Len(q) \in 0..Len(q) /\ Len(q) - Len(q) = 0
        /\ ~(Len(q) < Len(q)) /\ 1..0 = {}
    BY <2>2
  <2>. QED
    BY <2>1, <2>2, <2>3, <2>4
<1>4. CASE in # {}
  <2>. DEFINE m == CHOOSE i \in in : \A j \in in : i <= j
  <2>1. Kept(q, now) = SubSeq(q, m, Len(q))
    BY <1>4 DEF Kept, in, m
  <2>2. m \in in /\ \A j \in in : m <= j
    BY <1>1, <1>4, LeastExists DEF m
  <2>3. m \in 1..Len(q) /\ Len(q) \in Nat /\ q[m] + Window >= now
    BY <2>2 DEF in
  <2>4. \A i \in 1..m - 1 : q[i] + Window < now
    <3>1. ASSUME NEW i \in 1..m - 1 PROVE i \in 1..Len(q) /\ i \notin in
      BY <1>1, <2>2, <2>3
    <3>. QED
      BY <1>2, <3>1, RateAssumption DEF in, Times
  <2>. HIDE DEF m, in
  <2>5. \A i \in m..Len(q) : q[i] \in Times
    BY <2>3
  <2>6. /\ SubSeq(q, m, Len(q)) \in Seq(Times)
        /\ Len(SubSeq(q, m, Len(q))) = IF m <= Len(q) THEN Len(q) - m + 1 ELSE 0
        /\ \A i \in 1..Len(q) - m + 1 : SubSeq(q, m, Len(q))[i] = q[m + i - 1]
    BY <2>3, <2>5, SubSeqProperties
  <2>. DEFINE d == m - 1
  <2>7. d \in 0..Len(q) /\ d + 1 = m /\ Len(q) - d = Len(q) - m + 1
    BY <2>3
  <2>8. \A i \in 1..Len(q) - d : Kept(q, now)[i] = q[d + i]
    <3>1. \A i \in Nat : m + i - 1 = d + i
      BY <2>3
    <3>. QED
      BY <2>1, <2>3, <2>6, <2>7, <3>1
  <2>9. Len(Kept(q, now)) = Len(q) - d
    BY <2>1, <2>3, <2>6, <2>7
  <2>10. q[d + 1] + Window >= now /\ \A i \in 1..d : q[i] + Window < now
    BY <2>3, <2>4, <2>7
  <2>. QED
    BY <2>1, <2>6, <2>7, <2>8, <2>9, <2>10
<1>. QED
  BY <1>3, <1>4

\* The rate limiter keeps its types.
LEMMA RateTypes ==
    ASSUME RateTypeOK, TimeOK, TimeOK', [Next]_vars
    PROVE  RateTypeOK'
<1>1. CASE UNCHANGED limiterVars
  BY <1>1 DEF RateTypeOK, limiterVars, TimeOK, Times
<1>2. ASSUME NEW t \in Threads, NEW ip \in Ips, Arrive(t, ip)
      PROVE  RateTypeOK'
  <2>1. requests + 1 \in 1..MaxRequests
    BY <1>2, RateAssumption DEF Arrive, RateTypeOK
  <2>2. [number |-> requests + 1, ip |-> ip, now |-> time] \in Requests
    BY <2>1 DEF Requests, RateTypeOK
  <2>. QED
    BY <1>2, <2>1, <2>2, RateAssumption DEF Arrive, RateTypeOK
<1>3. ASSUME NEW t \in Threads, Admit(t) \/ Refuse(t)
      PROVE  RateTypeOK'
  <2>. DEFINE a == arrival[t]
             q == Kept(store[a.ip], a.now)
  <2>1. a.number \in 1..MaxRequests /\ a.ip \in Ips /\ a.now \in Times
    BY <1>3 DEF Admit, Refuse, RateTypeOK, Requests
  <2>2. q \in Seq(Times) /\ Len(q) <= Len(store[a.ip])
    <3>1. store[a.ip] \in Seq(Times) /\ Len(store[a.ip]) \in Nat
      BY <2>1 DEF RateTypeOK
    <3>2. q \in Seq(Times)
      BY <2>1, <3>1, KeptIsWindow
    <3>. HIDE DEF q
    <3>3. PICK d \in 0..Len(store[a.ip]) : Len(q) = Len(store[a.ip]) - d
      BY <2>1, <3>1, KeptIsWindow DEF q
    <3>. QED
      BY <3>1, <3>2, <3>3
  <2>. HIDE DEF q
  <2>3. Len(q) \in Nat /\ Len(store[a.ip]) <= Limit /\ Len(store[a.ip]) \in Nat
    BY <2>1, <2>2 DEF RateTypeOK
  <2>4. CASE Admit(t)
    <3>1. Len(q) < Limit /\ store' = [store EXCEPT ![a.ip] = Append(q, a.now)]
          /\ admitted' = admitted \cup
                 {[number |-> a.number, ip |-> a.ip, now |-> a.now, at |-> time]}
      BY <2>4 DEF Admit, q
    <3>2. Append(q, a.now) \in Seq(Times) /\ Len(Append(q, a.now)) <= Limit
      BY <2>1, <2>2, <2>3, <3>1, RateAssumption
    <3>3. admitted' \subseteq Admissions
      BY <2>1, <3>1 DEF Admissions, RateTypeOK
    <3>4. store' \in [Ips -> Seq(Times)] /\ \A ip \in Ips : Len(store'[ip]) <= Limit
      BY <2>1, <3>1, <3>2 DEF RateTypeOK
    <3>. QED
      BY <2>4, <3>3, <3>4 DEF Admit, RateTypeOK
  <2>5. CASE Refuse(t)
    <3>1. store' = [store EXCEPT ![a.ip] = q]
          /\ refusal' = [ip |-> a.ip, now |-> a.now, at |-> time]
      BY <2>5 DEF Refuse, q
    <3>2. Len(q) <= Limit
      BY <2>2, <2>3, RateAssumption
    <3>3. store' \in [Ips -> Seq(Times)] /\ \A ip \in Ips : Len(store'[ip]) <= Limit
      BY <2>1, <2>2, <3>1, <3>2 DEF RateTypeOK
    <3>4. refusal' \in [ip : Ips, now : Times, at : Times]
      BY <2>1, <3>1 DEF RateTypeOK
    <3>. QED
      BY <2>5, <3>3, <3>4 DEF Refuse, RateTypeOK
  <2>. QED
    BY <1>3, <2>4, <2>5
<1>. QED
  BY <1>1, <1>2, <1>3 DEF Next, vars, RateNext, RateTick, limiterVars

Puts == [pc : {"open", "write", "replace", "reply"}, text : Texts, file : Files]

\* A PUT under way knows its file and its text.
LEMMA InPut ==
    ASSUME IntentTypeOK, NEW t \in Threads, put[t].pc \notin {"idle", "again"}
    PROVE  put[t] \in Puts /\ put[t].file \in Files /\ put[t].text \in Texts
<1>1. put[t] \in Puts
  BY DEF IntentTypeOK, NoPut, Again, Puts
<1>. QED
  BY <1>1 DEF Puts

\* The fabric intent keeps its types.
LEMMA IntentTypes ==
    ASSUME IntentTypeOK, [Next]_vars
    PROVE  IntentTypeOK'
<1>. USE IntentAssumption
<1>1. CASE UNCHANGED intentVars
  BY <1>1 DEF IntentTypeOK, intentVars
<1>2. ASSUME NEW t \in Threads, NEW text \in Texts, Put(t, text)
      PROVE  IntentTypeOK'
  <2>1. puts + 1 \in 1..MaxPuts
    BY <1>2 DEF Put, IntentTypeOK
  <2>. QED
    BY <1>2, <2>1 DEF Put, IntentTypeOK, Files
<1>3. ASSUME NEW t \in Threads, Open(t)
      PROVE  IntentTypeOK'
  <2>. DEFINE f == IF tmp # None THEN tmp ELSE put[t].file
  <2>1. put[t].file \in Files /\ put[t].text \in Texts
    BY <1>3 DEF Open, PutAt, IntentTypeOK, NoPut, Again
  <2>2. f \in Files
    BY <2>1 DEF IntentTypeOK
  <2>3. contents' = [contents EXCEPT ![f] = Empty] /\ tmp' = f
        /\ put' = [put EXCEPT ![t].pc = "write", ![t].file = f]
    BY <1>3 DEF Open
  <2>. HIDE DEF f
  <2>4. put' \in [Threads -> Puts \cup {NoPut, Again}]
    <3>1. put[t] \in Puts
      BY <1>3, InPut DEF Open, PutAt
    <3>2. [put[t] EXCEPT !.pc = "write", !.file = f] \in Puts
      BY <3>1, <2>2 DEF Puts
    <3>3. put' = [put EXCEPT ![t] = [put[t] EXCEPT !.pc = "write", !.file = f]]
      BY <2>3 DEF IntentTypeOK
    <3>. QED
      BY <3>2, <3>3 DEF IntentTypeOK, Puts
  <2>5. contents' \in [Files -> Texts \cup {Empty, Torn, None}]
        /\ \A g \in {path', tmp'} \ {None} : contents'[g] # None
    BY <1>3, <2>2, <2>3 DEF IntentTypeOK, Open
  <2>. QED
    BY <1>3, <2>2, <2>3, <2>4, <2>5 DEF Open, IntentTypeOK, Puts
<1>4. ASSUME NEW t \in Threads, Write(t) \/ WriteFails(t)
      PROVE  IntentTypeOK'
  <2>1. put[t].file \in Files /\ put[t].text \in Texts
    BY <1>4 DEF Write, WriteFails, PutAt, IntentTypeOK, NoPut, Again
  <2>2. PICK c \in Texts \cup {Torn} : contents' = [contents EXCEPT ![put[t].file] = c]
    BY <1>4, <2>1 DEF Write, WriteFails, Written, IntentTypeOK
  <2>3. c # None
    OBVIOUS
  <2>4. contents' \in [Files -> Texts \cup {Empty, Torn, None}]
        /\ \A g \in {path, tmp} \ {None} : contents'[g] # None
    BY <2>1, <2>2, <2>3 DEF IntentTypeOK
  <2>5. put' \in [Threads -> [pc : {"open", "write", "replace", "reply"}, text : Texts,
                               file : Files] \cup {NoPut, Again}]
    BY <1>4, <2>1 DEF Write, WriteFails, IntentTypeOK, PutAt, NoPut, Again
  <2>. QED
    BY <1>4, <2>4, <2>5 DEF Write, WriteFails, IntentTypeOK
<1>5. ASSUME NEW t \in Threads, Replace(t) \/ PutFails(t) \/ Reply(t)
      PROVE  IntentTypeOK'
  <2>1. put[t].file \in Files /\ put[t].text \in Texts
    BY <1>5 DEF Replace, PutFails, Reply, PutAt, IntentTypeOK, NoPut, Again
  <2>2. put' \in [Threads -> [pc : {"open", "write", "replace", "reply"}, text : Texts,
                               file : Files] \cup {NoPut, Again}]
    BY <1>5, <2>1 DEF Replace, PutFails, Reply, IntentTypeOK, PutAt, NoPut, Again
  <2>. QED
    BY <1>5, <2>1, <2>2 DEF Replace, PutFails, Reply, IntentTypeOK
<1>6. ASSUME NEW t \in Threads, Get(t) \/ GetAgain(t)
      PROVE  IntentTypeOK'
  <2>1. Contents \in Texts \cup {Empty, Torn, None}
    BY DEF Contents, IntentTypeOK
  <2>. QED
    BY <1>6, <2>1 DEF Get, GetAgain, IntentTypeOK
<1>7. CASE Restart
  BY <1>7 DEF Restart, IntentTypeOK
<1>. QED
  BY <1>1, <1>2, <1>3, <1>4, <1>5, <1>6, <1>7 DEF Next, vars, IntentNext

Popping == {"look", "used", "expiry", "drop", "use", "take", "log"}
Pops == [pc : Popping, token : Tokens, now : Times]

\* A confirmation under way knows its token.
LEMMA InPop ==
    ASSUME TokenTypeOK, NEW t \in Threads, confirm[t].pc # "idle"
    PROVE  confirm[t] \in Pops /\ confirm[t].token \in Tokens
<1>1. confirm[t] \in Pops
  BY DEF TokenTypeOK, NoConfirm, Pops, Popping
<1>. QED
  BY <1>1 DEF Pops

\* What the two ways to leave a statement of pop do.
LEMMA EndsOf ==
    ASSUME TokenTypeOK, NEW t \in Threads, Ends(t)
    PROVE  /\ confirm'[t] = NoConfirm /\ confirm'[t].pc = "idle"
           /\ \A u \in Threads \ {t} : confirm'[u] = confirm[u]
           /\ confirm' \in [Threads -> Pops \cup {NoConfirm}]
BY DEF TokenTypeOK, Pops, Popping, Ends, NoConfirm

\* Going on to the next line moves one thread and keeps its token.
LEMMA GoesOf ==
    ASSUME TokenTypeOK, NEW t \in Threads, confirm[t].pc # "idle", NEW pc \in Popping, Goes(t, pc)
    PROVE  /\ confirm'[t].pc = pc /\ confirm'[t].token = confirm[t].token
           /\ \A u \in Threads \ {t} : confirm'[u] = confirm[u]
           /\ confirm' \in [Threads -> Pops \cup {NoConfirm}]
<1>1. confirm \in [Threads -> Pops \cup {NoConfirm}]
  BY DEF TokenTypeOK, Pops, Popping
<1>2. confirm[t] \in Pops
  BY InPop
<1>3. /\ [confirm[t] EXCEPT !.pc = pc] \in Pops
      /\ [confirm[t] EXCEPT !.pc = pc].pc = pc
      /\ [confirm[t] EXCEPT !.pc = pc].token = confirm[t].token
  BY <1>2 DEF Pops
<1>4. confirm' = [confirm EXCEPT ![t] = [confirm[t] EXCEPT !.pc = pc]]
  BY <1>1 DEF Goes
<1>. QED
  BY <1>1, <1>3, <1>4

\* The token registry keeps its types.
LEMMA TokenTypes ==
    ASSUME TokenTypeOK, TimeOK, [Next]_vars
    PROVE  TokenTypeOK'
<1>. USE TokenAssumption
<1>0. TokenTypeOK <=>
        /\ commits \subseteq Tokens
        /\ record \in [Tokens -> [expires : Nat, used : BOOLEAN] \cup {None}]
        /\ \A k \in commits : record[k] # None
        /\ audit \in Seq([event : Events, token : Tokens])
        /\ confirm \in [Threads -> Pops \cup {NoConfirm}]
        /\ \A t \in Threads : confirm[t].pc \notin {"idle", "look"} => record[confirm[t].token] # None
  BY DEF TokenTypeOK, Pops, Popping
<1>1. CASE UNCHANGED commitVars
  BY <1>1 DEF TokenTypeOK, commitVars
<1>2. ASSUME NEW event \in Events, NEW k \in Tokens
      PROVE  Logged(event, k) \in Seq([event : Events, token : Tokens])
  BY DEF Logged, TokenTypeOK
<1>3. ASSUME NEW k \in Tokens, Execute(k)
      PROVE  TokenTypeOK'
  <2>1. [expires |-> time + Life, used |-> FALSE] \in [expires : Nat, used : BOOLEAN]
    BY ClockAssumption DEF TimeOK
  <2>2. audit' \in Seq([event : Events, token : Tokens])
    BY <1>2, <1>3 DEF Execute, Events
  <2>3. [expires |-> time + Life, used |-> FALSE] # None
    BY <2>1
  <2>4. record' \in [Tokens -> [expires : Nat, used : BOOLEAN] \cup {None}]
        /\ record'[k] # None /\ \A j \in Tokens : record[j] # None => record'[j] # None
    BY <1>3, <2>1, <2>3 DEF Execute, TokenTypeOK
  <2>. QED
    BY <1>3, <2>2, <2>4 DEF Execute, TokenTypeOK
<1>4. ASSUME NEW t \in Threads, NEW k \in Tokens, Confirm(t, k)
      PROVE  TokenTypeOK'
  BY <1>4 DEF Confirm, TokenTypeOK, TimeOK, Times
<1>5. ASSUME NEW t \in Threads, PopStep(t)
      PROVE  TokenTypeOK'
  <2>1. confirm[t].pc # "idle"
    BY <1>5 DEF PopStep, Look, CheckUsed, CheckExpiry, Use, Delete, Log, ConfirmAt
  <2>2. confirm[t].token \in Tokens
    BY <2>1, InPop
  <2>3. /\ confirm' \in [Threads -> Pops \cup {NoConfirm}]
        /\ \A u \in Threads \ {t} : confirm'[u] = confirm[u]
        /\ confirm'[t].pc # "idle" => confirm'[t].token = confirm[t].token
    <3>1. Ends(t) \/ \E pc \in Popping : Goes(t, pc)
      BY <1>5 DEF PopStep, Look, CheckUsed, CheckExpiry, Use, Delete, Log, Popping
    <3>. QED
      BY <2>1, <3>1, EndsOf, GoesOf
  <2>4. audit' \in Seq([event : Events, token : Tokens])
    BY <1>2, <1>5, <2>2, <1>0
       DEF PopStep, Look, CheckUsed, CheckExpiry, Use, Delete, Log, Events
  <2>5. commits' \subseteq commits
    BY <1>5 DEF PopStep, Look, CheckUsed, CheckExpiry, Use, Delete, Log
  <2>6. record' \in [Tokens -> [expires : Nat, used : BOOLEAN] \cup {None}]
        /\ \A k \in Tokens : record[k] # None => record'[k] # None
    <3>1. CASE Use(t)
      <4>1. record[confirm[t].token] # None
        BY <3>1, <1>0 DEF Use, ConfirmAt
      <4>2. record[confirm[t].token] \in [expires : Nat, used : BOOLEAN]
        BY <4>1, <2>2, <1>0
      <4>3. [record[confirm[t].token] EXCEPT !.used = TRUE] \in [expires : Nat, used : BOOLEAN]
        BY <4>2
      <4>4. [record[confirm[t].token] EXCEPT !.used = TRUE] # None
        BY <4>3
      <4>5. record' = [record EXCEPT ![confirm[t].token] =
                                        [record[confirm[t].token] EXCEPT !.used = TRUE]]
        BY <3>1, <1>0 DEF Use
      <4>. QED
        BY <4>3, <4>4, <4>5, <1>0
    <3>2. CASE ~Use(t)
      BY <1>5, <3>2, <1>0 DEF PopStep, Look, CheckUsed, CheckExpiry, Delete, Log
    <3>. QED
      BY <3>1, <3>2
  <2>7. \A u \in Threads : confirm'[u].pc \notin {"idle", "look"} => record'[confirm'[u].token] # None
    <3>1. ASSUME NEW u \in Threads \ {t}, confirm'[u].pc \notin {"idle", "look"}
          PROVE  record'[confirm'[u].token] # None
      <4>1. confirm'[u] = confirm[u]
        BY <2>3
      <4>2. confirm[u].pc \notin {"idle", "look"}
        BY <3>1, <4>1
      <4>3. confirm[u].token \in Tokens /\ record[confirm[u].token] # None
        BY <4>2, InPop, <1>0
      <4>. QED
        BY <2>6, <4>1, <4>3
    <3>2. ASSUME confirm'[t].pc \notin {"idle", "look"}
          PROVE  record'[confirm'[t].token] # None
      <4>1. CASE confirm[t].pc # "look"
        <5>1. record[confirm[t].token] # None
          BY <2>1, <4>1, <1>0
        <5>2. confirm'[t].token = confirm[t].token
          BY <2>3, <3>2
        <5>. QED
          BY <2>2, <2>6, <5>1, <5>2
      <4>2. CASE confirm[t].pc = "look"
        <5>1. Look(t)
          BY <1>5, <4>2 DEF PopStep, CheckUsed, CheckExpiry, Use, Delete, Log, ConfirmAt
        <5>2. confirm[t].token \in commits
          BY <5>1, <3>2, EndsOf DEF Look
        <5>3. confirm'[t].token = confirm[t].token
          BY <2>3, <3>2
        <5>. QED
          BY <2>2, <2>6, <5>2, <5>3, <1>0
      <4>. QED
        BY <4>1, <4>2
    <3>. QED
      BY <3>1, <3>2
  <2>. QED
    BY <2>3, <2>4, <2>5, <2>6, <2>7 DEF TokenTypeOK, Pops, Popping
<1>. QED
  BY <1>1, <1>3, <1>4, <1>5 DEF Next, vars, TokenNext, TokenTick, commitVars

\* The variables of all the parts keep their types.
THEOREM TypeCorrect == Spec => []TypeOK
<1>. DEFINE Inv == TimeOK /\ TypeOK
<1>1. Init => Inv
  <2>1. ASSUME Init PROVE TimeOK /\ SessTypeOK
    BY <2>1, ClockAssumption DEF Init, SessInit, ClockInit, TimeOK, SessTypeOK, Times
  <2>2. ASSUME Init PROVE RateTypeOK
    BY <2>2, <2>1, RateAssumption DEF Init, RateInit, ClockInit, TimeOK, RateTypeOK, Times
  <2>3. ASSUME Init PROVE IntentTypeOK
    <3>1. IntentInit
      BY <2>3 DEF Init
    <3>2. {path, tmp} \ {None} = {}
      BY <3>1 DEF IntentInit
    <3>3. contents \in [Files -> Texts \cup {Empty, Torn, None}]
      BY <3>1 DEF IntentInit
    <3>4. put \in [Threads -> [pc : {"open", "write", "replace", "reply"}, text : Texts,
                               file : Files] \cup {NoPut, Again}]
      BY <3>1 DEF IntentInit
    <3>5. seen \in [Threads -> Texts \cup {Empty, Torn, None}]
      BY <3>1 DEF IntentInit
    <3>6. \A f \in {path, tmp} \ {None} : contents[f] # None
      BY <3>2
    <3>7. puts \in 0..MaxPuts /\ crashes \in 0..MaxCrashes
      BY <3>1, IntentAssumption DEF IntentInit
    <3>8. met \in BOOLEAN /\ current \subseteq Texts \cup {None} /\ path = None /\ tmp = None
      BY <3>1 DEF IntentInit
    <3>. QED
      BY <3>3, <3>4, <3>5, <3>6, <3>7, <3>8 DEF IntentTypeOK
  <2>4. ASSUME Init PROVE TokenTypeOK
    BY <2>4 DEF Init, TokenInit, TokenTypeOK, NoConfirm
  <2>. QED
    BY <2>1, <2>2, <2>3, <2>4 DEF TypeOK
<1>2. Inv /\ [Next]_vars => Inv'
  BY TimeStep, SessTypes, RateTypes, IntentTypes, TokenTypes DEF TypeOK
<1>. QED
  BY <1>1, <1>2, PTL DEF Spec

----------------------------------------------------------------------------
(* Commit tokens.                                                          *)

Holding(t, pc, k) == confirm[t].pc = pc /\ confirm[t].token = k
LoggedAs(event, k) == \E i \in DOMAIN audit : audit[i].event = event /\ audit[i].token = k

\* The inductive invariant.  A call past its del holds the token alone, and it is the
\* first; what is logged as confirmed is gone; what is gone is accounted for; what is
\* logged as expired is gone or about to be; and a used token is about to be taken.
OneHolder ==
    \A t, u \in Threads, k \in Tokens : Holding(t, "log", k) /\ Holding(u, "log", k) => t = u
HolderFirst ==
    \A t \in Threads, k \in Tokens :
        Holding(t, "log", k) => k \notin commits /\ ~LoggedAs("CONFIRMED", k)
ConfirmedGone ==
    \A k \in Tokens : LoggedAs("CONFIRMED", k) => k \notin commits /\ record[k] # None
GoneAccounted ==
    \A k \in Tokens :
        record[k] # None /\ k \notin commits =>
            \/ \E t \in Threads : Holding(t, "log", k)
            \/ LoggedAs("CONFIRMED", k) \/ LoggedAs("EXPIRED", k)
ExpiredGoes ==
    \A k \in Tokens :
        LoggedAs("EXPIRED", k) =>
            record[k] # None /\ (k \in commits => \E t \in Threads : Holding(t, "drop", k))
DropLogged ==
    \A t \in Threads, k \in Tokens : Holding(t, "drop", k) => LoggedAs("EXPIRED", k)
UsedTaken ==
    \A k \in commits : record[k].used => \E t \in Threads : Holding(t, "take", k)

TokenInv ==
    /\ OneHolder /\ HolderFirst /\ ConfirmedGone /\ CommitsOnce
    /\ GoneAccounted /\ ExpiredGoes /\ DropLogged /\ UsedTaken

\* A log entry is added at the end and leaves the others as they are.
LEMMA LogGrows ==
    ASSUME TokenTypeOK, NEW e \in Events, NEW k \in Tokens, audit' = Logged(e, k)
    PROVE  /\ DOMAIN audit' = DOMAIN audit \cup {Len(audit) + 1}
           /\ \A i \in DOMAIN audit : audit'[i] = audit[i] /\ i # Len(audit) + 1
           /\ audit'[Len(audit) + 1].event = e /\ audit'[Len(audit) + 1].token = k
<1>1. audit \in Seq([event : Events, token : Tokens])
  BY DEF TokenTypeOK
<1>2. audit' = Append(audit, [event |-> e, token |-> k])
  BY DEF Logged
<1>. QED
  BY <1>1, <1>2

\* After it, what is logged is what was, and that entry.
LEMMA LogAdds ==
    ASSUME TokenTypeOK, NEW e \in Events, NEW k \in Tokens, audit' = Logged(e, k)
    PROVE  \A f \in Events, j \in Tokens :
               LoggedAs(f, j)' <=> LoggedAs(f, j) \/ (f = e /\ j = k)
BY LogGrows DEF LoggedAs

\* A step that leaves the log alone leaves all it says.
LEMMA LogStays ==
    ASSUME audit' = audit
    PROVE  \A f \in Events, j \in Tokens : LoggedAs(f, j)' <=> LoggedAs(f, j)
BY DEF LoggedAs

\* The log keeps naming a confirmed token once, if it grows by a token that it does not
\* have as confirmed, or by another event.
LEMMA OnceGrows ==
    ASSUME TokenTypeOK, CommitsOnce, NEW e \in Events, NEW k \in Tokens, audit' = Logged(e, k),
           e = "CONFIRMED" => ~LoggedAs("CONFIRMED", k)
    PROVE  CommitsOnce'
<1>. SUFFICES ASSUME NEW i \in DOMAIN audit', NEW j \in DOMAIN audit', i # j,
                     audit'[i].event = "CONFIRMED", audit'[j].event = "CONFIRMED"
              PROVE  audit'[i].token # audit'[j].token
  BY DEF CommitsOnce
<1>1. CASE i \in DOMAIN audit /\ j \in DOMAIN audit
  BY <1>1, LogGrows DEF CommitsOnce
<1>2. CASE i = Len(audit) + 1 /\ j \in DOMAIN audit
  BY <1>2, LogGrows DEF LoggedAs
<1>3. CASE j = Len(audit) + 1 /\ i \in DOMAIN audit
  BY <1>3, LogGrows DEF LoggedAs
<1>. QED
  BY <1>1, <1>2, <1>3, LogGrows

\* Only the stepping thread's place in pop changes.
LEMMA OthersHold ==
    ASSUME NEW t \in Threads, \A u \in Threads \ {t} : confirm'[u] = confirm[u]
    PROVE  \A u \in Threads \ {t} : \A pc, k : Holding(u, pc, k)' <=> Holding(u, pc, k)
BY DEF Holding

\* Steps that touch no record and leave no mark that the invariant reads.
LEMMA QuietStep ==
    ASSUME TokenTypeOK, TokenInv, NEW t \in Threads,
           \A u \in Threads \ {t} : confirm'[u] = confirm[u],
           confirm[t].pc \notin {"log", "drop", "take"},
           confirm'[t].pc \notin {"log", "drop", "take"},
           UNCHANGED <<commits, record>>,
           \A f \in {"CONFIRMED", "EXPIRED"}, j \in Tokens : LoggedAs(f, j)' <=> LoggedAs(f, j),
           CommitsOnce'
    PROVE  TokenInv'
<1>1. \A u \in Threads : \A k : \A pc \in {"log", "drop", "take"} :
          Holding(u, pc, k)' <=> Holding(u, pc, k)
  BY OthersHold DEF Holding
<1>2. OneHolder'
  BY <1>1 DEF TokenInv, OneHolder
<1>3. HolderFirst'
  BY <1>1 DEF TokenInv, HolderFirst
<1>4. ConfirmedGone'
  BY DEF TokenInv, ConfirmedGone
<1>5. GoneAccounted'
  BY <1>1 DEF TokenInv, GoneAccounted
<1>6. ExpiredGoes'
  BY <1>1 DEF TokenInv, ExpiredGoes
<1>7. DropLogged'
  BY <1>1 DEF TokenInv, DropLogged
<1>8. UsedTaken'
  BY <1>1 DEF TokenInv, UsedTaken
<1>. QED
  BY <1>2, <1>3, <1>4, <1>5, <1>6, <1>7, <1>8 DEF TokenInv

\* A token is created.
LEMMA ExecuteKeeps ==
    ASSUME TokenTypeOK, TokenInv, NEW k \in Tokens, Execute(k)
    PROVE  TokenInv'
<1>1. /\ record[k] = None /\ commits' = commits \cup {k} /\ confirm' = confirm
      /\ audit' = Logged("CREATED", k) /\ "CREATED" \in Events
      /\ \A j \in Tokens \ {k} : record'[j] = record[j]
      /\ record'[k].used = FALSE
      /\ record'[k] = [expires |-> time + Life, used |-> FALSE]
  BY DEF Execute, TokenTypeOK, Events
<1>2. \A f \in {"CONFIRMED", "EXPIRED"}, j \in Tokens : LoggedAs(f, j)' <=> LoggedAs(f, j)
  BY <1>1, LogAdds DEF Events
<1>3. \A u \in Threads : \A pc, j : Holding(u, pc, j)' <=> Holding(u, pc, j)
  BY <1>1 DEF Holding
<1>4. \A u \in Threads : ~Holding(u, "log", k)
  BY <1>1 DEF Holding, TokenTypeOK
<1>5. ~LoggedAs("CONFIRMED", k) /\ ~LoggedAs("EXPIRED", k)
  BY <1>1 DEF TokenInv, ConfirmedGone, ExpiredGoes
<1>6. OneHolder'
  BY <1>3 DEF TokenInv, OneHolder
<1>7. HolderFirst'
  BY <1>1, <1>2, <1>3, <1>4 DEF TokenInv, HolderFirst
<1>8. ConfirmedGone'
  BY <1>1, <1>2, <1>5 DEF TokenInv, ConfirmedGone
<1>9. CommitsOnce'
  BY <1>1, OnceGrows DEF TokenInv
<1>10. GoneAccounted'
  BY <1>1, <1>2, <1>3 DEF TokenInv, GoneAccounted
<1>11. ExpiredGoes'
  BY <1>1, <1>2, <1>3, <1>5 DEF TokenInv, ExpiredGoes
<1>12. DropLogged'
  BY <1>2, <1>3 DEF TokenInv, DropLogged
<1>13. UsedTaken'
  BY <1>1, <1>3 DEF TokenInv, UsedTaken, TokenTypeOK
<1>. QED
  BY <1>6, <1>7, <1>8, <1>9, <1>10, <1>11, <1>12, <1>13 DEF TokenInv

\* A confirmation looks at the token: it goes on, is refused, or is to drop it.
LEMMA LookKeeps ==
    ASSUME TokenTypeOK, TokenInv, NEW t \in Threads, Look(t) \/ CheckUsed(t) \/ CheckExpiry(t)
    PROVE  TokenInv'
<1>. DEFINE k == confirm[t].token
<1>1. confirm[t].pc \in {"look", "used", "expiry"} /\ k \in Tokens
      /\ commits' = commits /\ record' = record
  BY InPop DEF Look, CheckUsed, CheckExpiry, ConfirmAt
<1>2. CASE ~(CheckExpiry(t) /\ Goes(t, "drop"))
  <2>1. Ends(t) \/ \E pc \in {"used", "expiry", "use"} : Goes(t, pc)
    BY <1>2 DEF Look, CheckUsed, CheckExpiry
  <2>2. /\ \A u \in Threads \ {t} : confirm'[u] = confirm[u]
        /\ confirm'[t].pc \in {"idle", "used", "expiry", "use"}
    BY <1>1, <2>1, EndsOf, GoesOf DEF Popping
  <2>3. audit' = audit \/ \E e \in {"INVALID_TOKEN", "REPLAY_ATTEMPT"} : audit' = Logged(e, k)
    BY <1>2 DEF Look, CheckUsed, CheckExpiry
  <2>4. \A f \in {"CONFIRMED", "EXPIRED"}, j \in Tokens : LoggedAs(f, j)' <=> LoggedAs(f, j)
    BY <1>1, <2>3, LogAdds, LogStays DEF Events
  <2>5. CommitsOnce'
    <3>1. CASE audit' = audit
      BY <3>1 DEF CommitsOnce, TokenInv
    <3>. QED
      BY <1>1, <2>3, <3>1, OnceGrows DEF Events, TokenInv
  <2>. QED
    BY <1>1, <2>2, <2>4, <2>5, QuietStep
<1>3. CASE CheckExpiry(t) /\ Goes(t, "drop")
  <2>1. /\ \A u \in Threads \ {t} : confirm'[u] = confirm[u]
        /\ confirm'[t].pc = "drop" /\ confirm'[t].token = k
    BY <1>1, <1>3, GoesOf DEF Popping
  <2>2. confirm[t].pc = "expiry"
    BY <1>3 DEF CheckExpiry, ConfirmAt
  <2>3. audit' = Logged("EXPIRED", k) /\ "EXPIRED" \in Events
    <3>1. CASE Goes(t, "use")
      BY <1>1, <2>1, <3>1, GoesOf DEF Popping
    <3>. QED
      BY <1>3, <3>1 DEF CheckExpiry, Events
  <2>4. record[k] # None
    BY <2>2 DEF TokenTypeOK
  <2>5. \A u \in Threads : \A j : \A pc \in {"log", "take"} :
            Holding(u, pc, j)' <=> Holding(u, pc, j)
    BY <2>1, <2>2, OthersHold DEF Holding
  <2>6. (\A j \in Tokens : j = k => Holding(t, "drop", j)') /\ \A u \in Threads \ {t} : \A j :
            Holding(u, "drop", j)' <=> Holding(u, "drop", j)
    BY <2>1, OthersHold DEF Holding
  <2>7. \A u \in Threads, j \in Tokens :
            /\ Holding(u, "drop", j) => Holding(u, "drop", j)'
            /\ Holding(u, "drop", j)' => Holding(u, "drop", j) \/ j = k
    BY <2>1, <2>2, <2>6 DEF Holding
  <2>8. \A f \in Events, j \in Tokens : LoggedAs(f, j)' <=> LoggedAs(f, j) \/ (f = "EXPIRED" /\ j = k)
    BY <1>1, <2>3, LogAdds
  <2>9. \A j \in Tokens : (LoggedAs("CONFIRMED", j)' <=> LoggedAs("CONFIRMED", j))
                          /\ (LoggedAs("EXPIRED", j)' <=> LoggedAs("EXPIRED", j) \/ j = k)
    BY <2>8 DEF Events
  <2>10. CommitsOnce'
    BY <1>1, <2>3, OnceGrows DEF TokenInv
  <2>11. OneHolder' /\ HolderFirst' /\ ConfirmedGone'
    BY <1>1, <2>5, <2>9 DEF TokenInv, OneHolder, HolderFirst, ConfirmedGone
  <2>12. GoneAccounted'
    BY <1>1, <2>5, <2>9 DEF TokenInv, GoneAccounted
  <2>13. ExpiredGoes'
    <3>1. ASSUME NEW j \in Tokens, LoggedAs("EXPIRED", j)'
          PROVE  record[j] # None /\ (j \in commits => \E u \in Threads : Holding(u, "drop", j)')
      <4>1. CASE j = k
        BY <2>4, <2>6, <4>1
      <4>2. CASE j # k
        <5>1. record[j] # None /\ (j \in commits => \E u \in Threads : Holding(u, "drop", j))
          BY <2>9, <3>1, <4>2 DEF TokenInv, ExpiredGoes
        <5>. QED
          BY <2>7, <5>1
      <4>. QED
        BY <4>1, <4>2
    <3>. QED
      BY <1>1, <3>1 DEF ExpiredGoes
  <2>14. DropLogged'
    BY <2>7, <2>9 DEF TokenInv, DropLogged
  <2>15. UsedTaken'
    BY <1>1, <2>5 DEF TokenInv, UsedTaken
  <2>. QED
    BY <2>10, <2>11, <2>12, <2>13, <2>14, <2>15 DEF TokenInv
<1>. QED
  BY <1>2, <1>3

\* The used flag is set: this is where two confirmations would both go on.
LEMMA UseKeeps ==
    ASSUME TokenTypeOK, TokenInv, NEW t \in Threads, Use(t)
    PROVE  TokenInv'
<1>. DEFINE k == confirm[t].token
<1>1. confirm[t].pc = "use" /\ k \in Tokens /\ commits' = commits /\ audit' = audit
  BY InPop DEF Use, ConfirmAt
<1>2. /\ \A u \in Threads \ {t} : confirm'[u] = confirm[u]
      /\ confirm'[t].pc = "take" /\ confirm'[t].token = k
  BY <1>1, GoesOf DEF Use, Popping
<1>3. \A j \in Tokens : record[j] # None <=> record'[j] # None
  <2>1. record[k] # None
    BY <1>1 DEF TokenTypeOK
  <2>2. record[k] \in [expires : Nat, used : BOOLEAN]
    BY <1>1, <2>1 DEF TokenTypeOK
  <2>3. record' = [record EXCEPT ![k] = [record[k] EXCEPT !.used = TRUE]]
    BY <1>1 DEF Use, TokenTypeOK
  <2>4. [record[k] EXCEPT !.used = TRUE] \in [expires : Nat, used : BOOLEAN]
    BY <2>2
  <2>5. [record[k] EXCEPT !.used = TRUE] # None
    BY <2>4, TokenAssumption
  <2>. QED
    BY <1>1, <2>1, <2>3, <2>5 DEF TokenTypeOK
<1>4. \A j \in Tokens \ {k} : record'[j] = record[j]
  BY <1>1 DEF Use, TokenTypeOK
<1>5. \A u \in Threads : \A j : \A pc \in {"log", "drop"} :
          Holding(u, pc, j)' <=> Holding(u, pc, j)
  BY <1>1, <1>2, OthersHold DEF Holding
<1>6. (\A j \in Tokens : j = k => Holding(t, "take", j)') /\ \A u \in Threads, j \in Tokens :
          Holding(u, "take", j) => Holding(u, "take", j)'
  BY <1>1, <1>2, OthersHold DEF Holding
<1>7. \A f \in {"CONFIRMED", "EXPIRED"}, j \in Tokens : LoggedAs(f, j)' <=> LoggedAs(f, j)
  BY <1>1, LogStays DEF Events
<1>8. CommitsOnce'
  BY <1>1 DEF TokenInv, CommitsOnce
<1>9. OneHolder' /\ HolderFirst' /\ ConfirmedGone'
  BY <1>1, <1>3, <1>5, <1>7 DEF TokenInv, OneHolder, HolderFirst, ConfirmedGone
<1>10. GoneAccounted'
  BY <1>1, <1>3, <1>5, <1>7 DEF TokenInv, GoneAccounted
<1>11. ExpiredGoes' /\ DropLogged'
  BY <1>1, <1>3, <1>5, <1>7 DEF TokenInv, ExpiredGoes, DropLogged
<1>12. UsedTaken'
  <2>1. ASSUME NEW j \in commits, record'[j].used
        PROVE  \E u \in Threads : Holding(u, "take", j)'
    <3>1. CASE j = k
      BY <1>1, <1>6, <3>1
    <3>2. CASE j # k
      <4>1. j \in Tokens /\ record[j].used
        BY <1>4, <2>1, <3>2 DEF TokenTypeOK
      <4>2. PICK u \in Threads : Holding(u, "take", j)
        BY <4>1 DEF TokenInv, UsedTaken
      <4>. QED
        BY <1>6, <4>1, <4>2
    <3>. QED
      BY <3>1, <3>2
  <2>. QED
    BY <1>1, <2>1 DEF UsedTaken
<1>. QED
  BY <1>8, <1>9, <1>10, <1>11, <1>12 DEF TokenInv

\* The token is deleted, after its use or its expiry; the one who deletes it goes on.
LEMMA DeleteKeeps ==
    ASSUME TokenTypeOK, TokenInv, NEW t \in Threads, Delete(t)
    PROVE  TokenInv'
<1>. DEFINE k == confirm[t].token
<1>1. confirm[t].pc \in {"take", "drop"} /\ k \in Tokens
      /\ commits' = commits \ {k} /\ record' = record /\ audit' = audit
  BY InPop DEF Delete, ConfirmAt
<1>2. \A f \in {"CONFIRMED", "EXPIRED"}, j \in Tokens : LoggedAs(f, j)' <=> LoggedAs(f, j)
  BY <1>1, LogStays DEF Events
<1>3. CommitsOnce' /\ ConfirmedGone'
  BY <1>1, <1>2 DEF TokenInv, CommitsOnce, ConfirmedGone
<1>4. \A u \in Threads \ {t} : confirm'[u] = confirm[u]
  BY <1>1, EndsOf, GoesOf DEF Delete, Popping
<1>5. \A u \in Threads \ {t} : \A pc, j : Holding(u, pc, j)' <=> Holding(u, pc, j)
  BY <1>4, OthersHold
<1>6. confirm'[t].pc \in {"idle", "log"}
  BY <1>1, EndsOf, GoesOf DEF Delete, Popping
<1>7. confirm'[t].pc = "log" => confirm[t].pc = "take" /\ k \in commits /\ confirm'[t].token = k
  BY <1>1, EndsOf, GoesOf DEF Delete, Popping, ConfirmAt
<1>8. confirm'[t].pc = "idle" => confirm[t].pc = "drop" \/ k \notin commits
  BY <1>1, EndsOf, GoesOf DEF Delete, Popping, ConfirmAt
<1>9. OneHolder'
  BY <1>5, <1>7 DEF TokenInv, OneHolder, HolderFirst, Holding
<1>10. HolderFirst'
  BY <1>1, <1>2, <1>5, <1>7 DEF TokenInv, HolderFirst, ConfirmedGone, Holding
<1>11. GoneAccounted'
  <2>1. ASSUME NEW j \in Tokens, record[j] # None, j \notin commits'
        PROVE  \/ \E u \in Threads : Holding(u, "log", j)'
               \/ LoggedAs("CONFIRMED", j) \/ LoggedAs("EXPIRED", j)
    <3>1. CASE j \notin commits
      <4>1. \A u \in Threads : Holding(u, "log", j) => u # t
        BY <1>1 DEF Holding
      <4>. QED
        BY <1>5, <2>1, <3>1, <4>1 DEF TokenInv, GoneAccounted
    <3>2. CASE j \in commits /\ confirm[t].pc = "take"
      <4>1. j = k /\ confirm'[t].pc = "log"
        BY <1>1, <1>6, <1>8, <2>1, <3>2
      <4>. QED
        BY <1>7, <4>1 DEF Holding
    <3>3. CASE j \in commits /\ confirm[t].pc = "drop"
      <4>1. j = k
        BY <1>1, <2>1, <3>3
      <4>. QED
        BY <1>1, <3>3, <4>1 DEF TokenInv, DropLogged, Holding
    <3>. QED
      BY <1>1, <3>1, <3>2, <3>3
  <2>. QED
    BY <1>1, <1>2, <2>1 DEF GoneAccounted
<1>12. ExpiredGoes'
  <2>1. ASSUME NEW j \in Tokens, j \in commits', LoggedAs("EXPIRED", j)
        PROVE  \E u \in Threads : Holding(u, "drop", j)'
    <3>1. PICK u \in Threads : Holding(u, "drop", j)
      BY <1>1, <2>1 DEF TokenInv, ExpiredGoes
    <3>2. u # t
      BY <1>1, <2>1, <3>1 DEF Holding
    <3>. QED
      BY <1>5, <3>1, <3>2
  <2>. QED
    BY <1>1, <1>2, <2>1 DEF TokenInv, ExpiredGoes
<1>13. DropLogged'
  BY <1>2, <1>5, <1>6 DEF TokenInv, DropLogged, Holding
<1>14. UsedTaken'
  <2>1. ASSUME NEW j \in commits', record[j].used
        PROVE  \E u \in Threads : Holding(u, "take", j)'
    <3>1. PICK u \in Threads : Holding(u, "take", j)
      BY <1>1, <2>1 DEF TokenInv, UsedTaken
    <3>2. u # t
      BY <1>1, <2>1, <3>1 DEF Holding
    <3>. QED
      BY <1>5, <3>1, <3>2
  <2>. QED
    BY <1>1, <2>1 DEF UsedTaken
<1>. QED
  BY <1>3, <1>9, <1>10, <1>11, <1>12, <1>13, <1>14 DEF TokenInv

\* The confirmation is logged.
LEMMA LogKeeps ==
    ASSUME TokenTypeOK, TokenInv, NEW t \in Threads, Log(t)
    PROVE  TokenInv'
<1>. DEFINE k == confirm[t].token
<1>1. confirm[t].pc = "log" /\ k \in Tokens /\ commits' = commits /\ record' = record
      /\ audit' = Logged("CONFIRMED", k) /\ "CONFIRMED" \in Events
  BY InPop DEF Log, ConfirmAt, Events
<1>2. Holding(t, "log", k)
  BY <1>1 DEF Holding
<1>3. k \notin commits /\ ~LoggedAs("CONFIRMED", k) /\ record[k] # None
  BY <1>1, <1>2 DEF TokenInv, HolderFirst, TokenTypeOK
<1>4. \A u \in Threads \ {t} : confirm'[u] = confirm[u]
  BY EndsOf DEF Log
<1>5. confirm'[t].pc = "idle"
  BY EndsOf DEF Log
<1>6. \A u \in Threads : \A pc \in {"drop", "take"} : \A j :
          Holding(u, pc, j)' <=> Holding(u, pc, j)
  BY <1>1, <1>4, <1>5, OthersHold DEF Holding
<1>7. \A u \in Threads, j \in Tokens : Holding(u, "log", j)' <=> Holding(u, "log", j) /\ u # t
  BY <1>4, <1>5, OthersHold DEF Holding
<1>8. \A j \in Tokens : (LoggedAs("EXPIRED", j)' <=> LoggedAs("EXPIRED", j))
                        /\ (LoggedAs("CONFIRMED", j)' <=> LoggedAs("CONFIRMED", j) \/ j = k)
  <2>1. \A f \in Events, j \in Tokens :
            LoggedAs(f, j)' <=> LoggedAs(f, j) \/ (f = "CONFIRMED" /\ j = k)
    BY <1>1, LogAdds
  <2>. QED
    BY <2>1 DEF Events
<1>9. OneHolder'
  BY <1>7 DEF TokenInv, OneHolder
<1>10. HolderFirst'
  BY <1>1, <1>2, <1>7, <1>8 DEF TokenInv, HolderFirst, OneHolder
<1>11. ConfirmedGone'
  BY <1>1, <1>3, <1>8 DEF TokenInv, ConfirmedGone
<1>12. CommitsOnce'
  BY <1>1, <1>3, OnceGrows DEF TokenInv
<1>13. GoneAccounted'
  <2>1. ASSUME NEW j \in Tokens, record[j] # None, j \notin commits
        PROVE  \/ \E u \in Threads : Holding(u, "log", j)'
               \/ LoggedAs("CONFIRMED", j)' \/ LoggedAs("EXPIRED", j)'
    <3>1. CASE j = k
      BY <1>8, <3>1
    <3>2. CASE j # k
      <4>1. \A u \in Threads : Holding(u, "log", j) => u # t
        BY <3>2 DEF Holding
      <4>. QED
        BY <1>7, <1>8, <2>1, <4>1 DEF TokenInv, GoneAccounted
    <3>. QED
      BY <3>1, <3>2
  <2>. QED
    BY <1>1, <2>1 DEF GoneAccounted
<1>14. ExpiredGoes' /\ DropLogged'
  BY <1>1, <1>6, <1>8 DEF TokenInv, ExpiredGoes, DropLogged
<1>15. UsedTaken'
  BY <1>1, <1>6 DEF TokenInv, UsedTaken
<1>. QED
  BY <1>9, <1>10, <1>11, <1>12, <1>13, <1>14, <1>15 DEF TokenInv

\* Every step keeps the invariant of the tokens.
LEMMA TokenInvStep == TypeOK /\ TokenInv /\ [Next]_vars => TokenInv'
<1>. SUFFICES ASSUME TypeOK, TokenInv, [Next]_vars PROVE TokenInv'
  OBVIOUS
<1>. USE DEF TypeOK
<1>1. CASE UNCHANGED commitVars
  BY <1>1 DEF commitVars, TokenInv, OneHolder, HolderFirst, ConfirmedGone, CommitsOnce,
        GoneAccounted, ExpiredGoes, DropLogged, UsedTaken, Holding, LoggedAs
<1>2. ASSUME NEW k \in Tokens, Execute(k) PROVE TokenInv'
  BY <1>2, ExecuteKeeps
<1>3. ASSUME NEW t \in Threads, NEW k \in Tokens, Confirm(t, k) PROVE TokenInv'
  <2>1. /\ \A u \in Threads \ {t} : confirm'[u] = confirm[u]
        /\ confirm[t].pc = "idle" /\ confirm'[t].pc = "look"
        /\ commits' = commits /\ record' = record /\ audit' = audit
    BY <1>3 DEF Confirm, NoConfirm, TokenTypeOK
  <2>2. CommitsOnce'
    BY <2>1 DEF CommitsOnce, TokenInv
  <2>3. \A f \in {"CONFIRMED", "EXPIRED"}, j \in Tokens : LoggedAs(f, j)' <=> LoggedAs(f, j)
    BY <2>1, LogStays DEF Events
  <2>. QED
    BY <2>1, <2>2, <2>3, QuietStep
<1>4. ASSUME NEW t \in Threads, PopStep(t) PROVE TokenInv'
  BY <1>4, LookKeeps, UseKeeps, DeleteKeeps, LogKeeps DEF PopStep
<1>. QED
  BY <1>1, <1>2, <1>3, <1>4 DEF Next, vars, TokenNext, TokenTick, commitVars

\* The invariant holds of every behaviour.
LEMMA TokenInvCorrect == Spec => []TokenInv
<1>1. Init => TokenInv
  <2>. SUFFICES ASSUME TokenInit PROVE TokenInv
    BY DEF Init
  <2>1. commits = {} /\ DOMAIN audit = {} /\ \A k \in Tokens : record[k] = None
    BY DEF TokenInit
  <2>2. \A t \in Threads : confirm[t].pc = "idle"
    BY DEF TokenInit, NoConfirm
  <2>. QED
    BY <2>1, <2>2 DEF TokenInv, OneHolder, HolderFirst, ConfirmedGone, CommitsOnce,
           GoneAccounted, ExpiredGoes, DropLogged, UsedTaken, Holding, LoggedAs
<1>. QED
  BY <1>1, TokenInvStep, TypeCorrect, PTL DEF Spec

\* Of all the calls that confirm a token, in whatever order their statements meet, one at
\* most is told that it was confirmed.
THEOREM CommitsOnceCorrect == Spec => []CommitsOnce
BY TokenInvCorrect, PTL DEF TokenInv

\* Whenever no call is under way, the audit log accounts for the registry.
THEOREM LogAccountsCorrect == Spec => []LogAccounts
<1>1. TypeOK /\ TokenInv => LogAccounts
  <2>. SUFFICES ASSUME TypeOK, TokenInv, \A t \in Threads : confirm[t] = NoConfirm,
                       NEW k \in Tokens, record[k] # None
                PROVE  /\ k \notin commits <=>
                              \E i \in DOMAIN audit : /\ audit[i].token = k
                                                      /\ audit[i].event \in {"CONFIRMED", "EXPIRED"}
                       /\ k \in commits => ~record[k].used
    BY DEF LogAccounts
  <2>1. \A t \in Threads : \A pc \in Popping : ~Holding(t, pc, k)
    BY DEF Holding, NoConfirm, Popping
  <2>2. k \notin commits <=> LoggedAs("CONFIRMED", k) \/ LoggedAs("EXPIRED", k)
    BY <2>1 DEF TokenInv, GoneAccounted, ConfirmedGone, ExpiredGoes, Popping
  <2>3. k \in commits => ~record[k].used
    BY <2>1 DEF TokenInv, UsedTaken, Popping
  <2>. QED
    BY <2>2, <2>3 DEF LoggedAs
<1>. QED
  BY <1>1, TypeCorrect, TokenInvCorrect, PTL

----------------------------------------------------------------------------
(* The intent file.                                                        *)

\* While no two PUTs have overlapped: the temporary file is not the file that readers
\* see, it is the one the only PUT has opened, and it holds what that PUT wrote.
Alone == \A t, u \in Putting : t = u
Fresh ==
    /\ path # None => path <= puts
    /\ tmp # None => tmp <= puts /\ tmp # path
    /\ \A t \in Threads :
           PutAt(t, "open") => put[t].file = puts /\ path # puts /\ tmp # puts
Opened ==
    \A t \in Threads :
        /\ PutAt(t, "write") \/ PutAt(t, "replace") => tmp = put[t].file
        /\ PutAt(t, "write") => contents[tmp] = Empty
        /\ PutAt(t, "replace") => contents[tmp] = put[t].text
        /\ PutAt(t, "reply") => Contents = put[t].text
Whole ==
    /\ Contents \in current
    /\ \A t \in Threads : seen[t] \in Texts \cup {None} /\ ~PutAt(t, "again")
IntentInv == ~met => Alone /\ Fresh /\ Opened /\ Whole

\* Every step keeps the invariant of the fabric intent.
LEMMA IntentInvStep ==
    ASSUME IntentTypeOK, IntentTypeOK', IntentInv, [Next]_vars
    PROVE  IntentInv'
<1>. USE IntentAssumption
<1>1. CASE UNCHANGED intentVars
  BY <1>1 DEF intentVars, IntentInv, Alone, Fresh, Opened, Whole, Putting, PutAt, Contents
<1>. SUFFICES ASSUME ~met', ~UNCHANGED intentVars PROVE (Alone /\ Fresh /\ Opened /\ Whole)'
  BY <1>1 DEF IntentInv
<1>2. ASSUME NEW t \in Threads, NEW text \in Texts, Put(t, text)
      PROVE  (Alone /\ Fresh /\ Opened /\ Whole)'
  <2>1. ~met /\ Putting = {}
    BY <1>2 DEF Put
  <2>2. Alone /\ Fresh /\ Opened /\ Whole
    BY <2>1 DEF IntentInv
  <2>3. /\ put' = [put EXCEPT ![t] = [pc |-> "open", text |-> text, file |-> puts + 1]]
        /\ puts' = puts + 1 /\ puts \in Nat
        /\ contents' = contents /\ path' = path /\ tmp' = tmp
        /\ current' = current /\ seen' = seen
    BY <1>2 DEF Put, IntentTypeOK
  <2>4. \A u \in Threads : put[u] = NoPut
    BY <2>1, <2>2 DEF Putting, Whole, PutAt, Again
  <2>5. \A u \in Threads : u # t => put'[u] = NoPut
    BY <2>3, <2>4 DEF IntentTypeOK
  <2>6. put'[t] = [pc |-> "open", text |-> text, file |-> puts + 1]
    BY <2>3 DEF IntentTypeOK
  <2>7. Alone'
    BY <2>5 DEF Alone, Putting
  <2>8. Fresh'
    <3>1. (path # None => path \in Nat) /\ (tmp # None => tmp \in Nat)
      BY DEF IntentTypeOK, Files
    <3>2. puts + 1 # None
      BY <2>3, ClockAssumption
    <3>. QED
      BY <2>2, <2>3, <2>5, <2>6, <3>1, <3>2 DEF Fresh, PutAt, NoPut
  <2>9. Opened'
    BY <2>5, <2>6 DEF Opened, PutAt, NoPut
  <2>10. Whole'
    BY <2>2, <2>3, <2>5, <2>6 DEF Whole, PutAt, NoPut, Contents
  <2>. QED
    BY <2>7, <2>8, <2>9, <2>10
<1>3. ASSUME NEW t \in Threads,
             Open(t) \/ Write(t) \/ WriteFails(t) \/ Replace(t) \/ PutFails(t) \/ Reply(t)
      PROVE  (Alone /\ Fresh /\ Opened /\ Whole)'
  <2>1. met' = met /\ seen' = seen /\ puts' = puts /\ puts \in Nat
    BY <1>3 DEF Open, Write, WriteFails, Replace, PutFails, Reply, IntentTypeOK
  <2>2. Alone /\ Fresh /\ Opened /\ Whole
    BY <2>1 DEF IntentInv
  <2>3. put[t].pc \in {"open", "write", "replace", "reply"}
    BY <1>3 DEF Open, Write, WriteFails, Replace, PutFails, Reply, PutAt
  <2>4. put[t] \in Puts /\ put[t].file \in Files /\ put[t].text \in Texts
    BY <2>3, InPut
  <2>5. \A u \in Threads \ {t} : put[u] = NoPut
    BY <2>2, <2>3 DEF Alone, Putting, Whole, PutAt, NoPut, Again
  <2>6. \A u \in Threads \ {t} : put'[u] = NoPut
    BY <1>3, <2>5 DEF Open, Write, WriteFails, Replace, PutFails, Reply, IntentTypeOK
  <2>7. Alone'
    BY <2>6 DEF Alone, Putting
  <2>8. put'[t].pc # "again" /\ put'[t].pc # "open" /\ \A u \in Threads \ {t} : put'[u].pc = "idle"
    <3>1. CASE Open(t)
      <4>1. PICK f : put'[t] = [put[t] EXCEPT !.pc = "write", !.file = f]
        BY <3>1 DEF Open, IntentTypeOK
      <4>2. put'[t].pc = "write"
        BY <2>4, <4>1 DEF Puts
      <4>. QED
        BY <2>6, <4>2 DEF NoPut
    <3>2. CASE Write(t) \/ Replace(t)
      <4>1. PICK pc \in {"replace", "reply"} : put'[t] = [put[t] EXCEPT !.pc = pc]
        BY <3>2 DEF Write, Replace, IntentTypeOK
      <4>2. put'[t].pc = pc
        BY <2>4, <4>1 DEF Puts
      <4>. QED
        BY <2>6, <4>2 DEF NoPut
    <3>3. CASE WriteFails(t) \/ PutFails(t) \/ Reply(t)
      BY <2>6, <3>3 DEF WriteFails, PutFails, Reply, IntentTypeOK, NoPut
    <3>. QED
      BY <1>3, <3>1, <3>2, <3>3
  <2>9. CASE Open(t)
    <3>. DEFINE f == IF tmp # None THEN tmp ELSE put[t].file
    <3>1. f \in Files /\ f # None /\ f # path /\ f <= puts
      <4>1. put[t].file = puts /\ path # puts /\ put[t].file # None
        BY <2>2, <2>4, <2>9, ClockAssumption DEF Open, Fresh, Files
      <4>. QED
        BY <2>1, <2>2, <2>4, <4>1 DEF Fresh, IntentTypeOK
    <3>2. contents' = [contents EXCEPT ![f] = Empty] /\ tmp' = f /\ path' = path /\ current' = current
          /\ put'[t] = [put[t] EXCEPT !.pc = "write", !.file = f]
      BY <2>9 DEF Open, IntentTypeOK
    <3>3. put'[t].pc = "write" /\ put'[t].file = f
      BY <2>4, <3>2 DEF Puts
    <3>4. contents'[f] = Empty /\ Contents' = Contents
      BY <3>1, <3>2 DEF IntentTypeOK, Contents
    <3>. HIDE DEF f
    <3>5. Fresh'
      BY <2>1, <2>2, <2>8, <3>1, <3>2 DEF Fresh, PutAt
    <3>6. Opened'
      BY <2>8, <3>2, <3>3, <3>4 DEF Opened, PutAt
    <3>7. Whole'
      BY <2>1, <2>2, <2>8, <3>2, <3>4 DEF Whole, PutAt
    <3>. QED
      BY <2>7, <3>5, <3>6, <3>7
  <2>10. CASE Write(t) \/ WriteFails(t)
    <3>1. tmp = put[t].file /\ contents[tmp] = Empty /\ tmp # None /\ tmp # path
      BY <2>2, <2>4, <2>10, ClockAssumption DEF Write, WriteFails, Opened, Fresh, Files, PutAt
    <3>2. tmp' = tmp /\ path' = path /\ current' = current
      BY <2>10 DEF Write, WriteFails
    <3>3. Contents' = Contents
      BY <2>4, <2>10, <3>1, <3>2 DEF Write, WriteFails, Contents, IntentTypeOK
    <3>4. ASSUME Write(t) PROVE Opened'
      <4>1. put'[t] = [put[t] EXCEPT !.pc = "replace"] /\ contents'[tmp] = put[t].text
        BY <2>4, <3>1, <3>4 DEF Write, Written, IntentTypeOK
      <4>2. put'[t].pc = "replace" /\ put'[t].file = put[t].file /\ put'[t].text = put[t].text
        BY <2>4, <4>1 DEF Puts
      <4>. QED
        BY <2>8, <3>1, <3>2, <4>1, <4>2 DEF Opened, PutAt
    <3>5. ASSUME WriteFails(t) PROVE Opened'
      <4>1. put'[t].pc = "idle"
        BY <3>5 DEF WriteFails, IntentTypeOK, NoPut
      <4>. QED
        BY <2>8, <4>1 DEF Opened, PutAt
    <3>6. Opened'
      BY <2>10, <3>4, <3>5
    <3>7. Fresh' /\ Whole'
      BY <2>1, <2>2, <2>8, <3>2, <3>3 DEF Fresh, Whole, PutAt
    <3>. QED
      BY <2>7, <3>6, <3>7
  <2>11. CASE Replace(t)
    <3>1. /\ tmp # None /\ path' = tmp /\ tmp' = None /\ current' = current \cup {put[t].text}
          /\ contents' = contents
          /\ put'[t] = [put[t] EXCEPT !.pc = "reply"] /\ contents[tmp] = put[t].text
      BY <2>2, <2>11 DEF Replace, Opened, IntentTypeOK
    <3>2. put'[t].pc = "reply" /\ put'[t].text = put[t].text
      BY <2>4, <3>1 DEF Puts
    <3>3. Contents' = put[t].text
      BY <3>1 DEF Contents
    <3>4. Fresh'
      BY <2>1, <2>2, <2>8, <3>1 DEF Fresh, PutAt
    <3>5. Opened'
      BY <2>8, <3>2, <3>3 DEF Opened, PutAt
    <3>6. Whole'
      BY <2>1, <2>2, <2>8, <3>1, <3>3 DEF Whole, PutAt
    <3>. QED
      BY <2>7, <3>4, <3>5, <3>6
  <2>12. CASE PutFails(t) \/ Reply(t)
    <3>1. contents' = contents /\ path' = path /\ tmp' = tmp /\ Contents' = Contents
      BY <2>12 DEF PutFails, Reply, Contents
    <3>2. put'[t].pc = "idle"
      BY <2>12 DEF PutFails, Reply, IntentTypeOK, NoPut
    <3>3. Contents' \in current'
      BY <2>2, <2>12, <3>1 DEF PutFails, Reply, Opened, Whole
    <3>4. Fresh' /\ Opened' /\ Whole'
      BY <2>1, <2>2, <2>8, <3>1, <3>2, <3>3 DEF Fresh, Opened, Whole, PutAt
    <3>. QED
      BY <2>7, <3>4
  <2>. QED
    BY <1>3, <2>9, <2>10, <2>11, <2>12
<1>4. ASSUME NEW t \in Threads, Get(t) \/ GetAgain(t)
      PROVE  (Alone /\ Fresh /\ Opened /\ Whole)'
  <2>1. ~met
    BY <1>4 DEF Get, GetAgain
  <2>2. Alone /\ Fresh /\ Opened /\ Whole
    BY <2>1 DEF IntentInv
  <2>3. Contents \in Texts \cup {None} /\ Contents \notin {Empty, Torn}
    BY <2>2 DEF Whole, IntentTypeOK
  <2>4. put' = put /\ seen' = [seen EXCEPT ![t] = Contents] /\ Get(t)
    BY <1>4, <2>2, <2>3 DEF Get, GetAgain, Whole
  <2>5. /\ contents' = contents /\ path' = path /\ tmp' = tmp /\ puts' = puts
        /\ current' = current /\ Contents' = Contents
    BY <1>4 DEF Get, GetAgain, Contents
  <2>6. Whole'
    BY <2>2, <2>3, <2>4, <2>5 DEF Whole, PutAt, IntentTypeOK
  <2>. QED
    BY <2>2, <2>4, <2>5, <2>6 DEF Alone, Putting, Fresh, Opened, PutAt
<1>5. CASE Restart
  <2>1. ~met
    BY <1>5 DEF Restart
  <2>2. Alone /\ Fresh /\ Opened /\ Whole
    BY <2>1 DEF IntentInv
  <2>3. /\ \A t \in Threads : put'[t] = NoPut
        /\ contents' = contents /\ path' = path /\ tmp' = tmp /\ puts' = puts
        /\ current' = current /\ seen' = seen /\ Contents' = Contents
    BY <1>5 DEF Restart, Contents
  <2>4. Alone' /\ Opened' /\ Whole'
    BY <2>2, <2>3 DEF Alone, Putting, Opened, Whole, PutAt, NoPut
  <2>5. Fresh'
    BY <2>2, <2>3 DEF Fresh, PutAt, NoPut
  <2>. QED
    BY <2>4, <2>5
<1>. QED
  BY <1>1, <1>2, <1>3, <1>4, <1>5 DEF Next, vars, IntentNext

\* As long as no two PUTs overlap, and whatever fails or dies in between, the file holds a
\* whole intent, the last acknowledged one or one renamed since, and no reader has seen
\* anything else.
THEOREM IntentKeptCorrect == Spec => []IntentKept
<1>1. Init => IntentInv
  <2>. SUFFICES ASSUME IntentInit PROVE IntentInv
    BY DEF Init
  <2>. QED
    BY DEF IntentInit, IntentInv, Alone, Fresh, Opened, Whole, Putting, PutAt, Contents, NoPut
<1>2. TypeOK /\ TypeOK' /\ IntentInv /\ [Next]_vars => IntentInv'
  BY IntentInvStep DEF TypeOK
<1>3. IntentInv => IntentKept
  BY DEF IntentInv, Whole, IntentKept
<1>. QED
  BY <1>1, <1>2, <1>3, TypeCorrect, PTL DEF Spec

----------------------------------------------------------------------------
(* The window of an address, against the admissions that were granted.     *)

\* f names the admission behind each time of a window, in the order they were granted, and
\* misses none that the window should count.
Matches(f, ip) ==
    /\ \A i \in DOMAIN store[ip] : f[i].ip = ip /\ f[i].now = store[ip][i]
    /\ \A i, j \in DOMAIN store[ip] : f[i] = f[j] => i = j
    /\ \A i, j \in DOMAIN store[ip] : i <= j => f[i].at <= f[j].at
    /\ \A a \in admitted :
           a.ip = ip /\ a.now + Window >= time => \E i \in DOMAIN store[ip] : f[i] = a

\* No admission is later than the clock or has the number of a request that is still to
\* get the lock.
AdmissionsInv ==
    /\ IsFiniteSet(admitted)
    /\ \A a \in admitted : a.now <= a.at /\ a.at <= time /\ a.number <= requests
    /\ \A t \in Threads :
           arrival[t] # None =>
               /\ arrival[t].now <= time /\ arrival[t].number <= requests
               /\ \A a \in admitted : a.number # arrival[t].number
    /\ \A t, u \in Threads :
           arrival[t] # None /\ arrival[u] # None /\ arrival[t].number = arrival[u].number =>
               t = u

Granted(ip, now) == {a \in admitted : a.ip = ip /\ a.at + Window >= now}

RateInv ==
    /\ AdmissionsInv
    /\ \A ip \in Ips : \E f \in [DOMAIN store[ip] -> admitted] : Matches(f, ip)
    /\ refusal # None => Cardinality(Granted(refusal.ip, refusal.now)) >= Limit

\* The admissions by their parts.
LEMMA AdmissionFields ==
    ASSUME RateTypeOK, NEW a \in admitted
    PROVE  a.number \in Nat /\ a.now \in Nat /\ a.at \in Nat /\ a.ip \in Ips
<1>1. a \in Admissions /\ Times \subseteq Nat
  BY ClockAssumption DEF RateTypeOK, Times
<1>2. a.number \in 1..MaxRequests /\ a.now \in Times /\ a.at \in Times /\ a.ip \in Ips
  BY <1>1 DEF Admissions
<1>3. 1..MaxRequests \subseteq Nat
  BY RateAssumption
<1>. QED
  BY <1>1, <1>2, <1>3, Zenon

\* A window matches the admissions still when time has passed.
LEMMA MatchesLater ==
    ASSUME RateTypeOK, TimeOK, time <= time', TimeOK', UNCHANGED <<store, admitted>>,
           NEW ip \in Ips, NEW f \in [DOMAIN store[ip] -> admitted], Matches(f, ip)
    PROVE  Matches(f, ip)'
<1>1. \A a \in admitted : a.now \in Nat
  BY AdmissionFields
<1>2. time \in Nat /\ time' \in Nat /\ Window \in Nat
  BY ClockAssumption, RateAssumption DEF TimeOK
<1>3. \A a \in admitted : a.now + Window >= time' => a.now + Window >= time
  BY <1>1, <1>2
<1>4. \A a \in admitted' :
          a.ip = ip /\ a.now + Window >= time' => \E i \in DOMAIN store[ip] : f[i] = a
  BY <1>3 DEF Matches
<1>. QED
  BY <1>4 DEF Matches

\* The admissions behind the entries that are left when the window moves on: they come
\* after d others, whose times count no more.
LEMMA MatchesKept ==
    ASSUME RateTypeOK, TimeOK, NEW ip \in Ips, NEW now \in Times, now <= time,
           NEW f \in [DOMAIN store[ip] -> admitted], Matches(f, ip),
           NEW d \in 0..Len(store[ip]),
           \A i \in 1..d : store[ip][i] + Window < now
    PROVE  \A a \in admitted :
               a.ip = ip /\ a.now + Window >= time =>
                   \E i \in 1..Len(store[ip]) - d : f[d + i] = a
<1>1. SUFFICES ASSUME NEW a \in admitted, a.ip = ip, a.now + Window >= time
               PROVE  \E i \in 1..Len(store[ip]) - d : f[d + i] = a
  OBVIOUS
<1>2. store[ip] \in Seq(Times) /\ Len(store[ip]) \in Nat
      /\ DOMAIN store[ip] = 1..Len(store[ip])
  BY DEF RateTypeOK
<1>3. PICK k \in 1..Len(store[ip]) : f[k] = a
  BY <1>1, <1>2 DEF Matches
<1>4. store[ip][k] = a.now
  BY <1>2, <1>3 DEF Matches
<1>5. a.now \in Nat /\ now \in Nat /\ time \in Nat /\ Window \in Nat
  BY AdmissionFields, ClockAssumption, RateAssumption DEF TimeOK, Times
<1>6. k \notin 1..d
  <2>1. SUFFICES ASSUME k \in 1..d PROVE FALSE
    OBVIOUS
  <2>2. a.now + Window < now
    BY <1>4, <2>1
  <2>. QED
    BY <1>1, <1>5, <2>2
<1>7. k - d \in 1..Len(store[ip]) - d /\ d + (k - d) = k
  BY <1>2, <1>3, <1>6
<1>. QED
  BY <1>3, <1>7

\* A request that is admitted is the newest entry of its window.
LEMMA MatchesAdmit ==
    ASSUME RateTypeOK, TimeOK, AdmissionsInv, NEW t \in Threads, Admit(t), NEW ip \in Ips,
           NEW f \in [DOMAIN store[ip] -> admitted], Matches(f, ip)
    PROVE  \E g \in [DOMAIN store'[ip] -> admitted'] : Matches(g, ip)'
<1>. DEFINE r == arrival[t]
            a == [number |-> r.number, ip |-> r.ip, now |-> r.now, at |-> time]
            kept == Kept(store[r.ip], r.now)
<1>1. /\ r \in Requests /\ r.ip \in Ips /\ r.now \in Times /\ r.now <= time
      /\ store[r.ip] \in Seq(Times)
  BY DEF Admit, RateTypeOK, Requests, AdmissionsInv
<1>2. /\ store' = [store EXCEPT ![r.ip] = Append(kept, r.now)]
      /\ admitted' = admitted \cup {a} /\ time' = time
  BY DEF Admit
<1>3. a.number = r.number /\ a.ip = r.ip /\ a.now = r.now /\ a.at = time
  OBVIOUS
<1>4. a \notin admitted
  BY <1>3 DEF Admit, AdmissionsInv
<1>5. \A b \in admitted : b.at <= time
  BY DEF AdmissionsInv
<1>6. kept \in Seq(Times)
  BY <1>1, KeptIsWindow
<1>7. PICK d \in 0..Len(store[r.ip]) :
          /\ Len(kept) = Len(store[r.ip]) - d
          /\ \A i \in 1..Len(store[r.ip]) - d : kept[i] = store[r.ip][d + i]
          /\ \A i \in 1..d : store[r.ip][i] + Window < r.now
  BY <1>1, KeptIsWindow
<1>. HIDE DEF a, kept
<1>8. CASE ip # r.ip
  <2>1. store'[ip] = store[ip]
    BY <1>1, <1>2, <1>8 DEF RateTypeOK
  <2>2. f \in [DOMAIN store'[ip] -> admitted']
    BY <1>2, <2>1
  <2>3. \A b \in admitted' : b.ip = ip => b \in admitted
    BY <1>2, <1>3, <1>8
  <2>4. Matches(f, ip)'
    BY <1>2, <2>1, <2>3 DEF Matches
  <2>. QED
    BY <2>2, <2>4
<1>9. CASE ip = r.ip
  <2>0. PICK n, g : n = Len(kept) + 1 /\ g = [i \in 1..n |-> IF i = n THEN a ELSE f[d + i]]
    OBVIOUS
  <2>1. /\ store'[ip] = Append(kept, r.now) /\ n \in Nat \ {0} /\ Len(kept) \in Nat
        /\ Len(store[ip]) \in Nat /\ DOMAIN store[ip] = 1..Len(store[ip])
    BY <1>1, <1>2, <1>6, <1>9, <2>0 DEF RateTypeOK
  <2>2. /\ DOMAIN store'[ip] = 1..n
        /\ store'[ip][n] = r.now
        /\ \A i \in 1..n : i # n => i \in 1..Len(kept) /\ store'[ip][i] = kept[i]
    BY <1>1, <1>6, <2>0, <2>1, AppendProperties
  <2>3. \A i \in 1..n : i # n =>
            /\ d + i \in DOMAIN store[ip] /\ g[i] = f[d + i] /\ g[i] \in admitted
            /\ store'[ip][i] = store[ip][d + i]
    BY <1>7, <1>9, <2>0, <2>1, <2>2
  <2>4. g[n] = a
    BY <2>0, <2>1
  <2>5. g \in [DOMAIN store'[ip] -> admitted']
    BY <1>2, <2>0, <2>2, <2>3, <2>4
  <2>6. \A i \in 1..n : g[i].ip = ip /\ g[i].now = store'[ip][i]
    <3>1. ASSUME NEW i \in 1..n PROVE g[i].ip = ip /\ g[i].now = store'[ip][i]
      <4>1. CASE i = n
        BY <1>3, <1>9, <2>2, <2>4, <4>1
      <4>2. CASE i # n
        BY <2>3, <4>2 DEF Matches
      <4>. QED
        BY <4>1, <4>2
    <3>. QED
      BY <3>1
  <2>7. ASSUME NEW i \in 1..n, NEW j \in 1..n, g[i] = g[j] PROVE i = j
    <3>1. CASE i = n \/ j = n
      BY <1>4, <2>3, <2>4, <2>7, <3>1
    <3>2. CASE i # n /\ j # n
      <4>1. d + i = d + j
        BY <2>3, <2>7, <3>2 DEF Matches
      <4>. QED
        BY <2>1, <4>1
    <3>. QED
      BY <3>1, <3>2
  <2>8. ASSUME NEW i \in 1..n, NEW j \in 1..n, i <= j PROVE g[i].at <= g[j].at
    <3>1. CASE i = n
      <4>1. i = j
        BY <2>1, <2>8, <3>1
      <4>2. g[i].at = time /\ time <= time
        BY <1>3, <2>4, <3>1 DEF TimeOK
      <4>. QED
        BY <4>1, <4>2
    <3>2. CASE i # n /\ j = n
      BY <1>3, <1>5, <2>3, <2>4, <3>2
    <3>3. CASE i # n /\ j # n
      <4>1. d + i <= d + j
        BY <2>1, <2>8
      <4>. QED
        BY <2>3, <3>3, <4>1 DEF Matches
    <3>. QED
      BY <3>1, <3>2, <3>3
  <2>9. ASSUME NEW b \in admitted', b.ip = ip, b.now + Window >= time
        PROVE  \E i \in 1..n : g[i] = b
    <3>1. CASE b = a
      BY <2>1, <2>4, <3>1
    <3>2. CASE b # a
      <4>1. b \in admitted
        BY <1>2, <3>2
      <4>2. d \in 0..Len(store[ip]) /\ \A i \in 1..d : store[ip][i] + Window < r.now
        BY <1>7, <1>9
      <4>3. PICK i \in 1..Len(store[ip]) - d : f[d + i] = b
        BY <1>1, <2>9, <4>1, <4>2, MatchesKept
      <4>4. i \in 1..n /\ i # n
        BY <1>7, <1>9, <2>0, <2>1
      <4>. QED
        BY <2>3, <4>3, <4>4
    <3>. QED
      BY <3>1, <3>2
  <2>10. Matches(g, ip)'
    BY <1>2, <2>2, <2>6, <2>7, <2>8, <2>9 DEF Matches
  <2>. QED
    BY <2>5, <2>10
<1>. QED
  BY <1>8, <1>9

\* A refusal leaves no more than the oldest entries out, and what is left has come since a
\* window before the request.
LEMMA MatchesRefuse ==
    ASSUME RateTypeOK, TimeOK, AdmissionsInv, NEW t \in Threads, Refuse(t), NEW ip \in Ips,
           NEW f \in [DOMAIN store[ip] -> admitted], Matches(f, ip)
    PROVE  /\ \E g \in [DOMAIN store'[ip] -> admitted'] : Matches(g, ip)'
           /\ ip = arrival[t].ip =>
                  Cardinality(Granted(ip, arrival[t].now)) >= Limit
<1>. DEFINE r == arrival[t]
            kept == Kept(store[r.ip], r.now)
<1>1. /\ r \in Requests /\ r.ip \in Ips /\ r.now \in Times /\ r.now <= time
      /\ store[r.ip] \in Seq(Times)
  BY DEF Refuse, RateTypeOK, Requests, AdmissionsInv
<1>2. /\ store' = [store EXCEPT ![r.ip] = kept] /\ Len(kept) >= Limit
      /\ admitted' = admitted /\ time' = time
  BY DEF Refuse
<1>3. kept \in Seq(Times)
  BY <1>1, KeptIsWindow
<1>4. PICK d \in 0..Len(store[r.ip]) :
          /\ Len(kept) = Len(store[r.ip]) - d
          /\ \A i \in 1..Len(store[r.ip]) - d : kept[i] = store[r.ip][d + i]
          /\ \A i \in 1..d : store[r.ip][i] + Window < r.now
          /\ d < Len(store[r.ip]) => store[r.ip][d + 1] + Window >= r.now
  BY <1>1, KeptIsWindow
<1>. HIDE DEF kept
<1>5. CASE ip # r.ip
  <2>1. store'[ip] = store[ip]
    BY <1>1, <1>2, <1>5 DEF RateTypeOK
  <2>2. f \in [DOMAIN store'[ip] -> admitted'] /\ Matches(f, ip)'
    BY <1>2, <2>1 DEF Matches
  <2>. QED
    BY <1>5, <2>2
<1>6. CASE ip = r.ip
  <2>0. PICK n, g : n = Len(kept) /\ g = [i \in 1..n |-> f[d + i]]
    OBVIOUS
  <2>1. /\ store'[ip] = kept /\ n \in Nat /\ DOMAIN store'[ip] = 1..n
        /\ Len(store[ip]) \in Nat /\ DOMAIN store[ip] = 1..Len(store[ip])
    BY <1>1, <1>2, <1>3, <1>6, <2>0 DEF RateTypeOK
  <2>2. \A i \in 1..n :
            /\ d + i \in DOMAIN store[ip] /\ g[i] = f[d + i] /\ g[i] \in admitted
            /\ store'[ip][i] = store[ip][d + i]
    <3>. SUFFICES ASSUME NEW i \in 1..n
                  PROVE  /\ d + i \in DOMAIN store[ip] /\ g[i] = f[d + i] /\ g[i] \in admitted
                         /\ store'[ip][i] = store[ip][d + i]
      OBVIOUS
    <3>1. n = Len(store[ip]) - d /\ store'[ip][i] = store[ip][d + i]
      BY <1>4, <1>6, <2>0, <2>1
    <3>2. d + i \in DOMAIN store[ip] /\ g[i] = f[d + i]
      BY <2>0, <2>1, <3>1
    <3>3. f[d + i] \in admitted
      BY <3>2
    <3>. QED
      BY <3>1, <3>2, <3>3
  <2>3. g \in [DOMAIN store'[ip] -> admitted']
    BY <1>2, <2>0, <2>1, <2>2
  <2>4. \A i \in 1..n : g[i].ip = ip /\ g[i].now = store'[ip][i]
    BY <2>2 DEF Matches
  <2>5. ASSUME NEW i \in 1..n, NEW j \in 1..n, g[i] = g[j] PROVE i = j
    <3>1. d + i = d + j
      BY <2>2, <2>5 DEF Matches
    <3>. QED
      BY <2>1, <3>1
  <2>6. ASSUME NEW i \in 1..n, NEW j \in 1..n, i <= j PROVE g[i].at <= g[j].at
    <3>1. d + i <= d + j
      BY <2>1, <2>6
    <3>. QED
      BY <2>2, <3>1 DEF Matches
  <2>7. ASSUME NEW b \in admitted, b.ip = ip, b.now + Window >= time
        PROVE  \E i \in 1..n : g[i] = b
    <3>1. d \in 0..Len(store[ip]) /\ \A i \in 1..d : store[ip][i] + Window < r.now
      BY <1>4, <1>6
    <3>2. PICK i \in 1..Len(store[ip]) - d : f[d + i] = b
      BY <1>1, <2>7, <3>1, MatchesKept
    <3>3. i \in 1..n
      BY <1>4, <1>6, <2>0
    <3>. QED
      BY <2>2, <3>2, <3>3
  <2>8. Matches(g, ip)'
    BY <1>2, <2>1, <2>4, <2>5, <2>6, <2>7 DEF Matches
  <2>9. Cardinality(Granted(ip, r.now)) >= Limit
    <3>1. ASSUME NEW i \in 1..n PROVE g[i] \in Granted(ip, r.now)
      <4>1. 1 \in 1..n /\ 1 <= i
        BY <2>1
      <4>2. g[1].now + Window >= r.now
        <5>1. d < Len(store[ip])
          BY <1>4, <1>6, <2>0, <2>1, <4>1
        <5>2. store[ip][d + 1] + Window >= r.now
          BY <1>4, <1>6, <5>1
        <5>3. g[1].now = store[ip][d + 1]
          BY <2>2, <2>4, <4>1
        <5>. QED
          BY <5>2, <5>3
      <4>3. g[1].now <= g[1].at /\ g[1].at <= g[i].at
        BY <2>2, <2>6, <4>1 DEF AdmissionsInv
      <4>4. /\ g[1].now \in Nat /\ g[1].at \in Nat /\ g[i].at \in Nat
            /\ r.now \in Nat /\ Window \in Nat
        BY <1>1, <2>2, <4>1, AdmissionFields, ClockAssumption, RateAssumption DEF Times
      <4>5. g[i].at + Window >= r.now
        BY <4>2, <4>3, <4>4
      <4>. QED
        BY <2>2, <2>4, <4>5 DEF Granted
    <3>2. g \in Injection(1..n, Granted(ip, r.now))
      BY <2>0, <2>5, <3>1 DEF Injection, IsInjective
    <3>3. IsFiniteSet(Granted(ip, r.now))
      BY FS_Subset DEF AdmissionsInv, Granted
    <3>4. Cardinality(1..n) <= Cardinality(Granted(ip, r.now)) /\ Cardinality(1..n) = n
      BY <2>1, <3>2, <3>3, FS_Injection, FS_Interval
    <3>5. Cardinality(Granted(ip, r.now)) \in Nat
      BY <3>3, FS_CardinalityType
    <3>. QED
      BY <1>2, <2>0, <2>1, <3>4, <3>5, RateAssumption
  <2>. QED
    BY <2>3, <2>8, <2>9
<1>. QED
  BY <1>5, <1>6

\* The admissions and the requests keep their numbers apart.
LEMMA AdmissionsStep ==
    ASSUME RateTypeOK, TimeOK, AdmissionsInv, time <= time', TimeOK',
           \/ \E t \in Threads : Admit(t) \/ Refuse(t) \/ \E ip \in Ips : Arrive(t, ip)
           \/ UNCHANGED limiterVars
    PROVE  AdmissionsInv'
<1>1. time \in Nat /\ time' \in Nat /\ requests \in Nat
  BY RateAssumption, ClockAssumption DEF TimeOK, RateTypeOK
<1>2. \A a \in admitted : a.now \in Nat /\ a.at \in Nat /\ a.number \in Nat
  BY AdmissionFields
<1>3. \A t \in Threads : arrival[t] # None => arrival[t].now \in Nat /\ arrival[t].number \in Nat
  <2>1. SUFFICES ASSUME NEW t \in Threads, arrival[t] # None
                 PROVE  arrival[t].now \in Nat /\ arrival[t].number \in Nat
    OBVIOUS
  <2>2. arrival[t].number \in 1..MaxRequests /\ arrival[t].now \in Times
    BY <2>1 DEF RateTypeOK, Requests
  <2>. QED
    BY <2>2, RateAssumption, ClockAssumption DEF Times
<1>4. CASE UNCHANGED limiterVars
  BY <1>1, <1>2, <1>3, <1>4 DEF limiterVars, AdmissionsInv
<1>5. ASSUME NEW t \in Threads, NEW ip \in Ips, Arrive(t, ip) PROVE AdmissionsInv'
  <2>1. /\ requests' = requests + 1 /\ admitted' = admitted /\ time' = time
        /\ arrival'[t] = [number |-> requests + 1, ip |-> ip, now |-> time]
        /\ \A u \in Threads \ {t} : arrival'[u] = arrival[u]
    BY <1>5 DEF Arrive, RateTypeOK
  <2>2. arrival'[t].number = requests + 1 /\ arrival'[t].now = time
    BY <2>1
  <2>3. \A a \in admitted' : a.now <= a.at /\ a.at <= time' /\ a.number <= requests'
    BY <1>1, <1>2, <2>1 DEF AdmissionsInv
  <2>4. ASSUME NEW u \in Threads, arrival'[u] # None
        PROVE  /\ arrival'[u].now <= time' /\ arrival'[u].number <= requests'
               /\ \A a \in admitted' : a.number # arrival'[u].number
    <3>1. CASE u = t
      BY <1>1, <1>2, <2>1, <2>2, <3>1 DEF AdmissionsInv
    <3>2. CASE u # t
      BY <1>1, <1>3, <2>1, <2>4, <3>2 DEF AdmissionsInv
    <3>. QED
      BY <3>1, <3>2
  <2>5. ASSUME NEW u \in Threads, NEW v \in Threads, arrival'[u] # None, arrival'[v] # None,
               arrival'[u].number = arrival'[v].number
        PROVE  u = v
    <3>1. \A w \in Threads \ {t} : arrival'[w] # None => arrival'[w].number <= requests
      BY <2>1 DEF AdmissionsInv
    <3>2. \A w \in Threads \ {t} : arrival'[w] # None => arrival'[w].number \in Nat
      BY <1>3, <2>1
    <3>3. CASE u = t \/ v = t
      BY <1>1, <2>2, <2>5, <3>1, <3>2, <3>3
    <3>4. CASE u # t /\ v # t
      BY <2>1, <2>5, <3>4 DEF AdmissionsInv
    <3>. QED
      BY <3>3, <3>4
  <2>. QED
    BY <2>1, <2>3, <2>4, <2>5 DEF AdmissionsInv
<1>6. ASSUME NEW t \in Threads, Admit(t) PROVE AdmissionsInv'
  <2>. DEFINE r == arrival[t]
              a == [number |-> r.number, ip |-> r.ip, now |-> r.now, at |-> time]
  <2>1. /\ requests' = requests /\ admitted' = admitted \cup {a} /\ time' = time
        /\ arrival'[t] = None
        /\ \A u \in Threads \ {t} : arrival'[u] = arrival[u]
    BY <1>6 DEF Admit, RateTypeOK
  <2>2. a.number = r.number /\ a.now = r.now /\ a.at = time /\ r # None
    BY <1>6 DEF Admit
  <2>. HIDE DEF a
  <2>3. IsFiniteSet(admitted')
    BY <2>1, FS_AddElement DEF AdmissionsInv
  <2>4. \A b \in admitted' : b.now <= b.at /\ b.at <= time' /\ b.number <= requests'
    BY <1>1, <2>1, <2>2 DEF AdmissionsInv
  <2>5. \A u \in Threads :
            arrival'[u] # None =>
                /\ arrival'[u].now <= time' /\ arrival'[u].number <= requests'
                /\ \A b \in admitted' : b.number # arrival'[u].number
    BY <2>1, <2>2 DEF AdmissionsInv
  <2>. QED
    BY <2>1, <2>3, <2>4, <2>5 DEF AdmissionsInv
<1>7. ASSUME NEW t \in Threads, Refuse(t) PROVE AdmissionsInv'
  <2>1. /\ requests' = requests /\ admitted' = admitted /\ time' = time
        /\ arrival'[t] = None
        /\ \A u \in Threads \ {t} : arrival'[u] = arrival[u]
    BY <1>7 DEF Refuse, RateTypeOK
  <2>. QED
    BY <2>1 DEF AdmissionsInv
<1>. QED
  BY <1>4, <1>5, <1>6, <1>7

\* Every step of the front end keeps what is known of the admissions.
LEMMA RateInvStep ==
    ASSUME RateTypeOK, RateTypeOK', TimeOK, RateInv, [Next]_vars
    PROVE  RateInv'
<1>1. time <= time' /\ TimeOK'
  BY TimeStep
<1>2. \/ \E t \in Threads : Admit(t) \/ Refuse(t) \/ \E ip \in Ips : Arrive(t, ip)
      \/ UNCHANGED limiterVars
  BY DEF Next, vars, RateNext, RateTick, limiterVars
<1>3. AdmissionsInv'
  BY <1>1, <1>2, AdmissionsStep DEF RateInv
<1>4. ASSUME NEW ip \in Ips
      PROVE  \E f \in [DOMAIN store'[ip] -> admitted'] : Matches(f, ip)'
  <2>1. PICK f \in [DOMAIN store[ip] -> admitted] : Matches(f, ip)
    BY DEF RateInv
  <2>2. CASE UNCHANGED <<store, admitted>>
    BY <1>1, <2>1, <2>2, MatchesLater
  <2>3. CASE \E t \in Threads : Admit(t)
    BY <2>1, <2>3, MatchesAdmit DEF RateInv
  <2>4. CASE \E t \in Threads : Refuse(t)
    BY <2>1, <2>4, MatchesRefuse DEF RateInv
  <2>. QED
    BY <1>2, <2>2, <2>3, <2>4 DEF Arrive, limiterVars
<1>5. admitted \subseteq admitted'
  BY <1>2 DEF Admit, Refuse, Arrive, limiterVars
<1>6. ASSUME refusal' # None
      PROVE  Cardinality(Granted(refusal.ip, refusal.now))' >= Limit
  <2>1. CASE refusal' = refusal
    <3>. DEFINE S == Granted(refusal.ip, refusal.now)
                T == {a \in admitted' : a.ip = refusal.ip /\ a.at + Window >= refusal.now}
    <3>1. Cardinality(S) >= Limit
      BY <1>6, <2>1 DEF RateInv
    <3>2. IsFiniteSet(T) /\ S \subseteq T
      BY <1>3, <1>5, FS_Subset DEF AdmissionsInv, Granted
    <3>3. Cardinality(S) \in Nat /\ Cardinality(T) \in Nat /\ Cardinality(S) <= Cardinality(T)
      BY <3>2, FS_Subset, FS_CardinalityType
    <3>4. Granted(refusal.ip, refusal.now)' = T
      BY <2>1 DEF Granted
    <3>. QED
      BY <3>1, <3>3, <3>4, RateAssumption
  <2>2. ASSUME NEW t \in Threads, Refuse(t)
        PROVE  Cardinality(Granted(refusal.ip, refusal.now))' >= Limit
    <3>1. /\ refusal'.ip = arrival[t].ip /\ refusal'.now = arrival[t].now
          /\ admitted' = admitted
      BY <2>2 DEF Refuse
    <3>2. arrival[t].ip \in Ips
      BY <2>2 DEF Refuse, RateTypeOK, Requests
    <3>3. PICK f \in [DOMAIN store[arrival[t].ip] -> admitted] : Matches(f, arrival[t].ip)
      BY <3>2 DEF RateInv
    <3>4. Cardinality(Granted(arrival[t].ip, arrival[t].now)) >= Limit
      BY <2>2, <3>2, <3>3, MatchesRefuse DEF RateInv
    <3>5. Granted(refusal.ip, refusal.now)' = Granted(arrival[t].ip, arrival[t].now)
      BY <3>1 DEF Granted
    <3>. QED
      BY <3>4, <3>5
  <2>. QED
    BY <1>2, <2>1, <2>2 DEF Admit, Arrive, limiterVars
<1>. QED
  BY <1>3, <1>4, <1>6 DEF RateInv

\* An admission that counts is in the window, and the window is never longer than the limit.
LEMMA RateInvKeeps == ASSUME RateTypeOK, TimeOK, RateInv PROVE WindowKept
<1>1. ASSUME NEW ip \in Ips
      PROVE  Cardinality({a \in admitted : a.ip = ip /\ a.now + Window >= time}) <= Limit
  <2>. DEFINE T == {a \in admitted : a.ip = ip /\ a.now + Window >= time}
  <2>1. PICK f \in [DOMAIN store[ip] -> admitted] : Matches(f, ip)
    BY DEF RateInv
  <2>2. PICK n \in Nat : DOMAIN store[ip] = 1..n /\ n <= Limit
    BY DEF RateTypeOK
  <2>. DEFINE D == {i \in 1..n : f[i] \in T}
              g == [i \in D |-> f[i]]
  <2>3. g \in Surjection(D, T)
    BY <2>1, <2>2 DEF Matches, Surjection
  <2>4. IsFiniteSet(1..n) /\ Cardinality(1..n) = n
    BY <2>2, FS_Interval
  <2>. HIDE DEF g
  <2>5. IsFiniteSet(D) /\ Cardinality(D) <= n /\ Cardinality(D) \in Nat
    BY <2>4, FS_Subset, FS_CardinalityType
  <2>. HIDE DEF D, T
  <2>6. Cardinality(T) <= Cardinality(D) /\ IsFiniteSet(T) /\ Cardinality(T) \in Nat
    BY <2>3, <2>5, FS_Surjection, FS_CardinalityType
  <2>7. Cardinality(T) <= Limit
    BY <2>2, <2>5, <2>6, RateAssumption
  <2>. QED
    BY <2>7 DEF T
<1>. QED
  BY <1>1 DEF RateInv, WindowKept, Granted

\* Of the requests of an address, no more than Limit are admitted with times of one window,
\* in whatever order they get the lock; and none is refused unless as many were admitted
\* since a window before it came.
THEOREM WindowKeptCorrect == Spec => []WindowKept
<1>1. Init => RateInv
  <2>. SUFFICES ASSUME RateInit PROVE RateInv
    BY DEF Init
  <2>1. AdmissionsInv
    BY FS_EmptySet DEF RateInit, AdmissionsInv
  <2>2. ASSUME NEW ip \in Ips
        PROVE  \E f \in [DOMAIN store[ip] -> admitted] : Matches(f, ip)
    <3>1. DOMAIN store[ip] = {} /\ admitted = {}
      BY DEF RateInit
    <3>2. [i \in {} |-> i] \in [DOMAIN store[ip] -> admitted]
      BY <3>1
    <3>3. Matches([i \in {} |-> i], ip)
      BY <3>1 DEF Matches
    <3>. QED
      BY <3>2, <3>3
  <2>. QED
    BY <2>1, <2>2 DEF RateInit, RateInv
<1>2. TypeOK /\ TypeOK' /\ RateInv /\ [Next]_vars => RateInv'
  BY RateInvStep DEF TypeOK, RateTypeOK, TimeOK, Times
<1>3. TypeOK /\ RateInv => WindowKept
  BY RateInvKeeps DEF TypeOK, RateTypeOK, TimeOK, Times
<1>. QED
  BY <1>1, <1>2, <1>3, TypeCorrect, PTL DEF Spec

----------------------------------------------------------------------------
(* The cap of the session store.                                           *)

Sids == Keys(sessions)
Lids == Keys(lastSeen)

\* What a thread is doing: it has inserted a session and is to stamp it, beside another
\* call or alone; it is between the two pops of an eviction; it may still add an entry to
\* either dictionary beside another call; it may still insert a session beside another.
Stamps(c) == c # NoCall /\ c.pc = "stamp" /\ c.met
LoneStamps(c) == c # NoCall /\ c.pc = "stamp" /\ ~c.met
Unsees(c) == c # NoCall /\ c.pc = "unsee"
Adds(c) == c # NoCall /\ c.pc # "fetch" /\ c.met
Inserts(c) == c # NoCall /\ c.pc \notin {"touch", "fetch", "stamp"} /\ c.met

Awaiting == {i \in Ids : \E u \in Threads : Stamps(call[u]) /\ call[u].id = i}
Unstamped == {i \in Ids : \E u \in Threads : LoneStamps(call[u]) /\ call[u].id = i}
Leaving == {i \in Ids : \E u \in Threads : Unsees(call[u]) /\ call[u].current = i}
Adders == {u \in Threads : Adds(call[u])}
Inserters == {u \in Threads : Inserts(call[u])}

\* The sessions nobody is about to stamp; the times that have no session and are not
\* about to go; the sessions that have no time.
Settled == Sids \ Awaiting
Stale == (Lids \ Sids) \ Leaving
Untimed == (Sids \ (Lids \ Leaving)) \ Unstamped

\* What may be in the store once the calls under way are over: a call beside another one
\* can leave a session too many, or a time that takes the place of a session in
\* _evict_oldest, and a session without a time is never evicted.
Weight == (IF Cardinality(Settled) >= MaxSessions THEN Cardinality(Settled) ELSE MaxSessions)
          + Cardinality(Stale) + Cardinality(Adders)

Evicts(c) == c.pc \in {"pop", "unsee"} /\ c.next = "insert"
Spare == Cardinality(Sids) < MaxSessions \/ Weight + 1 <= MaxSessions + overlapped

\* What a call that has run alone knows of the store.
Knows(t) ==
    /\ call[t].pc \in {"scan", "check", "room", "least", "oldest"} => call[t].next = "check"
    /\ call[t].pc \in {"check", "room", "least"} => call[t].doomed = {}
    /\ call[t].pc \in {"least", "oldest"} => Cardinality(Sids) >= MaxSessions
    /\ call[t].pc = "oldest" \/ Evicts(call[t]) =>
           /\ \A i, j \in call[t].doomed : i = j
           /\ call[t].pc # "unsee" => call[t].doomed \subseteq Lids
    /\ call[t].pc = "pop" /\ Evicts(call[t]) => Cardinality(Sids) >= MaxSessions
    /\ call[t].pc = "unsee" => call[t].current \in call[t].doomed
    /\ call[t].pc = "unsee" /\ Evicts(call[t]) => Spare
    /\ call[t].pc = "insert" => Spare
    /\ call[t].pc \in {"touch", "fetch", "stamp"} => call[t].id \in Sids

CapInv ==
    /\ \A t, u \in Busy : ~call[t].met => t = u
    /\ Weight <= MaxSessions + overlapped
    /\ Cardinality(Untimed) + Cardinality(Inserters) <= overlapped
    /\ \A t \in Busy : ~call[t].met => Knows(t)

\* Counting finite sets.
LEMMA CountLess ==
    ASSUME NEW B, IsFiniteSet(B), NEW A, A \subseteq B
    PROVE  IsFiniteSet(A) /\ Cardinality(A) \in Nat /\ Cardinality(A) <= Cardinality(B)
BY FS_Subset, FS_CardinalityType

\* One more element at most is one more to count.
LEMMA CountOneMore ==
    ASSUME NEW B, IsFiniteSet(B), NEW x, NEW A, A \subseteq B \cup {x}
    PROVE  Cardinality(A) <= Cardinality(B) + 1
<1>1. IsFiniteSet(B \cup {x})
  BY FS_AddElement
<1>2. Cardinality(B \cup {x}) = IF x \in B THEN Cardinality(B) ELSE Cardinality(B) + 1
  BY FS_AddElement
<1>3. Cardinality(B) \in Nat
  BY FS_CardinalityType
<1>4. Cardinality(A) <= Cardinality(B \cup {x}) /\ Cardinality(A) \in Nat
  BY <1>1, CountLess
<1>. QED
  BY <1>2, <1>3, <1>4

\* A smaller set that lacks an element counts one less.
LEMMA CountOneLess ==
    ASSUME NEW B, IsFiniteSet(B), NEW x \in B, NEW A, A \subseteq B \ {x}
    PROVE  Cardinality(A) + 1 <= Cardinality(B)
<1>1. IsFiniteSet(B \ {x}) /\ Cardinality(B \ {x}) = Cardinality(B) - 1 /\ Cardinality(B) \in Nat
  BY FS_RemoveElement, FS_CardinalityType
<1>. QED
  BY <1>1, CountLess

\* Two sets together have no more elements than each on its own.
LEMMA CountJoined ==
    ASSUME NEW A, NEW B, IsFiniteSet(A), IsFiniteSet(B)
    PROVE  /\ IsFiniteSet(A \cup B) /\ Cardinality(A \cup B) \in Nat
           /\ Cardinality(A \cup B) <= Cardinality(A) + Cardinality(B)
<1>1. /\ Cardinality(A) \in Nat /\ Cardinality(B) \in Nat /\ Cardinality(A \cup B) \in Nat
      /\ Cardinality(A \cap B) \in Nat
  BY FS_Union, FS_Subset, FS_CardinalityType
<1>2. /\ IsFiniteSet(A \cup B)
      /\ Cardinality(A \cup B) = Cardinality(A) + Cardinality(B) - Cardinality(A \cap B)
  BY FS_Union
<1>. QED
  BY <1>1, <1>2

\* All that is counted here is finite.
LEMMA CapFinite ==
    \A A : (A \subseteq Ids \/ A \subseteq Threads) => IsFiniteSet(A) /\ Cardinality(A) \in Nat
BY SessionAssumption, CountLess

\* What the sets are made of.
LEMMA CapSets ==
    /\ Sids \subseteq Ids /\ Lids \subseteq Ids /\ Settled \subseteq Ids /\ Stale \subseteq Ids
    /\ Untimed \subseteq Ids /\ Adders \subseteq Threads /\ Inserters \subseteq Threads
    /\ Busy \subseteq Threads /\ Settled \subseteq Sids
BY DEF Sids, Lids, Settled, Stale, Untimed, Adders, Inserters, Busy, Keys

\* So their sizes are numbers.
LEMMA CapNats ==
    /\ Cardinality(Sids) \in Nat /\ Cardinality(Settled) \in Nat /\ Cardinality(Stale) \in Nat
    /\ Cardinality(Untimed) \in Nat /\ Cardinality(Adders) \in Nat
    /\ Cardinality(Inserters) \in Nat /\ Cardinality(Busy) \in Nat
    /\ Cardinality(Settled) <= Cardinality(Sids) /\ MaxSessions \in Nat \ {0}
BY CapSets, CapFinite, CountLess, SessionAssumption

\* The same after a step.
LEMMA CapNatsNext ==
    /\ Cardinality(Sids') \in Nat /\ Cardinality(Settled') \in Nat /\ Cardinality(Stale') \in Nat
    /\ Cardinality(Untimed') \in Nat /\ Cardinality(Adders') \in Nat
    /\ Cardinality(Inserters') \in Nat
    /\ Cardinality(Settled') <= Cardinality(Sids')
<1>1. /\ Sids' \subseteq Ids /\ Settled' \subseteq Sids' /\ Stale' \subseteq Ids
      /\ Untimed' \subseteq Ids /\ Adders' \subseteq Threads /\ Inserters' \subseteq Threads
  BY DEF Sids, Lids, Settled, Stale, Untimed, Adders, Inserters, Busy, Keys
<1>. QED
  BY <1>1, CapFinite, CountLess

\* What a step of one thread does to the sets: only its own part changes.
LEMMA Turn ==
    ASSUME NEW t \in Threads, \A u \in Threads \ {t} : call'[u] = call[u]
    PROVE  /\ \A i \in Awaiting' : i \in Awaiting \/ (Stamps(call'[t]) /\ call'[t].id = i)
           /\ \A i \in Awaiting : i \in Awaiting' \/ (Stamps(call[t]) /\ call[t].id = i)
           /\ \A i \in Unstamped' : i \in Unstamped \/ (LoneStamps(call'[t]) /\ call'[t].id = i)
           /\ \A i \in Unstamped : i \in Unstamped' \/ (LoneStamps(call[t]) /\ call[t].id = i)
           /\ \A i \in Leaving' : i \in Leaving \/ (Unsees(call'[t]) /\ call'[t].current = i)
           /\ \A i \in Leaving : i \in Leaving' \/ (Unsees(call[t]) /\ call[t].current = i)
           /\ \A u \in Adders' : u \in Adders \/ u = t
           /\ \A u \in Inserters' : u \in Inserters \/ u = t
           /\ t \in Adders' <=> Adds(call'[t])
           /\ t \in Inserters' <=> Inserts(call'[t])
           /\ Busy' \subseteq Busy \cup {t}
<1>1. \A u \in Threads : u = t \/ call'[u] = call[u]
  OBVIOUS
<1>2. /\ \A i \in Awaiting' : i \in Awaiting \/ (Stamps(call'[t]) /\ call'[t].id = i)
      /\ \A i \in Awaiting : i \in Awaiting' \/ (Stamps(call[t]) /\ call[t].id = i)
  BY <1>1 DEF Awaiting
<1>3. /\ \A i \in Unstamped' : i \in Unstamped \/ (LoneStamps(call'[t]) /\ call'[t].id = i)
      /\ \A i \in Unstamped : i \in Unstamped' \/ (LoneStamps(call[t]) /\ call[t].id = i)
  BY <1>1 DEF Unstamped
<1>4. /\ \A i \in Leaving' : i \in Leaving \/ (Unsees(call'[t]) /\ call'[t].current = i)
      /\ \A i \in Leaving : i \in Leaving' \/ (Unsees(call[t]) /\ call[t].current = i)
  BY <1>1 DEF Leaving
<1>5. /\ \A u \in Adders' : u \in Adders \/ u = t
      /\ t \in Adders' <=> Adds(call'[t])
  BY <1>1 DEF Adders
<1>6. /\ \A u \in Inserters' : u \in Inserters \/ u = t
      /\ t \in Inserters' <=> Inserts(call'[t])
  BY <1>1 DEF Inserters
<1>7. Busy' \subseteq Busy \cup {t}
  BY <1>1 DEF Busy
<1>. QED
  BY <1>2, <1>3, <1>4, <1>5, <1>6, <1>7

\* A step after which there is nothing new to count.
Shrinks ==
    /\ Settled' \subseteq Settled /\ Stale' \subseteq Stale /\ Adders' \subseteq Adders
    /\ Untimed' \subseteq Untimed /\ Inserters' \subseteq Inserters

\* What the numbers of the sets say of the two sums.
LEMMA Weighs ==
    ASSUME NEW k \in Nat,
           Cardinality(Settled') + Cardinality(Stale') + Cardinality(Adders') <=
               Cardinality(Settled) + Cardinality(Stale) + Cardinality(Adders) + k,
           Cardinality(Stale') + Cardinality(Adders') <= Cardinality(Stale) + Cardinality(Adders) + k
    PROVE  Weight' <= Weight + k
<1>1. /\ Cardinality(Settled) \in Nat /\ Cardinality(Stale) \in Nat /\ Cardinality(Adders) \in Nat
      /\ Cardinality(Settled') \in Nat /\ Cardinality(Stale') \in Nat
      /\ Cardinality(Adders') \in Nat /\ MaxSessions \in Nat
  BY CapNats, CapNatsNext
<1>. QED
  BY <1>1 DEF Weight

\* A step that adds nothing makes neither sum larger.
LEMMA ShrinksWeighs ==
    ASSUME Shrinks
    PROVE  /\ Weight' <= Weight
           /\ Cardinality(Untimed') + Cardinality(Inserters') <=
                  Cardinality(Untimed) + Cardinality(Inserters)
<1>1. /\ Cardinality(Settled') <= Cardinality(Settled) /\ Cardinality(Stale') <= Cardinality(Stale)
      /\ Cardinality(Adders') <= Cardinality(Adders)
      /\ Cardinality(Untimed') <= Cardinality(Untimed)
      /\ Cardinality(Inserters') <= Cardinality(Inserters)
  BY CapSets, CapFinite, CountLess DEF Shrinks
<1>2. /\ Cardinality(Settled') \in Nat /\ Cardinality(Stale') \in Nat /\ Cardinality(Adders') \in Nat
      /\ Cardinality(Untimed') \in Nat /\ Cardinality(Inserters') \in Nat
      /\ Cardinality(Settled) \in Nat /\ Cardinality(Stale) \in Nat /\ Cardinality(Adders) \in Nat
      /\ Cardinality(Untimed) \in Nat /\ Cardinality(Inserters) \in Nat /\ MaxSessions \in Nat
  BY CapNats, CapNatsNext
<1>3. Weight' <= Weight
  BY <1>1, <1>2 DEF Weight
<1>. QED
  BY <1>1, <1>2, <1>3

\* The steps that read the dictionaries, and those by which a call ends without a stamp.
LEMMA ReadsShrink ==
    ASSUME SessTypeOK, NEW t \in Threads, UNCHANGED <<sessions, lastSeen>>,
           \A u \in Threads \ {t} : call'[u] = call[u],
           ~Unsees(call[t]), ~LoneStamps(call[t]),
           Adds(call'[t]) => Adds(call[t]), Inserts(call'[t]) => Inserts(call[t]),
           ~Stamps(call[t]), ~Unsees(call'[t])
    PROVE  Shrinks
<1>1. Sids' = Sids /\ Lids' = Lids
  BY DEF Sids, Lids, Keys
<1>2. Awaiting \subseteq Awaiting' /\ Leaving \subseteq Leaving' /\ Unstamped \subseteq Unstamped'
  BY Turn
<1>3. Leaving' \subseteq Leaving /\ Adders' \subseteq Adders /\ Inserters' \subseteq Inserters
  <2>1. /\ \A i \in Leaving' : i \in Leaving
        /\ \A u \in Adders' : u \in Adders \/ (u = t /\ Adds(call'[t]))
        /\ \A u \in Inserters' : u \in Inserters \/ (u = t /\ Inserts(call'[t]))
    BY Turn
  <2>. QED
    BY <2>1 DEF Adders, Inserters
<1>4. Settled' \subseteq Settled
  BY <1>1, <1>2 DEF Settled
<1>5. Stale' \subseteq Stale
  BY <1>1, <1>2 DEF Stale
<1>6. Untimed' \subseteq Untimed
  BY <1>1, <1>2, <1>3 DEF Untimed
<1>. QED
  BY <1>3, <1>4, <1>5, <1>6 DEF Shrinks

\* A turn of either loop, field by field.
LEMMA ScanTurn ==
    ASSUME SessTypeOK, NEW t \in Threads, Scan(t)
    PROVE  /\ call[t] # NoCall /\ call[t].pc = "scan" /\ SameSize(t)
           /\ UNCHANGED <<time, sessions, lastSeen, calls, overlapped, given>>
           /\ \A u \in Threads \ {t} : call'[u] = call[u]
           /\ call'[t] # NoCall /\ call'[t].met = call[t].met /\ call'[t].id = call[t].id
           /\ call'[t].now = call[t].now /\ call'[t].size = call[t].size
           /\ call'[t].next = call[t].next
           /\ \/ /\ call'[t].pc = "scan"
                 /\ \A j \in call'[t].doomed : j \in call[t].doomed \/ (j \in Lids /\ Expired(t, j))
              \/ /\ call'[t].pc = IF call[t].doomed = {} THEN "check" ELSE "pop"
                 /\ call'[t].doomed = call[t].doomed
<1>1. /\ call[t] # NoCall /\ call[t].pc = "scan" /\ SameSize(t)
      /\ UNCHANGED <<time, sessions, lastSeen, calls, overlapped, given>>
  BY DEF Scan, CallAt
<1>2. call[t] \in CallRecords /\ call \in [Threads -> CallRecords \cup {NoCall}]
  BY <1>1 DEF SessTypeOK
<1>3. ASSUME NEW i \in Ahead(t), NEW x,
             x = IF Expired(t, i) THEN call[t].doomed \cup {i} ELSE call[t].doomed,
             call' = [call EXCEPT ![t].looked = @ \cup {i}, ![t].doomed = x]
      PROVE  /\ \A u \in Threads \ {t} : call'[u] = call[u]
             /\ call'[t] # NoCall /\ call'[t].met = call[t].met /\ call'[t].id = call[t].id
             /\ call'[t].now = call[t].now /\ call'[t].size = call[t].size
             /\ call'[t].next = call[t].next /\ call'[t].pc = "scan"
             /\ \A j \in call'[t].doomed : j \in call[t].doomed \/ (j \in Lids /\ Expired(t, j))
  <2>1. /\ call'[t].pc = "scan" /\ call'[t].met = call[t].met /\ call'[t].id = call[t].id
        /\ call'[t].now = call[t].now /\ call'[t].size = call[t].size
        /\ call'[t].next = call[t].next /\ call'[t].doomed = x
        /\ \A u \in Threads \ {t} : call'[u] = call[u]
    BY <1>1, <1>2, <1>3 DEF CallRecords
  <2>2. i \in Lids
    BY DEF Ahead, Lids
  <2>3. \A j \in x : j \in call[t].doomed \/ (j \in Lids /\ Expired(t, j))
    <3>1. CASE Expired(t, i)
      BY <1>3, <2>2, <3>1
    <3>2. CASE ~Expired(t, i)
      BY <1>3, <3>2
    <3>. QED
      BY <3>1, <3>2
  <2>4. call'[t] # NoCall
    BY <2>1 DEF NoCall
  <2>. QED
    BY <2>1, <2>3, <2>4
<1>4. CASE call' = [call EXCEPT ![t].pc = IF call[t].doomed = {} THEN "check" ELSE "pop"]
  BY <1>1, <1>2, <1>4 DEF CallRecords, NoCall
<1>5. \/ call' = [call EXCEPT ![t].pc = IF call[t].doomed = {} THEN "check" ELSE "pop"]
      \/ \E i \in Ahead(t) : \E x :
             /\ x = IF Expired(t, i) THEN call[t].doomed \cup {i} ELSE call[t].doomed
             /\ call' = [call EXCEPT ![t].looked = @ \cup {i}, ![t].doomed = x]
  BY <1>2 DEF Scan, CallRecords
<1>. QED
  BY <1>1, <1>3, <1>4, <1>5

\* A turn of min, or its end.
LEMMA OldestTurn ==
    ASSUME SessTypeOK, NEW t \in Threads, Oldest(t)
    PROVE  /\ call[t] # NoCall /\ call[t].pc = "oldest" /\ SameSize(t)
           /\ UNCHANGED <<time, sessions, lastSeen, calls, overlapped, given>>
           /\ \A u \in Threads \ {t} : call'[u] = call[u]
           /\ call'[t] # NoCall /\ call'[t].met = call[t].met /\ call'[t].id = call[t].id
           /\ call'[t].size = call[t].size
           /\ \/ \E i \in Lids :
                     /\ call'[t].pc = "oldest" /\ call'[t].next = call[t].next
                     /\ call'[t].looked = call[t].looked \cup {i}
                     /\ \/ /\ call[t].doomed = {} \/ lastSeen[i] < call[t].least
                           /\ call'[t].doomed = {i} /\ call'[t].least = lastSeen[i]
                        \/ /\ ~(call[t].doomed = {} \/ lastSeen[i] < call[t].least)
                           /\ call'[t].doomed = call[t].doomed /\ call'[t].least = call[t].least
              \/ /\ call'[t].pc = "pop" /\ call'[t].next = "insert"
                 /\ call'[t].doomed = call[t].doomed /\ call'[t].least = call[t].least
                 /\ Ahead(t) = {}
<1>1. /\ call[t] # NoCall /\ call[t].pc = "oldest" /\ SameSize(t)
      /\ UNCHANGED <<time, sessions, lastSeen, calls, overlapped, given>>
  BY DEF Oldest, CallAt
<1>2. call[t] \in CallRecords /\ call \in [Threads -> CallRecords \cup {NoCall}]
  BY <1>1 DEF SessTypeOK
<1>3. ASSUME NEW i \in Ahead(t), NEW x, NEW y,
             call' = [call EXCEPT ![t].looked = @ \cup {i}, ![t].doomed = x, ![t].least = y]
      PROVE  /\ \A u \in Threads \ {t} : call'[u] = call[u]
             /\ call'[t] # NoCall /\ call'[t].met = call[t].met /\ call'[t].id = call[t].id
             /\ call'[t].size = call[t].size /\ call'[t].next = call[t].next
             /\ call'[t].pc = "oldest" /\ call'[t].looked = call[t].looked \cup {i}
             /\ call'[t].doomed = x /\ call'[t].least = y /\ i \in Lids
  <2>1. /\ call'[t].pc = "oldest" /\ call'[t].met = call[t].met /\ call'[t].id = call[t].id
        /\ call'[t].size = call[t].size /\ call'[t].next = call[t].next
        /\ call'[t].looked = call[t].looked \cup {i}
        /\ call'[t].doomed = x /\ call'[t].least = y
        /\ \A u \in Threads \ {t} : call'[u] = call[u]
    BY <1>1, <1>2, <1>3 DEF CallRecords
  <2>2. i \in Lids
    BY DEF Ahead, Lids
  <2>. QED
    BY <2>1, <2>2 DEF NoCall
<1>4. CASE /\ call' = [call EXCEPT ![t].pc = "pop", ![t].next = "insert"]
           /\ Ahead(t) = {}
  BY <1>1, <1>2, <1>4 DEF CallRecords, NoCall
<1>5. \/ /\ call' = [call EXCEPT ![t].pc = "pop", ![t].next = "insert"]
         /\ Ahead(t) = {}
      \/ \E i \in Ahead(t) : \E x, y :
             /\ \/ /\ call[t].doomed = {} \/ lastSeen[i] < call[t].least
                   /\ x = {i} /\ y = lastSeen[i]
                \/ /\ ~(call[t].doomed = {} \/ lastSeen[i] < call[t].least)
                   /\ x = call[t].doomed /\ y = call[t].least
             /\ call' = [call EXCEPT ![t].looked = @ \cup {i}, ![t].doomed = x, ![t].least = y]
  <2>1. ASSUME NEW i \in Ahead(t), NEW better \in BOOLEAN,
               better = (call[t].doomed = {} \/ lastSeen[i] < call[t].least),
               call' = [call EXCEPT ![t].looked = @ \cup {i},
                                    ![t].doomed = IF better THEN {i} ELSE @,
                                    ![t].least = IF better THEN lastSeen[i] ELSE @]
        PROVE  \E x, y :
             /\ \/ /\ call[t].doomed = {} \/ lastSeen[i] < call[t].least
                   /\ x = {i} /\ y = lastSeen[i]
                \/ /\ ~(call[t].doomed = {} \/ lastSeen[i] < call[t].least)
                   /\ x = call[t].doomed /\ y = call[t].least
             /\ call' = [call EXCEPT ![t].looked = @ \cup {i}, ![t].doomed = x, ![t].least = y]
    <3>1. CASE better
      BY <1>2, <2>1, <3>1
    <3>2. CASE ~better
      BY <1>2, <2>1, <3>2 DEF CallRecords
    <3>. QED
      BY <3>1, <3>2
  <2>2. CASE Ahead(t) = {}
    BY <2>2 DEF Oldest
  <2>3. CASE Ahead(t) # {}
    <3>1. PICK i \in Ahead(t) :
              LET better == call[t].doomed = {} \/ lastSeen[i] < call[t].least
              IN call' = [call EXCEPT ![t].looked = @ \cup {i},
                                      ![t].doomed = IF better THEN {i} ELSE @,
                                      ![t].least = IF better THEN lastSeen[i] ELSE @]
      BY <2>3 DEF Oldest
    <3>2. PICK better \in BOOLEAN : better = (call[t].doomed = {} \/ lastSeen[i] < call[t].least)
      OBVIOUS
    <3>. QED
      BY <2>1, <3>1, <3>2
  <2>. QED
    BY <2>2, <2>3
<1>6. CASE /\ call' = [call EXCEPT ![t].pc = "pop", ![t].next = "insert"]
           /\ Ahead(t) = {}
  BY <1>1, <1>4, <1>6
<1>7. ASSUME NEW i \in Ahead(t), NEW x, NEW y,
             \/ /\ call[t].doomed = {} \/ lastSeen[i] < call[t].least
                /\ x = {i} /\ y = lastSeen[i]
             \/ /\ ~(call[t].doomed = {} \/ lastSeen[i] < call[t].least)
                /\ x = call[t].doomed /\ y = call[t].least,
             call' = [call EXCEPT ![t].looked = @ \cup {i}, ![t].doomed = x, ![t].least = y]
      PROVE  \E j \in Lids :
                 /\ call'[t].pc = "oldest" /\ call'[t].next = call[t].next
                 /\ call'[t].looked = call[t].looked \cup {j}
                 /\ \/ /\ call[t].doomed = {} \/ lastSeen[j] < call[t].least
                       /\ call'[t].doomed = {j} /\ call'[t].least = lastSeen[j]
                    \/ /\ ~(call[t].doomed = {} \/ lastSeen[j] < call[t].least)
                       /\ call'[t].doomed = call[t].doomed /\ call'[t].least = call[t].least
  <2>1. /\ i \in Lids
        /\ call'[t].pc = "oldest" /\ call'[t].next = call[t].next
        /\ call'[t].looked = call[t].looked \cup {i}
        /\ call'[t].doomed = x /\ call'[t].least = y
    BY <1>3, <1>7
  <2>. QED
    BY <1>7, <2>1
<1>8. CASE \E i \in Ahead(t) : \E x, y :
             /\ \/ /\ call[t].doomed = {} \/ lastSeen[i] < call[t].least
                   /\ x = {i} /\ y = lastSeen[i]
                \/ /\ ~(call[t].doomed = {} \/ lastSeen[i] < call[t].least)
                   /\ x = call[t].doomed /\ y = call[t].least
             /\ call' = [call EXCEPT ![t].looked = @ \cup {i}, ![t].doomed = x, ![t].least = y]
  <2>1. PICK i \in Ahead(t) : \E x, y :
             /\ \/ /\ call[t].doomed = {} \/ lastSeen[i] < call[t].least
                   /\ x = {i} /\ y = lastSeen[i]
                \/ /\ ~(call[t].doomed = {} \/ lastSeen[i] < call[t].least)
                   /\ x = call[t].doomed /\ y = call[t].least
             /\ call' = [call EXCEPT ![t].looked = @ \cup {i}, ![t].doomed = x, ![t].least = y]
    BY <1>8
  <2>2. PICK x, y :
             /\ \/ /\ call[t].doomed = {} \/ lastSeen[i] < call[t].least
                   /\ x = {i} /\ y = lastSeen[i]
                \/ /\ ~(call[t].doomed = {} \/ lastSeen[i] < call[t].least)
                   /\ x = call[t].doomed /\ y = call[t].least
             /\ call' = [call EXCEPT ![t].looked = @ \cup {i}, ![t].doomed = x, ![t].least = y]
    BY <2>1
  <2>3. /\ \A u \in Threads \ {t} : call'[u] = call[u]
        /\ call'[t] # NoCall /\ call'[t].met = call[t].met /\ call'[t].id = call[t].id
        /\ call'[t].size = call[t].size
    BY <1>3, <2>2
  <2>. QED
    BY <1>1, <1>7, <2>2, <2>3
<1>. QED
  BY <1>5, <1>6, <1>8

\* What the steps of a thread do to its call and to the dictionaries.
LEMMA CallMoves ==
    ASSUME SessTypeOK, NEW t \in Threads, SessStep(t)
    PROVE  /\ call[t] # NoCall /\ overlapped' = overlapped
           /\ \A u \in Threads \ {t} : call'[u] = call[u]
           /\ call'[t] # NoCall => call'[t].met = call[t].met /\ call'[t].id = call[t].id
<1>1. call[t] # NoCall
  BY DEF SessStep, LoopRaises, Scan, Pop, Unsee, Check, Touch, Fetch, FetchRaises, Room, Least,
         Oldest, Insert, Stamp, CallAt
<1>2. call[t] \in CallRecords /\ call \in [Threads -> CallRecords \cup {NoCall}]
  BY <1>1 DEF SessTypeOK
<1>3. CASE LoopRaises(t) \/ FetchRaises(t)
  BY <1>1, <1>2, <1>3 DEF LoopRaises, FetchRaises, Fails
<1>4. CASE Fetch(t) \/ Stamp(t)
  BY <1>1, <1>2, <1>4 DEF Fetch, Stamp, Gives
<1>5. CASE Scan(t)
  BY <1>5, ScanTurn
<1>6. CASE Pop(t)
  BY <1>1, <1>2, <1>6 DEF Pop, CallRecords
<1>7. CASE Unsee(t)
  BY <1>1, <1>2, <1>7 DEF Unsee, CallRecords
<1>8. CASE Check(t) \/ Touch(t) \/ Insert(t)
  BY <1>1, <1>2, <1>8 DEF Check, Touch, Insert, CallRecords
<1>9. CASE Room(t)
  BY <1>1, <1>2, <1>9 DEF Room, CallRecords
<1>10. CASE Least(t)
  BY <1>1, <1>2, <1>10 DEF Least, CallRecords
<1>11. CASE Oldest(t)
  BY <1>11, OldestTurn
<1>. QED
  BY <1>3, <1>4, <1>5, <1>6, <1>7, <1>8, <1>9, <1>10, <1>11 DEF SessStep

\* The steps that only read.
Reads(t) == \/ LoopRaises(t) \/ Scan(t) \/ Check(t) \/ Fetch(t) \/ FetchRaises(t)
            \/ Room(t) \/ Least(t) \/ Oldest(t)

\* They leave the dictionaries alone and come to no step that is counted.
LEMMA ReadsStay ==
    ASSUME SessTypeOK, NEW t \in Threads, Reads(t)
    PROVE  /\ UNCHANGED <<sessions, lastSeen>>
           /\ call[t] # NoCall /\ call[t].pc \notin {"pop", "unsee", "touch", "insert", "stamp"}
           /\ call'[t] # NoCall =>
                  /\ call'[t].pc \notin {"unsee", "fetch", "stamp"}
                  /\ call[t].pc # "fetch"
<1>1. /\ call[t] # NoCall /\ UNCHANGED <<sessions, lastSeen>>
      /\ call[t].pc \notin {"pop", "unsee", "touch", "insert", "stamp"}
  BY DEF Reads, LoopRaises, Scan, Check, Fetch, FetchRaises, Room, Least, Oldest, CallAt, Fails
<1>2. call[t] \in CallRecords /\ call \in [Threads -> CallRecords \cup {NoCall}]
  BY <1>1 DEF SessTypeOK
<1>3. CASE LoopRaises(t) \/ FetchRaises(t)
  BY <1>1, <1>2, <1>3 DEF LoopRaises, FetchRaises, Fails
<1>4. CASE Fetch(t)
  BY <1>1, <1>2, <1>4 DEF Fetch, Gives
<1>5. CASE Scan(t)
  BY <1>1, <1>5, ScanTurn
<1>6. CASE Check(t)
  BY <1>1, <1>2, <1>6 DEF Check, CallRecords, CallAt
<1>7. CASE Room(t)
  BY <1>1, <1>2, <1>7 DEF Room, CallRecords, CallAt
<1>8. CASE Least(t)
  BY <1>1, <1>2, <1>8 DEF Least, CallRecords, CallAt
<1>9. CASE Oldest(t)
  BY <1>1, <1>9, OldestTurn
<1>. QED
  BY <1>1, <1>3, <1>4, <1>5, <1>6, <1>7, <1>8, <1>9 DEF Reads

\* They add nothing.
LEMMA ReadsWeigh == ASSUME SessTypeOK, NEW t \in Threads, Reads(t) PROVE Shrinks
<1>1. SessStep(t)
  BY DEF Reads, SessStep
<1>2. Adds(call'[t]) => Adds(call[t])
  BY <1>1, CallMoves, ReadsStay DEF Adds
<1>3. Inserts(call'[t]) => Inserts(call[t])
  BY <1>1, CallMoves, ReadsStay DEF Inserts
<1>4. /\ ~Unsees(call[t]) /\ ~LoneStamps(call[t]) /\ ~Stamps(call[t]) /\ ~Unsees(call'[t])
  BY ReadsStay DEF Unsees, LoneStamps, Stamps
<1>. QED
  BY <1>1, <1>2, <1>3, <1>4, CallMoves, ReadsStay, ReadsShrink

\* The first pop takes a session, and its time is on its way out.
LEMMA PopWeighs ==
    ASSUME SessTypeOK, NEW t \in Threads, Pop(t)
    PROVE  Shrinks
<1>1. SessStep(t)
  BY DEF SessStep
<1>2. PICK i \in call[t].doomed :
          /\ sessions' = [sessions EXCEPT ![i] = None]
          /\ call' = [call EXCEPT ![t].pc = "unsee", ![t].current = i]
  BY DEF Pop
<1>0. call[t] \in CallRecords /\ call \in [Threads -> CallRecords \cup {NoCall}]
  BY DEF SessTypeOK, Pop, CallAt
<1>3. /\ call[t].pc = "pop" /\ call[t] # NoCall /\ lastSeen' = lastSeen
      /\ call'[t] # NoCall /\ call'[t].pc = "unsee" /\ call'[t].current = i /\ i \in Ids
  BY <1>2, <1>0 DEF Pop, CallAt, CallRecords, NoCall
<1>4. Sids' = Sids \ {i} /\ Lids' = Lids
  BY <1>2, <1>3 DEF Sids, Lids, Keys, SessTypeOK
<1>5. /\ \A j \in Leaving' : j \in Leaving \/ j = i
      /\ Leaving \subseteq Leaving' /\ Awaiting \subseteq Awaiting' /\ Unstamped \subseteq Unstamped'
  BY <1>1, <1>3, CallMoves, Turn DEF Unsees, Stamps, LoneStamps
<1>6. i \in Leaving'
  BY <1>3 DEF Leaving, Unsees
<1>7. Adders' \subseteq Adders /\ Inserters' \subseteq Inserters
  <2>1. /\ \A u \in Adders' : u \in Adders \/ (u = t /\ Adds(call'[t]))
        /\ \A u \in Inserters' : u \in Inserters \/ (u = t /\ Inserts(call'[t]))
    BY <1>1, CallMoves, Turn
  <2>2. (Adds(call'[t]) => Adds(call[t])) /\ (Inserts(call'[t]) => Inserts(call[t]))
    BY <1>1, <1>3, CallMoves DEF Adds, Inserts
  <2>. QED
    BY <2>1, <2>2 DEF Adders, Inserters
<1>8. Settled' \subseteq Settled
  BY <1>4, <1>5 DEF Settled
<1>9. Stale' \subseteq Stale
  BY <1>4, <1>5, <1>6 DEF Stale
<1>10. Untimed' \subseteq Untimed
  BY <1>4, <1>5 DEF Untimed
<1>. QED
  BY <1>7, <1>8, <1>9, <1>10 DEF Shrinks

\* The second pop takes the time.
LEMMA UnseeWeighs ==
    ASSUME SessTypeOK, NEW t \in Threads, Unsee(t)
    PROVE  Shrinks
<1>1. SessStep(t)
  BY DEF SessStep
<1>. DEFINE i == call[t].current
<1>0. call[t] \in CallRecords /\ call \in [Threads -> CallRecords \cup {NoCall}]
  BY DEF SessTypeOK, Unsee, CallAt
<1>2. /\ call[t].pc = "unsee" /\ call[t] # NoCall /\ sessions' = sessions
      /\ lastSeen' = [lastSeen EXCEPT ![i] = None]
      /\ call'[t] # NoCall /\ call'[t].pc \in {"pop", "check", "insert"}
  BY <1>0 DEF Unsee, CallAt, CallRecords, NoCall
<1>3. Sids' = Sids /\ Lids' = Lids \ {i}
  BY <1>2 DEF Sids, Lids, Keys, SessTypeOK
<1>4. /\ \A j \in Leaving : j \in Leaving' \/ j = i
      /\ Leaving' \subseteq Leaving /\ Awaiting \subseteq Awaiting' /\ Unstamped \subseteq Unstamped'
  BY <1>1, <1>2, CallMoves, Turn DEF Unsees, Stamps, LoneStamps
<1>5. \A j \in Ids : j = i => j \in Leaving
  BY <1>2 DEF Leaving, Unsees
<1>6. Adders' \subseteq Adders /\ Inserters' \subseteq Inserters
  <2>1. /\ \A u \in Adders' : u \in Adders \/ (u = t /\ Adds(call'[t]))
        /\ \A u \in Inserters' : u \in Inserters \/ (u = t /\ Inserts(call'[t]))
    BY <1>1, CallMoves, Turn
  <2>2. (Adds(call'[t]) => Adds(call[t])) /\ (Inserts(call'[t]) => Inserts(call[t]))
    BY <1>1, <1>2, CallMoves DEF Adds, Inserts
  <2>. QED
    BY <2>1, <2>2 DEF Adders, Inserters
<1>. HIDE DEF i
<1>7. Settled' \subseteq Settled
  BY <1>3, <1>4 DEF Settled
<1>8. Stale' \subseteq Stale
  BY <1>3, <1>4 DEF Stale
<1>9. Untimed' \subseteq Untimed
  BY <1>3, <1>4, <1>5, CapSets DEF Untimed
<1>. QED
  BY <1>6, <1>7, <1>8, <1>9 DEF Shrinks

\* Both sums need the call's own part in what it adds: for a met call that is the end of
\* its adding, and a call that has run alone adds no time without a session.
LEMMA TouchWeighs ==
    ASSUME SessTypeOK, NEW t \in Threads, Touch(t), ~call[t].met => call[t].id \in Sids
    PROVE  /\ Weight' <= Weight
           /\ Cardinality(Untimed') + Cardinality(Inserters') <=
                  Cardinality(Untimed) + Cardinality(Inserters)
<1>1. SessStep(t)
  BY DEF SessStep
<1>. DEFINE i == call[t].id
<1>2. call[t] \in CallRecords /\ call \in [Threads -> CallRecords \cup {NoCall}]
  BY DEF SessTypeOK, Touch, CallAt
<1>3. /\ call[t].pc = "touch" /\ call[t] # NoCall /\ sessions' = sessions
      /\ lastSeen' = [lastSeen EXCEPT ![i] = time]
      /\ call'[t] # NoCall /\ call'[t].pc = "fetch" /\ i \in Ids /\ call[t].met \in BOOLEAN
  BY <1>2 DEF Touch, CallAt, CallRecords, NoCall
<1>4. Sids' = Sids /\ Lids' = Lids \cup {i}
  <2>1. time # None
    BY ClockAssumption DEF SessTypeOK, Times
  <2>. QED
    BY <1>3, <2>1 DEF Sids, Lids, Keys, SessTypeOK
<1>5. Leaving' = Leaving /\ Awaiting \subseteq Awaiting' /\ Unstamped \subseteq Unstamped'
  BY <1>1, <1>3, CallMoves, Turn DEF Unsees, Stamps, LoneStamps
<1>6. Adders' \subseteq Adders /\ Inserters' \subseteq Inserters /\ t \notin Adders'
  <2>1. /\ \A u \in Adders' : u \in Adders \/ (u = t /\ Adds(call'[t]))
        /\ \A u \in Inserters' : u \in Inserters \/ (u = t /\ Inserts(call'[t]))
        /\ t \in Adders' <=> Adds(call'[t])
    BY <1>1, CallMoves, Turn
  <2>2. ~Adds(call'[t]) /\ ~Inserts(call'[t])
    BY <1>3 DEF Adds, Inserts
  <2>. QED
    BY <2>1, <2>2
<1>. HIDE DEF i
<1>7. Settled' \subseteq Settled /\ Untimed' \subseteq Untimed
  BY <1>4, <1>5 DEF Settled, Untimed
<1>8. CASE call[t].met
  <2>1. t \in Adders
    BY <1>3, <1>8 DEF Adders, Adds
  <2>2. Stale' \subseteq Stale \cup {i}
    BY <1>4, <1>5 DEF Stale
  <2>3. /\ Cardinality(Adders') + 1 <= Cardinality(Adders)
        /\ Cardinality(Stale') <= Cardinality(Stale) + 1
        /\ Cardinality(Settled') <= Cardinality(Settled)
        /\ Cardinality(Untimed') <= Cardinality(Untimed)
        /\ Cardinality(Inserters') <= Cardinality(Inserters)
    BY <1>6, <1>7, <2>1, <2>2, CapSets, CapFinite, CountLess, CountOneLess, CountOneMore
  <2>4. Weight' <= Weight + 0
    BY <2>3, CapNats, CapNatsNext, Weighs
  <2>. QED
    BY <2>3, <2>4, CapNats, CapNatsNext DEF Weight
<1>9. CASE ~call[t].met
  <2>1. i \in Sids
    BY <1>9 DEF i
  <2>2. Stale' \subseteq Stale
    BY <1>4, <1>5, <2>1 DEF Stale
  <2>3. Shrinks
    BY <1>6, <1>7, <2>2 DEF Shrinks
  <2>. QED
    BY <2>3, ShrinksWeighs
<1>. QED
  BY <1>3, <1>8, <1>9

\* A session is inserted: beside another call it awaits its stamp; alone there is room for it.
LEMMA InsertWeighs ==
    ASSUME SessTypeOK, NEW t \in Threads, Insert(t), ~call[t].met => Spare,
           Weight <= MaxSessions + overlapped
    PROVE  /\ Weight' <= MaxSessions + overlapped
           /\ Cardinality(Untimed') + Cardinality(Inserters') <=
                  Cardinality(Untimed) + Cardinality(Inserters)
<1>1. SessStep(t)
  BY DEF SessStep
<1>. DEFINE i == call[t].id
<1>2. call[t] \in CallRecords /\ call \in [Threads -> CallRecords \cup {NoCall}]
  BY DEF SessTypeOK, Insert, CallAt
<1>3. /\ call[t].pc = "insert" /\ call[t] # NoCall /\ lastSeen' = lastSeen
      /\ sessions' = [sessions EXCEPT ![i] = call[t].number] /\ call[t].number \in Nat
      /\ call'[t] # NoCall /\ call'[t].pc = "stamp" /\ i \in Ids /\ call[t].met \in BOOLEAN
      /\ call'[t].id = i /\ call'[t].met = call[t].met
  BY <1>2 DEF Insert, CallAt, CallRecords, NoCall
<1>4. Sids' = Sids \cup {i} /\ Lids' = Lids
  <2>1. call[t].number # None
    BY <1>3, ClockAssumption
  <2>. QED
    BY <1>3, <2>1 DEF Sids, Lids, Keys, SessTypeOK
<1>5. /\ Leaving' = Leaving /\ Awaiting \subseteq Awaiting' /\ Unstamped \subseteq Unstamped'
      /\ call[t].met => i \in Awaiting'
      /\ ~call[t].met => i \in Unstamped' /\ Awaiting' = Awaiting
  <2>1. Leaving' = Leaving /\ Awaiting \subseteq Awaiting' /\ Unstamped \subseteq Unstamped'
    BY <1>1, <1>3, CallMoves, Turn DEF Unsees, Stamps, LoneStamps
  <2>2. call[t].met => i \in Awaiting'
    BY <1>3 DEF Awaiting, Stamps
  <2>3. ~call[t].met => i \in Unstamped'
    BY <1>3 DEF Unstamped, LoneStamps
  <2>4. ~call[t].met => Awaiting' \subseteq Awaiting
    BY <1>1, <1>3, CallMoves, Turn DEF Stamps
  <2>. QED
    BY <2>1, <2>2, <2>3, <2>4
<1>6. /\ Adders' \subseteq Adders /\ Inserters' \subseteq Inserters /\ t \notin Inserters'
  <2>1. /\ \A u \in Adders' : u \in Adders \/ (u = t /\ Adds(call'[t]))
        /\ \A u \in Inserters' : u \in Inserters \/ (u = t /\ Inserts(call'[t]))
        /\ t \in Inserters' <=> Inserts(call'[t])
    BY <1>1, CallMoves, Turn
  <2>2. (Adds(call'[t]) => Adds(call[t])) /\ ~Inserts(call'[t])
    BY <1>3 DEF Adds, Inserts
  <2>. QED
    BY <2>1, <2>2 DEF Adders
<1>. HIDE DEF i
<1>7. Stale' \subseteq Stale
  BY <1>4, <1>5 DEF Stale
<1>8. CASE call[t].met
  <2>1. t \in Inserters
    BY <1>3, <1>8 DEF Inserters, Inserts
  <2>2. Untimed' \subseteq Untimed \cup {i} /\ Settled' \subseteq Settled
    BY <1>4, <1>5, <1>8 DEF Untimed, Settled
  <2>3. /\ Cardinality(Inserters') + 1 <= Cardinality(Inserters)
        /\ Cardinality(Untimed') <= Cardinality(Untimed) + 1
        /\ Cardinality(Settled') <= Cardinality(Settled)
        /\ Cardinality(Stale') <= Cardinality(Stale)
        /\ Cardinality(Adders') <= Cardinality(Adders)
    BY <1>6, <1>7, <2>1, <2>2, CapSets, CapFinite, CountLess, CountOneLess, CountOneMore
  <2>. QED
    BY <2>3, CapNats, CapNatsNext DEF Weight, SessTypeOK
<1>9. CASE ~call[t].met
  <2>1. Untimed' \subseteq Untimed /\ Settled' \subseteq Settled \cup {i}
    BY <1>4, <1>5, <1>9 DEF Untimed, Settled
  <2>2. /\ Cardinality(Inserters') <= Cardinality(Inserters)
        /\ Cardinality(Untimed') <= Cardinality(Untimed)
        /\ Cardinality(Settled') <= Cardinality(Settled) + 1
        /\ Cardinality(Stale') <= Cardinality(Stale)
        /\ Cardinality(Adders') <= Cardinality(Adders)
    BY <1>6, <1>7, <2>1, CapSets, CapFinite, CountLess, CountOneMore
  <2>3. Cardinality(Sids) < MaxSessions \/ Weight + 1 <= MaxSessions + overlapped
    BY <1>9 DEF Spare
  <2>4. overlapped \in Nat
    BY DEF SessTypeOK
  <2>. QED
    BY <2>2, <2>3, <2>4, CapNats, CapNatsNext DEF Weight
<1>. QED
  BY <1>3, <1>8, <1>9

\* The stamp makes an awaited session a settled one, or leaves a stale time.
LEMMA StampWeighs ==
    ASSUME SessTypeOK, NEW t \in Threads, Stamp(t), ~call[t].met => call[t].id \in Sids,
           ~call[t].met => \A u \in Busy : u = t
    PROVE  /\ Weight' <= Weight
           /\ Cardinality(Untimed') + Cardinality(Inserters') <=
                  Cardinality(Untimed) + Cardinality(Inserters)
<1>1. SessStep(t)
  BY DEF SessStep
<1>. DEFINE i == call[t].id
<1>2. call[t] \in CallRecords /\ call \in [Threads -> CallRecords \cup {NoCall}]
  BY DEF SessTypeOK, Stamp, CallAt
<1>3. /\ call[t].pc = "stamp" /\ call[t] # NoCall /\ sessions' = sessions
      /\ lastSeen' = [lastSeen EXCEPT ![i] = time]
      /\ call'[t] = NoCall /\ i \in Ids /\ call[t].met \in BOOLEAN
  BY <1>2 DEF Stamp, Gives, CallAt, CallRecords
<1>4. Sids' = Sids /\ Lids' = Lids \cup {i}
  <2>1. time # None
    BY ClockAssumption DEF SessTypeOK, Times
  <2>. QED
    BY <1>3, <2>1 DEF Sids, Lids, Keys, SessTypeOK
<1>5. /\ Leaving' = Leaving /\ \A j \in Awaiting : j \in Awaiting' \/ (j = i /\ call[t].met)
      /\ \A j \in Unstamped : j \in Unstamped' \/ (j = i /\ ~call[t].met)
  BY <1>1, <1>3, CallMoves, Turn DEF Unsees, Stamps, LoneStamps
<1>6. Adders' \subseteq Adders /\ Inserters' \subseteq Inserters /\ t \notin Adders'
  <2>1. /\ \A u \in Adders' : u \in Adders \/ (u = t /\ Adds(call'[t]))
        /\ \A u \in Inserters' : u \in Inserters \/ (u = t /\ Inserts(call'[t]))
        /\ t \in Adders' <=> Adds(call'[t])
    BY <1>1, CallMoves, Turn
  <2>2. ~Adds(call'[t]) /\ ~Inserts(call'[t])
    BY <1>3 DEF Adds, Inserts
  <2>. QED
    BY <2>1, <2>2
<1>. HIDE DEF i
<1>7. CASE call[t].met
  <2>1. t \in Adders
    BY <1>3, <1>7 DEF Adders, Adds
  <2>2. Untimed' \subseteq Untimed
    BY <1>4, <1>5, <1>7 DEF Untimed
  <2>3. \/ Settled' \subseteq Settled /\ Stale' \subseteq Stale \cup {i}
        \/ Settled' \subseteq Settled \cup {i} /\ Stale' \subseteq Stale
    <3>1. CASE i \in Sids
      BY <1>4, <1>5, <3>1 DEF Settled, Stale
    <3>2. CASE i \notin Sids
      BY <1>4, <1>5, <3>2 DEF Settled, Stale
    <3>. QED
      BY <3>1, <3>2
  <2>4. /\ Cardinality(Adders') + 1 <= Cardinality(Adders)
        /\ Cardinality(Untimed') <= Cardinality(Untimed)
        /\ Cardinality(Inserters') <= Cardinality(Inserters)
    BY <1>6, <2>1, <2>2, CapSets, CapFinite, CountLess, CountOneLess
  <2>5. \/ /\ Cardinality(Settled') <= Cardinality(Settled)
           /\ Cardinality(Stale') <= Cardinality(Stale) + 1
        \/ /\ Cardinality(Settled') <= Cardinality(Settled) + 1
           /\ Cardinality(Stale') <= Cardinality(Stale)
    <3>1. CASE Settled' \subseteq Settled /\ Stale' \subseteq Stale \cup {i}
      BY <3>1, CapSets, CapFinite, CountLess, CountOneMore
    <3>2. CASE Settled' \subseteq Settled \cup {i} /\ Stale' \subseteq Stale
      BY <3>2, CapSets, CapFinite, CountLess, CountOneMore
    <3>. QED
      BY <2>3, <3>1, <3>2
  <2>. QED
    BY <2>4, <2>5, CapNats, CapNatsNext DEF Weight
<1>8. CASE ~call[t].met
  <2>1. i \in Sids /\ \A u \in Threads : call[u] # NoCall => u = t
    BY <1>8 DEF i, Busy
  <2>2. Leaving = {}
    BY <1>3, <2>1 DEF Leaving, Unsees
  <2>3. Settled' \subseteq Settled /\ Stale' \subseteq Stale /\ Untimed' \subseteq Untimed
    BY <1>4, <1>5, <1>8, <2>1, <2>2 DEF Settled, Stale, Untimed
  <2>4. Shrinks
    BY <1>6, <2>3 DEF Shrinks
  <2>. QED
    BY <2>4, ShrinksWeighs
<1>. QED
  BY <1>3, <1>7, <1>8

\* While only t runs, and has run alone, nothing is under way but what it does.
LEMMA AloneSets ==
    ASSUME NEW t \in Threads, call[t] # NoCall, ~call[t].met, \A u \in Busy : u = t
    PROVE  /\ Awaiting = {} /\ Adders = {} /\ Inserters = {}
           /\ call[t].pc # "unsee" => Leaving = {}
           /\ call[t].pc # "stamp" => Unstamped = {}
<1>1. \A u \in Threads : call[u] # NoCall => u = t
  BY DEF Busy
<1>2. Awaiting = {}
  BY <1>1 DEF Awaiting, Stamps
<1>3. Adders = {} /\ Inserters = {}
  BY <1>1 DEF Adders, Inserters, Adds, Inserts
<1>4. call[t].pc # "unsee" => Leaving = {}
  BY <1>1 DEF Leaving, Unsees
<1>5. call[t].pc # "stamp" => Unstamped = {}
  BY <1>1 DEF Unstamped, LoneStamps
<1>. QED
  BY <1>2, <1>3, <1>4, <1>5

\* An eviction of the oldest makes room, or takes a stale time away.
LEMMA PopSpares ==
    ASSUME SessTypeOK, NEW t \in Threads, Pop(t), ~call[t].met, \A u \in Busy : u = t,
           Weight <= MaxSessions + overlapped, Cardinality(Sids) >= MaxSessions,
           call[t].doomed \subseteq Lids
    PROVE  Spare'
<1>1. PICK i \in call[t].doomed :
          /\ sessions' = [sessions EXCEPT ![i] = None]
          /\ call' = [call EXCEPT ![t].pc = "unsee", ![t].current = i]
  BY DEF Pop
<1>2. SessStep(t) /\ Shrinks
  BY PopWeighs DEF SessStep
<1>3. call[t] \in CallRecords /\ call \in [Threads -> CallRecords \cup {NoCall}]
  BY DEF SessTypeOK, Pop, CallAt
<1>4. /\ call[t].pc = "pop" /\ call[t] # NoCall /\ lastSeen' = lastSeen /\ i \in Lids
      /\ call'[t].pc = "unsee" /\ call'[t].current = i /\ overlapped' = overlapped
      /\ overlapped \in Nat /\ call'[t] # NoCall
  BY <1>1, <1>3 DEF Pop, CallAt, CallRecords, SessTypeOK, NoCall
<1>5. Sids' = Sids \ {i} /\ Lids' = Lids
  BY <1>1, <1>4 DEF Sids, Lids, Keys, SessTypeOK
<1>6. Awaiting = {} /\ Adders = {} /\ Leaving = {}
  BY <1>4, AloneSets
<1>7. i \in Leaving' /\ Awaiting' = {} /\ Adders' = {}
  <2>1. i \in Leaving'
    BY <1>4, CapSets DEF Leaving, Unsees
  <2>2. Awaiting' = {}
    BY <1>2, <1>4, <1>6, CallMoves, Turn DEF Stamps
  <2>. QED
    BY <1>2, <1>6, <2>1, <2>2 DEF Shrinks
<1>8. Settled = Sids /\ Settled' = Sids'
  BY <1>6, <1>7 DEF Settled
<1>9. CASE i \in Sids
  <2>1. Cardinality(Sids') + 1 <= Cardinality(Sids)
    BY <1>5, <1>9, CapSets, CapFinite, CountOneLess
  <2>2. Cardinality(Stale') <= Cardinality(Stale) /\ Cardinality(Adders') <= Cardinality(Adders)
    BY <1>2, CapSets, CapFinite, CountLess DEF Shrinks
  <2>. QED
    BY <1>4, <1>8, <2>1, <2>2, CapNats, CapNatsNext DEF Spare, Weight
<1>10. CASE i \notin Sids
  <2>1. i \in Stale /\ Stale' \subseteq Stale \ {i}
    BY <1>2, <1>4, <1>6, <1>7, <1>10 DEF Stale, Shrinks
  <2>2. Cardinality(Stale') + 1 <= Cardinality(Stale)
    BY <2>1, CapSets, CapFinite, CountOneLess
  <2>3. Cardinality(Settled') <= Cardinality(Settled) /\ Cardinality(Adders') <= Cardinality(Adders)
    BY <1>2, CapSets, CapFinite, CountLess DEF Shrinks
  <2>. QED
    BY <1>4, <2>2, <2>3, CapNats, CapNatsNext DEF Spare, Weight
<1>. QED
  BY <1>9, <1>10

\* What a call that has run alone knows stays true with its next step.
LEMMA AloneStep ==
    ASSUME SessTypeOK, NEW t \in Threads, SessStep(t), call'[t] # NoCall, ~call[t].met,
           CapInv
    PROVE  Knows(t)'
<1>1. /\ call[t] # NoCall /\ call[t] \in CallRecords
      /\ call \in [Threads -> CallRecords \cup {NoCall}]
  BY CallMoves DEF SessTypeOK
<1>2. /\ \A u \in Busy : u = t
      /\ Knows(t) /\ Weight <= MaxSessions + overlapped /\ t \in Busy
      /\ Cardinality(Untimed) + Cardinality(Inserters) <= overlapped
  BY <1>1 DEF CapInv, Busy
<1>3. overlapped' = overlapped /\ overlapped \in Nat
  BY CallMoves DEF SessTypeOK
<1>4. CASE Scan(t)
  BY <1>2, <1>4, ScanTurn DEF Knows, Evicts
<1>5. CASE Pop(t)
  <2>1. PICK i \in call[t].doomed :
          /\ sessions' = [sessions EXCEPT ![i] = None]
          /\ call' = [call EXCEPT ![t].pc = "unsee", ![t].current = i]
    BY <1>5 DEF Pop
  <2>2. /\ call[t].pc = "pop" /\ call'[t].pc = "unsee" /\ call'[t].current = i
        /\ call'[t].doomed = call[t].doomed /\ call'[t].next = call[t].next
    BY <1>1, <1>5, <2>1 DEF Pop, CallAt, CallRecords
  <2>3. Evicts(call[t]) => Spare'
    BY <1>2, <1>5, <2>2, PopSpares DEF Knows, Evicts
  <2>. QED
    BY <1>2, <2>2, <2>3 DEF Knows, Evicts
<1>6. CASE Unsee(t)
  <2>1. /\ call[t].pc = "unsee" /\ sessions' = sessions
        /\ call'[t].doomed = call[t].doomed \ {call[t].current}
        /\ call'[t].next = call[t].next
        /\ call'[t].pc = IF call[t].doomed \ {call[t].current} = {} THEN call[t].next ELSE "pop"
        /\ call[t].next \in {"check", "insert"}
    BY <1>1, <1>6 DEF Unsee, CallAt, CallRecords
  <2>2. Weight' <= Weight /\ Sids' = Sids
    BY <1>6, <2>1, UnseeWeighs, ShrinksWeighs DEF Sids, Keys
  <2>3. Evicts(call[t]) => Spare'
    <3>1. SUFFICES ASSUME Evicts(call[t]) PROVE Spare'
      OBVIOUS
    <3>2. Spare
      BY <1>2, <2>1, <3>1 DEF Knows
    <3>3. Weight \in Nat /\ Weight' \in Nat
      BY CapNats, CapNatsNext DEF Weight
    <3>4. Weight' + 1 <= MaxSessions + overlapped' \/ Cardinality(Sids') < MaxSessions
      <4>1. CASE Cardinality(Sids) < MaxSessions
        BY <2>2, <4>1
      <4>2. CASE Weight + 1 <= MaxSessions + overlapped
        <5>1. Weight' + 1 <= MaxSessions + overlapped
          <6>1. MaxSessions \in Nat /\ overlapped \in Nat /\ Weight \in Nat /\ Weight' \in Nat
            BY <1>3, <3>3, SessionAssumption
          <6>2. ASSUME NEW a \in Nat, NEW b \in Nat, NEW m \in Nat, NEW o \in Nat,
                       a <= b, b + 1 <= m + o
                PROVE  a + 1 <= m + o
            BY <6>2
          <6>3. Weight' <= Weight
            BY <2>2
          <6>. QED
            BY <4>2, <6>1, <6>2, <6>3
        <5>. QED
          BY <1>3, <5>1
      <4>. QED
        BY <3>2, <4>1, <4>2 DEF Spare
    <3>. QED
      BY <3>4 DEF Spare
  <2>4. Evicts(call[t]) => call'[t].pc = "insert"
    BY <1>2, <2>1 DEF Knows, Evicts
  <2>5. ~Evicts(call[t]) => call[t].next = "check"
    BY <2>1 DEF Evicts
  <2>. QED
    BY <1>2, <2>1, <2>3, <2>4, <2>5 DEF Knows, Evicts
<1>7. CASE Check(t)
  <2>1. /\ call[t].pc = "check" /\ sessions' = sessions
        /\ call'[t].pc = IF sessions[call[t].id] # None THEN "touch" ELSE "room"
        /\ call'[t].id = call[t].id /\ call'[t].doomed = call[t].doomed
        /\ call'[t].next = call[t].next /\ call[t].id \in Ids
    BY <1>1, <1>7 DEF Check, CallAt, CallRecords
  <2>. QED
    BY <1>2, <2>1 DEF Knows, Evicts, Sids, Keys
<1>8. CASE Touch(t)
  <2>1. /\ call[t].pc = "touch" /\ sessions' = sessions
        /\ call'[t].pc = "fetch" /\ call'[t].id = call[t].id
    BY <1>1, <1>8 DEF Touch, CallAt, CallRecords
  <2>. QED
    BY <1>2, <2>1 DEF Knows, Evicts, Sids, Keys
<1>9. CASE Room(t)
  <2>1. /\ call[t].pc = "room" /\ sessions' = sessions
        /\ call'[t].pc = IF Cardinality(Sids) >= MaxSessions THEN "least" ELSE "insert"
        /\ call'[t].doomed = call[t].doomed /\ call'[t].next = call[t].next
    BY <1>1, <1>9 DEF Room, CallAt, CallRecords, Sids
  <2>2. Sids' = Sids
    BY <2>1 DEF Sids, Keys
  <2>. QED
    BY <1>2, <2>1, <2>2, CapNats DEF Knows, Evicts, Spare
<1>10. CASE Least(t)
  <2>1. /\ call[t].pc = "least" /\ sessions' = sessions /\ lastSeen' = lastSeen
        /\ call'[t].pc = IF Lids = {} THEN "insert" ELSE "oldest"
        /\ call'[t].doomed = call[t].doomed /\ call'[t].next = call[t].next
    BY <1>1, <1>10 DEF Least, CallAt, CallRecords, Lids
  <2>2. Sids' = Sids /\ Lids' = Lids
    BY <2>1 DEF Sids, Lids, Keys
  <2>3. Lids = {} => Spare'
    <3>1. SUFFICES ASSUME Lids = {} PROVE Spare'
      OBVIOUS
    <3>2. Untimed = Sids /\ Settled = Sids /\ Stale = {} /\ Adders = {}
      BY <1>1, <1>2, <2>1, <3>1, AloneSets DEF Untimed, Settled, Stale
    <3>3. Weight' <= Weight
      BY <1>10, ReadsWeigh, ShrinksWeighs DEF Reads
    <3>4. Cardinality(Stale) = 0 /\ Cardinality(Adders) = 0
      BY <3>2, FS_EmptySet
    <3>5. Cardinality(Sids) >= MaxSessions /\ Cardinality(Sids) <= overlapped
      BY <1>2, <1>3, <2>1, <3>2, CapNats DEF Knows
    <3>6. Weight = Cardinality(Sids)
      BY <3>2, <3>4, <3>5, CapNats DEF Weight
    <3>7. Weight' \in Nat
      BY CapNats, CapNatsNext DEF Weight
    <3>8. Cardinality(Sids) \in Nat /\ MaxSessions \in Nat \ {0}
      BY CapNats
    <3>9. Weight' + 1 <= MaxSessions + overlapped'
      BY <1>3, <3>3, <3>5, <3>6, <3>7, <3>8
    <3>. QED
      BY <3>9 DEF Spare
  <2>. QED
    BY <1>2, <2>1, <2>2, <2>3 DEF Knows, Evicts
<1>11. CASE Oldest(t)
  <2>1. UNCHANGED <<sessions, lastSeen>> /\ call[t].pc = "oldest"
    BY <1>11, OldestTurn
  <2>2. Sids' = Sids /\ Lids' = Lids
    BY <2>1 DEF Sids, Lids, Keys
  <2>3. Cardinality(Sids) >= MaxSessions /\ call[t].next = "check"
        /\ (\A i, j \in call[t].doomed : i = j) /\ call[t].doomed \subseteq Lids
    BY <1>2, <2>1 DEF Knows
  <2>4. CASE call'[t].pc = "pop"
    <3>1. call'[t].next = "insert" /\ call'[t].doomed = call[t].doomed
      BY <1>11, <2>4, OldestTurn
    <3>. QED
      BY <2>2, <2>3, <2>4, <3>1 DEF Knows, Evicts
  <2>5. CASE call'[t].pc # "pop"
    <3>1. PICK i \in Lids :
              /\ call'[t].pc = "oldest" /\ call'[t].next = call[t].next
              /\ call'[t].doomed = {i} \/ call'[t].doomed = call[t].doomed
      BY <1>11, <2>5, OldestTurn
    <3>. QED
      BY <2>2, <2>3, <3>1 DEF Knows, Evicts
  <2>. QED
    BY <2>4, <2>5
<1>12. CASE Insert(t)
  <2>1. /\ sessions' = [sessions EXCEPT ![call[t].id] = call[t].number]
        /\ call'[t].pc = "stamp" /\ call'[t].id = call[t].id /\ call[t].id \in Ids
        /\ call[t].number \in Nat
    BY <1>1, <1>12 DEF Insert, CallRecords
  <2>2. call[t].id \in Sids'
    BY <2>1, ClockAssumption DEF Sids, Keys, SessTypeOK
  <2>. QED
    BY <2>1, <2>2 DEF Knows, Evicts
<1>13. CASE LoopRaises(t) \/ FetchRaises(t) \/ Fetch(t) \/ Stamp(t)
  BY <1>1, <1>13 DEF LoopRaises, FetchRaises, Fails, Fetch, Stamp, Gives
<1>. QED
  BY <1>4, <1>5, <1>6, <1>7, <1>8, <1>9, <1>10, <1>11, <1>12, <1>13 DEF SessStep

\* A call begins alone, or beside others: then it may add to the store, and so may the
\* one that has run alone so far.
LEMMA BeginCaps ==
    ASSUME SessTypeOK, CapInv, NEW t \in Threads, NEW id \in Ids, Begin(t, id)
    PROVE  CapInv'
<1>1. /\ call[t] = NoCall /\ UNCHANGED <<sessions, lastSeen>>
      /\ overlapped' = overlapped + Cardinality({u \in Busy : ~call[u].met})
                       + (IF Busy = {} THEN 0 ELSE 1)
      /\ overlapped \in Nat /\ t \notin Busy /\ Busy \subseteq Threads
  BY DEF Begin, Busy, SessTypeOK
<1>2. /\ call'[t] # NoCall /\ call'[t].pc = "scan" /\ call'[t].met = (Busy # {})
      /\ call'[t].next = "check"
  BY DEF Begin, NoCall
<1>3. \A u \in Threads : u # t /\ u \notin Busy => call[u] = NoCall /\ call'[u] = NoCall
  BY DEF Begin, Busy
<1>4. ASSUME NEW u \in Busy
      PROVE  /\ call'[u] # NoCall /\ call'[u].met = TRUE /\ call'[u].pc = call[u].pc
             /\ call'[u].id = call[u].id /\ call'[u].current = call[u].current
             /\ call[u] # NoCall /\ u \in Threads
  <2>1. u \in Threads /\ u # t /\ call[u] # NoCall
    BY <1>1 DEF Busy
  <2>2. call[u] \in CallRecords
    BY <2>1 DEF SessTypeOK
  <2>3. call'[u] = [call[u] EXCEPT !.met = TRUE]
    BY <2>1 DEF Begin
  <2>4. call[u].pc # "idle"
    BY <2>2 DEF CallRecords
  <2>. QED
    BY <2>1, <2>2, <2>3, <2>4 DEF CallRecords, NoCall
<1>5. /\ Sids' = Sids /\ Lids' = Lids /\ MaxSessions \in Nat
      /\ Weight <= MaxSessions + overlapped
      /\ Cardinality(Untimed) + Cardinality(Inserters) <= overlapped
      /\ \A v, u \in Busy : ~call[v].met => v = u
  BY <1>1, SessionAssumption DEF Sids, Lids, Keys, CapInv
<1>6. CASE Busy = {}
  <2>1. \A u \in Threads \ {t} : call'[u] = call[u]
    BY <1>3, <1>6
  <2>2. Shrinks
    BY <1>1, <1>2, <1>6, <2>1, ReadsShrink
          DEF Unsees, Stamps, LoneStamps, Adds, Inserts
  <2>3. overlapped' = overlapped
    <3>1. {u \in Busy : ~call[u].met} = {}
      BY <1>6
    <3>. QED
      BY <1>1, <1>6, <3>1, FS_EmptySet
  <2>4. Weight' <= Weight /\ Cardinality(Untimed') + Cardinality(Inserters') <=
                                 Cardinality(Untimed) + Cardinality(Inserters)
    BY <2>2, ShrinksWeighs
  <2>5. \A u \in Busy' : u = t
    BY <1>3, <1>6 DEF Busy
  <2>6. Knows(t)'
    BY <1>2 DEF Knows, Evicts
  <2>7. Weight' <= MaxSessions + overlapped'
    BY <1>5, <2>3, <2>4, CapNats, CapNatsNext, <1>1 DEF Weight
  <2>8. Cardinality(Untimed') + Cardinality(Inserters') <= overlapped'
    BY <1>5, <2>3, <2>4, CapNats, CapNatsNext, <1>1
  <2>. QED
    BY <2>5, <2>6, <2>7, <2>8 DEF CapInv
<1>7. CASE Busy # {}
  <2>1. /\ Awaiting \subseteq Awaiting' /\ Leaving' = Leaving /\ Unstamped' = {}
    <3>1. Awaiting \subseteq Awaiting'
      BY <1>4 DEF Awaiting, Stamps, Busy
    <3>2. Leaving' \subseteq Leaving
      <4>. SUFFICES ASSUME NEW i \in Ids, NEW u \in Threads,
                           Unsees(call'[u]), call'[u].current = i
                    PROVE  i \in Leaving
        BY DEF Leaving
      <4>1. u \in Busy
        BY <1>2, <1>3 DEF Unsees
      <4>. QED
        BY <1>4, <4>1 DEF Leaving, Unsees
    <3>3. Leaving \subseteq Leaving'
      BY <1>4 DEF Leaving, Unsees, Busy
    <3>4. Unstamped' = {}
      <4>1. \A u \in Threads : ~LoneStamps(call'[u])
        BY <1>2, <1>3, <1>4 DEF LoneStamps
      <4>. QED
        BY <4>1 DEF Unstamped
    <3>. QED
      BY <3>1, <3>2, <3>3, <3>4
  <2>2. Settled' \subseteq Settled /\ Stale' \subseteq Stale /\ Untimed' \subseteq Untimed \cup Unstamped
    BY <1>5, <2>1 DEF Settled, Stale, Untimed
  <2>3. \A u \in Adders' : u = t \/ u \in Adders \/ (u \in Busy /\ ~call[u].met)
    BY <1>3, <1>4 DEF Adders, Adds
  <2>4. \A u \in Inserters' : \/ u = t \/ u \in Inserters
                              \/ u \in Busy /\ ~call[u].met /\ call[u].pc # "stamp"
    BY <1>3, <1>4 DEF Inserters, Inserts
  <2>5. Cardinality(Settled') <= Cardinality(Settled) /\ Cardinality(Stale') <= Cardinality(Stale)
    BY <2>2, CapSets, CapFinite, CountLess
  <2>6. \A u \in Busy' : call'[u].met
    BY <1>2, <1>3, <1>4, <1>7 DEF Busy
  <2>7. CASE \A u \in Busy : call[u].met
    <3>1. {u \in Busy : ~call[u].met} = {} /\ Unstamped = {}
      BY <2>7 DEF Unstamped, LoneStamps, Busy
    <3>2. overlapped' = overlapped + 1
      <4>1. Cardinality({u \in Busy : ~call[u].met}) = 0
        BY <3>1, FS_EmptySet
      <4>2. overlapped' = overlapped + 0 + 1
        BY <1>1, <1>7, <4>1, Zenon
      <4>. QED
        BY <1>1, <4>2
    <3>3. /\ Cardinality(Adders') <= Cardinality(Adders) + 1
          /\ Cardinality(Inserters') <= Cardinality(Inserters) + 1
          /\ Cardinality(Untimed') <= Cardinality(Untimed)
      <4>1. /\ Adders' \subseteq Adders \cup {t} /\ Inserters' \subseteq Inserters \cup {t}
            /\ Untimed' \subseteq Untimed
        BY <2>2, <2>3, <2>4, <2>7, <3>1
      <4>. QED
        BY <4>1, CapSets, CapFinite, CountLess, CountOneMore
    <3>4. Weight' <= MaxSessions + overlapped'
      BY <1>1, <1>5, <2>5, <3>2, <3>3, CapNats, CapNatsNext DEF Weight
    <3>5. Cardinality(Untimed') + Cardinality(Inserters') <= overlapped'
      BY <1>1, <1>5, <3>2, <3>3, CapNats, CapNatsNext
    <3>. QED
      BY <2>6, <3>4, <3>5 DEF CapInv
  <2>8. CASE ~ \A u \in Busy : call[u].met
    <3>1. PICK v \in Busy : ~call[v].met
      BY <2>8
    <3>2. \A u \in Busy : u = v
      BY <1>5, <3>1
    <3>3. /\ {u \in Busy : ~call[u].met} = {v} /\ v \in Threads
          /\ call[v] # NoCall
      BY <3>1, <3>2 DEF Busy
    <3>4. overlapped' = overlapped + 2
      <4>1. Cardinality({u \in Busy : ~call[u].met}) = 1
        BY <3>3, FS_Singleton, Zenon
      <4>2. overlapped' = overlapped + 1 + 1
        BY <1>1, <1>7, <4>1, Zenon
      <4>. QED
        BY <1>1, <4>2
    <3>5. Adders = {} /\ Inserters = {} /\ call[v].pc # "stamp" => Unstamped = {}
      BY <3>1, <3>2, <3>3, AloneSets
    <3>6. Cardinality(Adders') <= 2
      <4>1. IsFiniteSet({v}) /\ Cardinality({v}) = 1
        BY FS_Singleton
      <4>2. Adders' \subseteq {v} \cup {t}
        BY <2>3, <3>2, <3>3, <3>5, AloneSets, <3>1
      <4>. QED
        BY <4>1, <4>2, CountOneMore
    <3>7. Weight' <= MaxSessions + overlapped'
      <4>1. Cardinality(Adders) = 0
        BY <3>1, <3>2, <3>3, AloneSets, FS_EmptySet
      <4>. QED
        BY <1>1, <1>5, <2>5, <3>4, <3>6, <4>1, CapNats, CapNatsNext DEF Weight
    <3>8. Cardinality(Untimed') + Cardinality(Inserters') <= overlapped'
      <4>1. Inserters = {} /\ Cardinality(Inserters) = 0
        BY <3>1, <3>2, <3>3, AloneSets, FS_EmptySet
      <4>2. CASE call[v].pc = "stamp"
        <5>1. Unstamped \subseteq {call[v].id}
          BY <3>2 DEF Unstamped, LoneStamps, Busy
        <5>2. Cardinality(Untimed') <= Cardinality(Untimed) + 1
          BY <2>2, <5>1, CapSets, CapFinite, CountOneMore
        <5>3. Cardinality(Inserters') <= Cardinality(Inserters) + 1
          <6>1. Inserters' \subseteq Inserters \cup {t}
            BY <2>4, <3>2, <4>2
          <6>. QED
            BY <6>1, CapSets, CapFinite, CountOneMore
        <5>. QED
          BY <1>1, <1>5, <3>4, <4>1, <5>2, <5>3, CapNats, CapNatsNext
      <4>3. CASE call[v].pc # "stamp"
        <5>1. Cardinality(Untimed') <= Cardinality(Untimed)
          <6>1. Untimed' \subseteq Untimed
            BY <2>2, <3>1, <3>2, <3>3, <4>3, AloneSets
          <6>. QED
            BY <6>1, CapSets, CapFinite, CountLess
        <5>2. Cardinality(Inserters') <= 2
          <6>1. IsFiniteSet({v}) /\ Cardinality({v}) = 1
            BY FS_Singleton
          <6>2. Inserters' \subseteq {v} \cup {t}
            BY <2>4, <3>2, <4>1
          <6>. QED
            BY <6>1, <6>2, CountOneMore
        <5>. QED
          BY <1>1, <1>5, <3>4, <4>1, <5>1, <5>2, CapNats, CapNatsNext
      <4>. QED
        BY <4>2, <4>3
    <3>. QED
      BY <2>6, <3>7, <3>8 DEF CapInv
  <2>. QED
    BY <2>7, <2>8
<1>. QED
  BY <1>6, <1>7

\* Every step of a call.
LEMMA CallCaps ==
    ASSUME SessTypeOK, CapInv, NEW t \in Threads, SessStep(t)
    PROVE  CapInv'
<1>1. /\ call[t] # NoCall /\ overlapped' = overlapped /\ overlapped \in Nat
      /\ \A u \in Threads \ {t} : call'[u] = call[u]
      /\ call'[t] # NoCall => call'[t].met = call[t].met /\ call'[t].id = call[t].id
      /\ t \in Busy
  BY CallMoves DEF SessTypeOK, Busy
<1>2. ~call[t].met => Knows(t) /\ \A u \in Busy : u = t
  BY <1>1 DEF CapInv
<1>3. /\ Weight <= MaxSessions + overlapped
      /\ Cardinality(Untimed) + Cardinality(Inserters) <= overlapped
  BY DEF CapInv
<1>4. /\ Weight' <= MaxSessions + overlapped
      /\ Cardinality(Untimed') + Cardinality(Inserters') <=
             Cardinality(Untimed) + Cardinality(Inserters)
  <2>0. /\ Weight \in Nat /\ Weight' \in Nat /\ MaxSessions \in Nat
    BY CapNats, CapNatsNext, SessionAssumption DEF Weight
  <2>1. Weight' <= Weight => Weight' <= MaxSessions + overlapped
    <3>1. ASSUME NEW a \in Nat, NEW b \in Nat, NEW m \in Nat, NEW o \in Nat, a <= b, b <= m + o
          PROVE  a <= m + o
      BY <3>1
    <3>. QED
      BY <1>1, <1>3, <2>0, <3>1
  <2>2. CASE Reads(t)
    BY <2>1, <2>2, ReadsWeigh, ShrinksWeighs
  <2>3. CASE Pop(t)
    BY <2>1, <2>3, PopWeighs, ShrinksWeighs
  <2>4. CASE Unsee(t)
    BY <2>1, <2>4, UnseeWeighs, ShrinksWeighs
  <2>5. CASE Touch(t)
    <3>1. ~call[t].met => call[t].id \in Sids
      BY <1>2, <2>5 DEF Knows, Touch, CallAt
    <3>. QED
      BY <2>1, <2>5, <3>1, TouchWeighs
  <2>6. CASE Insert(t)
    <3>1. ~call[t].met => Spare
      BY <1>2, <2>6 DEF Knows, Insert, CallAt
    <3>. QED
      BY <1>3, <2>6, <3>1, InsertWeighs
  <2>7. CASE Stamp(t)
    <3>1. ~call[t].met => call[t].id \in Sids
      BY <1>2, <2>7 DEF Knows, Stamp, CallAt
    <3>. QED
      BY <1>2, <2>1, <2>7, <3>1, StampWeighs
  <2>. QED
    BY <2>2, <2>3, <2>4, <2>5, <2>6, <2>7 DEF SessStep, Reads
<1>5. Cardinality(Untimed') + Cardinality(Inserters') <= overlapped
  BY <1>1, <1>3, <1>4, CapNats, CapNatsNext
<1>6. \A v, u \in Busy' : ~call'[v].met => v = u
  <2>1. \A v \in Busy' : v \in Busy /\ call'[v].met = call[v].met
    BY <1>1 DEF Busy
  <2>. QED
    BY <2>1 DEF CapInv
<1>7. ASSUME NEW v \in Busy', ~call'[v].met PROVE Knows(v)'
  <2>1. v \in Busy /\ call'[v].met = call[v].met /\ call'[v] # NoCall
    BY <1>1, <1>7 DEF Busy
  <2>2. v = t
    BY <1>1, <1>7, <2>1 DEF CapInv
  <2>. QED
    BY <1>7, <2>1, <2>2, AloneStep
<1>. QED
  BY <1>1, <1>4, <1>5, <1>6, <1>7 DEF CapInv

\* The invariant holds at the start, and every step keeps it.
LEMMA CapInit == Init => CapInv
<1>. SUFFICES ASSUME Init PROVE CapInv
  OBVIOUS
<1>1. /\ sessions = [i \in Ids |-> None] /\ lastSeen = [i \in Ids |-> None]
      /\ call = [t \in Threads |-> NoCall] /\ overlapped = 0
  BY DEF Init, SessInit
<1>2. Sids = {} /\ Lids = {} /\ Busy = {}
  BY <1>1 DEF Sids, Lids, Keys, Busy
<1>3. Settled = {} /\ Stale = {} /\ Untimed = {} /\ Adders = {} /\ Inserters = {}
  BY <1>1, <1>2 DEF Settled, Stale, Untimed, Adders, Inserters, Adds, Inserts
<1>4. Cardinality({}) = 0
  BY FS_EmptySet
<1>5. Weight = MaxSessions
  BY <1>3, <1>4, SessionAssumption DEF Weight
<1>. QED
  BY <1>1, <1>2, <1>3, <1>4, <1>5, SessionAssumption DEF CapInv

\* Every step of the front end keeps it.
LEMMA CapStep == SessTypeOK /\ CapInv /\ [Next]_vars => CapInv'
<1>. SUFFICES ASSUME SessTypeOK, CapInv, [Next]_vars PROVE CapInv'
  OBVIOUS
<1>1. ASSUME NEW t \in Threads, NEW id \in Ids, Begin(t, id) PROVE CapInv'
  BY <1>1, BeginCaps
<1>2. ASSUME NEW t \in Threads, SessStep(t) PROVE CapInv'
  BY <1>2, CallCaps
<1>3. CASE UNCHANGED <<sessions, lastSeen, call, overlapped>>
  <2>1. Sids' = Sids /\ Lids' = Lids /\ Busy' = Busy
    BY <1>3 DEF Sids, Lids, Keys, Busy
  <2>2. Awaiting' = Awaiting /\ Leaving' = Leaving /\ Unstamped' = Unstamped /\ Adders' = Adders
        /\ Inserters' = Inserters
    BY <1>3 DEF Awaiting, Leaving, Unstamped, Adders, Inserters
  <2>3. Settled' = Settled /\ Stale' = Stale /\ Untimed' = Untimed
    BY <2>1, <2>2 DEF Settled, Stale, Untimed
  <2>4. Weight' = Weight
    BY <2>2, <2>3 DEF Weight
  <2>5. \A t \in Busy : Knows(t)' = Knows(t)
    BY <1>3, <2>1, <2>4 DEF Knows, Spare
  <2>. QED
    BY <1>3, <2>1, <2>2, <2>3, <2>4, <2>5 DEF CapInv
<1>. QED
  BY <1>1, <1>2, <1>3 DEF Next, vars, SessNext, SessTick, sessionVars

----------------------------------------------------------------------------
(* Sessions without overlapping calls.                                     *)

\* What an id's client was told agrees with the dictionaries.
Seen(i) == given[i] # None /\ lastSeen[i] = given[i].at
Held(i) == given[i] # None /\ sessions[i] = given[i].object

\* Why a session that was given is gone: it was idle for too long, or enough others were
\* given one no earlier; or will have been, once the call for id is over.
Rivals(i) == {j \in Keys(given) \ {i} : given[j].at >= given[i].at}
Idle(i) == time - given[i].at > Ttl
Lost(i) == Idle(i) \/ Cardinality(Rivals(i)) >= MaxSessions
Losing(i, id) == Idle(i) \/ Cardinality(Rivals(i) \cup {id}) >= MaxSessions

\* Between the calls.
Quiet ==
    /\ Sids = Lids
    /\ \A i \in Lids : Seen(i) /\ Held(i)
    /\ \A i \in Keys(given) \ Sids : Lost(i)

Makes(c) == c.pc \in {"insert", "stamp"} \/ Evicts(c)

\* How far the only call has come with the dictionaries,
Midway(t) ==
    /\ call[t].pc \notin {"unsee", "stamp"} => Sids = Lids
    /\ call[t].pc = "unsee" =>
           call[t].current \in Lids \cap call[t].doomed /\ Sids = Lids \ {call[t].current}
    /\ call[t].pc = "stamp" =>
           /\ call[t].id \notin Lids /\ Sids = Lids \cup {call[t].id}
           /\ sessions[call[t].id] = call[t].number
    /\ call[t].pc \in {"touch", "fetch"} => call[t].id \in Sids
    /\ call[t].pc \in {"room", "least", "oldest"} \/ Makes(call[t]) => call[t].id \notin Lids
    /\ call[t].pc = "fetch" =>
           /\ lastSeen[call[t].id] = call[t].now /\ call[t].now <= time
           /\ \A i \in Keys(given) : given[i].at <= call[t].now

\* with its loops,
Looping(t) ==
    /\ call[t].pc \in {"scan", "oldest"} => call[t].size = Cardinality(Lids)
    /\ call[t].pc \in {"scan", "check", "room", "least", "oldest"} => call[t].next = "check"
    /\ call[t].pc \in {"check", "room", "least"} => call[t].doomed = {}
    /\ call[t].pc \in {"least", "oldest"} \/ (call[t].pc = "pop" /\ Evicts(call[t])) =>
           Cardinality(Sids) >= MaxSessions
    /\ call[t].pc \in {"scan", "pop", "unsee"} /\ call[t].next = "check" =>
           call[t].now <= time /\ \A i \in call[t].doomed : i \in Lids /\ Expired(t, i)
    /\ call[t].pc = "oldest" \/ Evicts(call[t]) =>
           call[t].doomed \subseteq Lids /\ \A i, j \in call[t].doomed : i = j
    /\ call[t].pc = "oldest" =>
           /\ call[t].looked # {} => call[t].doomed # {}
           /\ \A i \in call[t].doomed : call[t].least = lastSeen[i]
           /\ \A j \in call[t].looked \cap Lids : call[t].least <= lastSeen[j]
    /\ Evicts(call[t]) => \A i \in call[t].doomed, j \in Lids : lastSeen[i] <= lastSeen[j]

\* and with what it will tell its client.
Telling(t) ==
    /\ \A i \in Lids : Seen(i) \/ (call[t].pc = "fetch" /\ i = call[t].id)
    /\ \A i \in Sids : Held(i) \/ (call[t].pc = "stamp" /\ i = call[t].id)
    /\ \A i \in Keys(given) \ Sids :
           IF Makes(call[t]) THEN Losing(i, call[t].id) ELSE Lost(i)

Sole(t) == Midway(t) /\ Looping(t) /\ Telling(t)

SoloInv ==
    overlapped = 0 =>
        /\ \A i \in Keys(given) : given[i].at <= time
        /\ \A t, u \in Busy : t = u
        /\ Busy = {} => Quiet
        /\ \A t \in Busy : Sole(t)

\* Of the others' claims only what was given matters, and they are finitely many.
LEMMA LostStays ==
    ASSUME UNCHANGED <<given, time>>, NEW i \in Ids
    PROVE  /\ Lost(i)' = Lost(i)
           /\ \A x \in Ids : Losing(i, x)' = Losing(i, x)
<1>1. Rivals(i)' = Rivals(i)
  BY DEF Rivals, Keys
<1>. QED
  BY <1>1 DEF Lost, Losing, Idle

\* One rival more does not bring a session back.
LEMMA LostIsLosing == ASSUME NEW i \in Ids, NEW x \in Ids, Lost(i) PROVE Losing(i, x)
<1>1. Rivals(i) \subseteq Rivals(i) \cup {x} /\ Rivals(i) \cup {x} \subseteq Ids
  BY DEF Rivals, Keys
<1>2. /\ Cardinality(Rivals(i)) <= Cardinality(Rivals(i) \cup {x})
      /\ Cardinality(Rivals(i)) \in Nat /\ Cardinality(Rivals(i) \cup {x}) \in Nat
  BY <1>1, CapFinite, CountLess
<1>. QED
  BY <1>2, SessionAssumption DEF Lost, Losing

\* What a call knows of its fields.
LEMMA SoleTypes ==
    ASSUME SessTypeOK, NEW t \in Threads, call[t] # NoCall
    PROVE  /\ call[t] \in CallRecords /\ call \in [Threads -> CallRecords \cup {NoCall}]
           /\ call[t].id \in Ids /\ call[t].now \in Nat /\ time \in Nat
           /\ call[t].number \in Nat /\ call[t].doomed \subseteq Ids
           /\ call[t].next \in {"check", "insert"}
           /\ call[t].least \in Nat
           /\ \A i \in Lids : lastSeen[i] \in Nat
           /\ \A i \in Keys(given) : given[i].at \in Nat /\ given[i].object \in Nat
<1>1. call[t] \in CallRecords /\ call \in [Threads -> CallRecords \cup {NoCall}]
  BY DEF SessTypeOK
<1>2. \A x \in Times : x \in Nat
  BY ClockAssumption DEF Times
<1>3. \A i \in Keys(given) : given[i].at \in Times /\ given[i].object \in Nat
  BY DEF SessTypeOK, Keys
<1>4. \A i \in Lids : lastSeen[i] \in Times
  BY DEF SessTypeOK, Lids, Keys
<1>. QED
  BY <1>1, <1>2, <1>3, <1>4 DEF CallRecords, SessTypeOK

\* A step that leaves the dictionaries and what was given alone.
LEMMA TellingStays ==
    ASSUME SessTypeOK, NEW t \in Threads, Telling(t), UNCHANGED <<sessions, lastSeen, given, time>>,
           call[t] # NoCall,
           call[t].pc # "fetch", call[t].pc # "stamp", call'[t].id = call[t].id,
           Makes(call[t]) => Makes(call'[t])
    PROVE  Telling(t)'
<1>1. Sids' = Sids /\ Lids' = Lids /\ Keys(given)' = Keys(given)
  BY DEF Sids, Lids, Keys
<1>2. \A i \in Ids : Seen(i)' = Seen(i) /\ Held(i)' = Held(i)
  BY DEF Seen, Held
<1>3. call[t].id \in Ids
  BY SoleTypes
<1>4. ASSUME NEW i \in Keys(given) \ Sids
      PROVE  (IF Makes(call[t]) THEN Losing(i, call[t].id) ELSE Lost(i))'
  <2>1. PICK x \in Ids : x = call[t].id
    BY <1>3
  <2>2. i \in Ids
    BY <1>4 DEF Keys
  <2>3. IF Makes(call[t]) THEN Losing(i, x) ELSE Lost(i)
    BY <1>4, <2>1 DEF Telling
  <2>4. Makes(call'[t]) => Losing(i, x)
    BY <2>2, <2>3, LostIsLosing
  <2>5. Losing(i, x)' = Losing(i, x) /\ Lost(i)' = Lost(i)
    BY <2>2, LostStays
  <2>6. Losing(i, x)' => Losing(i, call[t].id)'
    <3>1. x = call'[t].id
      BY <2>1
    <3>. QED
      BY <3>1 DEF Losing
  <2>. QED
    BY <2>3, <2>4, <2>5, <2>6
<1>5. /\ \A i \in Lids' : Seen(i)' \/ (call'[t].pc = "fetch" /\ i = call'[t].id)
      /\ \A i \in Sids' : Held(i)' \/ (call'[t].pc = "stamp" /\ i = call'[t].id)
  BY <1>1, <1>2, CapSets DEF Telling
<1>. QED
  BY <1>1, <1>4, <1>5 DEF Telling

\* The loop over the expired ids.
LEMMA ScanSole ==
    ASSUME SessTypeOK, NEW t \in Threads, Sole(t), Scan(t), call[t] # NoCall
    PROVE  Sole(t)'
<1>1. call[t].pc = "scan" /\ UNCHANGED <<time, sessions, lastSeen, given>>
  BY ScanTurn
<1>2. Sids' = Sids /\ Lids' = Lids
  BY <1>1 DEF Sids, Lids, Keys
<1>3. \A i \in Ids : Expired(t, i)' = Expired(t, i)
  BY <1>1, ScanTurn DEF Expired
<1>4. Sids = Lids /\ call[t].size = Cardinality(Lids) /\ call[t].next = "check"
      /\ call[t].now <= time /\ \A i \in call[t].doomed : i \in Lids /\ Expired(t, i)
  BY <1>1 DEF Sole, Midway, Looping
<1>5. Midway(t)'
  BY <1>1, <1>2, <1>4, ScanTurn DEF Midway, Makes, Evicts
<1>6. \A i \in call'[t].doomed : i \in Lids /\ Expired(t, i)'
  BY <1>3, <1>4, ScanTurn, CapSets
<1>7. Looping(t)'
  BY <1>1, <1>2, <1>4, <1>6, ScanTurn DEF Looping, Evicts
<1>8. Telling(t)'
  <2>1. ~Makes(call[t]) /\ call'[t].id = call[t].id
    BY <1>1, ScanTurn DEF Makes, Evicts
  <2>. QED
    BY <1>1, <2>1, TellingStays DEF Sole
<1>. QED
  BY <1>5, <1>7, <1>8 DEF Sole

\* The look for a session of the id.
LEMMA CheckSole ==
    ASSUME SessTypeOK, NEW t \in Threads, Sole(t), Check(t), call[t] # NoCall
    PROVE  Sole(t)'
<1>1. /\ call[t].pc = "check" /\ UNCHANGED <<time, sessions, lastSeen, given>>
      /\ call'[t].pc = IF sessions[call[t].id] # None THEN "touch" ELSE "room"
      /\ call'[t].id = call[t].id /\ call'[t].doomed = call[t].doomed
      /\ call'[t].next = call[t].next /\ call[t].id \in Ids
  BY SoleTypes DEF Check, CallAt, CallRecords
<1>2. Sids' = Sids /\ Lids' = Lids
  BY <1>1 DEF Sids, Lids, Keys
<1>3. Sids = Lids /\ call[t].next = "check" /\ call[t].doomed = {}
  BY <1>1 DEF Sole, Midway, Looping
<1>4. call[t].id \in Sids <=> sessions[call[t].id] # None
  BY <1>1 DEF Sids, Keys
<1>5. Midway(t)'
  BY <1>1, <1>2, <1>3, <1>4 DEF Midway, Makes, Evicts
<1>6. Looping(t)'
  BY <1>1, <1>2, <1>3 DEF Looping, Evicts
<1>7. ~Makes(call[t])
  BY <1>1 DEF Makes, Evicts
<1>. QED
  BY <1>1, <1>5, <1>6, <1>7, TellingStays DEF Sole

\* The question for room.
LEMMA RoomSole ==
    ASSUME SessTypeOK, NEW t \in Threads, Sole(t), Room(t), call[t] # NoCall
    PROVE  Sole(t)'
<1>1. /\ call[t].pc = "room" /\ UNCHANGED <<time, sessions, lastSeen, given>>
      /\ call'[t].pc = IF Cardinality(Sids) >= MaxSessions THEN "least" ELSE "insert"
      /\ call'[t].id = call[t].id /\ call'[t].doomed = call[t].doomed
      /\ call'[t].next = call[t].next
  BY SoleTypes DEF Room, CallAt, CallRecords, Sids
<1>2. Sids' = Sids /\ Lids' = Lids
  BY <1>1 DEF Sids, Lids, Keys
<1>3. /\ Sids = Lids /\ call[t].next = "check" /\ call[t].doomed = {}
      /\ call[t].id \notin Lids
  BY <1>1 DEF Sole, Midway, Looping
<1>4. Midway(t)'
  BY <1>1, <1>2, <1>3 DEF Midway, Makes, Evicts
<1>5. Looping(t)'
  BY <1>1, <1>2, <1>3 DEF Looping, Evicts
<1>6. ~Makes(call[t])
  BY <1>1 DEF Makes, Evicts
<1>. QED
  BY <1>1, <1>4, <1>5, <1>6, TellingStays DEF Sole

\* The start of min.
LEMMA LeastSole ==
    ASSUME SessTypeOK, NEW t \in Threads, Sole(t), Least(t), call[t] # NoCall
    PROVE  Sole(t)'
<1>1. /\ call[t].pc = "least" /\ UNCHANGED <<time, sessions, lastSeen, given>>
      /\ call'[t].pc = IF Lids = {} THEN "insert" ELSE "oldest"
      /\ call'[t].id = call[t].id /\ call'[t].doomed = call[t].doomed
      /\ call'[t].next = call[t].next /\ call'[t].size = Cardinality(Lids)
      /\ call'[t].looked = {}
  BY SoleTypes DEF Least, CallAt, CallRecords, Lids
<1>2. Sids' = Sids /\ Lids' = Lids
  BY <1>1 DEF Sids, Lids, Keys
<1>3. /\ Sids = Lids /\ call[t].next = "check" /\ call[t].doomed = {}
      /\ call[t].id \notin Lids /\ Cardinality(Sids) >= MaxSessions
  BY <1>1 DEF Sole, Midway, Looping
<1>4. Midway(t)'
  BY <1>1, <1>2, <1>3 DEF Midway, Makes, Evicts
<1>5. Looping(t)'
  BY <1>1, <1>2, <1>3 DEF Looping, Evicts
<1>6. ~Makes(call[t])
  BY <1>1 DEF Makes, Evicts
<1>. QED
  BY <1>1, <1>4, <1>5, <1>6, TellingStays DEF Sole

\* Its turns: what it holds is the least of what it has seen, and at the end of all.
LEMMA OldestSole ==
    ASSUME SessTypeOK, NEW t \in Threads, Sole(t), Oldest(t), call[t] # NoCall
    PROVE  Sole(t)'
<1>1. /\ call[t].pc = "oldest" /\ UNCHANGED <<time, sessions, lastSeen, given>>
      /\ call'[t].id = call[t].id /\ call'[t].size = call[t].size
  BY OldestTurn
<1>2. Sids' = Sids /\ Lids' = Lids /\ \A i \in Ids : lastSeen'[i] = lastSeen[i]
  BY <1>1 DEF Sids, Lids, Keys
<1>3. /\ Sids = Lids /\ call[t].next = "check" /\ call[t].id \notin Lids
      /\ Cardinality(Sids) >= MaxSessions /\ call[t].size = Cardinality(Lids)
      /\ call[t].doomed \subseteq Lids /\ \A i, j \in call[t].doomed : i = j
      /\ call[t].looked # {} => call[t].doomed # {}
      /\ \A i \in call[t].doomed : call[t].least = lastSeen[i]
      /\ \A j \in call[t].looked \cap Lids : call[t].least <= lastSeen[j]
  BY <1>1 DEF Sole, Midway, Looping
<1>4. /\ call[t].least \in Nat /\ \A i \in Lids : lastSeen[i] \in Nat
  BY SoleTypes
<1>5. ~Makes(call[t])
  BY <1>1, <1>3 DEF Makes, Evicts
<1>6. Telling(t)'
  BY <1>1, <1>5, TellingStays DEF Sole
<1>7. CASE call'[t].pc = "pop"
  <2>1. /\ call'[t].next = "insert" /\ call'[t].doomed = call[t].doomed /\ Ahead(t) = {}
    BY <1>7, OldestTurn
  <2>2. Lids \subseteq call[t].looked
    BY <2>1 DEF Ahead, Lids
  <2>3. \A i \in call[t].doomed, j \in Lids : lastSeen[i] <= lastSeen[j]
    BY <1>3, <2>2
  <2>4. Midway(t)'
    BY <1>1, <1>2, <1>3, <1>7, <2>1 DEF Midway, Makes, Evicts
  <2>5. Looping(t)'
    BY <1>2, <1>3, <1>7, <2>1, <2>3, CapSets DEF Looping, Evicts
  <2>. QED
    BY <1>6, <2>4, <2>5 DEF Sole
<1>8. CASE call'[t].pc # "pop"
  <2>1. PICK i \in Lids :
            /\ call'[t].pc = "oldest" /\ call'[t].next = call[t].next
            /\ call'[t].looked = call[t].looked \cup {i}
            /\ \/ /\ call[t].doomed = {} \/ lastSeen[i] < call[t].least
                  /\ call'[t].doomed = {i} /\ call'[t].least = lastSeen[i]
               \/ /\ ~(call[t].doomed = {} \/ lastSeen[i] < call[t].least)
                  /\ call'[t].doomed = call[t].doomed /\ call'[t].least = call[t].least
    BY <1>8, OldestTurn
  <2>2. Midway(t)'
    BY <1>1, <1>2, <1>3, <2>1 DEF Midway, Makes, Evicts
  <2>3. /\ call'[t].doomed # {} /\ call'[t].doomed \subseteq Lids
        /\ \A j, k \in call'[t].doomed : j = k
        /\ \A j \in call'[t].doomed : call'[t].least = lastSeen[j]
    BY <1>3, <2>1
  <2>4. \A j \in call'[t].looked \cap Lids : call'[t].least <= lastSeen[j]
    <3>1. CASE call[t].doomed = {} \/ lastSeen[i] < call[t].least
      <4>1. call'[t].least = lastSeen[i]
        BY <2>1, <3>1
      <4>2. ASSUME NEW j \in call[t].looked \cap Lids PROVE lastSeen[i] <= lastSeen[j]
        <5>1. lastSeen[i] < call[t].least /\ call[t].least <= lastSeen[j]
          BY <1>3, <3>1, <4>2
        <5>. QED
          BY <1>4, <4>2, <5>1
      <4>. QED
        BY <1>4, <2>1, <4>1, <4>2
    <3>2. CASE ~(call[t].doomed = {} \/ lastSeen[i] < call[t].least)
      BY <1>3, <1>4, <2>1, <3>2
    <3>. QED
      BY <3>1, <3>2
  <2>5. Looping(t)'
    BY <1>1, <1>2, <1>3, <2>1, <2>3, <2>4, CapSets DEF Looping, Evicts
  <2>. QED
    BY <1>6, <2>2, <2>5 DEF Sole
<1>. QED
  BY <1>7, <1>8

\* Where a session goes, its client was idle, or there are enough that were asked for later.
LEMMA PopSole ==
    ASSUME SessTypeOK, NEW t \in Threads, Sole(t), Pop(t), call[t] # NoCall
    PROVE  Sole(t)'
<1>1. PICK p \in call[t].doomed :
          /\ sessions' = [sessions EXCEPT ![p] = None]
          /\ call' = [call EXCEPT ![t].pc = "unsee", ![t].current = p]
  BY DEF Pop
<1>2. /\ call[t].pc = "pop" /\ UNCHANGED <<time, lastSeen, given>> /\ p \in Ids
      /\ call'[t].pc = "unsee" /\ call'[t].current = p
      /\ call'[t].id = call[t].id /\ call'[t].doomed = call[t].doomed
      /\ call'[t].next = call[t].next /\ call'[t].now = call[t].now
      /\ call[t].next \in {"check", "insert"}
  BY <1>1, SoleTypes DEF Pop, CallAt, CallRecords
<1>3. /\ Sids' = Sids \ {p} /\ Lids' = Lids /\ Keys(given)' = Keys(given)
      /\ \A i \in Sids' : sessions'[i] = sessions[i]
  BY <1>1, <1>2 DEF Sids, Lids, Keys, SessTypeOK
<1>4. /\ Sids = Lids /\ p \in Lids
      /\ call[t].next = "check" => /\ call[t].now <= time
                                   /\ \A i \in call[t].doomed : i \in Lids /\ Expired(t, i)
      /\ Evicts(call[t]) =>
             /\ call[t].id \notin Lids /\ Cardinality(Sids) >= MaxSessions
             /\ call[t].doomed \subseteq Lids /\ \A i, j \in call[t].doomed : i = j
             /\ \A i \in call[t].doomed, j \in Lids : lastSeen[i] <= lastSeen[j]
      /\ Evicts(call[t]) <=> call[t].next = "insert"
  BY <1>1, <1>2 DEF Sole, Midway, Looping, Makes, Evicts
<1>5. /\ Evicts(call'[t]) = Evicts(call[t]) /\ Makes(call'[t]) = Evicts(call[t])
      /\ Makes(call[t]) = Evicts(call[t])
  BY <1>2 DEF Evicts, Makes
<1>6. Midway(t)'
  <2>1. call'[t].current \in Lids' \cap call'[t].doomed /\ Sids' = Lids' \ {call'[t].current}
    BY <1>2, <1>3, <1>4
  <2>2. Makes(call'[t]) => call'[t].id \notin Lids'
    BY <1>2, <1>3, <1>4, <1>5
  <2>. QED
    BY <1>2, <2>1, <2>2 DEF Midway
<1>7. Looping(t)'
  <2>1. \A i \in Ids : Expired(t, i)' = Expired(t, i)
    BY <1>2 DEF Expired
  <2>. QED
    BY <1>2, <1>3, <1>4, <1>5, <2>1, CapSets DEF Looping
<1>8. /\ \A i \in Lids : Seen(i) /\ Held(i)
      /\ \A i \in Keys(given) \ Sids :
             IF Evicts(call[t]) THEN Losing(i, call[t].id) ELSE Lost(i)
  BY <1>2, <1>4, <1>5 DEF Sole, Telling
<1>9. IF Evicts(call[t]) THEN Losing(p, call[t].id) ELSE Lost(p)
  <2>1. CASE Evicts(call[t])
    <3>1. ASSUME NEW j \in Sids \ {p} PROVE j \in Rivals(p)
      <4>1. /\ given[j] # None /\ lastSeen[j] = given[j].at /\ lastSeen[p] = given[p].at
            /\ lastSeen[p] <= lastSeen[j] /\ j \in Ids
        BY <1>4, <1>8, <2>1, <3>1, CapSets DEF Seen
      <4>. QED
        BY <3>1, <4>1 DEF Rivals, Keys
    <3>2. (Sids \ {p}) \cup {call[t].id} \subseteq Rivals(p) \cup {call[t].id}
      BY <3>1
    <3>3. /\ Rivals(p) \cup {call[t].id} \subseteq Ids /\ call[t].id \in Ids
      BY SoleTypes DEF Rivals, Keys
    <3>4. IsFiniteSet(Sids) /\ IsFiniteSet(Sids \ {p})
      BY CapSets, CapFinite
    <3>5. Cardinality(Sids \ {p}) = Cardinality(Sids) - 1
      BY <1>4, <3>4, FS_RemoveElement
    <3>6. Cardinality((Sids \ {p}) \cup {call[t].id}) = Cardinality(Sids \ {p}) + 1
      <4>1. call[t].id \notin Sids \ {p}
        BY <1>4, <2>1
      <4>. QED
        BY <3>4, <4>1, FS_AddElement
    <3>7. Cardinality((Sids \ {p}) \cup {call[t].id}) <= Cardinality(Rivals(p) \cup {call[t].id})
          /\ Cardinality(Rivals(p) \cup {call[t].id}) \in Nat
      BY <3>2, <3>3, CapFinite, CountLess
    <3>8. Cardinality(Rivals(p) \cup {call[t].id}) >= MaxSessions
      BY <1>4, <2>1, <3>5, <3>6, <3>7, CapNats
    <3>. QED
      BY <2>1, <3>8 DEF Losing
  <2>2. CASE ~Evicts(call[t])
    <3>1. Expired(t, p) /\ call[t].now <= time /\ lastSeen[p] = given[p].at
      BY <1>1, <1>2, <1>4, <1>8, <2>2 DEF Seen
    <3>2. call[t].now \in Nat /\ time \in Nat /\ lastSeen[p] \in Nat
      BY <1>4, SoleTypes
    <3>3. Idle(p)
      BY <3>1, <3>2, SessionAssumption DEF Idle, Expired
    <3>. QED
      BY <2>2, <3>3 DEF Lost
  <2>. QED
    BY <2>1, <2>2
<1>10. ASSUME NEW i \in Keys(given) \ Sids'
       PROVE  (IF Makes(call[t]) THEN Losing(i, call[t].id) ELSE Lost(i))'
  <2>1. PICK x \in Ids : x = call[t].id
    BY SoleTypes
  <2>2. i \in Ids /\ (i \notin Sids \/ i = p)
    BY <1>3, <1>10 DEF Keys
  <2>3. IF Evicts(call[t]) THEN Losing(i, x) ELSE Lost(i)
    BY <1>8, <1>9, <1>10, <2>1, <2>2
  <2>4. Losing(i, x)' = Losing(i, x) /\ Lost(i)' = Lost(i)
    BY <1>2, <2>2, LostStays
  <2>5. Losing(i, x)' => Losing(i, call[t].id)'
    <3>1. x = call'[t].id
      BY <1>2, <2>1
    <3>. QED
      BY <3>1 DEF Losing
  <2>. QED
    BY <1>5, <2>3, <2>4, <2>5
<1>11. Telling(t)'
  <2>1. \A i \in Lids' : Seen(i)'
    BY <1>2, <1>3, <1>8 DEF Seen
  <2>2. \A i \in Sids' : Held(i)'
    BY <1>2, <1>3, <1>4, <1>8 DEF Held
  <2>. QED
    BY <1>3, <1>10, <2>1, <2>2 DEF Telling
<1>. QED
  BY <1>6, <1>7, <1>11 DEF Sole

\* The time follows the session.
LEMMA UnseeSole ==
    ASSUME SessTypeOK, NEW t \in Threads, Sole(t), Unsee(t), call[t] # NoCall
    PROVE  Sole(t)'
<1>. DEFINE p == call[t].current
            left == call[t].doomed \ {p}
<1>1. /\ call[t].pc = "unsee" /\ UNCHANGED <<time, sessions, given>>
      /\ lastSeen' = [lastSeen EXCEPT ![p] = None]
      /\ call'[t].pc = IF left = {} THEN call[t].next ELSE "pop"
      /\ call'[t].id = call[t].id /\ call'[t].doomed = left
      /\ call'[t].next = call[t].next /\ call'[t].now = call[t].now
      /\ call[t].next \in {"check", "insert"}
  BY SoleTypes DEF Unsee, CallAt, CallRecords
<1>2. /\ p \in Lids \cap call[t].doomed /\ Sids = Lids \ {p}
      /\ call[t].next = "check" => /\ call[t].now <= time
                                   /\ \A i \in call[t].doomed : i \in Lids /\ Expired(t, i)
      /\ Evicts(call[t]) =>
             /\ call[t].id \notin Lids
             /\ call[t].doomed \subseteq Lids /\ \A i, j \in call[t].doomed : i = j
      /\ Evicts(call[t]) <=> call[t].next = "insert"
  BY <1>1 DEF Sole, Midway, Looping, Makes, Evicts
<1>3. /\ Sids' = Sids /\ Lids' = Sids /\ Keys(given)' = Keys(given)
      /\ \A i \in Lids' : lastSeen'[i] = lastSeen[i]
  BY <1>1, <1>2 DEF Sids, Lids, Keys, SessTypeOK
<1>4. Evicts(call[t]) => left = {}
  BY <1>2
<1>5. /\ call'[t].pc \in {"pop", "check", "insert"}
      /\ Makes(call'[t]) = Evicts(call[t]) /\ Makes(call[t]) = Evicts(call[t])
      /\ ~Evicts(call'[t])
      /\ call'[t].pc = "check" => call[t].next = "check" /\ left = {}
      /\ call'[t].pc = "pop" => call[t].next = "check"
  BY <1>1, <1>2, <1>4 DEF Evicts, Makes
<1>6. Midway(t)'
  <2>1. Makes(call'[t]) => call'[t].id \notin Lids'
    BY <1>1, <1>2, <1>3, <1>5
  <2>. QED
    BY <1>3, <1>5, <2>1 DEF Midway
<1>7. Looping(t)'
  <2>1. call[t].next = "check" => \A i \in left : i \in Lids' /\ Expired(t, i)'
    <3>1. SUFFICES ASSUME call[t].next = "check", NEW i \in left
                   PROVE  i \in Lids' /\ Expired(t, i)'
      OBVIOUS
    <3>2. i \in Lids' /\ Expired(t, i)
      BY <1>2, <1>3, <3>1
    <3>. QED
      BY <1>1, <1>3, <3>2 DEF Expired
  <2>. QED
    BY <1>1, <1>2, <1>5, <2>1 DEF Looping
<1>8. /\ \A i \in Lids : Seen(i)
      /\ \A i \in Sids : Held(i)
      /\ \A i \in Keys(given) \ Sids :
             IF Evicts(call[t]) THEN Losing(i, call[t].id) ELSE Lost(i)
  BY <1>1, <1>5 DEF Sole, Telling
<1>9. ASSUME NEW i \in Keys(given) \ Sids'
      PROVE  (IF Makes(call[t]) THEN Losing(i, call[t].id) ELSE Lost(i))'
  <2>1. PICK x \in Ids : x = call[t].id
    BY SoleTypes
  <2>2. i \in Ids
    BY <1>3, <1>9 DEF Keys
  <2>3. IF Evicts(call[t]) THEN Losing(i, x) ELSE Lost(i)
    BY <1>3, <1>8, <1>9, <2>1
  <2>4. Losing(i, x)' = Losing(i, x) /\ Lost(i)' = Lost(i)
    BY <1>1, <2>2, LostStays
  <2>5. Losing(i, x)' => Losing(i, call[t].id)'
    <3>1. x = call'[t].id
      BY <1>1, <2>1
    <3>. QED
      BY <3>1 DEF Losing
  <2>. QED
    BY <1>5, <2>3, <2>4, <2>5
<1>10. Telling(t)'
  <2>1. \A i \in Lids' : Seen(i)'
    BY <1>1, <1>2, <1>3, <1>8 DEF Seen
  <2>2. \A i \in Sids' : Held(i)'
    BY <1>1, <1>3, <1>8 DEF Held
  <2>. QED
    BY <1>3, <1>9, <2>1, <2>2 DEF Telling
<1>. QED
  BY <1>6, <1>7, <1>10 DEF Sole

\* The session of the id is used.
LEMMA TouchSole ==
    ASSUME SessTypeOK, NEW t \in Threads, Sole(t), Touch(t), call[t] # NoCall,
           \A i \in Keys(given) : given[i].at <= time
    PROVE  Sole(t)'
<1>1. /\ call[t].pc = "touch" /\ UNCHANGED <<time, sessions, given>>
      /\ lastSeen' = [lastSeen EXCEPT ![call[t].id] = time] /\ call[t].id \in Ids
      /\ call'[t].pc = "fetch" /\ call'[t].id = call[t].id /\ call'[t].now = time
  BY SoleTypes DEF Touch, CallAt, CallRecords
<1>2. Sids = Lids /\ call[t].id \in Sids /\ ~Makes(call[t])
  BY <1>1 DEF Sole, Midway, Makes, Evicts
<1>3. /\ Sids' = Sids /\ Lids' = Lids /\ Keys(given)' = Keys(given)
      /\ lastSeen'[call[t].id] = time
      /\ \A i \in Lids : i = call[t].id \/ lastSeen'[i] = lastSeen[i]
  <2>1. time # None
    BY ClockAssumption DEF SessTypeOK, Times
  <2>. QED
    BY <1>1, <1>2, <2>1 DEF Sids, Lids, Keys, SessTypeOK
<1>4. Midway(t)'
  BY <1>1, <1>2, <1>3, SoleTypes DEF Midway, Makes, Evicts
<1>5. Looping(t)'
  BY <1>1 DEF Looping, Evicts
<1>6. /\ \A i \in Lids : Seen(i) /\ Held(i)
      /\ \A i \in Keys(given) \ Sids : Lost(i)
  BY <1>1, <1>2 DEF Sole, Telling
<1>7. Telling(t)'
  <2>1. \A i \in Lids' : Seen(i)' \/ i = call'[t].id
    BY <1>1, <1>3, <1>6 DEF Seen
  <2>2. \A i \in Sids' : Held(i)'
    BY <1>1, <1>2, <1>3, <1>6 DEF Held
  <2>3. \A i \in Keys(given) \ Sids : Lost(i)'
    BY <1>1, <1>6, LostStays DEF Keys
  <2>4. ~Makes(call'[t])
    BY <1>1 DEF Makes, Evicts
  <2>. QED
    BY <1>1, <1>3, <2>1, <2>2, <2>3, <2>4 DEF Telling
<1>. QED
  BY <1>4, <1>5, <1>7 DEF Sole

\* A new session is inserted; its time comes with the stamp.
LEMMA InsertSole ==
    ASSUME SessTypeOK, NEW t \in Threads, Sole(t), Insert(t), call[t] # NoCall
    PROVE  Sole(t)'
<1>1. /\ call[t].pc = "insert" /\ UNCHANGED <<time, lastSeen, given>>
      /\ sessions' = [sessions EXCEPT ![call[t].id] = call[t].number] /\ call[t].id \in Ids
      /\ call[t].number \in Nat
      /\ call'[t].pc = "stamp" /\ call'[t].id = call[t].id /\ call'[t].number = call[t].number
  BY SoleTypes DEF Insert, CallAt, CallRecords
<1>2. Sids = Lids /\ call[t].id \notin Lids /\ Makes(call[t])
  BY <1>1 DEF Sole, Midway, Makes, Evicts
<1>3. /\ Sids' = Lids \cup {call[t].id} /\ Lids' = Lids /\ Keys(given)' = Keys(given)
      /\ sessions'[call[t].id] = call[t].number
      /\ \A i \in Lids : sessions'[i] = sessions[i]
  <2>1. call[t].number # None
    BY <1>1, ClockAssumption
  <2>. QED
    BY <1>1, <1>2, <2>1 DEF Sids, Lids, Keys, SessTypeOK
<1>4. Midway(t)'
  BY <1>1, <1>2, <1>3 DEF Midway, Makes, Evicts
<1>5. Looping(t)'
  BY <1>1 DEF Looping, Evicts
<1>6. /\ \A i \in Lids : Seen(i) /\ Held(i)
      /\ \A i \in Keys(given) \ Sids : Losing(i, call[t].id)
  BY <1>1, <1>2 DEF Sole, Telling
<1>7. ASSUME NEW i \in Keys(given) \ Sids'
      PROVE  Losing(i, call[t].id)'
  <2>1. PICK x \in Ids : x = call[t].id
    BY SoleTypes
  <2>2. i \in Ids /\ i \notin Sids
    BY <1>2, <1>3, <1>7 DEF Keys
  <2>3. Losing(i, x)
    BY <1>3, <1>6, <1>7, <2>1, <2>2
  <2>4. Losing(i, x)'
    BY <1>1, <2>2, <2>3, LostStays
  <2>5. x = call'[t].id
    BY <1>1, <2>1
  <2>. QED
    BY <2>4, <2>5 DEF Losing
<1>8. Telling(t)'
  <2>1. \A i \in Lids' : Seen(i)'
    BY <1>1, <1>3, <1>6 DEF Seen
  <2>2. \A i \in Sids' : Held(i)' \/ i = call'[t].id
    BY <1>1, <1>3, <1>6 DEF Held
  <2>3. Makes(call'[t])
    BY <1>1 DEF Makes
  <2>. QED
    BY <1>1, <1>3, <1>7, <2>1, <2>2, <2>3 DEF Telling
<1>. QED
  BY <1>4, <1>5, <1>8 DEF Sole

\* An entry of an id given anew makes it a rival of all the others.
LEMMA GivenRivals ==
    ASSUME SessTypeOK, NEW id \in Ids, NEW entry, entry.at \in Nat, time' = time,
           \A i \in Keys(given) : given[i].at <= entry.at,
           given' = [given EXCEPT ![id] = entry], entry # None,
           NEW i \in Ids \ {id}, given[i] # None
    PROVE  /\ given'[i] = given[i] /\ Idle(i)' = Idle(i)
           /\ Rivals(i) \cup {id} \subseteq Rivals(i)'
           /\ Losing(i, id) => Lost(i)'
<1>1. /\ given'[i] = given[i] /\ given'[id] = entry
      /\ \A j \in Ids \ {id} : given'[j] = given[j]
  BY DEF SessTypeOK
<1>2. given[i].at <= entry.at
  BY DEF Keys
<1>3. Rivals(i) \cup {id} \subseteq Rivals(i)'
  BY <1>1, <1>2 DEF Rivals, Keys
<1>4. Rivals(i)' \subseteq Ids
  BY DEF Rivals, Keys
<1>5. Cardinality(Rivals(i) \cup {id}) <= Cardinality(Rivals(i)')
      /\ Cardinality(Rivals(i) \cup {id}) \in Nat /\ Cardinality(Rivals(i)') \in Nat
  <2>1. Rivals(i) \cup {id} \subseteq Ids
    BY DEF Rivals, Keys
  <2>. QED
    BY <1>3, <1>4, <2>1, CapFinite, CountLess
<1>6. Idle(i)' = Idle(i)
  BY <1>1 DEF Idle
<1>. QED
  BY <1>1, <1>3, <1>5, <1>6, SessionAssumption DEF Losing, Lost

\* The two ways a call ends leave the store as its clients were told.
LEMMA FetchQuiet ==
    ASSUME SessTypeOK, NEW t \in Threads, Sole(t), Fetch(t), call[t] # NoCall
    PROVE  Quiet' /\ \A i \in Keys(given)' : given'[i].at <= time'
<1>1. PICK id, entry : /\ id = call[t].id
                       /\ entry = [object |-> sessions[id], at |-> call[t].now]
  OBVIOUS
<1>2. /\ call[t].pc = "fetch" /\ UNCHANGED <<time, sessions, lastSeen>>
      /\ given' = [given EXCEPT ![id] = entry] /\ id \in Ids /\ sessions[id] # None
      /\ call[t].now \in Nat /\ time \in Nat
  BY <1>1, SoleTypes DEF Fetch, CallAt, Gives
<1>3. /\ Sids = Lids /\ id \in Lids /\ lastSeen[id] = call[t].now /\ call[t].now <= time
      /\ \A i \in Keys(given) : given[i].at <= call[t].now
      /\ ~Makes(call[t])
  BY <1>1, <1>2 DEF Sole, Midway, Makes, Evicts
<1>4. /\ Sids' = Sids /\ Lids' = Lids /\ given'[id] = entry /\ entry # None
      /\ \A i \in Ids \ {id} : given'[i] = given[i]
      /\ Keys(given)' = Keys(given) \cup {id}
  <2>1. given'[id] = entry /\ \A i \in Ids \ {id} : given'[i] = given[i]
    BY <1>2 DEF SessTypeOK
  <2>2. entry # None
    <3>1. entry \in [object : Nat, at : Nat]
      BY <1>1, <1>2 DEF SessTypeOK
    <3>. QED
      BY <3>1, SessionAssumption
  <2>. QED
    BY <1>2, <2>1, <2>2 DEF Sids, Lids, Keys
<1>5. /\ \A i \in Lids : Seen(i) \/ i = id
      /\ \A i \in Sids : Held(i)
      /\ \A i \in Keys(given) \ Sids : Lost(i)
  BY <1>1, <1>2, <1>3 DEF Sole, Telling
<1>6. \A i \in Lids : Seen(i)'
  BY <1>1, <1>2, <1>3, <1>4, <1>5, CapSets DEF Seen
<1>7. \A i \in Lids : Held(i)'
  BY <1>1, <1>2, <1>3, <1>4, <1>5, CapSets DEF Held
<1>8. ASSUME NEW i \in Keys(given)' \ Sids' PROVE Lost(i)'
  <2>1. i # id /\ i \in Ids /\ given[i] # None /\ Lost(i)
    BY <1>3, <1>4, <1>5, <1>8 DEF Keys
  <2>2. Losing(i, id)
    BY <1>2, <2>1, LostIsLosing
  <2>3. entry.at = call[t].now /\ i \in Ids \ {id}
    BY <1>1, <2>1
  <2>. QED
    BY <1>2, <1>3, <1>4, <2>1, <2>2, <2>3, GivenRivals
<1>9. \A i \in Keys(given)' : given'[i].at <= time'
  <2>1. ASSUME NEW i \in Keys(given) PROVE given[i].at <= time
    BY <1>2, <1>3, SoleTypes
  <2>2. entry.at = call[t].now /\ \A i \in Keys(given)' : i \in Ids
    BY <1>1 DEF Keys
  <2>. QED
    BY <1>2, <1>3, <1>4, <2>1, <2>2
<1>. QED
  BY <1>3, <1>4, <1>6, <1>7, <1>8, <1>9 DEF Quiet

\* The new object was inserted and is given; its id is now a rival of all the others.
LEMMA StampQuiet ==
    ASSUME SessTypeOK, NEW t \in Threads, Sole(t), Stamp(t), call[t] # NoCall,
           \A i \in Keys(given) : given[i].at <= time
    PROVE  Quiet' /\ \A i \in Keys(given)' : given'[i].at <= time'
<1>1. PICK id, entry : /\ id = call[t].id
                       /\ entry = [object |-> call[t].number, at |-> time]
  OBVIOUS
<1>2. /\ call[t].pc = "stamp" /\ UNCHANGED <<time, sessions>> /\ time \in Nat
      /\ lastSeen' = [lastSeen EXCEPT ![id] = time]
      /\ given' = [given EXCEPT ![id] = entry] /\ id \in Ids
  BY <1>1, SoleTypes DEF Stamp, CallAt, Gives
<1>3. /\ id \notin Lids /\ Sids = Lids \cup {id} /\ sessions[id] = call[t].number
      /\ Makes(call[t])
  BY <1>1, <1>2 DEF Sole, Midway, Makes
<1>4. /\ Sids' = Sids /\ Lids' = Sids /\ given'[id] = entry /\ entry # None
      /\ \A i \in Ids \ {id} : given'[i] = given[i] /\ lastSeen'[i] = lastSeen[i]
      /\ lastSeen'[id] = time /\ Keys(given)' = Keys(given) \cup {id}
  <2>1. /\ given'[id] = entry /\ lastSeen'[id] = time
        /\ \A i \in Ids \ {id} : given'[i] = given[i] /\ lastSeen'[i] = lastSeen[i]
    BY <1>2 DEF SessTypeOK
  <2>2. entry # None
    <3>1. entry \in [object : Nat, at : Nat]
      BY <1>1, <1>2, SoleTypes
    <3>. QED
      BY <3>1, SessionAssumption
  <2>3. time # None
    BY ClockAssumption DEF SessTypeOK, Times
  <2>. QED
    BY <1>2, <1>3, <2>1, <2>2, <2>3 DEF Sids, Lids, Keys
<1>5. /\ \A i \in Lids : Seen(i)
      /\ \A i \in Sids : Held(i) \/ i = id
      /\ \A i \in Keys(given) \ Sids : Losing(i, id)
  BY <1>1, <1>2, <1>3 DEF Sole, Telling
<1>6. \A i \in Sids : Seen(i)'
  BY <1>1, <1>3, <1>4, <1>5, CapSets DEF Seen
<1>7. \A i \in Sids : Held(i)'
  BY <1>1, <1>2, <1>3, <1>4, <1>5, CapSets DEF Held
<1>8. ASSUME NEW i \in Keys(given)' \ Sids' PROVE Lost(i)'
  <2>1. i # id /\ i \in Ids /\ given[i] # None /\ Losing(i, id)
    BY <1>3, <1>4, <1>5, <1>8 DEF Keys
  <2>2. entry.at = time
    BY <1>1
  <2>. QED
    BY <1>2, <1>4, <2>1, <2>2, GivenRivals
<1>9. \A i \in Keys(given)' : given'[i].at <= time'
  <2>1. entry.at = time /\ time <= time /\ \A i \in Keys(given)' : i \in Ids
    BY <1>1, <1>2 DEF Keys
  <2>. QED
    BY <1>2, <1>4, <2>1
<1>. QED
  BY <1>4, <1>6, <1>7, <1>8, <1>9 DEF Quiet

\* A call alone does not fail, and ends with the store as its client was told.
LEMMA SoloCall ==
    ASSUME SessTypeOK, SoloInv, overlapped = 0, NEW t \in Threads, SessStep(t)
    PROVE  SoloInv'
<1>1. /\ call[t] # NoCall /\ overlapped' = 0 /\ time' = time
      /\ \A u \in Threads \ {t} : call'[u] = call[u]
      /\ t \in Busy
  <2>1. time' = time
    BY DEF SessStep, LoopRaises, Scan, Pop, Unsee, Check, Touch, Fetch, FetchRaises, Room, Least,
           Oldest, Insert, Stamp, Fails
  <2>. QED
    BY <2>1, CallMoves DEF Busy
<1>2. /\ Sole(t) /\ \A u \in Busy : u = t
      /\ \A i \in Keys(given) : given[i].at <= time
  BY <1>1 DEF SoloInv
<1>3. \A u \in Busy' : u = t
  BY <1>1, <1>2 DEF Busy
<1>4. CASE Scan(t) \/ Pop(t) \/ Unsee(t) \/ Check(t) \/ Touch(t) \/ Room(t) \/ Least(t)
           \/ Oldest(t) \/ Insert(t)
  <2>1. Sole(t)'
    BY <1>1, <1>2, <1>4, ScanSole, PopSole, UnseeSole, CheckSole, TouchSole, RoomSole, LeastSole,
       OldestSole, InsertSole
  <2>2. given' = given
    BY <1>4 DEF Scan, Pop, Unsee, Check, Touch, Room, Least, Oldest, Insert
  <2>3. call'[t] # NoCall
    <3>1. CASE Scan(t) \/ Oldest(t)
      BY <3>1, ScanTurn, OldestTurn
    <3>2. CASE Pop(t)
      <4>1. PICK p \in call[t].doomed :
                call' = [call EXCEPT ![t].pc = "unsee", ![t].current = p]
        BY <3>2 DEF Pop
      <4>. QED
        BY <1>1, <4>1, SoleTypes DEF CallRecords, NoCall
    <3>3. CASE Unsee(t)
      BY <1>1, <3>3, SoleTypes DEF Unsee, CallRecords, NoCall
    <3>4. CASE Check(t) \/ Touch(t) \/ Insert(t)
      BY <1>1, <3>4, SoleTypes DEF Check, Touch, Insert, CallRecords, NoCall
    <3>5. CASE Room(t)
      BY <1>1, <3>5, SoleTypes DEF Room, CallRecords, NoCall
    <3>6. CASE Least(t)
      BY <1>1, <3>6, SoleTypes DEF Least, CallRecords, NoCall
    <3>. QED
      BY <1>4, <3>1, <3>2, <3>3, <3>4, <3>5, <3>6
  <2>4. Busy' # {}
    BY <2>3 DEF Busy
  <2>5. \A i \in Keys(given)' : given'[i].at <= time'
    BY <1>1, <1>2, <2>2 DEF Keys
  <2>. QED
    BY <1>3, <2>1, <2>4, <2>5 DEF SoloInv
<1>5. CASE Fetch(t) \/ Stamp(t)
  <2>1. Quiet' /\ \A i \in Keys(given)' : given'[i].at <= time'
    BY <1>1, <1>2, <1>5, FetchQuiet, StampQuiet
  <2>2. call'[t] = NoCall
    BY <1>1, <1>5 DEF Fetch, Stamp, Gives, SessTypeOK
  <2>3. Busy' = {}
    BY <1>3, <2>2 DEF Busy
  <2>. QED
    BY <2>1, <2>3 DEF SoloInv
<1>6. ~LoopRaises(t)
  BY <1>2 DEF LoopRaises, CallAt, SameSize, Sole, Looping, Lids
<1>7. ~FetchRaises(t)
  BY <1>1, <1>2 DEF FetchRaises, CallAt, Sole, Midway, Sids, Keys
<1>. QED
  BY <1>4, <1>5, <1>6, <1>7 DEF SessStep

\* A call that begins while none runs finds the store quiet; one beside another is not of
\* interest any more.
LEMMA SoloBegin ==
    ASSUME SessTypeOK, SoloInv, NEW t \in Threads, NEW id \in Ids, Begin(t, id), overlapped' = 0
    PROVE  SoloInv'
<1>1. /\ overlapped = 0 /\ Busy = {}
  <2>1. /\ overlapped' = overlapped + Cardinality({u \in Busy : ~call[u].met})
                         + (IF Busy = {} THEN 0 ELSE 1)
        /\ overlapped \in Nat
    BY DEF Begin, SessTypeOK
  <2>2. PICK n \in Nat : n = Cardinality({u \in Busy : ~call[u].met})
    BY BusyIsNat DEF Busy
  <2>3. overlapped' = overlapped + n + (IF Busy = {} THEN 0 ELSE 1)
    BY <2>1, <2>2
  <2>. QED
    BY <2>1, <2>3
<1>2. /\ Quiet /\ \A i \in Keys(given) : given[i].at <= time
  BY <1>1 DEF SoloInv
<1>3. /\ UNCHANGED <<time, sessions, lastSeen, given>>
      /\ call'[t] # NoCall /\ call'[t].pc = "scan" /\ call'[t].next = "check"
      /\ call'[t].now = time /\ call'[t].size = Cardinality(Lids)
      /\ call'[t].doomed = {} /\ call'[t].looked = {}
      /\ \A u \in Threads \ {t} : call'[u] = NoCall
  <2>1. \A u \in Threads \ {t} : call'[u] = NoCall
    BY <1>1 DEF Begin, Busy
  <2>. QED
    BY <2>1 DEF Begin, NoCall, Lids
<1>4. Sids' = Sids /\ Lids' = Lids /\ Keys(given)' = Keys(given)
  BY <1>3 DEF Sids, Lids, Keys
<1>5. \A u \in Busy' : u = t
  BY <1>3 DEF Busy
<1>6. Busy' # {}
  BY <1>3 DEF Busy
<1>7. ~Evicts(call'[t]) /\ ~Makes(call'[t])
  BY <1>3 DEF Evicts, Makes
<1>8. Midway(t)'
  BY <1>2, <1>3, <1>4, <1>7 DEF Midway, Quiet
<1>9. Looping(t)'
  <2>1. time \in Nat
    BY ClockAssumption DEF SessTypeOK, Times
  <2>. QED
    BY <1>3, <1>4, <1>7, <2>1 DEF Looping
<1>10. Telling(t)'
  <2>1. \A i \in Lids : Seen(i)' /\ Held(i)'
    BY <1>2, <1>3, CapSets DEF Quiet, Seen, Held
  <2>2. \A i \in Keys(given) \ Sids : Lost(i)'
    BY <1>2, <1>3, LostStays DEF Quiet, Keys
  <2>3. Sids = Lids
    BY <1>2 DEF Quiet
  <2>. QED
    BY <1>4, <1>7, <2>1, <2>2, <2>3 DEF Telling
<1>11. \A i \in Keys(given)' : given'[i].at <= time'
  BY <1>2, <1>3, <1>4
<1>. QED
  BY <1>5, <1>6, <1>8, <1>9, <1>10, <1>11 DEF SoloInv, Sole

\* Time passes: what was idle stays so.
LEMMA SoloTick ==
    ASSUME SessTypeOK, SoloInv, Tick, UNCHANGED sessionVars
    PROVE  SoloInv'
<1>1. /\ UNCHANGED <<sessions, lastSeen, call, overlapped, given>>
      /\ time' = time + 1 /\ time \in Nat
  BY ClockAssumption DEF Tick, sessionVars, SessTypeOK, Times
<1>2. SUFFICES ASSUME overlapped = 0 PROVE SoloInv'
  BY <1>1 DEF SoloInv
<1>3. /\ Sids' = Sids /\ Lids' = Lids /\ Keys(given)' = Keys(given) /\ Busy' = Busy
      /\ Sids \subseteq Ids /\ Lids \subseteq Ids
  BY <1>1, CapSets DEF Sids, Lids, Keys, Busy
<1>4. \A i \in Keys(given) : given[i].at \in Nat /\ i \in Ids
  BY ClockAssumption DEF SessTypeOK, Times, Keys
<1>5. ASSUME NEW i \in Keys(given)
      PROVE  /\ Lost(i) => Lost(i)'
             /\ \A x \in Ids : Losing(i, x) => Losing(i, x)'
  <2>1. Rivals(i)' = Rivals(i)
    BY <1>1 DEF Rivals, Keys
  <2>2. Idle(i) => Idle(i)'
    BY <1>1, <1>4, SessionAssumption DEF Idle
  <2>. QED
    BY <2>1, <2>2 DEF Lost, Losing
<1>6. \A i \in Ids : Seen(i)' = Seen(i) /\ Held(i)' = Held(i)
  BY <1>1 DEF Seen, Held
<1>7. \A i \in Keys(given)' : given'[i].at <= time'
  BY <1>1, <1>2, <1>3, <1>4 DEF SoloInv
<1>8. Quiet => Quiet'
  BY <1>3, <1>5, <1>6 DEF Quiet
<1>9. ASSUME NEW t \in Busy, Sole(t) PROVE Sole(t)'
  <2>1. t \in Threads /\ call[t] # NoCall /\ call' = call
    BY <1>1 DEF Busy
  <2>2. call[t].now \in Nat /\ call[t].id \in Ids
    BY <2>1, SoleTypes
  <2>3. Midway(t)'
    BY <1>1, <1>3, <1>9, <2>2 DEF Midway, Sole
  <2>4. Looping(t)'
    <3>1. call[t].now <= time => call[t].now <= time'
      BY <1>1, <2>2
    <3>2. \A i \in Ids : Expired(t, i)' = Expired(t, i)
      BY <1>1 DEF Expired
    <3>. QED
      BY <1>1, <1>3, <1>9, <3>1, <3>2 DEF Looping, Sole
  <2>5. Telling(t)'
    <3>1. PICK x \in Ids : x = call[t].id
      BY <2>2
    <3>2. \A i \in Keys(given) \ Sids : IF Makes(call[t]) THEN Losing(i, x) ELSE Lost(i)
      BY <1>9, <3>1 DEF Sole, Telling
    <3>3. \A i \in Keys(given) \ Sids :
              (IF Makes(call[t]) THEN Losing(i, call[t].id) ELSE Lost(i))'
      <4>1. SUFFICES ASSUME NEW i \in Keys(given) \ Sids
                     PROVE  (IF Makes(call[t]) THEN Losing(i, call[t].id) ELSE Lost(i))'
        OBVIOUS
      <4>2. IF Makes(call[t]) THEN Losing(i, x)' ELSE Lost(i)'
        BY <1>5, <3>2, <4>1
      <4>3. x = call'[t].id /\ call'[t] = call[t]
        BY <1>1, <3>1
      <4>4. Losing(i, x)' => Losing(i, call[t].id)'
        BY <4>3 DEF Losing
      <4>. QED
        BY <4>2, <4>3, <4>4
    <3>. QED
      BY <1>1, <1>3, <1>6, <1>9, <3>3 DEF Telling, Sole
  <2>. QED
    BY <2>3, <2>4, <2>5 DEF Sole
<1>. QED
  BY <1>2, <1>3, <1>7, <1>8, <1>9 DEF SoloInv

\* At the start nothing was given.
LEMMA SoloInit == Init => SoloInv
<1>. SUFFICES ASSUME Init PROVE SoloInv
  OBVIOUS
<1>1. /\ sessions = [i \in Ids |-> None] /\ lastSeen = [i \in Ids |-> None]
      /\ call = [t \in Threads |-> NoCall] /\ given = [i \in Ids |-> None]
  BY DEF Init, SessInit
<1>2. Sids = {} /\ Lids = {} /\ Busy = {} /\ Keys(given) = {}
  BY <1>1 DEF Sids, Lids, Keys, Busy
<1>. QED
  BY <1>2 DEF SoloInv, Quiet

\* Every step of the front end keeps the invariant.
LEMMA SoloStep == SessTypeOK /\ SoloInv /\ [Next]_vars => SoloInv'
<1>. SUFFICES ASSUME SessTypeOK, SoloInv, [Next]_vars PROVE SoloInv'
  OBVIOUS
<1>1. ASSUME NEW t \in Threads, NEW id \in Ids, Begin(t, id) PROVE SoloInv'
  BY <1>1, SoloBegin DEF SoloInv
<1>2. ASSUME NEW t \in Threads, SessStep(t) PROVE SoloInv'
  <2>1. overlapped' = overlapped
    BY <1>2, CallMoves
  <2>. QED
    BY <1>2, <2>1, SoloCall DEF SoloInv
<1>3. CASE UNCHANGED sessionVars
  <2>1. CASE Tick
    BY <1>3, <2>1, SoloTick
  <2>2. CASE time' = time
    <3>1. UNCHANGED <<time, sessions, lastSeen, call, overlapped, given>>
      BY <1>3, <2>2 DEF sessionVars
    <3>2. /\ Sids' = Sids /\ Lids' = Lids /\ Keys(given)' = Keys(given) /\ Busy' = Busy
          /\ Sids \subseteq Ids /\ Lids \subseteq Ids
      BY <3>1, CapSets DEF Sids, Lids, Keys, Busy
    <3>3. \A i \in Ids : Seen(i)' = Seen(i) /\ Held(i)' = Held(i)
      BY <3>1 DEF Seen, Held
    <3>4. \A i \in Keys(given) : i \in Ids /\ Lost(i)' = Lost(i)
      BY <3>1, LostStays DEF Keys
    <3>5. Quiet => Quiet'
      BY <3>2, <3>3, <3>4 DEF Quiet
    <3>6. ASSUME NEW t \in Busy, Sole(t) PROVE Sole(t)'
      <4>1. t \in Threads /\ call[t] # NoCall /\ call' = call
        BY <3>1 DEF Busy
      <4>2. Midway(t)'
        BY <3>1, <3>2, <3>6 DEF Midway, Sole
      <4>3. Looping(t)'
        <5>1. \A i \in Ids : Expired(t, i)' = Expired(t, i)
          BY <3>1 DEF Expired
        <5>. QED
          BY <3>1, <3>2, <3>6, <5>1 DEF Looping, Sole
      <4>4. Telling(t)'
        <5>1. \A i \in Keys(given) \ Sids :
                  (IF Makes(call[t]) THEN Losing(i, call[t].id) ELSE Lost(i))'
                = (IF Makes(call[t]) THEN Losing(i, call[t].id) ELSE Lost(i))
          <6>1. SUFFICES ASSUME NEW i \in Keys(given) \ Sids
                         PROVE  (IF Makes(call[t]) THEN Losing(i, call[t].id) ELSE Lost(i))'
                                = (IF Makes(call[t]) THEN Losing(i, call[t].id) ELSE Lost(i))
            OBVIOUS
          <6>2. Rivals(i)' = Rivals(i)
            BY <3>1 DEF Rivals, Keys
          <6>3. Losing(i, call[t].id)' = Losing(i, call[t].id)
            BY <3>1, <6>2 DEF Losing, Idle
          <6>. QED
            BY <3>4, <4>1, <6>1, <6>3
        <5>. QED
          BY <3>1, <3>2, <3>3, <3>6, <5>1 DEF Telling, Sole
      <4>. QED
        BY <4>2, <4>3, <4>4 DEF Sole
    <3>. QED
      BY <3>1, <3>2, <3>5, <3>6 DEF SoloInv
  <2>. QED
    BY <2>1, <2>2, TimeMoves
<1>. QED
  BY <1>1, <1>2, <1>3 DEF Next, vars, SessNext, SessTick, sessionVars

----------------------------------------------------------------------------
\* SessionKept: between calls that did not overlap, a session that was given is in the
\* store, unless it was idle for too long or enough others were given one since.
THEOREM SessionKeptCorrect == Spec => []SessionKept
<1>1. SessTypeOK /\ SoloInv => SessionKept
  <2>. SUFFICES ASSUME SessTypeOK, SoloInv, overlapped = 0, Busy = {}, NEW i \in Keys(given),
                       time - given[i].at <= Ttl, Cardinality(Rivals(i)) < MaxSessions
                PROVE  sessions[i] = given[i].object
    BY DEF SessionKept, Rivals
  <2>1. Quiet
    BY DEF SoloInv
  <2>2. ~Lost(i)
    <3>1. time \in Nat /\ given[i].at \in Nat
      BY ClockAssumption DEF SessTypeOK, Times, Keys
    <3>2. Cardinality(Rivals(i)) \in Nat
      <4>1. Rivals(i) \subseteq Ids
        BY DEF Rivals, Keys
      <4>. QED
        BY <4>1, CapFinite
    <3>. QED
      BY <3>1, <3>2, SessionAssumption DEF Lost, Idle
  <2>. QED
    BY <2>1, <2>2 DEF Quiet, Held
<1>2. Spec => []SoloInv
  <2>1. TypeOK => SessTypeOK
    BY DEF TypeOK
  <2>. QED
    BY <2>1, SoloInit, SoloStep, TypeCorrect, PTL DEF Spec
<1>3. TypeOK => SessTypeOK
  BY DEF TypeOK
<1>. QED
  BY <1>1, <1>2, <1>3, TypeCorrect, PTL

\* There are no more ids than threads that each have one.
LEMMA CountOwned ==
    ASSUME NEW S \in SUBSET Threads, NEW own, NEW A \in SUBSET Ids,
           \A i \in A : \E u \in S : own[u] = i
    PROVE  Cardinality(A) <= Cardinality(S)
<1>. DEFINE f == [i \in A |-> CHOOSE u \in S : own[u] = i]
<1>1. \A i \in A : f[i] \in S /\ own[f[i]] = i
  OBVIOUS
<1>2. f \in Injection(A, S)
  BY <1>1 DEF Injection, IsInjective
<1>3. IsFiniteSet(S)
  BY CapFinite
<1>. QED
  BY <1>2, <1>3, FS_Injection

\* CapHolds: the sessions in excess of MaxSessions are at most as many as the calls that
\* ran beside another one, the ids of both dictionaries too but for those between the
\* two pops of an eviction, and without any overlap the dictionaries have the same keys.
THEOREM CapHoldsCorrect == Spec => []CapHolds
<1>1. ASSUME SessTypeOK, CapInv
      PROVE  /\ Cardinality(Sids) <= MaxSessions + overlapped
             /\ Cardinality(Sids \cup Lids) <=
                    MaxSessions + overlapped + Cardinality({t \in Busy : call[t].pc = "unsee"})
  <2>. DEFINE Leavers == {t \in Busy : call[t].pc = "unsee"}
  <2>1. /\ Cardinality(Sids) \in Nat /\ Cardinality(Settled) \in Nat
        /\ Cardinality(Stale) \in Nat /\ Cardinality(Adders) \in Nat
        /\ Cardinality(Awaiting) \in Nat /\ Cardinality(Leaving) \in Nat
        /\ Cardinality(Leavers) \in Nat /\ overlapped \in Nat /\ MaxSessions \in Nat
        /\ Cardinality(Sids \cup Lids) \in Nat
        /\ Leavers \in SUBSET Threads
    <3>1. /\ Sids \cup Lids \subseteq Ids /\ Awaiting \subseteq Ids /\ Leaving \subseteq Ids
          /\ Leavers \subseteq Threads
      BY CapSets DEF Awaiting, Leaving, Busy
    <3>2. /\ Cardinality(Sids \cup Lids) \in Nat /\ Cardinality(Awaiting) \in Nat
          /\ Cardinality(Leaving) \in Nat /\ Cardinality(Leavers) \in Nat
      BY <3>1, CapFinite
    <3>. QED
      BY <1>1, <3>1, <3>2, CapNats DEF SessTypeOK
  <2>2. Cardinality(Awaiting) <= Cardinality(Adders)
    <3>1. \A i \in Awaiting : \E u \in Adders : [v \in Threads |-> call[v].id][u] = i
      BY DEF Awaiting, Adders, Stamps, Adds
    <3>2. Adders \in SUBSET Threads /\ Awaiting \in SUBSET Ids
      BY DEF Adders, Awaiting
    <3>. QED
      BY <3>1, <3>2, CountOwned
  <2>3. Cardinality(Leaving) <= Cardinality(Leavers)
    <3>1. \A i \in Leaving : \E u \in Leavers : [v \in Threads |-> call[v].current][u] = i
      BY DEF Leaving, Unsees, Busy
    <3>2. Leaving \in SUBSET Ids
      BY DEF Leaving
    <3>. QED
      BY <2>1, <3>1, <3>2, CountOwned
  <2>4. Cardinality(Settled) + Cardinality(Stale) + Cardinality(Adders) <= MaxSessions + overlapped
    <3>1. Weight <= MaxSessions + overlapped
      BY <1>1 DEF CapInv
    <3>2. Weight >= Cardinality(Settled) + Cardinality(Stale) + Cardinality(Adders)
      BY <2>1 DEF Weight
    <3>3. Weight \in Nat
      BY <2>1 DEF Weight
    <3>. HIDE DEF Leavers
    <3>. QED
      BY <2>1, <3>1, <3>2, <3>3
  <2>5. /\ IsFiniteSet(Settled) /\ IsFiniteSet(Awaiting) /\ IsFiniteSet(Stale)
        /\ IsFiniteSet(Leaving)
    BY CapSets, CapFinite DEF Awaiting, Leaving
  <2>6. /\ IsFiniteSet(Settled \cup Awaiting)
        /\ Cardinality(Settled \cup Awaiting) \in Nat
        /\ Cardinality(Settled \cup Awaiting) <= Cardinality(Settled) + Cardinality(Awaiting)
    BY <2>5, CountJoined
  <2>7. /\ IsFiniteSet(Stale \cup Leaving)
        /\ Cardinality(Stale \cup Leaving) \in Nat
        /\ Cardinality(Stale \cup Leaving) <= Cardinality(Stale) + Cardinality(Leaving)
    BY <2>5, CountJoined
  <2>8. Cardinality(Sids) <= MaxSessions + overlapped
    <3>1. Sids \subseteq Settled \cup Awaiting
      BY DEF Settled
    <3>2. Cardinality(Sids) <= Cardinality(Settled \cup Awaiting)
      BY <2>6, <3>1, CountLess
    <3>. QED
      BY <2>1, <2>2, <2>4, <2>6, <3>2
  <2>9. Cardinality(Sids \cup Lids) <= MaxSessions + overlapped + Cardinality(Leavers)
    <3>. DEFINE all == (Settled \cup Awaiting) \cup (Stale \cup Leaving)
    <3>1. Sids \cup Lids \subseteq all
      BY DEF Settled, Stale
    <3>2. /\ IsFiniteSet(all) /\ Cardinality(all) \in Nat
          /\ Cardinality(all) <= Cardinality(Settled \cup Awaiting)
                                     + Cardinality(Stale \cup Leaving)
      BY <2>6, <2>7, CountJoined
    <3>3. Cardinality(Sids \cup Lids) <= Cardinality(all)
      BY <3>1, <3>2, CountLess
    <3>. QED
      BY <2>1, <2>2, <2>3, <2>4, <2>6, <2>7, <3>2, <3>3
  <2>. QED
    BY <2>8, <2>9
<1>2. SessTypeOK /\ SoloInv /\ CapInv => CapHolds
  <2>. SUFFICES ASSUME SessTypeOK, SoloInv, CapInv PROVE CapHolds
    OBVIOUS
  <2>1. Busy = {} /\ overlapped = 0 => Sids = Lids
    BY DEF SoloInv, Quiet
  <2>. QED
    BY <1>1, <2>1 DEF CapHolds, Sids, Lids
<1>3. TypeOK => SessTypeOK
  BY DEF TypeOK
<1>4. Spec => []SoloInv
  BY <1>3, SoloInit, SoloStep, TypeCorrect, PTL DEF Spec
<1>5. Spec => []CapInv
  BY <1>3, CapInit, CapStep, TypeCorrect, PTL DEF Spec
<1>. QED
  BY <1>2, <1>3, <1>4, <1>5, TypeCorrect, PTL

=============================================================================
