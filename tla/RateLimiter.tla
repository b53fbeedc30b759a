----------------------------- MODULE RateLimiter -----------------------------
(***************************************************************************)
(* _is_rate_limited: a sliding window of admissions per client address.    *)
(* The clock is read before the lock is taken, so requests may enter the   *)
(* window in another order than that of their times.                       *)
(***************************************************************************)
EXTENDS ServerClock, Sequences, FiniteSets

CONSTANTS
    Ips,
    Limit,         \* admissions of an address per window
    Window,        \* its length
    MaxRequests    \* bounds the requests

ASSUME RateAssumption == Limit \in Nat /\ Window \in Nat /\ MaxRequests \in Nat

VARIABLES
    store,         \* _rate_store: the times of the admissions that count
    arrival,       \* the request of each thread between its clock and the lock
    requests,      \* requests so far
    admitted,      \* history: the admissions
    refusal        \* history: the last refusal, with the admissions it met

rateVars == <<time, store, arrival, requests, admitted, refusal>>

Requests == [number : 1..MaxRequests, ip : Ips, now : Times]
Admissions == [number : 1..MaxRequests, ip : Ips, now : Times, at : Times]

RateTypeOK ==
    /\ time \in Times
    /\ store \in [Ips -> Seq(Times)]
    /\ \A ip \in Ips : Len(store[ip]) <= Limit
    /\ arrival \in [Threads -> Requests \cup {None}]
    /\ requests \in 0..MaxRequests
    /\ admitted \subseteq Admissions
    /\ refusal \in [ip : Ips, now : Times, at : Times] \cup {None}

RateInit ==
    /\ ClockInit
    /\ store = [ip \in Ips |-> << >>]
    /\ arrival = [t \in Threads |-> None]
    /\ requests = 0
    /\ admitted = {}
    /\ refusal = None

RateTick == Tick /\ UNCHANGED <<store, arrival, requests, admitted, refusal>>

\* A request comes and reads the clock.
Arrive(t, ip) ==
    /\ arrival[t] = None
    /\ requests < MaxRequests
    /\ requests' = requests + 1
    /\ arrival' = [arrival EXCEPT ![t] = [number |-> requests + 1, ip |-> ip, now |-> time]]
    /\ UNCHANGED <<time, store, admitted, refusal>>

\* Mutant: an admission leaves the window at its edge.
MutKept(q, now) ==
    LET in == {i \in DOMAIN q : q[i] + Window > now}
    IN IF in = {} THEN << >> ELSE SubSeq(q, CHOOSE i \in in : \A j \in in : i <= j, Len(q))

\* Times are dropped from the front of the window, up to the first that still counts.
Kept(q, now) ==
    LET in == {i \in DOMAIN q : q[i] + Window >= now}
    IN IF in = {} THEN << >> ELSE SubSeq(q, CHOOSE i \in in : \A j \in in : i <= j, Len(q))

\* Mutant: one admission more than the limit.
MutAdmit(t) ==
    /\ arrival[t] # None
    /\ LET a == arrival[t]
           q == Kept(store[a.ip], a.now)
       IN /\ Len(q) <= Limit
          /\ store' = [store EXCEPT ![a.ip] = Append(q, a.now)]
          /\ admitted' = admitted \cup
                 {[number |-> a.number, ip |-> a.ip, now |-> a.now, at |-> time]}
    /\ arrival' = [arrival EXCEPT ![t] = None]
    /\ UNCHANGED <<time, requests, refusal>>

\* Under the lock: the window moves on, and the request is admitted or refused.
Admit(t) ==
    /\ arrival[t] # None
    /\ LET a == arrival[t]
           q == Kept(store[a.ip], a.now)
       IN /\ Len(q) < Limit
          /\ store' = [store EXCEPT ![a.ip] = Append(q, a.now)]
          /\ admitted' = admitted \cup
                 {[number |-> a.number, ip |-> a.ip, now |-> a.now, at |-> time]}
    /\ arrival' = [arrival EXCEPT ![t] = None]
    /\ UNCHANGED <<time, requests, refusal>>

Refuse(t) ==
    /\ arrival[t] # None
    /\ LET a == arrival[t]
           q == Kept(store[a.ip], a.now)
       IN /\ Len(q) >= Limit
          /\ store' = [store EXCEPT ![a.ip] = q]
          /\ refusal' = [ip |-> a.ip, now |-> a.now, at |-> time]
    /\ arrival' = [arrival EXCEPT ![t] = None]
    /\ UNCHANGED <<time, requests, admitted>>

RateNext ==
    RateTick \/ \E t \in Threads : Admit(t) \/ Refuse(t) \/ \E ip \in Ips : Arrive(t, ip)

RateSpec == RateInit /\ [][RateNext]_rateVars

----------------------------------------------------------------------------
\* However late a request gets the lock, no more than Limit admissions of an address
\* have come within the last window; and a request was refused only if Limit
\* admissions of its address were granted since a window before it came.
WindowKept ==
    /\ \A ip \in Ips :
           Cardinality({a \in admitted : a.ip = ip /\ a.now + Window >= time}) <= Limit
    /\ refusal # None =>
           Cardinality({a \in admitted : /\ a.ip = refusal.ip
                                         /\ a.at + Window >= refusal.now}) >= Limit

=============================================================================
