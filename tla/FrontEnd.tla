------------------------------- MODULE FrontEnd -------------------------------
(***************************************************************************)
(* The parts of the server that HTTP requests change besides the switches: *)
(* the session store, the rate limiter, the intent file and the registry   *)
(* of commit tokens.  They share the threads and the clock, and nothing    *)
(* else, so a behaviour exercises one of them; traffic says which.         *)
(***************************************************************************)
EXTENDS SessionStore, RateLimiter, IntentFile, CommitTokens

VARIABLE traffic

sessionVars == <<sessions, lastSeen, call, calls, overlapped, given>>
limiterVars == <<store, arrival, requests, admitted, refusal>>
commitVars == <<commits, record, audit, confirm, confirms>>
vars == <<traffic, time, sessionVars, limiterVars, intentVars, commitVars>>

TypeOK ==
    /\ SessTypeOK
    /\ RateTypeOK
    /\ IntentTypeOK
    /\ TokenTypeOK

Init ==
    /\ traffic \in {"sessions", "rate", "intent", "commit"}
    /\ SessInit
    /\ RateInit
    /\ IntentInit
    /\ TokenInit

Next ==
    /\ UNCHANGED traffic
    /\ \/ /\ traffic = "sessions" /\ SessNext
          /\ UNCHANGED <<limiterVars, intentVars, commitVars>>
       \/ /\ traffic = "rate" /\ RateNext
          /\ UNCHANGED <<sessionVars, intentVars, commitVars>>
       \/ /\ traffic = "intent" /\ IntentNext
          /\ UNCHANGED <<time, sessionVars, limiterVars, commitVars>>
       \/ /\ traffic = "commit" /\ TokenNext
          /\ UNCHANGED <<sessionVars, limiterVars, intentVars>>

Spec == Init /\ [][Next]_vars

=============================================================================
