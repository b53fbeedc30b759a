----------------------------- MODULE CommitTokens -----------------------------
(***************************************************************************)
(* MCPIntentExecutor and its CommitRegistry: an intent that changes        *)
(* something is answered with a token, and confirm consumes the token.     *)
(* pop has no lock; it is modelled statement by statement where it reads   *)
(* or writes the registry.  A record that is deleted from the registry is  *)
(* still in the hands of the calls that have looked it up.                 *)
(***************************************************************************)
EXTENDS ServerClock, Sequences

CONSTANTS
    Tokens,
    Life,          \* DEFAULT_TTL_SECONDS
    MaxConfirms    \* bounds the calls of confirm

ASSUME TokenAssumption ==
    /\ Life \in Nat /\ MaxConfirms \in Nat
    /\ None \notin [expires : Nat, used : BOOLEAN]

VARIABLES
    commits,       \* the tokens in the registry
    record,        \* what was stored for each token that was created
    audit,         \* _audit_log
    confirm,       \* what every thread is doing
    confirms       \* calls of confirm so far

tokenVars == <<time, commits, record, audit, confirm, confirms>>

Events == {"CREATED", "INVALID_TOKEN", "REPLAY_ATTEMPT", "EXPIRED", "CONFIRMED"}
NoConfirm == [pc |-> "idle"]

TokenTypeOK ==
    /\ commits \subseteq Tokens
    /\ record \in [Tokens -> [expires : Nat, used : BOOLEAN] \cup {None}]
    /\ \A k \in commits : record[k] # None
    /\ audit \in Seq([event : Events, token : Tokens])
    /\ confirm \in [Threads -> [pc : {"look", "used", "expiry", "drop", "use", "take", "log"},
                                token : Tokens, now : Times] \cup {NoConfirm}]
    /\ \A t \in Threads : confirm[t].pc \notin {"idle", "look"} => record[confirm[t].token] # None

TokenInit ==
    /\ ClockInit
    /\ commits = {}
    /\ record = [k \in Tokens |-> None]
    /\ audit = << >>
    /\ confirm = [t \in Threads |-> NoConfirm]
    /\ confirms = 0

TokenTick == Tick /\ UNCHANGED <<commits, record, audit, confirm, confirms>>

\* The agents: how each rates an intent, and if it may change anything.
Agents == {"observer", "operator", "admin"}
Rating == [observer |-> "SAFE_READ", operator |-> "SAFE_MUTATE", admin |-> "RISKY_MUTATE"]
AllowMutation == [observer |-> FALSE, operator |-> TRUE, admin |-> TRUE]

\* The words of an intent raise the rating of a read.
Wordings == {"plain", "mutating", "deleting"}
Risk(agent, wording) ==
    IF Rating[agent] = "SAFE_READ" /\ wording # "plain"
      THEN IF wording = "deleting" THEN "RISKY_MUTATE" ELSE "SAFE_MUTATE"
      ELSE Rating[agent]

\* SafetyEnvelope.enforce.
Decision(agent, risk) ==
    IF risk = "SAFE_READ" THEN "ALLOW"
    ELSE IF AllowMutation[agent] THEN "CONFIRM_REQUIRED" ELSE "DENY"

Logged(event, k) == Append(audit, [event |-> event, token |-> k])

\* execute, up to the token.  Nothing is kept of an intent that is allowed or denied at once.
Execute(k) ==
    /\ record[k] = None
    /\ \E agent \in Agents, wording \in Wordings :
           Decision(agent, Risk(agent, wording)) = "CONFIRM_REQUIRED"
    /\ commits' = commits \cup {k}
    /\ record' = [record EXCEPT ![k] = [expires |-> time + Life, used |-> FALSE]]
    /\ audit' = Logged("CREATED", k)
    /\ UNCHANGED <<time, confirm, confirms>>

Confirm(t, k) ==
    /\ confirm[t] = NoConfirm
    /\ confirms < MaxConfirms
    /\ confirms' = confirms + 1
    /\ confirm' = [confirm EXCEPT ![t] = [pc |-> "look", token |-> k, now |-> time]]
    /\ UNCHANGED <<time, commits, record, audit>>

ConfirmAt(t, pc) == confirm[t].pc = pc
Goes(t, pc) == confirm' = [confirm EXCEPT ![t].pc = pc]
Ends(t) == confirm' = [confirm EXCEPT ![t] = NoConfirm]

Look(t) ==
    /\ ConfirmAt(t, "look")
    /\ LET k == confirm[t].token
       IN IF k \in commits THEN Goes(t, "used") /\ UNCHANGED audit
          ELSE Ends(t) /\ audit' = Logged("INVALID_TOKEN", k)
    /\ UNCHANGED <<time, commits, record, confirms>>

CheckUsed(t) ==
    /\ ConfirmAt(t, "used")
    /\ LET k == confirm[t].token
       IN IF record[k].used THEN Ends(t) /\ audit' = Logged("REPLAY_ATTEMPT", k)
          ELSE Goes(t, "expiry") /\ UNCHANGED audit
    /\ UNCHANGED <<time, commits, record, confirms>>

CheckExpiry(t) ==
    /\ ConfirmAt(t, "expiry")
    /\ LET k == confirm[t].token
       IN IF confirm[t].now > record[k].expires
            THEN Goes(t, "drop") /\ audit' = Logged("EXPIRED", k)
            ELSE Goes(t, "use") /\ UNCHANGED audit
    /\ UNCHANGED <<time, commits, record, confirms>>

Use(t) ==
    /\ ConfirmAt(t, "use")
    /\ record' = [record EXCEPT ![confirm[t].token].used = TRUE]
    /\ Goes(t, "take")
    /\ UNCHANGED <<time, commits, audit, confirms>>

\* Mutant: a token that is no longer there is no reason to stop.
MutDelete(t) ==
    /\ ConfirmAt(t, "take") \/ ConfirmAt(t, "drop")
    /\ IF ConfirmAt(t, "take") THEN Goes(t, "log") ELSE Ends(t)
    /\ commits' = commits \ {confirm[t].token}
    /\ UNCHANGED <<time, record, audit, confirms>>

\* del, of a token that was used or has expired: a KeyError if another call was first.
Delete(t) ==
    /\ ConfirmAt(t, "take") \/ ConfirmAt(t, "drop")
    /\ IF ConfirmAt(t, "take") /\ confirm[t].token \in commits THEN Goes(t, "log") ELSE Ends(t)
    /\ commits' = commits \ {confirm[t].token}
    /\ UNCHANGED <<time, record, audit, confirms>>

\* Mutant: the consumption is not logged.
MutLog(t) ==
    /\ ConfirmAt(t, "log")
    /\ Ends(t)
    /\ UNCHANGED <<time, commits, record, audit, confirms>>

\* The caller gets the record; the envelope's second look at it can only agree.
Log(t) ==
    /\ ConfirmAt(t, "log")
    /\ audit' = Logged("CONFIRMED", confirm[t].token)
    /\ Ends(t)
    /\ UNCHANGED <<time, commits, record, confirms>>

PopStep(t) ==
    Look(t) \/ CheckUsed(t) \/ CheckExpiry(t) \/ Use(t) \/ Delete(t) \/ Log(t)

TokenNext ==
    \/ TokenTick
    \/ \E k \in Tokens : Execute(k)
    \/ \E t \in Threads : PopStep(t) \/ \E k \in Tokens : Confirm(t, k)

TokenSpec == TokenInit /\ [][TokenNext]_tokenVars

----------------------------------------------------------------------------
\* A token commits once: of all the calls that confirm it, in whatever order their
\* statements meet, one at most is told that it was confirmed.
CommitsOnce ==
    \A i, j \in DOMAIN audit :
        audit[i].event = "CONFIRMED" /\ audit[j].event = "CONFIRMED" /\ i # j =>
            audit[i].token # audit[j].token

\* Whenever no call is under way, the audit log accounts for the registry: a token that
\* was created is gone exactly if the log has it as confirmed or expired, and those
\* that remain are unused.
LogAccounts ==
    (\A t \in Threads : confirm[t] = NoConfirm) =>
        \A k \in Tokens :
            record[k] # None =>
                /\ k \notin commits <=>
                       \E i \in DOMAIN audit : /\ audit[i].token = k
                                               /\ audit[i].event \in {"CONFIRMED", "EXPIRED"}
                /\ k \in commits => ~record[k].used

=============================================================================
