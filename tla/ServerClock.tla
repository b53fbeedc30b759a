------------------------------ MODULE ServerClock ------------------------------
(* What the parts of the front end share: the threads and the clock.       *)
EXTENDS Naturals

CONSTANTS
    Threads,       \* threads of the server
    MaxTime,       \* bounds the clock
    None           \* Python's None

ASSUME ClockAssumption == MaxTime \in Nat /\ None \notin Nat

VARIABLE time

Times == 0..MaxTime

ClockInit == time = 0

\* Time passes.
Tick ==
    /\ time < MaxTime
    /\ time' = time + 1

================================================================================
