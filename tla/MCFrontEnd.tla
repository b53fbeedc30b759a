------------------------------ MODULE MCFrontEnd ------------------------------
(* Instances of FrontEnd for TLC.                                          *)
EXTENDS FrontEnd, TLC

\* The sessions of at most one pair of overlapping calls, and the calls around it.
OnePair == overlapped <= 2

\* The ids are numbers, and those that occur nowhere are alike: a call that brings a new
\* one takes the least of them.
Known(i) ==
    \/ sessions[i] # None \/ lastSeen[i] # None \/ given[i] # None
    \/ \E t \in Busy : i = call[t].id \/ i \in call[t].looked \cup call[t].doomed

NewInOrder ==
    \A t \in Busy' \ Busy :
        Known(call'[t].id) \/ \A i \in Ids : Known(i) \/ call'[t].id <= i

\* All the properties are invariants, and no name matters.
Symmetry ==
    Permutations(Threads) \cup Permutations(Ips) \cup Permutations(Texts) \cup Permutations(Tokens)

=============================================================================
