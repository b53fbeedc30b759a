----------------------------- MODULE MCInventory -----------------------------
(* An instance of Inventory for TLC.                                       *)
EXTENDS Inventory, TLC

CONSTANTS ip1, ip2, r1

OneSwitch == [ip \in {ip1} |-> r1]

Symmetry == Permutations(Threads)

=============================================================================
