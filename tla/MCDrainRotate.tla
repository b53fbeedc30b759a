---------------------------- MODULE MCDrainRotate ----------------------------
(* Instances of DrainRotate for TLC.                                       *)
EXTENDS DrainRotate, TLC

CONSTANTS s1, s2

InOrder == {<<s1, s2>>}

=============================================================================
