--------------------------- MODULE MCTransportPool ---------------------------
(* Instances of TransportPool for TLC.                                     *)
EXTENDS TransportPool

=============================================================================
