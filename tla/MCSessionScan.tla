--------------------------- MODULE MCSessionScan ----------------------------
(* Instances of SessionScan. *)
EXTENDS SessionScan

=============================================================================
