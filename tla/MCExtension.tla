----------------------------- MODULE MCExtension ----------------------------
(* Instances of Extension. *)
EXTENDS Extension

=============================================================================
