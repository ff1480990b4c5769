------------------------------ MODULE MCDaemon ------------------------------
(* Instances of Daemon. *)
EXTENDS Daemon

\* What follows the removal of a file by mistake is not explored: the safety
\* properties are about what comes before, and about the removal itself.
UntilRaced == raced = {}

=============================================================================
