---------------------------- MODULE MCStateLock -----------------------------
(* Instances of StateLock. *)
EXTENDS StateLock, TLC

Symmetry == Permutations(Process) \cup Permutations(Pid)

=============================================================================
