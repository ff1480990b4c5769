------------------------- MODULE MCSubagentCleanup -------------------------
(* Small instances of SubagentCleanup for TLC. *)
EXTENDS SubagentCleanupInvariants, TLC

Symmetry == Permutations(Hash)

RetainableContents == Hash
LostAndFound == Hash \cup {Gone}
=============================================================================
