----------------------------- MODULE MCImporter -----------------------------
(* Small instances of Importer for TLC. *)
EXTENDS ImporterInvariants, Verification, TLC

Symmetry == Permutations(Hash)

RetainableContents == Hash
AllContents == Hash \cup {Empty, Gone}
=============================================================================
