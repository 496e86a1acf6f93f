----------------------------- MODULE MCManualImport -----------------------------
(* Small instances of the bulk invitation. *)
EXTENDS ManualImportProps, TLC

Symmetry == Permutations(Commits) \cup Permutations(Reissues)
=============================================================================
