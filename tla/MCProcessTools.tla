--------------------------- MODULE MCProcessTools ---------------------------
(* Symmetry for the safety runs of ProcessTools. *)
EXTENDS ProcessTools, TLC

Symmetry == Permutations(Runs) \cup Permutations(Pids)

=============================================================================
