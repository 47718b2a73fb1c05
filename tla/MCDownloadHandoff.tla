------------------------- MODULE MCDownloadHandoff -------------------------
(* Instances of DownloadHandoff for TLC. *)
EXTENDS DownloadHandoff, TLC

CONSTANTS r1, r2, p1, p2

Symmetry == Permutations(Procs) \cup Permutations(Runs)
=============================================================================
