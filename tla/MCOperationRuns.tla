-------------------------- MODULE MCOperationRuns --------------------------
(* Instances of OperationRuns for TLC: every run has the same operation type. *)
EXTENDS OperationRuns, TLC

CONSTANTS r1, r2, p1, p2, o1, o2

OneType == [r \in Runs |-> "library_scan"]

Symmetry == Permutations(Procs) \cup Permutations(Runs) \cup Permutations(Operators)
=============================================================================
