--------------------------- MODULE MCPushDelivery ---------------------------
(* Instances of PushDelivery for TLC. *)
EXTENDS PushDelivery, TLC

CONSTANTS e1, e2, p1, p2

\* No property names an event or a process.
PushSymmetry == Permutations(Events) \cup Permutations(Procs)
=============================================================================
