------------------------ MODULE MCDispatcherShutdown ------------------------
(* An instance of DispatcherShutdown for TLC: two runs, one of a worker that *)
(* reports its completion and one of a worker that does not.                 *)
EXTENDS DispatcherShutdown

CONSTANTS scan, cleanup
=============================================================================
