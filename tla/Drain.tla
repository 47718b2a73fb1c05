------------------------------- MODULE Drain -------------------------------
(***************************************************************************)
(* What the dispatcher's lifetime promises of a drain: ticks begin only    *)
(* while it is open, a tick that launches a run while it is closing does   *)
(* nothing after that, and it is closed only when nothing is left.         *)
(***************************************************************************)
CONSTANT Runs

VARIABLES mode,     \* "open", "closing" or "closed"
          ticking,  \* a tick is in progress
          running   \* the runs launched and not settled

Init ==
    /\ mode = "open"
    /\ ticking = FALSE
    /\ running = {}

Tick ==
    /\ mode = "open"
    /\ ~ticking
    /\ ticking' = TRUE
    /\ UNCHANGED <<mode, running>>

TickEnds ==
    /\ ticking
    /\ ticking' = FALSE
    /\ UNCHANGED <<mode, running>>

Launch(r) ==
    /\ ticking
    /\ ticking' = (mode = "open")
    /\ running' = running \cup {r}
    /\ UNCHANGED mode

Settles(r) ==
    /\ r \in running
    /\ running' = running \ {r}
    /\ UNCHANGED <<mode, ticking>>

Close ==
    /\ mode = "open"
    /\ mode' = "closing"
    /\ UNCHANGED <<ticking, running>>

Closed ==
    /\ mode = "closing"
    /\ ~ticking
    /\ running = {}
    /\ mode' = "closed"
    /\ UNCHANGED <<ticking, running>>

Next ==
    \/ Tick \/ TickEnds \/ Close \/ Closed
    \/ \E r \in Runs : Launch(r) \/ Settles(r)

Spec == Init /\ [][Next]_<<mode, ticking, running>>
=============================================================================
