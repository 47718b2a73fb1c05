---------------------------- MODULE RunLifecycle ----------------------------
(***************************************************************************)
(* What the operation-run engine promises about one run at a time: a run   *)
(* is queued, runs, and is done; only the current holder of its lease      *)
(* moves it, unless nobody holds the lease; and a run that is done is      *)
(* queued again only by an operator.                                       *)
(***************************************************************************)
EXTENDS Naturals

CONSTANT Runs

VARIABLES phase,    \* [Runs -> {"absent", "queued", "running", "done"}]
          held,     \* [Runs -> BOOLEAN]: somebody holds the lease
          epoch     \* [Runs -> Nat]: the number of holders so far

Init ==
    /\ phase = [r \in Runs |-> "absent"]
    /\ held = [r \in Runs |-> FALSE]
    /\ epoch = [r \in Runs |-> 0]

Create(r) ==
    /\ phase[r] = "absent"
    /\ phase' = [phase EXCEPT ![r] = "queued"]
    /\ UNCHANGED <<held, epoch>>

Grant(r) ==
    /\ ~held[r]
    /\ held' = [held EXCEPT ![r] = TRUE]
    /\ epoch' = [epoch EXCEPT ![r] = @ + 1]
    /\ UNCHANGED phase

Yield(r) ==
    /\ held[r]
    /\ held' = [held EXCEPT ![r] = FALSE]
    /\ UNCHANGED <<phase, epoch>>

Start(r) ==
    /\ held[r]
    /\ phase[r] = "queued"
    /\ phase' = [phase EXCEPT ![r] = "running"]
    /\ UNCHANGED <<held, epoch>>

\* the holder gives the run back to the queue or ends it, before or after its start
Settle(r) ==
    /\ held[r]
    /\ phase[r] \in {"queued", "running"}
    /\ \E to \in {"queued", "done"} : phase' = [phase EXCEPT ![r] = to]
    /\ UNCHANGED <<held, epoch>>

\* a run whose holder is lost
Recover(r) ==
    /\ ~held[r]
    /\ phase[r] = "running"
    /\ \E to \in {"queued", "done"} : phase' = [phase EXCEPT ![r] = to]
    /\ UNCHANGED <<held, epoch>>

Retry(r) ==
    /\ phase[r] = "done"
    /\ phase' = [phase EXCEPT ![r] = "queued"]
    /\ UNCHANGED <<held, epoch>>

Next == \E r \in Runs :
    \/ Create(r) \/ Grant(r) \/ Yield(r) \/ Start(r)
    \/ Settle(r) \/ Recover(r) \/ Retry(r)

Spec == Init /\ [][Next]_<<phase, held, epoch>>
=============================================================================
