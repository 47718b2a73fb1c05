--------------------------- MODULE OperationRuns ---------------------------
(***************************************************************************)
(* The operation-run engine: the durable queue in table operation_runs,    *)
(* the dispatcher that recovers and claims runs, the worker that executes  *)
(* a claimed run under a job lease, and the operator's cancel and retry    *)
(* requests.                                                               *)
(*                                                                         *)
(* The database survives a crash; the dispatcher, the tasks and the HTTP   *)
(* requests of a process do not.  Every SQL statement or transaction of    *)
(* the code is one step; everything between two awaits of the code may     *)
(* interleave with every other actor.                                      *)
(*                                                                         *)
(* Clocks are abstracted: next_attempt_at to "now, after a backoff or when *)
(* a maintenance lock expires", claimed_at to                              *)
(* "none, fresh or older than the claim timeout", expires_at to the lease  *)
(* state.  The worker is library-scan-worker.js, whose control flow the    *)
(* other queue workers share.                                              *)
(***************************************************************************)
EXTENDS JobLeases, Integers, FiniteSets

CONSTANTS
    Procs,           \* application processes (one, in the supported topology)
    Operators,       \* administrators' HTTP requests that may be in flight at once
    TypeOf,          \* [Runs -> operation type]
    StartMaxAttempts,\* values of max_attempts that the services create runs with
    FaultKinds,      \* the kinds of fault this instance admits
    MaxFaults,       \* bound on the number of faults of a behaviour
    MaxPauses,       \* bound on the maintenance locks, and pauses over under one
    AttemptCap       \* bound on max_attempts: no operator retry beyond it

ASSUME BoundsAssumption ==
    /\ MaxFaults \in Nat
    /\ MaxPauses \in Nat
    /\ AttemptCap \in Nat
    /\ StartMaxAttempts \subseteq Nat \ {0}

VARIABLES
    runs,       \* [Runs -> Row], the table operation_runs
    task,       \* [Procs -> [Runs -> Task]], launched workers, one per run id
    disp,       \* [Procs -> Tick], the dispatcher tick in progress
    ctl,        \* [Operators -> Request], cancel/retry requests in flight
    paused,     \* a blocking maintenance lock is active
    pauses,     \* maintenance locks taken, and pauses over under one, so far
    faults,     \* faults so far
    writer,     \* history: last acquisition whose write to run r was accepted
    spent       \* history: accepted starts of run r minus accepted pauses

vars == <<lease, runs, task, disp, ctl, paused, pauses, faults, writer, spent>>

-----------------------------------------------------------------------------
(* Types.                                                                  *)

Status == {"absent", "pending", "running", "completed", "failed", "cancelled"}

Row == [status : Status, attempts : Nat, max : Nat,
        claim : {"none", "fresh", "stale"}, due : {"now", "backoff", "lock"},
        cancel : SUBSET {"requested", "done"}]  \* cancel_requested_at, cancelled_at

NoRow == [status |-> "absent", attempts |-> 0, max |-> 0, claim |-> "none",
          due |-> "now", cancel |-> {}]

\* where a worker is: the next statement of runScan that it has to execute
TaskPc == {"none", "acquire", "check", "start", "work",
           "complete", "fail", "cancel", "pause", "release"}

Task == [pc : TaskPc, acq : Nat]

NoTask == [pc |-> "none", acq |-> 0]

\* what recoverStrandedRuns remembers of a run between its two reads and its write
Observation == [run : Runs, attempts : Nat, max : Nat, acq : Nat]

TickPc == {"idle", "list", "leases", "recover", "claim"}

Tick == [pc : TickPc, seen : SUBSET Observation]

IdleTick == [pc |-> "idle", seen |-> {}]

NoRequest == [op |-> "none"]

Request == {NoRequest}
           \cup [op : {"cancel"}, proc : Procs, run : Runs]
           \cup [op : {"retry"}, proc : Procs, run : Runs, max : Nat]

TypeOK ==
    /\ LeaseTypeOK
    /\ runs \in [Runs -> Row]
    /\ task \in [Procs -> [Runs -> Task]]
    /\ disp \in [Procs -> Tick]
    /\ ctl \in [Operators -> Request]
    /\ paused \in BOOLEAN
    /\ pauses \in 0..MaxPauses
    /\ faults \in 0..MaxFaults
    /\ writer \in [Runs -> Nat]
    /\ spent \in [Runs -> Int]

Init ==
    /\ LeaseInit
    /\ runs = [r \in Runs |-> NoRow]
    /\ task = [p \in Procs |-> [r \in Runs |-> NoTask]]
    /\ disp = [p \in Procs |-> IdleTick]
    /\ ctl = [o \in Operators |-> NoRequest]
    /\ paused = FALSE
    /\ pauses = 0
    /\ faults = 0
    /\ writer = [r \in Runs |-> 0]
    /\ spent = [r \in Runs |-> 0]

\* One more fault of kind k.  The kinds are
\*   crash         the process dies and is restarted
\*   query_error   a statement fails and changes nothing
\*   lost_ack      a statement commits and its caller sees an error
\*   slow_start    a live worker needs longer than the claim timeout to start its run
\*   slow_release  a worker needs longer than a retry backoff to drain its lease
\*   renewal_stall a live worker's heartbeat does not renew for a lease duration
\*   clock_skew    the application's clock is ahead of the database's
Fault(k) == k \in FaultKinds /\ faults < MaxFaults /\ faults' = faults + 1

MaxOf(a, b) == IF a >= b THEN a ELSE b

Settled(r) == runs[r].status \in {"completed", "failed", "cancelled"}

-----------------------------------------------------------------------------
(* Queue store.                                                            *)

\* createOperationRun with m attempts, due now or at a later nextAttemptAt
NewRow(m, d) == [NoRow EXCEPT !.status = "pending", !.max = m, !.due = d]

CreateRun(r, m) ==
    /\ runs[r].status = "absent"
    /\ \E d \in {"now", "backoff"} : runs' = [runs EXCEPT ![r] = NewRow(m, d)]
    /\ UNCHANGED <<lease, task, disp, ctl, paused, pauses, faults, writer, spent>>

\* Mutated forms of Claimable: the budget test dropped; no takeover of an old claim;
\* runs with a cancellation request left alone
ClaimableIgnoringBudget(r) ==
    runs[r].status = "pending" /\ runs[r].due = "now" /\ runs[r].claim # "fresh"

ClaimableOnlyUnclaimed(r) ==
    /\ runs[r].status = "pending" /\ runs[r].due = "now" /\ runs[r].claim = "none"
    /\ runs[r].attempts < runs[r].max

ClaimableUncancelled(r) ==
    /\ runs[r].status = "pending" /\ runs[r].due = "now" /\ runs[r].claim # "fresh"
    /\ runs[r].attempts < runs[r].max /\ runs[r].cancel = {}

\* Mutated form: the claimed-but-unstarted clause dropped
BlocksTypeOnlyWhenRunning(q) == runs[q].status = "running"

\* a run that keeps every other run of its type from being claimed
BlocksType(q) ==
    \/ runs[q].status = "running"
    \/ runs[q].status = "pending" /\ runs[q].claim = "fresh"

\* the WHERE clause of claimNextRunnableRun
Claimable(r) ==
    /\ runs[r].status = "pending"
    /\ runs[r].due = "now"
    /\ runs[r].attempts < runs[r].max
    /\ runs[r].claim # "fresh"
    /\ \A q \in Runs \ {r} : TypeOf[q] = TypeOf[r] => ~BlocksType(q)

\* the SET clause of claimNextRunnableRun
Claimed(row) == [row EXCEPT !.claim = "fresh", !.attempts = @ + 1]

\* buildRetrySchedule returns a schedule
HasRetry(row) == row.attempts >= 1 /\ row.attempts < row.max

\* scheduleRetry, the write of an operator's retry: it has no condition on the status
Rescheduled(row, m) ==
    [row EXCEPT !.status = "pending", !.cancel = {},
                !.due = "now", !.max = m, !.claim = "none"]

\* Mutated form: stranded recovery that forgets a pending cancellation
RecoveredDroppingCancel(row) ==
    [row EXCEPT !.claim = "none",
                !.status = IF HasRetry(row) THEN "pending" ELSE "failed",
                !.due = IF HasRetry(row) THEN "backoff" ELSE @]

\* recoverRunForRetry and markStrandedRunFailed: cancelled when a cancellation was
\* requested, else queued again when an attempt is left, else failed
Recovered(row) ==
    IF "requested" \in row.cancel
    THEN [row EXCEPT !.claim = "none", !.status = "cancelled", !.cancel = @ \cup {"done"}]
    ELSE IF HasRetry(row)
    THEN [row EXCEPT !.claim = "none", !.status = "pending", !.due = "backoff"]
    ELSE [row EXCEPT !.claim = "none", !.status = "failed"]

-----------------------------------------------------------------------------
(* Dispatcher.                                                             *)

\* dispatchTick: a paused tick returns before recovery and claiming
TickBegins(p) ==
    /\ disp[p].pc = "idle"
    /\ ~paused
    /\ disp' = [disp EXCEPT ![p].pc = "list"]
    /\ UNCHANGED <<lease, runs, task, ctl, paused, pauses, faults, writer, spent>>

\* Mutated form: only runs that still show a claim
RecoverableClaimed == {r \in Runs : runs[r].status = "running" /\ runs[r].claim # "none"}

\* listRecoverableRuns
Recoverable == {r \in Runs : runs[r].status = "running"}

ListRuns(p) ==
    /\ disp[p].pc = "list"
    /\ disp' = [disp EXCEPT ![p] =
                   IF Recoverable = {} THEN [pc |-> "claim", seen |-> {}]
                   ELSE [pc |-> "leases",
                         seen |-> {[run |-> r, attempts |-> runs[r].attempts,
                                    max |-> runs[r].max, acq |-> 0] : r \in Recoverable}]]
    /\ UNCHANGED <<lease, runs, task, ctl, paused, pauses, faults, writer, spent>>

\* listLeases; runs with an active lease are skipped.  The state is derived from the
\* application's clock, so a fast clock may report an active lease as expired.
Observed(S) == {[o EXCEPT !.acq = lease[o.run].acq] : o \in S}

ListLeases(p) ==
    /\ disp[p].pc = "leases"
    /\ \/ /\ disp' = [disp EXCEPT ![p] = [pc |-> "recover",
                 seen |-> Observed({o \in disp[p].seen : lease[o.run].state # "active"})]]
          /\ UNCHANGED faults
       \/ /\ Fault("clock_skew")
          /\ disp' = [disp EXCEPT ![p] = [pc |-> "recover", seen |-> Observed(disp[p].seen)]]
    /\ UNCHANGED <<lease, runs, task, ctl, paused, pauses, writer, spent>>

\* Mutated form: the lease is not read again under the lock
StillStrandedUnlocked(o) ==
    /\ runs[o.run].status = "running"
    /\ runs[o.run].attempts = o.attempts
    /\ runs[o.run].max = o.max

\* recoverStrandedRun, under the row lock and the lease key lock: the run and its lease
\* are still the ones observed, and the lease is absent, released or expired.  The code
\* also compares the claim columns; both are NULL in every running row.
StillStranded(o) ==
    /\ runs[o.run].status = "running"
    /\ runs[o.run].attempts = o.attempts
    /\ runs[o.run].max = o.max
    /\ lease[o.run].acq = o.acq
    /\ lease[o.run].state # "active"

RecoverRun(p, o) ==
    /\ disp[p].pc = "recover"
    /\ disp' = [disp EXCEPT ![p].seen = @ \ {o}]
    /\ IF StillStranded(o)
       THEN /\ runs' = [runs EXCEPT ![o.run] = Recovered(@)]
            /\ ReleaseLease(o.run, o.acq)
       ELSE UNCHANGED <<runs, lease>>
    /\ UNCHANGED <<task, ctl, paused, pauses, faults, writer, spent>>

RecoveryEnds(p) ==
    /\ disp[p].pc = "recover"
    /\ disp[p].seen = {}
    /\ disp' = [disp EXCEPT ![p].pc = "claim"]
    /\ UNCHANGED <<lease, runs, task, ctl, paused, pauses, faults, writer, spent>>

\* lifetime.launch: a run id that is still active in this process is not started again
Launched(t) == IF t.pc = "none" THEN [pc |-> "acquire", acq |-> 0] ELSE t

\* one turn of the claim loop; which of several claimable runs is taken is left open
ClaimRun(p, r) ==
    /\ disp[p].pc = "claim"
    /\ Claimable(r)
    /\ runs' = [runs EXCEPT ![r] = Claimed(@)]
    /\ \/ /\ task' = [task EXCEPT ![p][r] = Launched(@)]
          /\ UNCHANGED <<disp, faults>>
       \/ /\ Fault("lost_ack")
          /\ disp' = [disp EXCEPT ![p] = IdleTick]
          /\ UNCHANGED task
    /\ UNCHANGED <<lease, ctl, paused, pauses, writer, spent>>

TickEnds(p) ==
    /\ disp[p].pc = "claim"
    /\ \A r \in Runs : ~Claimable(r)
    /\ disp' = [disp EXCEPT ![p] = IdleTick]
    /\ UNCHANGED <<lease, runs, task, ctl, paused, pauses, faults, writer, spent>>

\* any statement of the tick fails: the tick rejects and the next one starts over
TickFails(p) ==
    /\ disp[p].pc # "idle"
    /\ Fault("query_error")
    /\ disp' = [disp EXCEPT ![p] = IdleTick]
    /\ UNCHANGED <<lease, runs, task, ctl, paused, pauses, writer, spent>>

-----------------------------------------------------------------------------
(* Worker.                                                                 *)

Move(p, r, pc) == task' = [task EXCEPT ![p][r].pc = pc]

Leave(p, r) == task' = [task EXCEPT ![p][r] = NoTask]

\* acquireLease of the run.  Without a lease the error is thrown on and the task is over:
\* the run keeps its claim and its consumed attempt.
Acquire(p, r) ==
    /\ task[p][r].pc = "acquire"
    /\ \/ /\ AcquireLease(r)
          /\ task' = [task EXCEPT ![p][r] = [pc |-> "check", acq |-> NextAcquisition(r)]]
          /\ UNCHANGED faults
       \/ /\ ~LeaseAvailable(r)
          /\ Leave(p, r)
          /\ UNCHANGED <<lease, faults>>
       \/ /\ Fault("query_error")
          /\ Leave(p, r)
          /\ UNCHANGED lease
       \/ /\ Fault("lost_ack")
          /\ AcquireLease(r)
          /\ Leave(p, r)
    /\ UNCHANGED <<runs, disp, ctl, paused, pauses, writer, spent>>

\* isCancellationRequested: asked for and not yet carried out
CancelPending(r) == "requested" \in runs[r].cancel /\ "done" \notin runs[r].cancel

\* the interruption gate: cancellation first, then the maintenance lock
Interruption(r) ==
    CASE CancelPending(r) -> "cancel"
      [] ~CancelPending(r) /\ paused -> "pause"
      [] OTHER -> "none"

\* throwIfOperationRunCancellationRequested before the start and while working
CheckInterruption(p, r) ==
    /\ \/ /\ task[p][r].pc = "check"
          /\ Move(p, r, IF Interruption(r) = "none" THEN "start" ELSE Interruption(r))
          /\ UNCHANGED faults
       \/ /\ task[p][r].pc = "work"
          /\ Interruption(r) # "none"
          /\ Move(p, r, Interruption(r))
          /\ UNCHANGED faults
       \/ /\ task[p][r].pc \in {"check", "work"}
          /\ Fault("query_error")
          /\ Move(p, r, "fail")
    /\ UNCHANGED <<lease, runs, disp, ctl, paused, pauses, writer, spent>>

\* the lifecycle write a worker is about to make: markRunFailed chooses between a retry
\* and failure from the row it has locked
MarkPc == {"start", "complete", "fail", "cancel", "pause"}

MarkAt(pc, row) ==
    CASE pc = "start" -> "started"
      [] pc = "complete" -> "completed"
      [] pc = "cancel" -> "cancelled"
      [] pc = "pause" -> "paused"
      [] pc = "fail" -> IF HasRetry(row) THEN "retry" ELSE "failed"

\* Mutated form: a paused or retried run is stored under the name of the write
LifecycleStoringMark(row, mark) ==
    [row EXCEPT !.claim = "none", !.status = IF mark = "started" THEN "running" ELSE mark]

\* the SET clauses of writeLifecycle
Lifecycle(row, mark) ==
    [row EXCEPT !.claim = "none",
       !.status = CASE mark = "started" -> "running"
                    [] mark \in {"retry", "paused"} -> "pending"
                    [] OTHER -> mark,
       !.attempts = CASE mark = "started" -> MaxOf(@, 1)
                      [] mark = "paused" -> MaxOf(@ - 1, 0)
                      [] OTHER -> @,
       !.due = CASE mark = "retry" -> "backoff"
                 [] mark = "paused" -> "lock"
                 [] OTHER -> @,
       !.cancel = IF mark = "cancelled" THEN @ \cup {"done"} ELSE @]

\* Mutated form: an expired lease is still accepted
AcceptsExpired(r, a, mark) ==
    /\ lease[r].acq = a
    /\ mark = "paused" => runs[r].status \in {"pending", "running"}

\* withOwnedRun and the WHERE clause of writeLifecycle: the write needs the current
\* acquisition; only "paused" looks at the status of the row
Accepts(r, a, mark) ==
    /\ Owns(r, a)
    /\ mark = "paused" => runs[r].status \in {"pending", "running"}

\* the lifecycle write of acquisition a, or no row updated
WriteLifecycle(r, a, mark) ==
    IF Accepts(r, a, mark)
    THEN /\ runs' = [runs EXCEPT ![r] = Lifecycle(@, mark)]
         /\ writer' = [writer EXCEPT ![r] = a]
         /\ spent' = [spent EXCEPT ![r] = CASE mark = "started" -> @ + 1
                                            [] mark = "paused" -> @ - 1
                                            [] OTHER -> @]
    ELSE UNCHANGED <<runs, writer, spent>>

\* where a lifecycle write leads: a started run works, everything else drains the lease.
\* An error of the first two is caught and marked as a failure of the run; the catch
\* block's own writes are not retried.
AfterMark(pc, accepted) == IF pc = "start" /\ accepted THEN "work" ELSE "release"

AfterMarkError(pc) == IF pc \in {"start", "complete"} THEN "fail" ELSE "release"

Mark(p, r) ==
    LET pc == task[p][r].pc
        a == task[p][r].acq
        mark == MarkAt(pc, runs[r])
    IN /\ pc \in MarkPc
       /\ \/ /\ WriteLifecycle(r, a, mark)
             /\ Move(p, r, AfterMark(pc, Accepts(r, a, mark)))
             /\ UNCHANGED faults
          \/ /\ Fault("query_error")
             /\ Move(p, r, AfterMarkError(pc))
             /\ UNCHANGED <<runs, writer, spent>>
          \/ /\ Fault("lost_ack")
             /\ WriteLifecycle(r, a, mark)
             /\ Move(p, r, AfterMarkError(pc))
       /\ UNCHANGED <<lease, disp, ctl, paused, pauses>>

\* a phase of the work writes its results under the lease, or finds the lease lost
WorkWrites(p, r) ==
    /\ task[p][r].pc = "work"
    /\ IF Owns(r, task[p][r].acq)
       THEN /\ writer' = [writer EXCEPT ![r] = task[p][r].acq]
            /\ UNCHANGED task
       ELSE /\ Move(p, r, "release")
            /\ UNCHANGED writer
    /\ UNCHANGED <<lease, runs, disp, ctl, paused, pauses, faults, spent>>

\* the last phase is over
WorkDone(p, r) ==
    /\ task[p][r].pc = "work"
    /\ Move(p, r, "complete")
    /\ UNCHANGED <<lease, runs, disp, ctl, paused, pauses, faults, writer, spent>>

\* a phase throws
WorkFails(p, r) ==
    /\ task[p][r].pc = "work"
    /\ Move(p, r, "fail")
    /\ UNCHANGED <<lease, runs, disp, ctl, paused, pauses, faults, writer, spent>>

\* drainWorkerLease, after which the run id is no longer active in the process
Release(p, r) ==
    /\ task[p][r].pc = "release"
    /\ Leave(p, r)
    /\ \/ ReleaseLease(r, task[p][r].acq) /\ UNCHANGED faults
       \/ Fault("query_error") /\ UNCHANGED lease
    /\ UNCHANGED <<runs, disp, ctl, paused, pauses, writer, spent>>

-----------------------------------------------------------------------------
(* Operator requests: each reads the run, decides, and writes later.       *)

\* canRequestOperationRunCancellation, canRequestOperationRunRetry
CanCancel(row) ==
    /\ row.status \in {"pending", "running"}
    /\ row.cancel = {}

\* Mutated form: a completed run may be retried
CanRetryAnySettled(row) == row.status \in {"completed", "failed", "cancelled"}

CanRetry(row) == row.status \in {"failed", "cancelled"}

\* the budget of a retried run: one attempt more than it has used
RetryBudget(row) == MaxOf(row.max, row.attempts + 1)

RequestCancel(o, p, r) ==
    /\ ctl[o] = NoRequest
    /\ CanCancel(runs[r])
    /\ ctl' = [ctl EXCEPT ![o] = [op |-> "cancel", proc |-> p, run |-> r]]
    /\ UNCHANGED <<lease, runs, task, disp, paused, pauses, faults, writer, spent>>

ApplyCancel(o) ==
    /\ ctl[o].op = "cancel"
    /\ runs' = [runs EXCEPT ![ctl[o].run].cancel = @ \cup {"requested"}]
    /\ ctl' = [ctl EXCEPT ![o] = NoRequest]
    /\ UNCHANGED <<lease, task, disp, paused, pauses, faults, writer, spent>>

RequestRetry(o, p, r) ==
    /\ ctl[o] = NoRequest
    /\ CanRetry(runs[r])
    /\ RetryBudget(runs[r]) <= AttemptCap
    /\ ctl' = [ctl EXCEPT ![o] = [op |-> "retry", proc |-> p, run |-> r,
                                  max |-> RetryBudget(runs[r])]]
    /\ UNCHANGED <<lease, runs, task, disp, paused, pauses, faults, writer, spent>>

ApplyRetry(o) ==
    /\ ctl[o].op = "retry"
    /\ runs' = [runs EXCEPT ![ctl[o].run] = Rescheduled(@, ctl[o].max)]
    /\ ctl' = [ctl EXCEPT ![o] = NoRequest]
    /\ UNCHANGED <<lease, task, disp, paused, pauses, faults, writer, spent>>

-----------------------------------------------------------------------------
(* Time, maintenance locks and crashes.                                    *)

\* next_attempt_at passes.  For a paused run that is the expiry of the maintenance lock,
\* or the time of the pause itself when the lock has none: a tick that began before the
\* lock may then claim the run again, which the bound MaxPauses counts too.
\* A worker that is still draining its lease when a backoff of at least 30 s is over is
\* a fault.
BackoffElapses(r) ==
    /\ runs[r].status = "pending"
    /\ runs[r].due # "now"
    /\ runs' = [runs EXCEPT ![r].due = "now"]
    /\ IF runs[r].due = "lock" /\ paused
       THEN pauses < MaxPauses /\ pauses' = pauses + 1 ELSE UNCHANGED pauses
    /\ IF runs[r].due = "backoff" /\ \E p \in Procs : task[p][r].pc = "release"
       THEN Fault("slow_release") ELSE UNCHANGED faults
    /\ UNCHANGED <<lease, task, disp, ctl, paused, writer, spent>>

\* claimed_at grows older than the claim timeout; a live worker that has not started its
\* run by then is a fault
ClaimTimesOut(r) ==
    /\ runs[r].claim = "fresh"
    /\ runs' = [runs EXCEPT ![r].claim = "stale"]
    /\ IF \E p \in Procs : task[p][r].pc \in {"acquire", "check", "start"}
       THEN Fault("slow_start") ELSE UNCHANGED faults
    /\ UNCHANGED <<lease, task, disp, ctl, paused, pauses, writer, spent>>

\* the lease runs out: certain once nobody renews it, a fault while its worker lives,
\* because the heartbeat renews it 30 times per lease duration
LeaseExpires(r) ==
    /\ ExpireLease(r)
    /\ IF \E p \in Procs : task[p][r].acq = lease[r].acq
       THEN Fault("renewal_stall") ELSE UNCHANGED faults
    /\ UNCHANGED <<runs, task, disp, ctl, paused, pauses, writer, spent>>

MaintenanceBegins ==
    /\ ~paused
    /\ pauses < MaxPauses
    /\ paused' = TRUE
    /\ pauses' = pauses + 1
    /\ UNCHANGED <<lease, runs, task, disp, ctl, faults, writer, spent>>

MaintenanceEnds ==
    /\ paused
    /\ paused' = FALSE
    /\ UNCHANGED <<lease, runs, task, disp, ctl, pauses, faults, writer, spent>>

\* process p dies and comes back with nothing in memory
Crash(p) ==
    /\ Fault("crash")
    /\ task' = [task EXCEPT ![p] = [r \in Runs |-> NoTask]]
    /\ disp' = [disp EXCEPT ![p] = IdleTick]
    /\ ctl' = [o \in Operators |->
                 IF ctl[o] # NoRequest /\ ctl[o].proc = p THEN NoRequest ELSE ctl[o]]
    /\ UNCHANGED <<lease, runs, paused, pauses, writer, spent>>

-----------------------------------------------------------------------------

DispatcherStep(p) ==
    \/ TickBegins(p) \/ ListRuns(p) \/ ListLeases(p)
    \/ \E o \in disp[p].seen : RecoverRun(p, o)
    \/ RecoveryEnds(p)
    \/ \E r \in Runs : ClaimRun(p, r)
    \/ TickEnds(p)

TaskStep(p, r) ==
    \/ Acquire(p, r) \/ CheckInterruption(p, r) \/ Mark(p, r)
    \/ WorkWrites(p, r) \/ WorkDone(p, r) \/ Release(p, r)

ClockStep(r) == BackoffElapses(r) \/ ClaimTimesOut(r) \/ LeaseExpires(r)

RequestStep(o) ==
    \/ \E p \in Procs, r \in Runs : RequestCancel(o, p, r) \/ RequestRetry(o, p, r)
    \/ ApplyCancel(o)
    \/ ApplyRetry(o)

Next ==
    \/ \E r \in Runs, m \in StartMaxAttempts : CreateRun(r, m)
    \/ \E p \in Procs : DispatcherStep(p) \/ TickFails(p) \/ Crash(p)
    \/ \E p \in Procs, r \in Runs : TaskStep(p, r) \/ WorkFails(p, r)
    \/ \E r \in Runs : ClockStep(r)
    \/ \E o \in Operators : RequestStep(o)
    \/ MaintenanceBegins
    \/ MaintenanceEnds

Spec == Init /\ [][Next]_vars

(***************************************************************************)
(* Fairness.  Ticks recur on a timer, a launched worker goes on until it   *)
(* is done, and clocks advance.  A lease expires and a claim times out for *)
(* certain only once no live worker keeps them.  Nothing is assumed of     *)
(* operators, of faults, of new runs or of maintenance locks: a restore    *)
(* lock has no expiry, so the liveness properties except the behaviours in *)
(* which a lock is never lifted.                                           *)
(***************************************************************************)
Certain(A) == A /\ UNCHANGED faults

Fairness ==
    /\ \A p \in Procs : WF_vars(DispatcherStep(p))
    /\ \A p \in Procs, r \in Runs : WF_vars(TaskStep(p, r))
    /\ \A r \in Runs : /\ WF_vars(Certain(BackoffElapses(r)))
                       /\ WF_vars(Certain(ClaimTimesOut(r)))
                       /\ WF_vars(Certain(LeaseExpires(r)))

FairSpec == Spec /\ Fairness

-----------------------------------------------------------------------------
(* Properties.                                                             *)

\* At no time do two processes both hold the current, unexpired acquisition of a run's
\* lease, so at most one worker can get a lifecycle write or a result past withOwnedRun
\* (job-lease-store.js acquireLease, job-lease-policy.js isCurrentJobLeaseAcquisition).
OneOwner ==
    \A r \in Runs, p, q \in Procs :
        Owns(r, task[p][r].acq) /\ Owns(r, task[q][r].acq) => p = q

\* The order of the acquisitions behind OneOwner: an active lease has been acquired, no
\* worker holds and no accepted write carries an acquisition later than the lease row's,
\* and no two processes share one, although recovery, expiry and takeover happen while
\* delayed workers still hold theirs.
TokensOrdered ==
    \A r \in Runs :
        /\ lease[r].state = "active" => lease[r].acq # 0
        /\ writer[r] <= lease[r].acq
        /\ \A p \in Procs : task[p][r].acq <= lease[r].acq
        /\ \A p, q \in Procs :
              (p # q /\ task[p][r].acq # 0) => task[p][r].acq # task[q][r].acq

\* Writes to a run are accepted in the order of the acquisitions: once a later
\* acquisition has written, a delayed worker of an earlier one never writes again
\* ("stale tokens mutate zero rows", docs/LEASE_ACQUISITION_DESIGN.md).
WritersFenced ==
    [][\A r \in Runs : writer'[r] >= writer[r]]_vars

\* A run that is running under an unexpired lease leaves that status only by a write of
\* the worker that owns the lease: stranded recovery never takes a run from a live
\* worker, whatever it observed before.  An operator's retry is the exception the code
\* makes (scheduleRetry has no condition on the status).
OwnerDecides ==
    [][\A r \in Runs :
         (runs[r].status = "running" /\ lease[r].state = "active" /\ runs'[r].status # "running")
         => \/ \E p \in Procs : /\ Owns(r, task[p][r].acq)
                                /\ task'[p][r].pc # task[p][r].pc
            \/ \E o \in Operators : /\ ctl[o].op = "retry"
                                    /\ ctl[o].run = r
                                    /\ ctl'[o] # ctl[o]]_vars

\* The attempt budget: a run is never started more often than max_attempts allows,
\* pauses for maintenance given back, across crashes, recoveries and operator retries.
WithinBudget ==
    \A r \in Runs : runs[r].status # "absent" =>
        /\ runs[r].attempts <= runs[r].max
        /\ spent[r] <= runs[r].attempts

\* A completed run stays completed: no recovery, late worker or retry queues it again.
CompletedIsFinal ==
    [][\A r \in Runs : runs[r].status = "completed" => runs'[r].status = "completed"]_vars

\* An operator's retry only ever rewrites a run that is failed or cancelled: the service
\* "rejects retry when a run is queued again already" (operation-run-control-service.test.js).
RetryOnlyUnsuccessful ==
    [][\A o \in Operators :
         (ctl[o].op = "retry" /\ ctl'[o] = NoRequest /\ runs' # runs)
         => CanRetry(runs[ctl[o].run])]_vars

\* Two runs of one operation type are never running at the same time, although the claim
\* and the start of a run are separate transactions (claimNextRunnableRun's NOT EXISTS).
OneRunningPerType ==
    \A q, r \in Runs : (q # r /\ TypeOf[q] = TypeOf[r])
        => ~(runs[q].status = "running" /\ runs[r].status = "running")

\* A cancellation asked for before the worker was lost is carried out by recovery: a
\* running run without an active lease goes nowhere but to "cancelled".
StrandedCancelHonoured ==
    [][\A r \in Runs :
         (runs[r].status = "running" /\ "requested" \in runs[r].cancel /\ lease[r].state # "active")
         => runs'[r].status \in {"running", "cancelled"}]_vars

\* the abstract phase of a run
Phase(row) ==
    CASE row.status = "absent" -> "absent"
      [] row.status = "pending" -> "queued"
      [] row.status = "running" -> "running"
      [] OTHER -> "done"

Abstract == INSTANCE RunLifecycle WITH
    phase <- [r \in Runs |-> Phase(runs[r])],
    held <- [r \in Runs |-> lease[r].state = "active"],
    epoch <- [r \in Runs |-> lease[r].acq]

\* The engine implements RunLifecycle: every write to a run, by its worker, by recovery
\* or by an operator, is one of the moves that specification allows.
ImplementsRunLifecycle == Abstract!Spec

\* Every claim that commits is handed to a worker: "Do not discard committed claims"
\* (docs/DISPATCHER_LIFETIME_DESIGN.md).
CommittedClaimsLaunch ==
    [][\A r \in Runs :
         (runs'[r].attempts > runs[r].attempts /\ runs'[r].claim = "fresh")
         => \E p \in Procs : task[p][r].pc = "none" /\ task'[p][r].pc = "acquire"]_vars

\* No run stays in status running: its worker settles or requeues it, or the lease runs
\* out and recovery does, whatever crashes and failed statements come in between.
RunningResolves ==
    <>[]paused \/ \A r \in Runs : runs[r].status = "running" ~> runs[r].status # "running"

\* a queued run without an attempt left and without a worker: no claim takes it, stranded
\* recovery does not list it, and the operator can neither retry nor usefully cancel it
Forsaken(r) ==
    /\ runs[r].status = "pending"
    /\ runs[r].attempts >= runs[r].max
    /\ \A p \in Procs : task[p][r].pc = "none"

\* A queued run is started or settled, also if earlier claims of it were lost, unless its
\* last attempt was lost between its claim and its start.
QueuedIsTried ==
    <>[]paused \/ \A r \in Runs :
        runs[r].status = "pending" ~> (runs[r].status # "pending" \/ Forsaken(r))

\* A cancellation request ends the run: through the worker's checks, through the check
\* that precedes the next attempt, or through stranded recovery; with the same exception.
CancelEndsRun ==
    <>[]paused \/ \A r \in Runs :
        CancelPending(r) ~> (Settled(r) \/ ~CancelPending(r) \/ Forsaken(r))

\* Every queued run is eventually started or settled: "crashed or expired ownership should
\* be recoverable without manual database surgery" (docs/harmoniarr.md).
QueuedIsResolved ==
    <>[]paused \/ \A r \in Runs : runs[r].status = "pending" ~> runs[r].status # "pending"
=============================================================================
