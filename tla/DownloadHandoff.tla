--------------------------- MODULE DownloadHandoff ---------------------------
(***************************************************************************)
(* The handoff of one import candidate's download to the provider (slskd): *)
(* operation runs of type import_candidate_execution_planning, started by  *)
(* an administrator for this candidate, their worker, the fence in front   *)
(* of the POST, the receipt that confirms it, and the heartbeat that       *)
(* confirms uncertain requests and closes abandoned preparations.          *)
(*                                                                         *)
(* A run owns at most one attempt, and the attempt's id is the batch id at *)
(* the provider.  The local protocol of a preparation (an "epoch") is      *)
(*    preparing -> refused | may_have_dispatched                           *)
(* and a refused epoch without an attempt may be followed by another one,  *)
(* under another lease.  An epoch is named by the lease acquisition that   *)
(* began it.                                                               *)
(*                                                                         *)
(* A transaction of the code locks candidate, run, item and lease in this  *)
(* order and is one step.  The queue is the one of OperationRuns, here     *)
(* without maintenance pauses and with max_attempts = 1, the value these   *)
(* runs are created with: `due` says that an attempt is left.              *)
(***************************************************************************)
EXTENDS JobLeases, Integers, FiniteSets

CONSTANTS
    Procs,        \* application processes
    FaultKinds,   \* "crash", "stall", "network", "query_error"
    MaxFaults,    \* bound on the number of faults
    MoveKinds,    \* what administrators do: "retry", "cancel", "reopen", "reingest"
    MaxMoves,     \* bound on the number of times they do
    MaxRequests   \* bound on requests to start a run that pass their checks

ASSUME HandoffAssumption ==
    /\ MaxFaults \in Nat
    /\ MaxMoves \in Nat
    /\ MaxRequests \in Nat

VARIABLES
    runs,       \* [Runs -> Run], the rows of operation_runs
    item,       \* [Runs -> Item], import_execution_run_items of the candidate
    cand,       \* the candidate's row
    origin,     \* {the newest run created for the candidate}, or {}
    task,       \* [Procs -> [Runs -> Task]], the workers
    starting,   \* start requests that passed their checks and have not created their run
    retrying,   \* retry requests that passed their checks and have not written
    recon,      \* the item the reconciliation heartbeat is working on
    net,        \* [Runs -> Net], where the run's request and its transfers are
    posts,      \* history: how often the run's request was sent
    faults, moves, requests

vars == <<lease, runs, item, cand, origin, task, starting, retrying, recon, net, posts,
          faults, moves, requests>>

rowVars == <<runs, lease>>
controlVars == <<starting, retrying, requests>>
counters == <<faults, moves>>

-----------------------------------------------------------------------------
(* Types.                                                                  *)

Run == [status : {"absent", "pending", "running", "completed", "failed", "cancelled"},
        claim : {"none", "fresh", "stale"},
        due : BOOLEAN,      \* attempt_count < max_attempts
        cancel : BOOLEAN,   \* cancel_requested_at is set
        closed : BOOLEAN]   \* summary.downloadPreparationClosure is set

NoRun == [status |-> "absent", claim |-> "none", due |-> FALSE, cancel |-> FALSE,
          closed |-> FALSE]

\* createOperationRun, or a retry, with one attempt left
QueuedRun == [status |-> "pending", claim |-> "none", due |-> TRUE, cancel |-> FALSE,
              closed |-> FALSE]

Receipt == {"unknown", "confirmed", "rejected"}

\* the handoff part of an item's snapshot: its state, and its epoch's phase, lease
\* acquisition and observed candidate revision
Item == [state : {"absent", "none", "preparing", "pre_provider_refused", "dispatching",
                  "awaiting_confirmation", "confirmed", "not_dispatched"},
         phase : {"none", "preparing", "refused", "may_have_dispatched"},
         acq : Nat, obs : Nat,
         attempt : BOOLEAN,     \* an attempt, hence a batch id, is stored
         receipt : Receipt]     \* the disposition of the attempt's stored receipt

NoItem == [state |-> "absent", phase |-> "none", acq |-> 0, obs |-> 0,
           attempt |-> FALSE, receipt |-> "unknown"]

\* rev stands for updated_at, which every write of the row moves; source is the revision
\* at which username, folder or files last changed
Candidate == [status : {"pending", "selected", "downloading", "import_pending", "failed"},
              rev : Nat, source : Nat]

\* what the provider said: nothing yet, or the disposition of its answer
Evidence == {"none"} \cup Receipt

TaskPc == {"none", "acquire", "start", "load", "look", "evidence", "begin", "stage",
           "guard", "fence", "post", "answer", "confirm", "reject", "refuse",
           "completed", "failed", "cancelled", "release"}

\* seen: what the item snapshot read at the start calls for; receipt: the one it holds;
\* end: the status the run gets once the preparation is refused
Task == [pc : TaskPc, acq : Nat, obs : Nat, seen : {"fresh", "evidence", "blocked"},
         receipt : Receipt, proof : Evidence, end : {"completed", "failed", "cancelled"}]

\* a worker at pc under acquisition a, with no local data
At(pc, a) == [pc |-> pc, acq |-> a, obs |-> 0, seen |-> "fresh", receipt |-> "unknown",
              proof |-> "none", end |-> "failed"]

NoTask == At("none", 0)

\* what the reconciliation keeps of the item it read
Snapshot == [phase : {"none", "preparing", "refused", "may_have_dispatched"}, acq : Nat,
             attempt : BOOLEAN, receipt : Receipt]

SnapshotOf(i) == [phase |-> i.phase, acq |-> i.acq, attempt |-> i.attempt, receipt |-> i.receipt]

Recon == {[pc |-> "idle"]}
         \cup [pc : {"look", "close", "confirm", "reject"}, run : Runs, snap : Snapshot,
               proof : Evidence]

Idle == [pc |-> "idle"]

\* none: not sent; sent: on its way; lost: it never arrives; accepted: every file was
\* admitted; refused: none was
Net == {"none", "sent", "lost", "accepted", "refused"}

TypeOK ==
    /\ LeaseTypeOK
    /\ runs \in [Runs -> Run]
    /\ item \in [Runs -> Item]
    /\ cand \in Candidate
    /\ origin \subseteq Runs
    /\ task \in [Procs -> [Runs -> Task]]
    /\ starting \subseteq Runs
    /\ retrying \subseteq Runs
    /\ recon \in Recon
    /\ net \in [Runs -> Net]
    /\ posts \in [Runs -> Nat]
    /\ faults \in 0..MaxFaults
    /\ moves \in 0..MaxMoves
    /\ requests \in 0..MaxRequests

Init ==
    /\ LeaseInit
    /\ runs = [r \in Runs |-> NoRun]
    /\ item = [r \in Runs |-> NoItem]
    /\ cand = [status |-> "selected", rev |-> 0, source |-> 0]
    /\ origin = {}
    /\ task = [p \in Procs |-> [r \in Runs |-> NoTask]]
    /\ starting = {}
    /\ retrying = {}
    /\ recon = Idle
    /\ net = [r \in Runs |-> "none"]
    /\ posts = [r \in Runs |-> 0]
    /\ faults = 0
    /\ moves = 0
    /\ requests = 0

Fault(k) == k \in FaultKinds /\ faults < MaxFaults /\ faults' = faults + 1

Moved(k) == k \in MoveKinds /\ moves < MaxMoves /\ moves' = moves + 1

-----------------------------------------------------------------------------
(* Policies.                                                               *)

\* matchesRecoveryObservation: the candidate is the very row that was observed
Observed(o) == cand.rev = o

\* matchesAcceptedRecoveryProvenance: same source, whatever its status became
SameSource(i) == i.obs >= cand.source

\* isCurrentOrigin
IsOrigin(r) == origin = {r}

\* Mutated form: only the state of the handoff counts
UnresolvedByState(i) == i.state \in {"dispatching", "awaiting_confirmation"}

\* isUnresolvedPreProviderPreparation, or a state that waits for confirmation
Unresolved(i) ==
    \/ i.state \in {"dispatching", "awaiting_confirmation"}
    \/ i.phase = "preparing"
    \/ /\ i.phase = "may_have_dispatched"
       /\ ~(i.state = "confirmed" /\ i.receipt \in {"confirmed", "rejected"})

\* Mutated form: only an attempt that was answered without proof counts
UnresolvedOtherAnswered(r) == \E q \in Runs \ {r} : item[q].state = "awaiting_confirmation"

\* findUnresolvedOtherHandoff
UnresolvedOther(r) == \E q \in Runs \ {r} : Unresolved(item[q])

\* owns: an open run, its item, and the exact unexpired lease
OwnsPreparation(r, a) == ~runs[r].closed /\ item[r].state # "absent" /\ Owns(r, a)

\* ... of a run that is running and not asked to stop
OwnsActively(r, a) ==
    OwnsPreparation(r, a) /\ runs[r].status = "running" /\ ~runs[r].cancel

\* the item's epoch was begun under acquisition a and is undecided
Preparing(r, a) == item[r].phase = "preparing" /\ item[r].acq = a

\* Mutated form: the phase is stored as the state too
RefusedItemByPhase(i) == [i EXCEPT !.phase = "refused", !.state = "refused"]

\* the item once its preparation is refused
RefusedItem(i) ==
    [i EXCEPT !.phase = "refused",
              !.state = IF i.attempt THEN "not_dispatched" ELSE "pre_provider_refused"]

-----------------------------------------------------------------------------
(* Start requests, and the queue as OperationRuns has it.                  *)

\* startImportCandidateExecutionRun up to the insert: no active run, no unconfirmed
\* handoff of a selected candidate, and the candidate selected
RequestStart(r) ==
    /\ requests < MaxRequests
    /\ runs[r].status = "absent"
    /\ \A q \in Runs : runs[q].status \notin {"pending", "running"}
    /\ cand.status = "selected"
    /\ \A q \in Runs : ~Unresolved(item[q])
    /\ starting' = starting \cup {r}
    /\ requests' = requests + 1
    /\ UNCHANGED <<rowVars, item, cand, origin, task, retrying, recon, net, posts, counters>>

\* createOperationRun under the candidate's lock, which only checks the selection again
CreateRun(r) ==
    /\ r \in starting
    /\ starting' = starting \ {r}
    /\ IF cand.status = "selected" /\ runs[r].status = "absent"
       THEN /\ runs' = [runs EXCEPT ![r] = QueuedRun]
            /\ origin' = {r}
       ELSE UNCHANGED <<runs, origin>>
    /\ UNCHANGED <<lease, item, cand, task, retrying, requests, recon, net, posts, counters>>

\* claimNextRunnableRun and the launch of the run's worker, unless the process still
\* has one for this run
ClaimRun(p, r) ==
    /\ runs[r].status = "pending"
    /\ runs[r].due
    /\ runs[r].claim # "fresh"
    /\ ~runs[r].closed
    /\ \A q \in Runs \ {r} : /\ runs[q].status # "running"
                             /\ ~(runs[q].status = "pending" /\ runs[q].claim = "fresh")
    /\ runs' = [runs EXCEPT ![r].claim = "fresh", ![r].due = FALSE]
    /\ task' = [task EXCEPT ![p][r] = IF @.pc = "none" THEN At("acquire", 0) ELSE @]
    /\ UNCHANGED <<lease, item, cand, origin, controlVars, recon, net, posts, counters>>

\* recoverStrandedRun of a run whose lease is gone: with no attempt left it is failed,
\* or cancelled when that was asked for
RecoverRun(r) ==
    /\ runs[r].status = "running"
    /\ lease[r].state # "active"
    /\ runs' = [runs EXCEPT ![r].claim = "none",
                            ![r].status = CASE runs[r].cancel -> "cancelled"
                                            [] ~runs[r].cancel /\ runs[r].due -> "pending"
                                            [] OTHER -> "failed"]
    /\ ReleaseLease(r, lease[r].acq)
    /\ UNCHANGED <<item, cand, origin, task, controlVars, recon, net, posts, counters>>

\* an administrator asks for the run's cancellation
CancelRun(r) ==
    /\ runs[r].status \in {"pending", "running"}
    /\ ~runs[r].cancel
    /\ Moved("cancel")
    /\ runs' = [runs EXCEPT ![r].cancel = TRUE]
    /\ UNCHANGED <<lease, item, cand, origin, task, controlVars, recon, net, posts, faults>>

\* requestOperationRunRetry reads a failed or cancelled run that is not retired ...
RequestRetry(r) ==
    /\ runs[r].status \in {"failed", "cancelled"}
    /\ ~runs[r].closed
    /\ r \notin retrying
    /\ Moved("retry")
    /\ retrying' = retrying \cup {r}
    /\ UNCHANGED <<rowVars, item, cand, origin, task, starting, requests, recon, net, posts, faults>>

\* Mutated form: the write does not look for a retirement
ApplyRetryUnfenced(r) ==
    /\ r \in retrying
    /\ retrying' = retrying \ {r}
    /\ runs' = [runs EXCEPT ![r].status = "pending", ![r].due = TRUE]
    /\ UNCHANGED <<lease, item, cand, origin, task, starting, requests, recon, net, posts, counters>>

\* ... and scheduleRetry queues it, unless it was retired in between
ApplyRetry(r) ==
    /\ r \in retrying
    /\ retrying' = retrying \ {r}
    /\ runs' = IF runs[r].closed THEN runs
               ELSE [runs EXCEPT ![r] = QueuedRun]
    /\ UNCHANGED <<lease, item, cand, origin, task, starting, requests, recon, net, posts, counters>>

-----------------------------------------------------------------------------
(* The worker.                                                             *)

\* on to pc; local data that later steps do not read is forgotten
Move(p, r, pc) == task' = [task EXCEPT ![p][r] = At(pc, @.acq)]

Leave(p, r) == task' = [task EXCEPT ![p][r] = NoTask]

\* the catch block in front of the dispatch boundary: refuse the preparation, then let
\* the run end in status s
RefuseThen(p, r, s) == task' = [task EXCEPT ![p][r] = [At("refuse", @.acq) EXCEPT !.end = s]]

\* acquireLease: refused for a retired run and while another acquisition is active
Acquire(p, r) ==
    /\ task[p][r].pc = "acquire"
    /\ IF ~runs[r].closed /\ LeaseAvailable(r)
       THEN /\ AcquireLease(r)
            /\ task' = [task EXCEPT ![p][r] = At("start", NextAcquisition(r))]
       ELSE Leave(p, r) /\ UNCHANGED lease
    /\ UNCHANGED <<runs, item, cand, origin, controlVars, recon, net, posts, counters>>

\* a lifecycle write of the worker reaches the row
MayMark(p, r) == ~runs[r].closed /\ Owns(r, task[p][r].acq)

\* the cancellation check and markRunStarted; the write does not look at the request,
\* so one that comes between the two is one that comes after them
Start(p, r) ==
    /\ task[p][r].pc = "start"
    /\ \/ /\ runs[r].cancel
          /\ Move(p, r, "cancelled")
          /\ UNCHANGED runs
       \/ /\ ~runs[r].cancel
          /\ Move(p, r, IF MayMark(p, r) THEN "load" ELSE "release")
          /\ runs' = IF MayMark(p, r)
                     THEN [runs EXCEPT ![r].status = "running", ![r].claim = "none"] ELSE runs
    /\ UNCHANGED <<lease, item, cand, origin, controlVars, recon, net, posts, counters>>

\* what an item snapshot calls for: nothing after a refused dispatch, evidence for an
\* attempt that may have been sent, else a new preparation
SeenAs(i) ==
    CASE i.state = "not_dispatched" -> "blocked"
      [] i.state # "not_dispatched" /\ i.attempt -> "evidence"
      [] OTHER -> "fresh"

\* buildSelectedImportCandidateSummary, and the run's item is read or created; a
\* candidate that is no longer selected leaves nothing to do
Load(p, r) ==
    /\ task[p][r].pc = "load"
    /\ IF cand.status # "selected"
       THEN Move(p, r, "completed") /\ UNCHANGED item
       ELSE /\ item' = [item EXCEPT ![r].state = IF @ = "absent" THEN "none" ELSE @]
            /\ task' = [task EXCEPT ![p][r] = [At("look", @.acq) EXCEPT
                                                  !.seen = SeenAs(item[r]), !.receipt = item[r].receipt]]
    /\ UNCHANGED <<rowVars, cand, origin, controlVars, recon, net, posts, counters>>

\* the cancellation check and the candidate's observation
Look(p, r) ==
    LET t == task[p][r]
        on == CASE runs[r].cancel -> At("cancelled", t.acq)
                [] ~runs[r].cancel /\ t.seen = "fresh" ->
                     [At("begin", t.acq) EXCEPT !.obs = cand.rev]
                [] ~runs[r].cancel /\ t.seen = "evidence" ->
                     [At("evidence", t.acq) EXCEPT !.receipt = t.receipt]
                [] OTHER -> At("completed", t.acq)
    IN /\ t.pc = "look"
       /\ task' = [task EXCEPT ![p][r] = on]
       /\ UNCHANGED <<rowVars, item, cand, origin, controlVars, recon, net, posts, counters>>

\* what findMatchingTransfers may answer for an attempt with stored receipt c: a settled
\* receipt needs no lookup; a lookup never proves a rejection, and finds no batch
\* ("error") for a request that has not arrived
Lookup(r, c) ==
    CASE c # "unknown" -> {"none"}
      [] c = "unknown" /\ net[r] = "accepted" -> {"confirmed", "unknown", "error"}
      [] c = "unknown" /\ net[r] = "refused" -> {"unknown", "error"}
      [] OTHER -> {"error"}

\* a resumed worker asks the provider; an error ends the run
Evidence_(p, r) ==
    /\ task[p][r].pc = "evidence"
    /\ \E e \in Lookup(r, task[p][r].receipt) :
          IF e = "error" THEN Move(p, r, "failed")
          ELSE task' = [task EXCEPT ![p][r] = [At("confirm", @.acq) EXCEPT !.proof = e]]
    /\ UNCHANGED <<rowVars, item, cand, origin, controlVars, recon, net, posts, counters>>

\* the epoch beginPreparation finds does not stand in the way of a new one
MayBeginEpoch(r) ==
    item[r].phase = "none" \/ (item[r].phase = "refused" /\ ~item[r].attempt)

\* beginPreparation: a new epoch, this lease's own epoch again, or nothing to do here
Begin(p, r) ==
    LET t == task[p][r]
        current == /\ OwnsActively(r, t.acq) /\ cand.status = "selected" /\ Observed(t.obs)
                   /\ ~item[r].attempt
                   /\ item[r].state \in {"none", "preparing", "pre_provider_refused"}
    IN /\ t.pc = "begin"
       /\ IF current /\ item[r].acq # t.acq /\ MayBeginEpoch(r)
          THEN /\ item' = [item EXCEPT ![r].state = "preparing", ![r].phase = "preparing",
                                       ![r].acq = t.acq, ![r].obs = t.obs]
               /\ task' = [task EXCEPT ![p][r].pc = "stage"]
          ELSE /\ UNCHANGED item
               /\ IF current /\ Preparing(r, t.acq) /\ item[r].obs = t.obs
                  THEN task' = [task EXCEPT ![p][r].pc = "stage"]
                  ELSE Move(p, r, "completed")
       /\ UNCHANGED <<rowVars, cand, origin, controlVars, recon, net, posts, counters>>

\* planning is blocked or no file is unlocked: the preparation is sealed
SealBlocked(p, r) ==
    /\ task[p][r].pc = "stage"
    /\ RefuseThen(p, r, "completed")
    /\ UNCHANGED <<rowVars, item, cand, origin, controlVars, recon, net, posts, counters>>

\* the recovery authority or the provider's version, binding or credentials refuse, or a
\* statement fails, anywhere in front of the dispatch boundary
PreparationThrows(p, r) ==
    /\ task[p][r].pc \in {"stage", "guard", "fence"}
    /\ RefuseThen(p, r, "failed")
    /\ UNCHANGED <<rowVars, item, cand, origin, controlVars, recon, net, posts, counters>>

\* prepareDownloadHandoff: the attempt is stored in the epoch of this lease, unless the
\* candidate, the origin or another run's handoff is in the way
Stage(p, r) ==
    LET t == task[p][r]
        stale == cand.status # "selected" \/ ~Observed(t.obs) \/ ~IsOrigin(r) \/ UnresolvedOther(r)
        staged == OwnsActively(r, t.acq) /\ Preparing(r, t.acq) /\ item[r].obs = t.obs
    IN /\ t.pc = "stage"
       /\ IF ~item[r].attempt /\ ~stale /\ staged
          THEN /\ item' = [item EXCEPT ![r].attempt = TRUE, ![r].state = "dispatching"]
               /\ Move(p, r, "guard")
          ELSE /\ UNCHANGED item
               /\ IF item[r].attempt THEN Move(p, r, "confirm")
                  ELSE RefuseThen(p, r, IF stale THEN "completed" ELSE "failed")
       /\ UNCHANGED <<rowVars, cand, origin, controlVars, recon, net, posts, counters>>

\* beforeSend up to the fence: lease, cancellation, then assertDownloadHandoffCurrent
Guard(p, r) ==
    LET t == task[p][r]
        cancelled == Owns(r, t.acq) /\ runs[r].cancel
        current == /\ OwnsActively(r, t.acq) /\ item[r].state = "dispatching"
                   /\ Observed(item[r].obs) /\ IsOrigin(r)
    IN /\ t.pc = "guard"
       /\ IF current THEN Move(p, r, "fence")
          ELSE RefuseThen(p, r, IF cancelled THEN "cancelled" ELSE "failed")
       /\ UNCHANGED <<rowVars, item, cand, origin, controlVars, recon, net, posts, counters>>

\* markDispatchPossible's conditions
MayDispatch(r, a) ==
    /\ OwnsActively(r, a)
    /\ Preparing(r, a)
    /\ item[r].attempt
    /\ item[r].state = "dispatching"
    /\ cand.status = "selected"
    /\ Observed(item[r].obs)
    /\ IsOrigin(r)
    /\ ~UnresolvedOther(r)

\* Mutated form: the verdict of the fence is not looked at
FenceUnheeded(p, r) ==
    /\ task[p][r].pc = "fence"
    /\ item' = IF MayDispatch(r, task[p][r].acq)
               THEN [item EXCEPT ![r].phase = "may_have_dispatched"] ELSE item
    /\ Move(p, r, "post")
    /\ UNCHANGED <<rowVars, cand, origin, controlVars, recon, net, posts, counters>>

\* the fence: from here on the request may have been sent.  The commit may succeed
\* although the worker sees an error.
Fence(p, r) ==
    /\ task[p][r].pc = "fence"
    /\ IF MayDispatch(r, task[p][r].acq)
       THEN /\ item' = [item EXCEPT ![r].phase = "may_have_dispatched"]
            /\ \/ Move(p, r, "post") /\ UNCHANGED faults
               \/ Fault("query_error") /\ RefuseThen(p, r, "failed")
       ELSE RefuseThen(p, r, "failed") /\ UNCHANGED <<item, faults>>
    /\ UNCHANGED <<rowVars, cand, origin, controlVars, recon, net, posts, moves>>

\* enqueueDownloadBatch sends the request
Post(p, r) ==
    /\ task[p][r].pc = "post"
    /\ net' = [net EXCEPT ![r] = "sent"]
    /\ posts' = [posts EXCEPT ![r] = @ + 1]
    /\ Move(p, r, "answer")
    /\ UNCHANGED <<rowVars, item, cand, origin, controlVars, recon, counters>>

\* the provider's response as decodeSlskdDownloadBatchResponse and evaluateDownloadReceipt
\* read it; a malformed, partial or conflicting one proves nothing
Answer(p, r) ==
    /\ task[p][r].pc = "answer"
    /\ net[r] \in {"accepted", "refused"}
    /\ \E e \in {IF net[r] = "refused" THEN "rejected" ELSE "confirmed", "unknown"} :
          task' = [task EXCEPT ![p][r] = [At("confirm", @.acq) EXCEPT !.proof = e]]
    /\ UNCHANGED <<rowVars, item, cand, origin, controlVars, recon, net, posts, counters>>

\* Mutated form: a request without a response is sent again
AnswerLostResent(p, r) ==
    /\ task[p][r].pc = "answer"
    /\ IF net[r] = "lost" THEN UNCHANGED faults ELSE Fault("network")
    /\ Move(p, r, "post")
    /\ UNCHANGED <<rowVars, item, cand, origin, controlVars, recon, net, posts, moves>>

\* the response is lost or times out, whether or not the request arrived
AnswerLost(p, r) ==
    /\ task[p][r].pc = "answer"
    /\ IF net[r] = "lost" THEN UNCHANGED faults ELSE Fault("network")
    /\ Move(p, r, "failed")
    /\ UNCHANGED <<rowVars, item, cand, origin, controlVars, recon, net, posts, moves>>

(***************************************************************************)
(* confirmDownloadHandoff, which the worker and the reconciliation share:  *)
(* evidence e is applied to the attempt the caller knew of (had).          *)
(***************************************************************************)
Confirmable(i, had) ==
    had /\ i.attempt /\ i.state # "not_dispatched" /\ i.phase = "may_have_dispatched"

\* Mutated form: an older run may move the candidate
MayAdvanceAnyRun(r) == SameSource(item[r]) /\ cand.status \in {"selected", "downloading"}

MayAdvance(r) ==
    SameSource(item[r]) /\ cand.status \in {"selected", "downloading"} /\ IsOrigin(r)

\* Mutated form: a receipt counts without evidence of its own
ProofAssumed(r, e) == IF e = "none" THEN "confirmed" ELSE e

\* without new evidence the stored receipt is evaluated again; new evidence replaces it
Proof(r, e) == IF e = "none" THEN item[r].receipt ELSE e

AlreadyConfirmed(r) ==
    MayAdvance(r) /\ item[r].state = "confirmed" /\ item[r].receipt = "confirmed"

Applies(r, had) == Confirmable(item[r], had) /\ ~AlreadyConfirmed(r)

\* the receipt calls for the candidate's failure (definitiveFailure)
Rejects(r, had, e) == Applies(r, had) /\ MayAdvance(r) /\ Proof(r, e) = "rejected"

\* a decided handoff is confirmed; an undecided one waits, or still counts as in dispatch
ConfirmedState(r, e) ==
    IF MayAdvance(r) /\ Proof(r, e) # "unknown" THEN "confirmed"
    ELSE IF item[r].state = "dispatching" THEN "dispatching" ELSE "awaiting_confirmation"

ConfirmHandoff(r, had, e) ==
    IF Applies(r, had)
    THEN /\ item' = [item EXCEPT ![r].receipt = Proof(r, e),
                       ![r].state = ConfirmedState(r, e)]
         /\ cand' = IF MayAdvance(r) /\ Proof(r, e) = "confirmed" /\ cand.status = "selected"
                    THEN [cand EXCEPT !.status = "downloading", !.rev = @ + 1] ELSE cand
    ELSE UNCHANGED <<item, cand>>

Confirm(p, r) ==
    /\ task[p][r].pc = "confirm"
    /\ ConfirmHandoff(r, TRUE, task[p][r].proof)
    /\ Move(p, r, IF Rejects(r, TRUE, task[p][r].proof) THEN "reject" ELSE "completed")
    /\ UNCHANGED <<rowVars, origin, controlVars, recon, net, posts, counters>>

\* markImportCandidateDownloadFailed, a transaction after the confirmation's; a candidate
\* in another status is an error of the caller
MayFailCandidate == cand.status \in {"selected", "downloading"}

FailCandidate ==
    cand' = IF MayFailCandidate THEN [cand EXCEPT !.status = "failed", !.rev = @ + 1] ELSE cand

RejectCandidate(p, r) ==
    /\ task[p][r].pc = "reject"
    /\ FailCandidate
    /\ Move(p, r, IF MayFailCandidate THEN "completed" ELSE "failed")
    /\ UNCHANGED <<rowVars, item, origin, controlVars, recon, net, posts, counters>>

\* refusePreparation's conditions
MayRefuse(r, a) == OwnsPreparation(r, a) /\ Preparing(r, a)

\* refusePreparation; a seal that is refused is an error
Refuse(p, r) ==
    LET ok == MayRefuse(r, task[p][r].acq)
    IN /\ task[p][r].pc = "refuse"
       /\ item' = IF ok THEN [item EXCEPT ![r] = RefusedItem(@)] ELSE item
       /\ Move(p, r, IF ok \/ task[p][r].end = "cancelled" THEN task[p][r].end ELSE "failed")
       /\ UNCHANGED <<rowVars, cand, origin, controlVars, recon, net, posts, counters>>

\* a statement or a provider request fails outside the preparation's catch block, or in it
WorkerThrows(p, r) ==
    /\ task[p][r].pc \in {"start", "load", "look", "evidence", "begin", "confirm", "reject", "refuse"}
    /\ Fault("query_error")
    /\ Move(p, r, "failed")
    /\ UNCHANGED <<rowVars, item, cand, origin, controlVars, recon, net, posts, moves>>

\* the row after markRunCompleted, markRunFailed or markRunCancelled
Marked(p, r, s) ==
    IF MayMark(p, r)
    THEN [runs EXCEPT ![r].claim = "none",
                      ![r].status = IF s = "failed" /\ runs[r].due THEN "pending" ELSE s]
    ELSE runs

\* The catch block turns an error of markRunCompleted into markRunFailed; an error in the
\* catch block leaves only the finalizers.
AfterMarkError(s) == IF s = "completed" THEN "failed" ELSE "release"

\* the lifecycle write at the worker's end; it may fail, or commit and be reported as failed
Mark(p, r) ==
    LET s == task[p][r].pc
    IN /\ s \in {"completed", "failed", "cancelled"}
       /\ \/ runs' = Marked(p, r, s) /\ Move(p, r, "release") /\ UNCHANGED faults
          \/ /\ Fault("query_error")
             /\ runs' \in {runs, Marked(p, r, s)}
             /\ Move(p, r, AfterMarkError(s))
       /\ UNCHANGED <<lease, item, cand, origin, controlVars, recon, net, posts, moves>>

\* drainWorkerLease
Release(p, r) ==
    /\ task[p][r].pc = "release"
    /\ ReleaseLease(r, task[p][r].acq)
    /\ Leave(p, r)
    /\ UNCHANGED <<runs, item, cand, origin, controlVars, recon, net, posts, counters>>

-----------------------------------------------------------------------------
(* The provider and the network.                                           *)

\* slskd processes the request: it admits the files or fails every one of them
Provider(r) ==
    /\ net[r] = "sent"
    /\ \E a \in {"accepted", "refused"} : net' = [net EXCEPT ![r] = a]
    /\ UNCHANGED <<rowVars, item, cand, origin, task, controlVars, recon, posts, counters>>

RequestLost(r) ==
    /\ net[r] = "sent"
    /\ Fault("network")
    /\ net' = [net EXCEPT ![r] = "lost"]
    /\ UNCHANGED <<rowVars, item, cand, origin, task, controlVars, recon, posts, moves>>

-----------------------------------------------------------------------------
(* The reconciliation heartbeat.                                           *)

\* the summary lists the newest run of a candidate and, while the candidate is selected,
\* every run with an unconfirmed item; the item is read here
ReconBegins(r) ==
    /\ recon = Idle
    /\ Unresolved(item[r])
    /\ IsOrigin(r) \/ cand.status = "selected"
    /\ recon' = [pc |-> "look", run |-> r, snap |-> SnapshotOf(item[r]), proof |-> "none"]
    /\ UNCHANGED <<rowVars, item, cand, origin, task, controlVars, net, posts, counters>>

\* reconcileItemTransfers asks the provider; an unavailable one leaves no evidence
ReconLooks ==
    /\ recon.pc = "look"
    /\ \E e \in (IF recon.snap.attempt THEN Lookup(recon.run, recon.snap.receipt) ELSE {"none"}) :
          recon' = [recon EXCEPT !.pc = IF recon.snap.phase = "preparing" THEN "close" ELSE "confirm",
                                 !.proof = IF e = "error" THEN "none" ELSE e]
    /\ UNCHANGED <<rowVars, item, cand, origin, task, controlVars, net, posts, counters>>

\* Mutated form: the phase is the one of the snapshot
AbandonedTrustingSnapshot(r, snap) ==
    /\ ~runs[r].closed
    /\ runs[r].status \in {"pending", "failed", "completed", "cancelled"}
    /\ runs[r].claim = "none"
    /\ lease[r].state # "active"
    /\ item[r].acq = snap.acq
    /\ cand.status = "selected" /\ Observed(item[r].obs)

\* evaluateAbandonedPreparation: nobody runs, claims or leases the run, and item and
\* candidate are the ones that were prepared
Abandoned(r, snap) ==
    /\ ~runs[r].closed
    /\ runs[r].status \in {"pending", "failed", "completed", "cancelled"}
    /\ runs[r].claim = "none"
    /\ lease[r].state # "active"
    /\ item[r].phase = "preparing" /\ item[r].acq = snap.acq /\ item[r].attempt = snap.attempt
    /\ item[r].state = IF item[r].attempt THEN "dispatching" ELSE "preparing"
    /\ cand.status = "selected" /\ Observed(item[r].obs)

\* closeAbandonedPreparation: under a lease of its own, which ends with the transaction,
\* the item is refused and the run is retired for good
ReconCloses ==
    LET r == recon.run
    IN /\ recon.pc = "close"
       /\ IF Abandoned(r, recon.snap)
          THEN /\ item' = [item EXCEPT ![r] = RefusedItem(@)]
               /\ runs' = [runs EXCEPT ![r].status = "cancelled", ![r].cancel = TRUE, ![r].closed = TRUE]
               /\ lease' = [lease EXCEPT ![r] = [acq |-> NextAcquisition(r), state |-> "released"]]
               /\ recon' = Idle
          ELSE /\ recon' = [recon EXCEPT !.pc = "confirm"]
               /\ UNCHANGED <<item, rowVars>>
       /\ UNCHANGED <<cand, origin, task, controlVars, net, posts, counters>>

ReconConfirms ==
    /\ recon.pc = "confirm"
    /\ ConfirmHandoff(recon.run, recon.snap.attempt, recon.proof)
    /\ recon' = IF Rejects(recon.run, recon.snap.attempt, recon.proof)
                THEN [recon EXCEPT !.pc = "reject"] ELSE Idle
    /\ UNCHANGED <<rowVars, origin, task, controlVars, net, posts, counters>>

ReconRejects ==
    /\ recon.pc = "reject"
    /\ FailCandidate
    /\ recon' = Idle
    /\ UNCHANGED <<rowVars, item, origin, task, controlVars, net, posts, counters>>

\* a statement of the heartbeat's tick fails: the tick is over
ReconFails ==
    /\ recon # Idle
    /\ Fault("query_error")
    /\ recon' = Idle
    /\ UNCHANGED <<rowVars, item, cand, origin, task, controlVars, net, posts, moves>>

-----------------------------------------------------------------------------
(* The candidate.                                                          *)

CandidateBecomes(s) == cand' = [cand EXCEPT !.status = s, !.rev = @ + 1]

\* the heartbeat sees that the transfers of a confirmed attempt finished or failed, or
\* were rejected by the peer and are to be retried with another run
TransferEnds(r) ==
    /\ cand.status = "downloading"
    /\ IsOrigin(r)
    /\ item[r].attempt /\ ~Unresolved(item[r]) /\ SameSource(item[r])
    /\ \E s \in {"import_pending", "failed", "selected"} : CandidateBecomes(s)
    /\ UNCHANGED <<rowVars, item, origin, task, controlVars, recon, net, posts, counters>>

\* an administrator reopens a selected or failed candidate ...
Reopen ==
    /\ cand.status \in {"selected", "failed"}
    /\ Moved("reopen")
    /\ CandidateBecomes("pending")
    /\ UNCHANGED <<rowVars, item, origin, task, controlVars, recon, net, posts, faults>>

\* ... and selects it again
Select ==
    /\ cand.status = "pending"
    /\ CandidateBecomes("selected")
    /\ UNCHANGED <<rowVars, item, origin, task, controlVars, recon, net, posts, counters>>

\* upsertImportCandidate and replaceImportCandidateFiles: the same search result is
\* ingested again, with new file rows
Reingest ==
    /\ Moved("reingest")
    /\ cand' = [cand EXCEPT !.source = cand.rev + 1, !.rev = @ + 1]
    /\ UNCHANGED <<rowVars, item, origin, task, controlVars, recon, net, posts, faults>>

-----------------------------------------------------------------------------
(* Time and crashes, as in OperationRuns.                                  *)

ClaimTimesOut(r) ==
    /\ runs[r].claim = "fresh"
    /\ runs' = [runs EXCEPT ![r].claim = "stale"]
    /\ IF \E p \in Procs : task[p][r].pc \in {"acquire", "start"} THEN Fault("stall") ELSE UNCHANGED faults
    /\ UNCHANGED <<lease, item, cand, origin, task, controlVars, recon, net, posts, moves>>

LeaseExpires(r) ==
    /\ ExpireLease(r)
    /\ IF \E p \in Procs : task[p][r].acq = lease[r].acq THEN Fault("stall") ELSE UNCHANGED faults
    /\ UNCHANGED <<runs, item, cand, origin, task, controlVars, recon, net, posts, moves>>

\* process p dies, possibly with the heartbeat's tick; a request that was sent goes on
Crash(p) ==
    /\ Fault("crash")
    /\ \E r \in Runs : task[p][r].pc # "none"
    /\ task' = [task EXCEPT ![p] = [r \in Runs |-> NoTask]]
    /\ recon' \in {recon, Idle}
    /\ UNCHANGED <<rowVars, item, cand, origin, controlVars, net, posts, moves>>

-----------------------------------------------------------------------------

TaskStep(p, r) ==
    \/ Acquire(p, r) \/ Start(p, r) \/ Load(p, r) \/ Look(p, r) \/ Evidence_(p, r)
    \/ Begin(p, r) \/ Stage(p, r) \/ Guard(p, r) \/ Fence(p, r) \/ Post(p, r)
    \/ Answer(p, r) \/ Confirm(p, r) \/ RejectCandidate(p, r) \/ Refuse(p, r)
    \/ Mark(p, r) \/ Release(p, r)

TaskErrs(p, r) ==
    SealBlocked(p, r) \/ PreparationThrows(p, r) \/ WorkerThrows(p, r) \/ AnswerLost(p, r)

ReconStep == ReconLooks \/ ReconCloses \/ ReconConfirms \/ ReconRejects

RequestStep(r) ==
    RequestStart(r) \/ CreateRun(r) \/ CancelRun(r) \/ RequestRetry(r) \/ ApplyRetry(r)

CandidateStep == (\E r \in Runs : TransferEnds(r)) \/ Reopen \/ Select \/ Reingest

Next ==
    \/ \E p \in Procs, r \in Runs : ClaimRun(p, r) \/ TaskStep(p, r) \/ TaskErrs(p, r)
    \/ \E p \in Procs : Crash(p)
    \/ \E r \in Runs : \/ RequestStep(r) \/ RecoverRun(r) \/ ClaimTimesOut(r) \/ LeaseExpires(r)
                       \/ Provider(r) \/ RequestLost(r) \/ ReconBegins(r)
    \/ ReconStep
    \/ ReconFails
    \/ CandidateStep

Spec == Init /\ [][Next]_vars

(***************************************************************************)
(* Fairness.  The dispatcher claims and recovers on a timer, a launched    *)
(* worker goes on, an unrenewed lease and an unused claim time out, the    *)
(* provider answers what it received, and every heartbeat works through    *)
(* all unconfirmed items.  Nothing is assumed of administrators, of the    *)
(* transfers or of faults.                                                 *)
(***************************************************************************)
Certain(A) == A /\ UNCHANGED faults

Fairness ==
    /\ \A p \in Procs, r \in Runs : /\ WF_vars(ClaimRun(p, r))
                                    /\ WF_vars(Certain(TaskStep(p, r) \/ AnswerLost(p, r)))
    /\ \A r \in Runs : /\ WF_vars(RecoverRun(r))
                       /\ WF_vars(Certain(ClaimTimesOut(r)))
                       /\ WF_vars(Certain(LeaseExpires(r)))
                       /\ WF_vars(Provider(r))
                       /\ SF_vars(ReconBegins(r))
    /\ WF_vars(ReconStep)

FairSpec == Spec /\ Fairness

-----------------------------------------------------------------------------
(* Properties.                                                             *)

\* the provider has decided the request
Answered(r) == net[r] \in {"accepted", "refused"}

\* However often a run is retried, taken over by another process or resumed after a crash,
\* its request is sent at most once: "Resume never ... creates another batch UUID after an
\* uncertain outcome" (docs/BATCH_DOWNLOAD_HANDOFF_OUTCOME.md; the fence of
\* markDispatchPossible in import-execution-pre-provider-service.js).
OnePostPerRun == \A r \in Runs : posts[r] <= 1

\* At most one run of a candidate has a request in doubt: "A new run must not resend an
\* uncertain POST" (import-candidate-execution-repository.js, the guard of a start, and
\* findUnresolvedOtherHandoff under the candidate's lock).
OneUncertainRequest ==
    \A r, q \in Runs :
        /\ r # q
        /\ item[r].phase = "may_have_dispatched"
        /\ item[q].phase = "may_have_dispatched"
        => Answered(r) \/ Answered(q)

\* A preparation recorded as refused has sent nothing and never will, although its worker
\* may have stalled in front of the request (refusePreparation, closeAbandonedPreparation).
RefusedNeverSent ==
    \A r \in Runs :
        item[r].phase = "refused" =>
            /\ posts[r] = 0
            /\ \A p \in Procs : task[p][r].pc # "post"

\* A stored receipt is the provider's own answer: confirmed only if the files were
\* admitted, rejected only if all of them were refused (confirmDownloadHandoff).
ReceiptIsTrue ==
    \A r \in Runs :
        /\ item[r].receipt = "confirmed" => net[r] = "accepted"
        /\ item[r].receipt = "rejected" => net[r] = "refused"

\* A candidate is downloading only if the provider admitted the request of its newest run
\* (transitionDownloading with isCurrentOrigin).
DownloadingIsOwned ==
    cand.status = "downloading" => \E r \in Runs : IsOrigin(r) /\ net[r] = "accepted"

\* A run retired by closeAbandonedPreparation stays cancelled and refused, whichever late
\* claim, retry, recovery or lifecycle write still reaches for it (saveClosureFence).
ClosedIsFinal ==
    \A r \in Runs : runs[r].closed => runs[r].status = "cancelled" /\ item[r].phase = "refused"

\* the run was claimed for its last attempt by a process that never started it
Forsaken(r) == runs[r].status = "pending" /\ runs[r].claim = "stale" /\ ~runs[r].due

\* the candidate is no longer the row the preparation observed
CandidateChanged(r) == cand.status # "selected" \/ ~Observed(item[r].obs)

\* An undecided preparation is eventually refused or sent, whatever became of its worker,
\* so that it does not block the candidate's next run; excepted are a candidate that was
\* changed meanwhile and a run that no dispatcher claims (closeAbandonedPreparation).
AbandonedPreparationSettles ==
    \A r \in Runs :
        item[r].phase = "preparing" ~>
            (item[r].phase # "preparing" \/ CandidateChanged(r) \/ Forsaken(r))

\* A stored rejection stays stored: "a durable definitive rejection survives resume"
\* (docs/BATCH_DOWNLOAD_HANDOFF_OUTCOME.md:25).
RejectionSurvives ==
    [][\A r \in Runs : item[r].receipt = "rejected" => item'[r].receipt = "rejected"]_vars

Request == INSTANCE DownloadRequest WITH
    epoch <- [r \in Runs |-> item[r].phase],
    wire <- net,
    receipt <- [r \in Runs |-> item[r].receipt]

\* The handoff implements DownloadRequest: whichever worker, stalled worker, retry or
\* heartbeat acts, a run crosses the fence, sends and records as that specification allows.
ImplementsDownloadRequest == Request!Spec
=============================================================================
