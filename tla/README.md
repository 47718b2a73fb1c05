# Harmoniarr: formal model of the background engine

Harmoniarr is one Node.js process in front of one PostgreSQL database. Almost
everything it does for a user happens later, in the background: a service writes
a row to `operation_runs`, a dispatcher claims the row, a worker executes it under
a lease, and heartbeats repair what crashes left behind. The modules here model
that engine, the shutdown of the process, and the two places where the engine talks
to somebody who cannot be rolled back: the handoff of a download to slskd and the
delivery of push notifications. They are checked with TLC on small instances and,
for the central invariants, proved with TLAPS for all of them.

Paths below are relative to `src/src/server/` unless they begin with `docs/` or `test/`.

## Inventory

| Component | State | Operations | What makes it correct |
|---|---|---|---|
| Job leases (`job-lease-store.js`) | one row per lease key: acquisition id, owner, expiry, release | acquire, renew, release | at most one acquisition is current; an old one changes nothing |
| Operation-run queue (`operation-queue-store.js`, `operation-run-store.js`, `operation-run-owned-lifecycle-store.js`) | one row per run: status, attempts, claim, due time, cancellation | create, claim, start, complete, fail/retry, cancel, pause, recover, operator retry | budget kept, one running run per type, no run lost, ended runs stay ended |
| Dispatcher (`operation-queue-dispatcher.js`) | the tick in progress | recover stranded runs, sweep artists, claim and launch | claims only while admitted; launches what it claimed |
| Queue workers (`library/library-scan-worker.js` and its siblings) | task registry, lease, heartbeat | acquire, check, start, work, settle, release | writes only while it owns the lease |
| Run control (`operation-run-control-service.js`) | none between requests | cancel, retry (read, then write) | only admissible runs are changed |
| Maintenance locks (`recovery/maintenance-lock-*.js`) | lock rows | acquire, release, expire | the engine pauses and resumes without losing attempts |
| Dispatcher lifetime, supervisor (`operation-dispatcher-lifetime.js`, `startup-service-supervisor.js`, `startup-runtime.js`) | two task registries, shutdown promise | tick, launch, stopAndDrain, shutdown | everything admitted is awaited before the pool closes |
| Download handoff (`import-candidates/import-execution-*.js`) | execution item, handoff, preparation epoch, candidate status | start, prepare, refuse, stage, cross the fence, POST, confirm, close | never a second POST of one run, never one in doubt beside another, records that agree with the provider |
| Reconciliation and music-queue recovery (`import-candidates/`) | candidate and recovery rows | observe transfers, adopt, retry elsewhere | one successor per failed download |
| Library, discovery, wanted releases, requests, organize (`library/`) | catalogue, requests, file mutations | scan, search, reconcile, move files | derived state follows its sources; no file lost |
| Metadata and artists (`metadata/`) | projections, provider caches | refresh, reconcile, publish | a stale snapshot is never published |
| Push and notifications (`push/`) | delivery queue with claim tokens, subscription with registration token | enqueue, coalesce, claim, send, settle, prune, register, invalidate | bounded at-least-once sending, fenced settles, no event lost to coalescing |
| Backups, restore, admin recovery (`recovery/`) | artifact files and their journal, recovery runs | publish, verify, delete, restore | file and row agree after a crash |
| Sessions and accounts (`session-*.js`, ...) | refresh-token families | issue, rotate, revoke on replay | one live token per family |
| Work admission (`work-admission.js`, `artwork/*admission*`) | active weight, waiting queue | submit, expire, cancel, finish | bounded, no capacity lost |
| Migrations, routes, validators, read models, client | - | - | not modelled |

How they interact: services and heartbeats create runs; the dispatcher shares the
database with every worker and with the operators' HTTP requests; a worker talks to
its own run only through transactions that check its lease; maintenance locks are
read by the dispatcher and by every worker between phases; on a signal the
supervisor stops the heartbeats and the dispatcher before server, owners and pool.

Hard behaviour: every `await` is an interleaving point, and the status read before
it is stale after it; leases and claims time out under workers that are only slow;
statements fail, or commit without an acknowledgement; the process dies between any
two statements; and shutdown runs against all of that. `PROJECT.json` lists the
places under "hazards".

The supported topology is one process (docs/DOCKER_DEPLOYMENT.md). The engine is
written for more (leases, `SKIP LOCKED`), and a restart is a second process as far as
old leases are concerned, so the number of processes is a parameter.

## Modules

    JobLeases  <--  OperationRuns  <--  MCOperationRuns
                         |    ^-------  OperationRunsProofs  <--  OperationRunsFencing
                         |                                          ^--  OperationRunsOutcome
                         +--> RunLifecycle  (INSTANCE: the abstract specification)
    JobLeases  <--  DownloadHandoff  <--  MCDownloadHandoff
                         |    ^--  DownloadHandoffProofs  <--  DownloadHandoffSafety
                         +--> DownloadRequest  (INSTANCE)
    PushDelivery        <--  MCPushDelivery
                        |    ^--  PushDeliveryProofs  <--  PushDeliveryClaims
                        +--> NotificationLifecycle  (INSTANCE)
    DispatcherShutdown  <--  MCDispatcherShutdown
                        |    ^--  DispatcherShutdownProofs
                        +--> Drain  (INSTANCE)

**JobLeases.** `lease[r]` is the row with key `<type>:<r>`. The random acquisition id
becomes a number that counts the acquisitions of the key, so "fresh" means "larger".
`Owns` is `isCurrentJobLeaseAcquisition`. Renewal is the absence of expiry.

**OperationRuns.** One step per SQL statement or transaction.
`runs` is the table, with timestamps reduced to what the WHERE clauses distinguish:
`claim` is none, fresh or older than the claim timeout; `due` is now, after a
backoff, or when a maintenance lock expires; `cancel` is the pair
`cancel_requested_at`, `cancelled_at`. `disp[p]` is the progress of a tick with what
`recoverStrandedRuns` remembers between its reads and its write; `task[p][r]` is
the worker, at the next statement it will execute; `ctl[o]` an operator's request
between its read and its write. `ClaimRun` is `claimNextRunnableRun` plus the launch,
`RecoverRun` is `recoverStrandedRun`, `Mark` every `withOwnedRun` + `writeLifecycle`
transaction, `Acquire`/`Release` the lease, `CheckInterruption` the gate of
`operation-run-cancellation.js`. The worker is `library-scan-worker.js`; the phases
between start and completion are one repeated step, `WorkWrites`, that writes under
the lease or finds it lost. `writer` and `spent` are history variables.

Faults are of named kinds and counted: a crash, a failing statement, a lost
acknowledgement, a worker slower than the claim timeout or than a retry backoff, a
stalled renewal, a fast application clock.

**RunLifecycle.** The promise: queued, running, done; only the current holder of the
lease moves a run, unless nobody holds it; done is left only by an operator.

**DispatcherShutdown.** One process, from the first tick to the closed pool, at the
granularity of awaits: `tick` is the query the tick awaits, `task` the registry of
launched runs, `working` the workers, `retained` the failures that a registry keeps
for its `close()`. `drain` and `shutdown` are the progress of `stopAndDrain` and of
the signal handler. Workers outside `Owned` return no completion
(`artwork/artwork-cleanup-worker.js`); nothing awaits them and nothing is promised
about them.

**Drain.** The promise of that lifetime, without registries, queries and sequence: ticks
begin only while the dispatcher is open; a tick that launches a run while it closes does
nothing after that; a run stays until it settles, even if it is claimed again meanwhile;
it is closed only when no tick and no run is left.

**DownloadHandoff.** The runs that an administrator starts for one import candidate,
with their workers, the leases of JobLeases and the reconciliation heartbeat.
`item[r]` is the handoff part of the run's item: `state` and, for the preparation
epoch, `phase`, the lease acquisition that began it and the candidate revision it
observed. `cand` is the candidate's row; `rev` stands for `updated_at` and the other
observed fields, `source` for the revision at which the physical source last changed.
`origin` is the newest run of the candidate. A worker goes through `Acquire`, `Start`,
`Load`, `Look`, `Begin` (`beginPreparation`), `Stage` (`prepareDownloadHandoff`), `Guard`
and `Fence` (the `beforeSend` callback with `markDispatchPossible`), `Post`, `Answer`,
`Confirm`; a resumed one asks for `Evidence_` instead. `RefuseThen` is the catch block in
front of the boundary. What `Load` read (`seen`, `receipt`) is what `Look` and `Evidence_`
decide with, as the worker decides with the item it loaded. `Mark` is the lifecycle
write at the end: when its statement fails, or commits without an acknowledgement, the
catch block turns a completion into a failure, and an error of the catch block itself
leaves only the release of the lease. `ConfirmHandoff` is `confirmDownloadHandoff`, used by the worker
and by the heartbeat (`Recon...`), which also closes abandoned preparations. `net[r]` is
the provider's side, external: a request is sent, lost, accepted or refused; a batch
look-up can prove an acceptance and never a rejection. `posts` is a history variable.
A start request and a retry are split in a check and a later write, as in the code.
The queue is the one of OperationRuns, reduced to what these runs use
(`max_attempts` 1, no maintenance lock).

**DownloadRequest.** The promise of the handoff, without workers, leases and the queue:
per run an epoch (preparing, refused, or past the point of no return), the request on the
wire and the receipt. A request is sent once, and only past that point; no run passes it
while another one's request is in doubt; a refusal may be followed by a new preparation;
and a receipt says no more than the provider did.

**PushDelivery.** One user, one endpoint. `row[e]` is the row that producer call `e` may
insert; a claim is named by the value of `attempts` that it writes, which is as unique
as the random token. `next` and `life` are the states of the deadlines
`next_attempt_at` and `expires_at` as the statements compare them; `NextAttemptNears`
and `LifeEnds` move them. A producer lists subscriptions, looks for waiting rows,
updates them and enqueues what is left (`Producer...`); a worker claims, prepares,
checks its budget, posts, reads the answer and marks the row (`Claim` to `Mark`). The
push service is external: it takes a message or not, and its answer may be lost.
`sub.reg` counts registration tokens; `Invalidate` is the background clean-up after a
404 or 410. `took`, `gone`, `stored`, `stalled` are history variables.

**NotificationLifecycle.** The promise of the queue for each notification, without workers,
tokens and deadlines: it waits, is held by a claim, waits again while an attempt is left,
and ends once; its payload is replaced only before the first claim; it is sent only if
the push service accepted it. Late sends of a lapsed claim are allowed, as in the code.

## Runs

| Run | Instance | Shows |
|---|---|---|
| engine_faults | 1 run, 1 process, 1 operator, 3 faults of any kind, 2 pauses, budget up to 3, with fairness | `WithinBudget`, `StrandedCancelHonoured`, `TypeOK`; `RunningResolves`, `QueuedIsTried`, `CancelEndsRun` |
| engine_processes | 1 run, 2 processes, 2 faults of any kind | `OneOwner`, `TokensOrdered`, `WritersFenced`, `OwnerDecides` |
| engine_two_runs | 2 runs of one type, 2 faults, no slow start, no lost acknowledgement | `OneRunningPerType` |
| engine_refines | 1 run, 1 process, 1 operator, 3 faults, no lost acknowledgement | `ImplementsRunLifecycle`, `CompletedIsFinal`, `RetryOnlyUnsuccessful` |
| shutdown | 2 runs (one detached), 1 request, with fairness | the seven properties of DispatcherShutdown, and the refinement `ImplementsDrain` |
| handoff_two_runs | 2 runs, 2 processes, 1 fault (crash, stall, network), 1 move (reopen, reingest) | `OneUncertainRequest`, `ReceiptIsTrue`, `DownloadingIsOwned`, `TypeOK`, and the refinement `ImplementsDownloadRequest` |
| handoff_one_run | 1 run, 2 processes, 2 faults of any kind, 1 move of any kind, with fairness | `OnePostPerRun`, `RefusedNeverSent`, `ClosedIsFinal`; `AbandonedPreparationSettles` |
| push | 2 events, 2 workers, 2 attempts, 1 fault of any kind, 1 move of the user | `SentIsTrue`, `ClaimIsOwn`, `ClaimedPayloadKept`, `EventKept`, `OneSender`, `SendsBounded`, `InvalidIsGone`, `TypeOK`, and the refinement `ImplementsNotificationLifecycle` |
| lost_claim | 1 run, 1 crash | violation, see findings |
| double_retry | 1 run, 2 operators, no fault | violation, see findings |
| discarded_claim | 1 run, 1 operator, no fault | violation, see findings |
| lost_rejection | 1 run, 1 process, no fault | violation, see findings |

Why the bounds are enough to be interesting: runs meet only in the claim query, whose
clause is about pairs, so two runs show every interaction and one suffices elsewhere;
two processes and two faults give a takeover plus one more surprise (a stall and a
late write, a crash and a skewed clock); a budget of three lets an operator retry
after the automatic attempts are used. `MaxPauses` counts maintenance locks, and
pauses that end under a lock, because a pause refunds its attempt and could
otherwise repeat for ever. `AttemptCap` bounds operator retries.

The handoff's conditions speak of one run and of any other run of the candidate, so two
runs show every relation between runs; what concerns a single run is checked with more
faults. Two processes let a stalled worker and its successor act on the same run. The
instances reach the cases that matter: a worker that stalls in front of the fence while
the closure, a retry or a second run overtakes it, a lost request followed by a retry,
a receipt that comes after a new ingestion.

A push row meets one other actor at a time (a producer that coalesces into it, a second
worker that claims it), which two events and two workers cover; two attempts give a
retry and an exhausted row; the move is a removal, or a new registration while an
answer is on its way. `MaxMoves`, `MaxRequests` and `MaxFaults` bound what would otherwise
be unbounded counters. The theorems below remove these bounds for all the invariants
of both modules.

Exclusions, and why they are there. `OneRunningPerType` is not promised when a worker
needs longer than the claim timeout to start: the claim query then admits another run,
and both start. `CompletedIsFinal` and the refinement are not promised when the
acknowledgement of a commit is lost: the worker's catch block writes a failure over
the completed row. `WithinBudget` and the refinement are checked with one operator:
two concurrent retries can write a maximum that is already used up (double_retry).
`RetryOnlyUnsuccessful` holds with one operator, since nobody else moves a failed or
cancelled run between the read and the write of its retry; double_retry refutes it with two.
`AbandonedPreparationSettles` excepts a candidate whose row changed after the
preparation observed it (the closure is fail-closed then) and a run whose last claim
was lost (the case of lost_claim). `OneSender` is not promised to a worker that stalls
for longer than the reserve of its claim after the preflight.

Fairness. The dispatcher's ticks recur on a timer, a launched worker goes on until its
promise settles, clocks advance; each of these is weakly fair. A lease expires and a
claim times out for certain only when no live worker keeps them, so the fair part of
those actions excludes the faults. Operators, faults, new runs and maintenance locks are not
fair. A restore lock has no expiry, so the liveness properties exempt behaviours in
which a lock is never lifted. In DispatcherShutdown queries answer, workers and
requests finish and the signal handler goes on; ticks and signals need not happen. In
DownloadHandoff the same timers and workers are weakly fair, and the provider answers
what it received; the heartbeat's choice of an item is strongly fair, because every
tick works through all unconfirmed items but a failing or busy tick may miss one.
Administrators, transfers and faults are not fair.

## Findings

* **lost_claim.** The claim consumes the attempt. A crash between the claim of the
  last attempt and `markRunStarted` leaves a pending run that is not claimable
  (`attempt_count < max_attempts`), not listed by recovery (`status = 'running'`) and
  not retryable by the operator. docs/harmoniarr.md: "crashed or expired ownership
  should be recoverable without manual database surgery".
* **double_retry.** `scheduleRetry` has no condition on the status, so the second of
  two concurrent retries rewrites a run that is queued, claimed or running by then.
* **discarded_claim.** A run that is claimed again while its previous task still
  drains the lease is not launched: the task registry returns the old promise. The
  attempt is spent, and the claim has to time out. docs/DISPATCHER_LIFETIME_DESIGN.md:
  "Do not discard committed claims".
* **lost_rejection.** `confirmDownloadHandoff` lets the caller's evidence replace the
  stored receipt unless the handoff is already confirmed. A heartbeat that read the
  item while the POST was unanswered therefore overwrites the rejection that the worker
  stored in between with the unknown result of its own batch look-up. A look-up never
  proves a rejection, so the item stays unresolved, and a reopened candidate cannot be
  started again. docs/BATCH_DOWNLOAD_HANDOFF_OUTCOME.md: "a durable definitive rejection
  survives resume without an unnecessary batch lookup".

## Proofs

All for any sets of runs, processes, operators and events, any bounds and any set of
fault kinds, from `BoundsAssumption` (the bounds are naturals, budgets positive),
`ShutdownAssumption`, `HandoffAssumption` or `PushAssumption`, and without further
hypotheses except for `OperationRunsOutcome`.

* `OperationRunsProofs!TypeCorrect`: `TypeOK` is inductive. One step per action; lemmas
  type the row-valued operators (`Recovered`, `Lifecycle`, ...) once.
* `OperationRunsFencing`: the inductive invariant is `TypeOK /\ TokensOrdered`. `OneOwner`
  alone is not inductive: that a newly granted acquisition is new needs that no worker
  holds a number beyond the row's. The lemma behind the preservation says that each
  action changes leases, tokens and the last writer of a run in one of a few ways:
  nothing, a grant of the next number to one process, the end of a lease, tokens
  dropped, an accepted write by the owner. From it follow `AcquisitionsOrdered`,
  `SingleOwner`, `StaleWritersFenced` (an action property), and, by a case split over
  the actions, `OnlyOwnerEnds`.
* `OperationRunsOutcome` is about what becomes of a run. All of it rests on one lemma,
  `StepChanges`: a step changes at most one run, in one of nine ways (created, aged,
  reclaimed by recovery, its lease expired, retried by an operator, taken by a claim,
  written by its worker, a lease granted, a worker moved on), and a crash only drops
  workers. The theorems, each with the hypotheses it needs:
  * `StartsArePaid`, `BudgetIsKept` (`Procs` finite; the second also `OneOperator`).
    `WithinBudget` is not inductive: the start of a run does not look at `attempt_count`.
    `Paid` does the accounting: the starts that were not refunded and the workers that
    were launched and have not started yet together never exceed `attempt_count`, because
    every claim pays for the worker it launches, whatever becomes of claim and worker. That
    holds for any operators; that `attempt_count` stays within `max_attempts` needs one
    operator, because of two retries the one that read the run first may write last and
    lower the maximum again (double_retry).
  * `StrandedCancelKept`, `RetryIsOfUnsuccessful`, `CompletedStays`, `OneRunPerType`,
    `EngineImplementsLifecycle` (`OneProcess`, the supported topology, and `OneOperator`;
    `CompletedStays` and the refinement also without a lost acknowledgement,
    `OneRunPerType` without a slow start). Their invariant is `HandledInv`: a worker that has
    not started its run finds it pending, under a claim that is still fresh unless
    starts are slow; the owner of a run that is over has only its lease left to release;
    and the run of a retry in flight is still failed or cancelled. It fails with two
    processes, because a worker that stalls past the claim timeout in front of its failure
    write may mark a run that another process has claimed; with two operators
    (double_retry); and for completed runs when the acknowledgement of the completion is
    lost, because the catch block then marks the run failed. `OneRunPerType` adds
    that a fresh claim or a running row keeps every other run of its type from being
    claimed.
* `DispatcherShutdownProofs`: the inductive invariant `Sequenced` relates the progress of
  the drain and of the signal handler to what may still be in flight: from "runs" on no
  tick, from "resolved"/"rejected" on no launched run, from "owners" on no request, and
  owned workers only under a registered task. It implies `TypeOK`, `PoolOutlivesWork`,
  `DrainedMeansQuiet`, `HandoffNeverRefused`, `OneLateLaunch` and `FailurePrecedence`.
  `DispatcherImplementsDrain` is the refinement of Drain, step by step under `Sequenced`: a
  claim can be mapped to a launch only because the registry of runs is still open
  while any tick is in progress.
* `DownloadHandoffProofs!HandoffTypeCorrect`: `TypeOK` is inductive.
* `DownloadHandoffSafety`: the inductive invariant `HandoffInv` is `TypeOK`, `SentOnce`,
  `EvidenceTrue` and `OneUncertainRequest`. `SentOnce` ties the run's history to its
  epoch: nothing was sent, and no worker stands at the POST, before the phase is
  `may_have_dispatched`; after that, the sends and the worker in front of the POST
  together are at most one. The argument needs no lease and no clock: an epoch crosses
  to `may_have_dispatched` in one transaction, once, and only the worker that made it
  cross goes on to the POST. `EvidenceTrue` carries the provider's answer through the worker's
  and the heartbeat's local state into the receipt. `OneUncertainRequest` is preserved by
  the fence because `findUnresolvedOtherHandoff` sees every other item under the
  candidate's lock, and an item that it takes for resolved has a true receipt. From
  `HandoffInv` follow `RequestSentOnce`, `RefusedIsUnsent`, `ReceiptsAreTrue` and
  `UncertaintyIsExclusive`. `DownloadingIsOwned` is inductive relative to it (a new
  origin needs a selected candidate, and only a true receipt of the origin makes it
  downloading), `ClosedIsFinal` relative to `TypeOK`. `HandoffImplementsRequest` maps every
  step under `HandoffInv` to one of DownloadRequest: the fence to its `Cross`, whose
  condition on the other runs is what the fence's query establishes, and every write of
  a receipt, the worker's and the heartbeat's, to a `Record` of the truth.
* `PushDeliveryProofs`: `TypeOK` is inductive together with `ResultKnown` (a worker that
  marks has a result). `RecordInv` adds that a worker's belief in a send, a pending
  clean-up and a producer's update have a cause; it gives `SentWasAccepted`,
  `InvalidWasGone` and `FinishedIsStored`.
* `PushDeliveryClaims`: `ClaimInv` says that a worker's claim is not ahead of its row, that
  two workers never share a claim, and that a claimed row cannot be coalesced into; it
  gives `OutcomeIsOwn` and `SentPayloadIsCurrent`. `ClearInv` adds that a worker past an ample
  preflight holds the row's newest, unexpired claim as long as nobody stalled
  (`OneSenderAtATime`). `BoundInv` adds that an unclaimed waiting row has an attempt left,
  and that a claim without a worker has cost a fault (`SendsAreBounded`).
  `QueueImplementsLifecycle` needs `ClaimInv` (whose claim an outcome ends, that what is sent
  was claimed), `RecordInv` (that a worker's "sent" was accepted) and `AbsentIsNew`.

Only model-checked: the liveness properties (`RunningResolves`, `QueuedIsTried`,
`CancelEndsRun`, `ShutdownEnds`, `AbandonedPreparationSettles`), because fairness is outside
the prover's reach; and the four violations, which are counterexamples. Every other
property of a run is a theorem. Where a theorem has a hypothesis, the run has it too,
as the number of its processes or operators or as a fault kind left out of it; the
engine's runs with two processes check what holds without `OneProcess`.

## Not modelled, and the plan

Left out of what is modelled: deletion of old runs; the several types of maintenance
lock; the artist sweep inside a tick (its errors are dropped); how long anything
takes beyond the orderings above; log and audit rows. In DownloadHandoff: runs over a
queue of candidates, recovery scopes and successors chosen by music-queue recovery,
adoption of a download by an operator, the legacy protocol without batch ids, the
ledger of transfer links, and what the transfers do once they are confirmed
(`TransferEnds` is one step). In PushDelivery: preferences and the operator fan-out, which
decide whether a producer call happens; the cooldown of household broadcasts
(`notification-broadcast-service.js`), whose `recordSentNotification`
(`push-notification-queue-store.js:230`) inserts a history row that is "sent" from the
start, after the broadcast was enqueued and whether or not it is ever delivered. No
statement of the delivery queue touches such a row except retention, so `SentIsTrue`
speaks of the rows that were queued; encryption, DNS and the transport; the pruning
of old subscriptions; several subscriptions, which share nothing but the producer. That
a pending push row is eventually settled is not checked: a heartbeat claims every due
row, and each claim ends or lapses, but the fair instance is too large without
symmetry.

Of the other components, most of the code is out of a model checker's reach for lack of
state that interleaves: presentation (client, routes, validators, read models),
provider parsing and scoring heuristics, file-system and ffmpeg work, SQL migrations.
Their background parts run under the worker skeleton that OperationRuns models.

What would come next, in this order:

1. `WorkAdmission`: the bounded, weighted queue with timeouts and cancellation.
2. `SessionRotation`: two refreshes of one session under the family lock.
3. `MusicQueueRecovery` on top of DownloadHandoff; `DiscoveryDispatch`.
4. `BackupArtifacts` and `OrganizeMutation`: file system and journal across a crash.
5. `AdminRecovery`, the spectral job claim, ledger retention against operator retry.

Theorems worth proving next: a form of `HandledInv` for several processes, weak enough to
allow the late failure write, and what it still promises; that only the crash or the
failed statement of lost_claim leaves a queued run that nothing can claim; and the
invariants of the modules above.
