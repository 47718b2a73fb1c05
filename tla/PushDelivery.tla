---------------------------- MODULE PushDelivery ----------------------------
(***************************************************************************)
(* The push notification queue of one user with one subscription: events   *)
(* that producers enqueue or coalesce into waiting rows, the delivery      *)
(* heartbeats that claim one row at a time and send it, and the            *)
(* registration that a "gone" answer of the push service invalidates.  All *)
(* events are of one type and, where they have one, one coalesce key.      *)
(*                                                                         *)
(* A producer call and the row it may insert have the same name.  A row is *)
(* written by single conditional statements; each is one step.  A claim    *)
(* draws a fresh claim_token and increments attempts in the same           *)
(* statement, so the claim is named by that number.                        *)
(*                                                                         *)
(* Database time is the state of two deadlines.  next_attempt_at is        *)
(* "waiting" or "due" for an unclaimed row; for a claimed one it is        *)
(* "ample" while the 15 s transport and the 5 s reserve fit, "short"       *)
(* after that and "due" once the claim has lapsed.  expires_at is "fresh"  *)
(* or "over"; its last second, which a delivery does not use, is "over".   *)
(***************************************************************************)
EXTENDS Integers

CONSTANTS
    Events,       \* calls of sendNotificationToUser
    Procs,        \* delivery heartbeats, one per application process
    MaxAttempts,  \* maxAttempts of the delivery worker
    FaultKinds,   \* "crash", "slow", "stall", "query_error"
    MaxFaults,    \* bound on the number of faults
    MaxMoves      \* bound on registrations and removals by the user

ASSUME PushAssumption ==
    /\ MaxAttempts \in Nat \ {0}
    /\ MaxFaults \in Nat
    /\ MaxMoves \in Nat

VARIABLES
    row,        \* [Events -> Row], notification_queue
    sub,        \* the subscription's row in user_push_subscriptions
    prod,       \* [Events -> Producer]
    task,       \* [Procs -> Task], the row a heartbeat is working on
    cleanups,   \* registrations with an invalidation under way
    took,       \* history: rows the push service accepted
    gone,       \* history: registrations the push service declared gone
    stored,     \* history: events that some row has carried
    stalled,    \* history: a claim lapsed under a worker that had passed its preflight
    faults, moves

vars == <<row, sub, prod, task, cleanups, took, gone, stored, stalled, faults, moves>>

ghosts == <<took, gone, stored, stalled>>

-----------------------------------------------------------------------------
Row == [status : {"absent", "pending", "sent", "failed", "expired", "deleted"},
        held : BOOLEAN,         \* claim_token is set
        attempts : Nat,
        next : {"waiting", "due", "ample", "short"},
        life : {"fresh", "over"},
        sub : Nat,              \* subscription_id
        payload : Events]

NoRow(e) == [status |-> "absent", held |-> FALSE, attempts |-> 0, next |-> "due",
             life |-> "fresh", sub |-> 0, payload |-> e]

\* id numbers the rows of the endpoint, reg its registration_tokens
Subscription == [state : {"absent", "active", "invalid"}, id : Nat, reg : Nat \ {0}]

Producer == [pc : {"new", "find", "update", "enqueue", "done", "skipped"},
             sub : Nat, ids : SUBSET Events]

Result == {"none", "sent", "expired", "retry", "failed"}

Idle == [pc |-> "idle"]

\* the claimed notification as the worker holds it: row, claim and payload, the
\* registration it will send to (0: none), whether the claim was ample at the preflight,
\* whether the service took the message, and the result
Delivery == [pc : {"prepare", "preflight", "post", "answer", "mark"}, id : Events,
             claim : Nat, payload : Events, reg : Nat, ample : BOOLEAN, taken : BOOLEAN,
             result : Result]

Task == {Idle} \cup Delivery

TypeOK ==
    /\ row \in [Events -> Row]
    /\ sub \in Subscription
    /\ prod \in [Events -> Producer]
    /\ task \in [Procs -> Task]
    /\ cleanups \subseteq Nat
    /\ took \subseteq Events
    /\ gone \subseteq Nat
    /\ stored \subseteq Events
    /\ stalled \in BOOLEAN
    /\ faults \in 0..MaxFaults
    /\ moves \in 0..MaxMoves

Init ==
    /\ row = [e \in Events |-> NoRow(e)]
    /\ sub = [state |-> "active", id |-> 1, reg |-> 1]
    /\ prod = [e \in Events |-> [pc |-> "new", sub |-> 0, ids |-> {}]]
    /\ task = [p \in Procs |-> Idle]
    /\ cleanups = {}
    /\ took = {}
    /\ gone = {}
    /\ stored = {}
    /\ stalled = FALSE
    /\ faults = 0
    /\ moves = 0

Fault(k) == k \in FaultKinds /\ faults < MaxFaults /\ faults' = faults + 1

-----------------------------------------------------------------------------
(* Producers: sendNotificationToUser.  One whose statement fails goes no   *)
(* further, as any producer may.                                           *)

ProducerGoes(e, pc, s, ids) == prod' = [prod EXCEPT ![e] = [pc |-> pc, sub |-> s, ids |-> ids]]

\* what the producer looked up is read no more
ProducerEnds(e, pc) == ProducerGoes(e, pc, 0, {})

\* listSubscriptionsForUser; without a subscription there is nothing to do
ProducerLists(e) ==
    /\ prod[e].pc = "new"
    /\ IF sub.state = "active" THEN ProducerGoes(e, "find", sub.id, {})
       ELSE ProducerEnds(e, "skipped")
    /\ UNCHANGED <<row, sub, task, cleanups, ghosts, faults, moves>>

\* Mutated form: any waiting row may be rewritten, claimed before or not
CoalescibleWhilePending(i) == row[i].status = "pending" /\ row[i].life = "fresh"

\* a pending row that was never claimed and is not over
Coalescible(i) ==
    /\ row[i].status = "pending"
    /\ ~row[i].held /\ row[i].attempts = 0
    /\ row[i].life = "fresh"

\* listPendingNotificationsForCoalesce, of the subscription; rows outside of the two-minute
\* window are left out, and an event without a coalesce key does not look for any
ProducerFinds(e) ==
    /\ prod[e].pc = "find"
    /\ \E ids \in SUBSET {i \in Events : Coalescible(i) /\ row[i].sub = prod[e].sub} :
          ProducerGoes(e, IF ids = {} THEN "enqueue" ELSE "update", prod[e].sub, ids)
    /\ UNCHANGED <<row, sub, task, cleanups, ghosts, faults, moves>>

\* Mutated form: the rows that were found count as updated
AllUpdatedAssumed(ids) == TRUE

\* the update reached every row it was meant for
AllUpdated(ids) == \A i \in ids : Coalescible(i)

Rewritten(r, e) == [r EXCEPT !.payload = e, !.life = "fresh"]

\* updatePendingNotificationPayload; if a claim won a row, the event is enqueued as well
ProducerUpdates(e) ==
    LET updated == {i \in prod[e].ids : Coalescible(i)}
    IN /\ prod[e].pc = "update"
       /\ row' = [i \in Events |-> IF i \in updated
                                   THEN Rewritten(row[i], e) ELSE row[i]]
       /\ stored' = IF updated = {} THEN stored ELSE stored \cup {e}
       /\ IF AllUpdated(prod[e].ids) THEN ProducerEnds(e, "done")
          ELSE ProducerGoes(e, "enqueue", prod[e].sub, {})
       /\ UNCHANGED <<sub, task, cleanups, took, gone, stalled, faults, moves>>

Queued(e, s) == [NoRow(e) EXCEPT !.status = "pending", !.sub = s]

\* enqueueNotification; the foreign key refuses a row for a removed subscription
ProducerEnqueues(e) ==
    /\ prod[e].pc = "enqueue"
    /\ IF sub.state = "absent" \/ sub.id # prod[e].sub
       THEN ProducerEnds(e, "skipped") /\ UNCHANGED <<row, stored>>
       ELSE /\ row' = [row EXCEPT ![e] = Queued(e, prod[e].sub)]
            /\ stored' = stored \cup {e}
            /\ ProducerEnds(e, "done")
    /\ UNCHANGED <<sub, task, cleanups, took, gone, stalled, faults, moves>>

-----------------------------------------------------------------------------
(* Delivery: deliverPendingNotifications and deliverNotification.          *)

\* the next attempt is due, or the row is over and unclaimed
Claimable(i) ==
    /\ row[i].status = "pending"
    /\ row[i].next = "due" \/ (~row[i].held /\ row[i].life = "over")

Claimed(r) == [r EXCEPT !.held = TRUE, !.attempts = @ + 1, !.next = "ample"]

\* the claimed row as the statement returns it
CopyOf(i) == [pc |-> "prepare", id |-> i, claim |-> row[i].attempts + 1,
              payload |-> row[i].payload, reg |-> 0, ample |-> FALSE, taken |-> FALSE,
              result |-> "none"]

\* claimPendingNotifications with limit 1: one row, a fresh token
Claim(p, i) ==
    /\ task[p] = Idle
    /\ Claimable(i)
    /\ row' = [row EXCEPT ![i] = Claimed(row[i])]
    /\ task' = [task EXCEPT ![p] = CopyOf(i)]
    /\ UNCHANGED <<sub, prod, cleanups, ghosts, faults, moves>>

\* Mutated form: any claim on the row will do
HoldsRow(t) == row[t.id].status = "pending" /\ row[t.id].held /\ row[t.id].next # "due"

\* the exact claim, not lapsed, on a pending row
Holds(t) ==
    /\ row[t.id].status = "pending"
    /\ row[t.id].held /\ row[t.id].attempts = t.claim
    /\ row[t.id].next # "due"

\* prepared to send to registration g, or not to send, with result s
Prepared(t, g, s) == [t EXCEPT !.pc = "preflight", !.reg = g, !.result = s]

\* prepareDelivery: the row's subscription is read, and the recipient's policy allows,
\* denies or cannot be evaluated; a subscription that cannot be read is a failure for good
Prepare(p) ==
    LET known == sub.state = "active" /\ sub.id = row[task[p].id].sub
        prepared(g, s) == task' = [task EXCEPT ![p] = Prepared(task[p], g, s)]
    IN /\ task[p].pc = "prepare"
       /\ \/ known /\ prepared(sub.reg, "none") /\ UNCHANGED faults
          \/ known /\ prepared(0, "retry") /\ UNCHANGED faults
          \/ prepared(0, "expired") /\ UNCHANGED faults
          \/ prepared(0, "failed") /\ Fault("query_error")
       /\ UNCHANGED <<row, sub, prod, cleanups, ghosts, moves>>

\* Mutated form: a claim with little time left still sends
AmpleEnough(t) == TRUE

\* the claim outlasts the transport and its completion
Ample(t) == row[t.id].next = "ample"

\* the worker has its result; what the delivery was about is read no more
Settled(t, s) == [t EXCEPT !.pc = "mark", !.reg = 0, !.taken = FALSE, !.result = s]

\* the preflight lets the delivery go on
Cleared(t) == [t EXCEPT !.pc = "post", !.ample = (row[t.id].next = "ample")]

\* getNotificationDeliveryBudget and what follows from it: a lost claim ends the work, an
\* expired row is not sent, nor is one whose claim is short
Preflight(p) ==
    LET t == task[p]
    IN /\ t.pc = "preflight"
       /\ task' = [task EXCEPT ![p] =
             IF ~Holds(t) THEN Idle
             ELSE IF row[t.id].life = "over" THEN Settled(t, "expired")
             ELSE IF t.reg = 0 THEN Settled(t, t.result)
             ELSE IF Ample(t) THEN Cleared(t)
             ELSE Settled(t, "retry")]
       /\ UNCHANGED <<row, sub, prod, cleanups, ghosts, faults, moves>>

Posted(t, b) == [t EXCEPT !.pc = "answer", !.taken = b]

\* sendNotificationToSubscription sends the request, and the service takes it or not; a
\* request that cannot be built in time, or at all, is not sent
Post(p) ==
    LET t == task[p]
    IN /\ t.pc = "post"
       /\ \/ \E b \in BOOLEAN :
                /\ task' = [task EXCEPT ![p] = Posted(t, b)]
                /\ took' = IF b THEN took \cup {t.id} ELSE took
          \/ /\ \E s \in {"failed", "retry"} : task' = [task EXCEPT ![p] = Settled(t, s)]
             /\ UNCHANGED took
       /\ UNCHANGED <<row, sub, prod, cleanups, gone, stored, stalled, faults, moves>>

\* Mutated form: a send without an answer counts as sent
AnswersOptimistic(t) == {"sent"}

\* a 2xx, a 404 or 410, a permanent failure, or a failure, a timeout or no answer at all,
\* which may hide that the service took the message
Answers(t) == IF t.taken THEN {"sent", "retry"} ELSE {"gone", "failed", "retry"}

\* the answer; a registration that is gone is invalidated in the background
Answer(p) ==
    LET t == task[p]
    IN /\ t.pc = "answer"
       /\ \E a \in Answers(t) :
             /\ task' = [task EXCEPT ![p] = Settled(t, IF a = "gone" THEN "expired" ELSE a)]
             /\ cleanups' = IF a = "gone" THEN cleanups \cup {t.reg} ELSE cleanups
             /\ gone' = IF a = "gone" THEN gone \cup {t.reg} ELSE gone
       /\ UNCHANGED <<row, sub, prod, took, stored, stalled, faults, moves>>

\* Mutated form: a retryable failure is retried without end
RetriesForever(t) == t.result = "retry"

\* getOutcome: a retryable failure is retried while attempts are left
Retries(t) == t.result = "retry" /\ t.claim < MaxAttempts

\* Mutated form: the result is stored as it came from the transport
OutcomeUnmapped(t) ==
    IF Retries(t) THEN [row[t.id] EXCEPT !.held = FALSE, !.next = "waiting"]
    ELSE [row[t.id] EXCEPT !.held = FALSE, !.next = "due", !.life = "over", !.status = t.result]

\* the row after the outcome of its claim; the deadlines of a settled row are forgotten
Outcome(t) ==
    IF Retries(t) THEN [row[t.id] EXCEPT !.held = FALSE, !.next = "waiting"]
    ELSE [row[t.id] EXCEPT !.held = FALSE, !.next = "due", !.life = "over",
                           !.status = IF t.result = "retry" THEN "failed" ELSE t.result]

\* a deleted row; what a late worker may still hold a copy of is kept
DeletedRow(i) == [NoRow(i) EXCEPT !.status = "deleted", !.payload = row[i].payload,
                                  !.sub = row[i].sub]

\* markNotificationSent or markNotificationFailed, if the claim still holds.  The
\* statement may fail, and may have been committed then.
Mark(p) ==
    LET t == task[p]
    IN /\ t.pc = "mark"
       /\ \/ /\ row' = IF Holds(t) THEN [row EXCEPT ![t.id] = Outcome(t)] ELSE row
             /\ UNCHANGED faults
          \/ /\ Fault("query_error")
             /\ row' = row \/ row' = IF Holds(t) THEN [row EXCEPT ![t.id] = Outcome(t)] ELSE row
       /\ task' = [task EXCEPT ![p] = Idle]
       /\ UNCHANGED <<sub, prod, cleanups, ghosts, moves>>

\* the budget cannot be read: the tick ends and the claim is left to lapse
PreflightThrows(p) ==
    /\ task[p].pc = "preflight"
    /\ Fault("query_error")
    /\ task' = [task EXCEPT ![p] = Idle]
    /\ UNCHANGED <<row, sub, prod, cleanups, ghosts, moves>>

\* the process dies; a message it has sent stays sent
Crash(p) ==
    /\ task[p] # Idle
    /\ Fault("crash")
    /\ task' = [task EXCEPT ![p] = Idle]
    /\ cleanups' \in {cleanups, {}}
    /\ UNCHANGED <<row, sub, prod, ghosts, moves>>

-----------------------------------------------------------------------------
(* The registration.                                                       *)

\* Mutated form: the endpoint alone names the registration
SameRegistrationByEndpoint(g) == sub.state = "active"

SameRegistration(g) == sub.state = "active" /\ sub.reg = g

\* invalidateSubscriptionRegistration, or its failure, which is only reported
Invalidate(g) ==
    /\ g \in cleanups
    /\ cleanups' = cleanups \ {g}
    /\ \/ sub' = IF SameRegistration(g) THEN [sub EXCEPT !.state = "invalid"] ELSE sub
       \/ UNCHANGED sub
    /\ UNCHANGED <<row, prod, task, ghosts, faults, moves>>

\* upsertSubscription: every registration draws a new token
Register ==
    /\ moves < MaxMoves
    /\ moves' = moves + 1
    /\ sub' = [state |-> "active", reg |-> sub.reg + 1,
               id |-> IF sub.state = "absent" THEN sub.id + 1 ELSE sub.id]
    /\ UNCHANGED <<row, prod, task, cleanups, ghosts, faults>>

\* deleteSubscription, with the rows that refer to it
Unsubscribe ==
    /\ moves < MaxMoves
    /\ moves' = moves + 1
    /\ sub.state # "absent"
    /\ sub' = [sub EXCEPT !.state = "absent"]
    /\ row' = [i \in Events |-> IF row[i].status = "absent" THEN row[i]
                                ELSE DeletedRow(i)]
    /\ UNCHANGED <<prod, task, cleanups, ghosts, faults>>

\* deleteTerminalNotificationHistory
DeleteHistory(i) ==
    /\ row[i].status \in {"sent", "failed", "expired"}
    /\ ~row[i].held
    /\ row' = [row EXCEPT ![i] = DeletedRow(i)]
    /\ UNCHANGED <<sub, prod, task, cleanups, ghosts, faults, moves>>

-----------------------------------------------------------------------------
(* Time.                                                                   *)

\* the workers with the row's newest claim
Workers(i) ==
    {p \in Procs : task[p] # Idle /\ task[p].id = i /\ task[p].claim = row[i].attempts}

\* next_attempt_at comes nearer.  A claim lapses under its worker only if the database is
\* slow, or, after an ample preflight, if the worker loses the reserve of 5 s: a request
\* ends within its 15 s.
NextAttemptNears(i) ==
    /\ row[i].status = "pending"
    /\ \/ /\ row[i].next = "ample"
          /\ row' = [row EXCEPT ![i].next = "short"]
          /\ UNCHANGED <<stalled, faults>>
       \/ /\ row[i].next \in {"short", "waiting"}
          /\ row' = [row EXCEPT ![i].next = "due"]
          /\ IF Workers(i) = {} \/ ~row[i].held THEN UNCHANGED <<stalled, faults>>
             ELSE IF \E p \in Workers(i) : task[p].ample THEN Fault("stall") /\ stalled' = TRUE
             ELSE Fault("slow") /\ UNCHANGED stalled
    /\ UNCHANGED <<sub, prod, task, cleanups, took, gone, stored, moves>>

\* expires_at passes
LifeEnds(i) ==
    /\ row[i].status = "pending"
    /\ row[i].life = "fresh"
    /\ row' = [row EXCEPT ![i].life = "over"]
    /\ UNCHANGED <<sub, prod, task, cleanups, ghosts, faults, moves>>

-----------------------------------------------------------------------------
Produce(e) == ProducerLists(e) \/ ProducerFinds(e) \/ ProducerUpdates(e) \/ ProducerEnqueues(e)

Deliver(p) == Prepare(p) \/ Preflight(p) \/ Post(p) \/ Answer(p) \/ Mark(p)

Next ==
    \/ \E e \in Events : Produce(e) \/ DeleteHistory(e) \/ NextAttemptNears(e) \/ LifeEnds(e)
    \/ \E p \in Procs : \/ Deliver(p) \/ PreflightThrows(p) \/ Crash(p)
                        \/ \E i \in Events : Claim(p, i)
    \/ \E g \in cleanups : Invalidate(g)
    \/ Register
    \/ Unsubscribe

Spec == Init /\ [][Next]_vars

-----------------------------------------------------------------------------
(* Properties.                                                             *)

\* A row that was queued for delivery is recorded as sent only if the push service accepted
\* it (markNotificationSent).
SentIsTrue == \A i \in Events : row[i].status = "sent" => i \in took

\* A claim ends by its own worker's outcome or by a newer claim, never by the late outcome
\* of an older one: "the old worker can overwrite the new worker's retry or terminal" state
\* is what the tokens of docs/PUSH_QUEUE_CLAIM_FENCING_DESIGN.md rule out.
ClaimIsOwn ==
    \A p \in Procs :
        task[p] # Idle => LET i == task[p].id
                          IN task[p].claim = row[i].attempts => row[i].held

\* What a worker sends is what its row says, however late it sends it: a payload that was
\* coalesced into a row, and reported as updated, is not overtaken by a copy claimed before
\* ("Claimed payloads are immutable", docs/PUSH_QUEUE_CLAIM_FENCING_OUTCOME.md).
ClaimedPayloadKept ==
    \A p \in Procs : task[p] # Idle => task[p].payload = row[task[p].id].payload

\* An event whose producer finished was stored in some row, also when a claim won the race
\* for the row it was to be coalesced into (sendNotificationToUser).
EventKept == \A e \in Events : prod[e].pc = "done" => e \in stored

\* Two workers send one row at the same time only if one of them lost the reserve of its
\* claim (PUSH_TRANSPORT_TIMEOUT_MS + PUSH_COMPLETION_RESERVE_MS at the preflight).
OneSender ==
    ~stalled => \A p, q \in Procs :
                   /\ task[p].pc \in {"post", "answer"} /\ task[q].pc \in {"post", "answer"}
                   /\ task[p].id = task[q].id
                   => p = q

\* A row is claimed, and so sent, at most maxAttempts times, and once more for each crash,
\* stall or failed statement that lost an outcome (getOutcome, claimPendingNotifications).
SendsBounded == \A i \in Events : row[i].attempts <= MaxAttempts + faults

\* A registration is invalidated only if the push service declared this very registration
\* gone; one renewed while the answer was on its way survives
\* (invalidateSubscriptionRegistration).
InvalidIsGone == sub.state = "invalid" => sub.reg \in gone

Notification == INSTANCE NotificationLifecycle WITH
    phase <- [i \in Events |-> IF row[i].status # "pending" THEN row[i].status
                               ELSE IF row[i].held THEN "held" ELSE "waiting"],
    claims <- [i \in Events |-> row[i].attempts],
    payload <- [i \in Events |-> row[i].payload],
    accepted <- took

\* The queue implements NotificationLifecycle: of every interleaving of producers, workers,
\* late outcomes and the user, each row sees only what its life allows.
ImplementsNotificationLifecycle == Notification!Spec
=============================================================================
