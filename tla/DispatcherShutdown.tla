------------------------- MODULE DispatcherShutdown -------------------------
(***************************************************************************)
(* The life of one process's dispatcher, from the first tick to the end of *)
(* a supervised shutdown: the two task registries of                       *)
(* operation-dispatcher-lifetime.js (ticks and launched runs), the         *)
(* admission checks of dispatchTick, and the sequence that the signal      *)
(* handler of startup-runtime.js runs: stop the other services, drain the  *)
(* dispatcher, close the HTTP server, drain the worker owners, close the   *)
(* database pool.                                                          *)
(*                                                                         *)
(* One step is what runs between two awaits.  The database is outside: a   *)
(* query of the tick answers with any run, with none, or with an error.    *)
(***************************************************************************)
EXTENDS Naturals

CONSTANTS
    Runs,           \* run ids that claimNextRunnableRun may return
    Owned,          \* the ones whose worker hands its completion to the dispatcher
    MaxRequests     \* bound on the HTTP requests in flight

ASSUME ShutdownAssumption == Owned \subseteq Runs /\ MaxRequests \in Nat

VARIABLES
    tick,       \* the query that the admitted tick awaits, or "none"
    task,       \* [Runs -> TaskState], the registry of launched runs
    working,    \* runs whose worker is at work
    retained,   \* registries that retain a failure for their close()
    drain,      \* the progress of stopAndDrain
    cause,      \* the failure that stopAndDrain will reject with
    requests,   \* HTTP requests in flight
    shutdown,   \* the progress of the signal handler
    refused,    \* history: a committed claim that the closed registry refused
    late        \* history: launches since stopAndDrain began, counted up to 2

vars == <<tick, task, working, retained, drain, cause, requests, shutdown, refused, late>>

TickState == {"none", "readiness", "recovery", "artists", "claim"}

TaskState == {"none", "handler", "completion"}

DrainState == {"open", "ticks", "runs", "resolved", "rejected"}

\* "failed": the handler has reported an error and left the rest of the sequence out
ShutdownState == {"up", "services", "dispatcher", "server", "owners", "pool", "done", "failed"}

TypeOK ==
    /\ tick \in TickState
    /\ task \in [Runs -> TaskState]
    /\ working \in SUBSET Runs
    /\ retained \in SUBSET {"tick", "run"}
    /\ drain \in DrainState
    /\ cause \in {"none", "tick", "stop", "run"}
    /\ requests \in 0..MaxRequests
    /\ shutdown \in ShutdownState
    /\ refused \in SUBSET Runs
    /\ late \in 0..2

Init ==
    /\ tick = "none"
    /\ task = [r \in Runs |-> "none"]
    /\ working = {}
    /\ retained = {}
    /\ drain = "open"
    /\ cause = "none"
    /\ requests = 0
    /\ shutdown = "up"
    /\ refused = {}
    /\ late = 0

-----------------------------------------------------------------------------
(* Ticks.                                                                  *)

\* Mutated form: the timer's tick is not refused when closing
TickStartsAlways ==
    /\ tick = "none"
    /\ tick' = "readiness"
    /\ UNCHANGED <<task, working, retained, drain, cause, requests, shutdown, refused, late>>

\* lifetime.tick: refused when closing, and while another tick is in progress
TickStarts ==
    /\ drain = "open"
    /\ tick = "none"
    /\ tick' = "readiness"
    /\ UNCHANGED <<task, working, retained, drain, cause, requests, shutdown, refused, late>>

\* Mutated form: admission is checked at the start of a tick only
AdmitsAlways == TRUE

\* ~lifetime.isClosing(), asked after every await of dispatchTick
Admits == drain = "open"

\* the answers to readiness and recovery, and the artist sweep whose errors are reported
\* and dropped; a paused or closing dispatcher ends the tick
TickGoesOn ==
    /\ \/ /\ tick = "readiness"
          /\ tick' \in {"none"} \cup (IF Admits THEN {"recovery"} ELSE {})
       \/ /\ tick = "recovery"
          /\ tick' = IF Admits THEN "artists" ELSE "none"
       \/ /\ tick = "artists"
          /\ tick' = IF Admits THEN "claim" ELSE "none"
    /\ UNCHANGED <<task, working, retained, drain, cause, requests, shutdown, refused, late>>

\* the runs registry accepts launches until close() is called
RunsClosed == drain \in {"runs", "resolved", "rejected"}

\* claimNextRunnableRun answers with run r, which is launched before anything else; a run
\* that is still registered is not started a second time
ClaimAnswers(r) ==
    /\ tick = "claim"
    /\ IF RunsClosed
       THEN /\ refused' = refused \cup {r}
            /\ tick' = "none"
            /\ retained' = retained \cup {"tick"}
            /\ UNCHANGED <<task, late>>
       ELSE /\ task' = [task EXCEPT ![r] = IF @ = "none" THEN "handler" ELSE @]
            /\ late' = IF drain = "open" \/ late = 2 THEN late ELSE late + 1
            /\ tick' = IF Admits THEN "claim" ELSE "none"
            /\ UNCHANGED <<refused, retained>>
    /\ UNCHANGED <<working, drain, cause, requests, shutdown>>

\* no run is claimable: the tick is over
ClaimAnswersNone ==
    /\ tick = "claim"
    /\ tick' = "none"
    /\ UNCHANGED <<task, working, retained, drain, cause, requests, shutdown, refused, late>>

\* a query of the tick fails; the registry keeps the first failure for good
TickFails ==
    /\ tick \in {"readiness", "recovery", "claim"}
    /\ tick' = "none"
    /\ retained' = retained \cup {"tick"}
    /\ UNCHANGED <<task, working, drain, cause, requests, shutdown, refused, late>>

-----------------------------------------------------------------------------
(* Launched runs.                                                          *)

\* The handler accepts the run and the worker begins.  The task awaits the completion,
\* unless the worker (artwork-cleanup-worker.js) returns none.
HandlerAccepts(r) ==
    /\ task[r] = "handler"
    /\ working' = working \cup {r}
    /\ task' = [task EXCEPT ![r] = IF r \in Owned THEN "completion" ELSE "none"]
    /\ UNCHANGED <<tick, retained, drain, cause, requests, shutdown, refused, late>>

HandlerFails(r) ==
    /\ task[r] = "handler"
    /\ task' = [task EXCEPT ![r] = "none"]
    /\ retained' = retained \cup {"run"}
    /\ UNCHANGED <<tick, working, drain, cause, requests, shutdown, refused, late>>

\* the worker has run its finalizers; its completion resolves or rejects
WorkerEnds(r) ==
    /\ r \in working
    /\ working' = working \ {r}
    /\ task' = [task EXCEPT ![r] = IF @ = "completion" THEN "none" ELSE @]
    /\ \/ UNCHANGED retained
       \/ task[r] = "completion" /\ retained' = retained \cup {"run"}
    /\ UNCHANGED <<tick, drain, cause, requests, shutdown, refused, late>>

-----------------------------------------------------------------------------
(* stopAndDrain.                                                           *)

\* Mutated form: the ticks are not awaited
TicksQuietUnawaited == TRUE

\* ticks.close() settles
TicksQuiet == tick = "none"

\* Mutated form: a task counts as finished once its handler has accepted
RunsQuietOnAcceptance == \A r \in Runs : task[r] # "handler"

\* runs.close() settles
RunsQuiet == \A r \in Runs : task[r] = "none"

\* Mutated form: the failure of a launched run wins
CauseOfRunsFirst(c) == IF "run" \in retained THEN "run" ELSE c

\* withWorkerTaskCleanup keeps the failure it already has
CauseOfRuns(c) == IF c = "none" /\ "run" \in retained THEN "run" ELSE c

\* Mutated form: the rejection joins both failures, as an AggregateError would
CauseOfTicksJoined(stopFails) ==
    IF "tick" \in retained THEN (IF stopFails THEN "tick and stop" ELSE "tick")
    ELSE IF stopFails THEN "stop" ELSE "none"

\* the failure of the ticks registry wins over that of stopping the timer
CauseOfTicks(stopFails) ==
    IF "tick" \in retained THEN "tick" ELSE IF stopFails THEN "stop" ELSE "none"

\* every admitted tick has settled: the runs registry closes
TicksDrained ==
    /\ drain = "ticks"
    /\ TicksQuiet
    /\ drain' = "runs"
    /\ \E stopFails \in BOOLEAN : cause' = CauseOfTicks(stopFails)
    /\ UNCHANGED <<tick, task, working, retained, requests, shutdown, refused, late>>

RunsDrained ==
    /\ drain = "runs"
    /\ RunsQuiet
    /\ cause' = CauseOfRuns(cause)
    /\ drain' = IF cause' = "none" THEN "resolved" ELSE "rejected"
    /\ UNCHANGED <<tick, task, working, retained, requests, shutdown, refused, late>>

-----------------------------------------------------------------------------
(* HTTP requests and the shutdown sequence.                                *)

RequestArrives ==
    /\ shutdown \in {"up", "services", "dispatcher", "failed"}
    /\ requests < MaxRequests
    /\ requests' = requests + 1
    /\ UNCHANGED <<tick, task, working, retained, drain, cause, shutdown, refused, late>>

RequestEnds ==
    /\ requests > 0
    /\ requests' = requests - 1
    /\ UNCHANGED <<tick, task, working, retained, drain, cause, shutdown, refused, late>>

\* SIGINT or SIGTERM: shutdown() begins to stop the services, the last registered first
Signal ==
    /\ shutdown = "up"
    /\ shutdown' = "services"
    /\ UNCHANGED <<tick, task, working, retained, drain, cause, requests, refused, late>>

\* the services registered after the dispatcher have stopped and stopAndDrain is called, or
\* one of them has rejected and the rest of the sequence is left out
ServicesStop ==
    /\ shutdown = "services"
    /\ \/ shutdown' = "dispatcher" /\ drain' = "ticks"
       \/ shutdown' = "failed" /\ UNCHANGED drain
    /\ UNCHANGED <<tick, task, working, retained, cause, requests, refused, late>>

\* stopAndDrain has settled
DispatcherStops ==
    /\ shutdown = "dispatcher"
    /\ drain \in {"resolved", "rejected"}
    /\ shutdown' = IF drain = "resolved" THEN "server" ELSE "failed"
    /\ UNCHANGED <<tick, task, working, retained, drain, cause, requests, refused, late>>

\* Mutated form: the callback of server.close is not awaited
ServerQuietUnawaited == TRUE

\* server.close calls back once every connection has ended
ServerQuiet == requests = 0

ServerCloses ==
    /\ shutdown = "server"
    /\ ServerQuiet
    /\ shutdown' = "owners"
    /\ UNCHANGED <<tick, task, working, retained, drain, cause, requests, refused, late>>

\* the worker owners close; an owner's registry rejects if one of its runs has failed
OwnersDrain ==
    /\ shutdown = "owners"
    /\ working \cap Owned = {}
    /\ shutdown' = IF "run" \in retained THEN "failed" ELSE "pool"
    /\ UNCHANGED <<tick, task, working, retained, drain, cause, requests, refused, late>>

PoolCloses ==
    /\ shutdown = "pool"
    /\ shutdown' = "done"
    /\ UNCHANGED <<tick, task, working, retained, drain, cause, requests, refused, late>>

-----------------------------------------------------------------------------

TickStep == TickGoesOn \/ (\E r \in Runs : ClaimAnswers(r)) \/ ClaimAnswersNone \/ TickFails

RunStep(r) == HandlerAccepts(r) \/ HandlerFails(r) \/ WorkerEnds(r)

ShutdownStep ==
    \/ TicksDrained \/ RunsDrained \/ ServicesStop \/ DispatcherStops
    \/ ServerCloses \/ OwnersDrain \/ PoolCloses

Next ==
    \/ TickStarts \/ TickStep
    \/ \E r \in Runs : RunStep(r)
    \/ RequestArrives \/ RequestEnds
    \/ Signal \/ ShutdownStep

Spec == Init /\ [][Next]_vars

(***************************************************************************)
(* Fairness: queries of a tick answer, handlers and workers finish, HTTP   *)
(* requests end, and the signal handler goes on.  Ticks, requests and      *)
(* signals need not happen.                                                *)
(***************************************************************************)
Fairness ==
    /\ WF_vars(TickStep)
    /\ \A r \in Runs : WF_vars(RunStep(r))
    /\ WF_vars(RequestEnds)
    /\ WF_vars(ShutdownStep)

FairSpec == Spec /\ Fairness

-----------------------------------------------------------------------------
(* Properties.                                                             *)

\* The database pool closes last: by then no tick, no launched run, no worker that reports
\* its completion and no HTTP request is left that could still need it
\* (startup-runtime.js, onShutdown).
PoolOutlivesWork ==
    shutdown = "done" =>
        /\ tick = "none"
        /\ RunsQuiet
        /\ working \cap Owned = {}
        /\ requests = 0

\* stopAndDrain settles only after everything it admitted has settled, on its rejecting
\* paths too ("every admitted handler is still drained", docs/DISPATCHER_LIFETIME_DESIGN.md).
DrainedMeansQuiet ==
    drain \in {"resolved", "rejected"} =>
        /\ tick = "none"
        /\ \A r \in Runs : task[r] = "none"
        /\ working \cap Owned = {}

\* A claim that commits while the dispatcher closes is still handed over: the runs registry
\* never refuses it, because it closes after the last tick has settled.
HandoffNeverRefused == refused = {}

\* At most the one claim that was in flight is launched after closing began ("launch that
\* one run exactly once, then stop claiming", docs/DISPATCHER_LIFETIME_DESIGN.md).
OneLateLaunch == late <= 1

\* A drain that resolves has nothing to hide, and a failed tick is what a rejected drain
\* reports whenever there was one ("Tick failure wins over timer-stop and handler-drain
\* fallout", docs/DISPATCHER_LIFETIME_DESIGN.md).
FailurePrecedence ==
    /\ drain = "resolved" => retained = {}
    /\ (drain = "rejected" /\ "tick" \in retained) => cause = "tick"

\* A shutdown comes to its end, whatever was in flight when the signal came and however
\* many claims the database would still answer.
ShutdownEnds == shutdown = "services" ~> shutdown \in {"done", "failed"}

Drained == INSTANCE Drain WITH
    mode <- CASE drain = "open" -> "open"
              [] drain \in {"ticks", "runs"} -> "closing"
              [] OTHER -> "closed",
    ticking <- tick # "none",
    running <- {r \in Runs : task[r] # "none"}

\* The dispatcher's lifetime implements Drain: whatever the database answers and whichever
\* handler fails while stopAndDrain waits, work is admitted and given up as it allows.
ImplementsDrain == Drained!Spec
=============================================================================
