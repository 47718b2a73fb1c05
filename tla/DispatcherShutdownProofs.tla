---------------------- MODULE DispatcherShutdownProofs ----------------------
(***************************************************************************)
(* The safety of DispatcherShutdown for every set of runs, every split     *)
(* into workers that report their completion and workers that do not, and  *)
(* every number of HTTP requests.                                          *)
(*                                                                         *)
(* None of the properties is inductive alone: that a claim is never        *)
(* refused needs that no tick survives the closing of the runs registry,   *)
(* and that nothing works when the pool closes needs that every owned      *)
(* worker has a registered task.  Sequenced joins these facts.             *)
(***************************************************************************)
EXTENDS DispatcherShutdown, TLAPS

\* which registry is closed when, and what must have settled by then
DrainOrder ==
    /\ RunsClosed => tick = "none"
    /\ drain \in {"resolved", "rejected"} => RunsQuiet
    /\ \A r \in Owned : r \in working => task[r] = "completion"

\* a tick that was claiming when closing began is the only source of a late launch
LateOrder ==
    /\ drain = "open" => late = 0
    /\ (drain = "ticks" /\ tick = "claim") => late = 0
    /\ late <= 1
    /\ refused = {}

\* where the shutdown sequence is, and what has been awaited so far
ShutdownOrder ==
    /\ shutdown \in {"up", "services"} => drain = "open"
    /\ shutdown \in {"server", "owners", "pool", "done"} => drain = "resolved"
    /\ shutdown \in {"owners", "pool", "done"} => requests = 0

\* a retained failure is never lost on the way to the close promise
CauseOrder ==
    /\ (RunsClosed /\ "tick" \in retained) => cause = "tick"
    /\ drain = "resolved" => retained = {}

Sequenced == TypeOK /\ DrainOrder /\ LateOrder /\ ShutdownOrder /\ CauseOrder

\* Nothing has begun initially.
LEMMA InitSequenced == Init => Sequenced
  <1> SUFFICES ASSUME Init PROVE Sequenced
    OBVIOUS
  <1>1. TypeOK
    BY ShutdownAssumption
       DEF Init, TypeOK, TickState, TaskState, DrainState, ShutdownState
  <1>2. DrainOrder /\ LateOrder /\ ShutdownOrder /\ CauseOrder
    BY DEF Init, DrainOrder, LateOrder, ShutdownOrder, CauseOrder, RunsClosed, RunsQuiet
  <1> QED BY <1>1, <1>2 DEF Sequenced

\* The steps of a tick keep the order.
LEMMA TickSequenced ==
    ASSUME Sequenced, TickStarts \/ TickStep
    PROVE  Sequenced'
  <1> USE DEF Sequenced
  <1>1. CASE TickStarts
    BY <1>1 DEF TickStarts, TypeOK, TickState, DrainOrder, LateOrder, ShutdownOrder,
                CauseOrder, RunsClosed, RunsQuiet
  <1>2. CASE TickGoesOn
    BY <1>2 DEF TickGoesOn, Admits, TypeOK, TickState, DrainOrder, LateOrder,
                ShutdownOrder, CauseOrder, RunsClosed, RunsQuiet
  <1>3. ASSUME NEW r \in Runs, ClaimAnswers(r)
        PROVE  Sequenced'
    <2>1. ~RunsClosed
      BY <1>3 DEF ClaimAnswers, DrainOrder
    <2>2. TypeOK'
      <3>1. task' \in [Runs -> TaskState] /\ tick' \in TickState
        BY <1>3, <2>1 DEF ClaimAnswers, TypeOK, TickState, TaskState
      <3>2. late' \in 0..2
        BY <1>3, <2>1 DEF ClaimAnswers, TypeOK
      <3> QED BY <1>3, <2>1, <3>1, <3>2 DEF ClaimAnswers, TypeOK
    <2>3. DrainOrder'
      BY <1>3, <2>1 DEF ClaimAnswers, DrainOrder, RunsClosed, RunsQuiet, TypeOK
    <2>4. LateOrder'
      BY <1>3, <2>1 DEF ClaimAnswers, Admits, LateOrder, RunsClosed, TypeOK, DrainState
    <2>5. ShutdownOrder' /\ CauseOrder'
      BY <1>3, <2>1 DEF ClaimAnswers, ShutdownOrder, CauseOrder, RunsClosed
    <2> QED BY <2>2, <2>3, <2>4, <2>5
  <1>4. CASE ClaimAnswersNone
    BY <1>4 DEF ClaimAnswersNone, TypeOK, TickState, DrainOrder, LateOrder, ShutdownOrder,
                CauseOrder, RunsClosed, RunsQuiet
  <1>5. CASE TickFails
    BY <1>5 DEF TickFails, TypeOK, TickState, DrainOrder, LateOrder, ShutdownOrder,
                CauseOrder, RunsClosed, RunsQuiet
  <1> QED BY <1>1, <1>2, <1>3, <1>4, <1>5 DEF TickStep

\* The steps of a launched run keep the order.
LEMMA RunSequenced ==
    ASSUME Sequenced, NEW r \in Runs, RunStep(r)
    PROVE  Sequenced'
  <1> USE DEF Sequenced
  <1>1. CASE HandlerAccepts(r)
    <2>1. TypeOK'
      BY <1>1 DEF HandlerAccepts, TypeOK, TaskState
    <2>2. DrainOrder'
      BY <1>1, ShutdownAssumption DEF HandlerAccepts, TypeOK, DrainOrder, RunsClosed, RunsQuiet
    <2> QED BY <1>1, <2>1, <2>2
            DEF HandlerAccepts, LateOrder, ShutdownOrder, CauseOrder, RunsClosed
  <1>2. CASE HandlerFails(r)
    <2>1. TypeOK'
      BY <1>2 DEF HandlerFails, TypeOK, TaskState
    <2>2. DrainOrder'
      BY <1>2, ShutdownAssumption DEF HandlerFails, TypeOK, DrainOrder, RunsClosed, RunsQuiet
    <2>3. CauseOrder'
      BY <1>2 DEF HandlerFails, CauseOrder, DrainOrder, RunsClosed, RunsQuiet
    <2> QED BY <1>2, <2>1, <2>2, <2>3 DEF HandlerFails, LateOrder, ShutdownOrder
  <1>3. CASE WorkerEnds(r)
    <2>1. TypeOK'
      BY <1>3 DEF WorkerEnds, TypeOK, TaskState
    <2>2. DrainOrder'
      BY <1>3, ShutdownAssumption DEF WorkerEnds, TypeOK, DrainOrder, RunsClosed, RunsQuiet
    <2>3. CauseOrder'
      BY <1>3 DEF WorkerEnds, CauseOrder, DrainOrder, RunsClosed, RunsQuiet
    <2> QED BY <1>3, <2>1, <2>2, <2>3 DEF WorkerEnds, LateOrder, ShutdownOrder
  <1> QED BY <1>1, <1>2, <1>3 DEF RunStep

\* HTTP requests and the signal keep the order.
LEMMA RequestSequenced ==
    ASSUME Sequenced, RequestArrives \/ RequestEnds \/ Signal
    PROVE  Sequenced'
  <1> USE DEF Sequenced
  <1>1. TypeOK'
    <2>1. requests' \in 0..MaxRequests
      BY ShutdownAssumption DEF RequestArrives, RequestEnds, Signal, TypeOK
    <2>2. shutdown' \in ShutdownState
      BY DEF RequestArrives, RequestEnds, Signal, TypeOK, ShutdownState
    <2> QED BY <2>1, <2>2 DEF RequestArrives, RequestEnds, Signal, TypeOK
  <1>2. DrainOrder' /\ LateOrder' /\ CauseOrder'
    BY DEF RequestArrives, RequestEnds, Signal, DrainOrder, LateOrder, CauseOrder,
           RunsClosed, RunsQuiet
  <1>3. ShutdownOrder'
    BY ShutdownAssumption DEF RequestArrives, RequestEnds, Signal, ShutdownOrder, TypeOK
  <1> QED BY <1>1, <1>2, <1>3

\* The steps of the drain and of the shutdown sequence keep the order.
LEMMA ShutdownSequenced ==
    ASSUME Sequenced, ShutdownStep
    PROVE  Sequenced'
  <1> USE DEF Sequenced
  <1>1. CASE TicksDrained
    <2>1. TypeOK'
      BY <1>1 DEF TicksDrained, CauseOfTicks, TypeOK, DrainState
    <2>2. CauseOrder'
      BY <1>1 DEF TicksDrained, CauseOfTicks, CauseOrder, RunsClosed
    <2> QED BY <1>1, <2>1, <2>2
            DEF TicksDrained, TicksQuiet, DrainOrder, LateOrder, ShutdownOrder, RunsClosed,
                RunsQuiet
  <1>2. CASE RunsDrained
    <2>1. TypeOK'
      BY <1>2 DEF RunsDrained, CauseOfRuns, TypeOK, DrainState
    <2>2. CauseOrder'
      BY <1>2 DEF RunsDrained, CauseOfRuns, CauseOrder, RunsClosed, TypeOK
    <2> QED BY <1>2, <2>1, <2>2
            DEF RunsDrained, DrainOrder, LateOrder, ShutdownOrder, RunsClosed, RunsQuiet
  <1>3. CASE ServicesStop
    BY <1>3 DEF ServicesStop, TypeOK, DrainState, ShutdownState, DrainOrder, LateOrder,
                ShutdownOrder, CauseOrder, RunsClosed, RunsQuiet
  <1>4. CASE DispatcherStops \/ ServerCloses \/ OwnersDrain \/ PoolCloses
    <2>1. TypeOK'
      BY <1>4 DEF DispatcherStops, ServerCloses, OwnersDrain, PoolCloses, TypeOK,
                  ShutdownState
    <2>2. ShutdownOrder'
      BY <1>4 DEF DispatcherStops, ServerCloses, ServerQuiet, OwnersDrain, PoolCloses,
                  ShutdownOrder
    <2> QED BY <1>4, <2>1, <2>2
            DEF DispatcherStops, ServerCloses, OwnersDrain, PoolCloses, DrainOrder,
                LateOrder, CauseOrder, RunsClosed, RunsQuiet
  <1> QED BY <1>1, <1>2, <1>3, <1>4 DEF ShutdownStep

\* Stuttering keeps the order.
LEMMA StutterSequenced == Sequenced /\ UNCHANGED vars => Sequenced'
  BY DEF vars, Sequenced, TypeOK, DrainOrder, LateOrder, ShutdownOrder, CauseOrder,
         RunsClosed, RunsQuiet

\* The order holds throughout every execution.
THEOREM AlwaysSequenced == Spec => []Sequenced
  <1>1. Sequenced /\ [Next]_vars => Sequenced'
    BY TickSequenced, RunSequenced, RequestSequenced, ShutdownSequenced, StutterSequenced
       DEF Next
  <1> QED BY <1>1, InitSequenced, PTL DEF Spec

\* The database pool is closed only when no tick, no registered run, no worker that reports
\* its completion and no HTTP request is left.
THEOREM PoolClosesLast == Spec => []PoolOutlivesWork
  <1>1. Sequenced => PoolOutlivesWork
    BY ShutdownAssumption DEF Sequenced, DrainOrder, ShutdownOrder, PoolOutlivesWork,
       RunsClosed, RunsQuiet, TypeOK
  <1> QED BY <1>1, AlwaysSequenced, PTL

\* stopAndDrain settles last, whether it resolves or rejects.
THEOREM DrainSettlesLast == Spec => []DrainedMeansQuiet
  <1>1. Sequenced => DrainedMeansQuiet
    BY ShutdownAssumption DEF Sequenced, DrainOrder, DrainedMeansQuiet, RunsClosed, RunsQuiet
  <1> QED BY <1>1, AlwaysSequenced, PTL

\* The tick, the registries, the drain and the shutdown sequence keep their types.
THEOREM ShutdownTypeCorrect == Spec => []TypeOK
  <1>1. Sequenced => TypeOK
    BY DEF Sequenced
  <1> QED BY <1>1, AlwaysSequenced, PTL

\* A committed claim is never refused: the runs registry closes after the last tick.
THEOREM CommittedClaimHandedOver == Spec => []HandoffNeverRefused
  <1>1. Sequenced => HandoffNeverRefused
    BY DEF Sequenced, LateOrder, HandoffNeverRefused
  <1> QED BY <1>1, AlwaysSequenced, PTL

\* At most one run is launched after closing began: the tick asks for admission after
\* every claim, and no new tick is admitted.
THEOREM LateLaunchIsSingle == Spec => []OneLateLaunch
  <1>1. Sequenced => OneLateLaunch
    BY DEF Sequenced, LateOrder, OneLateLaunch
  <1> QED BY <1>1, AlwaysSequenced, PTL

\* A resolved drain retains no failure, and a failed tick is never hidden by another cause.
THEOREM FailuresReported == Spec => []FailurePrecedence
  <1>1. Sequenced => FailurePrecedence
    BY DEF Sequenced, CauseOrder, FailurePrecedence, RunsClosed
  <1> QED BY <1>1, AlwaysSequenced, PTL

-----------------------------------------------------------------------------
(* The dispatcher's lifetime implements Drain.                             *)

\* the modes of Drain, as DispatcherShutdown maps the progress of stopAndDrain to them
DrainMode == CASE drain = "open" -> "open"
               [] drain \in {"ticks", "runs"} -> "closing"
               [] OTHER -> "closed"

\* the runs in the registry
Registered == {r \in Runs : task[r] # "none"}

\* what a step does that leaves the state of Drain alone
SameDrain == DrainMode' = DrainMode /\ (tick # "none")' = (tick # "none") /\ Registered' = Registered

LEMMA StutterOfDrain ==
    ASSUME SameDrain
    PROVE  [Drained!Next]_<<DrainMode, tick # "none", Registered>>
  BY DEF SameDrain

\* The three modes, told apart by the progress of stopAndDrain.
LEMMA ModeOfDrain ==
    /\ DrainMode = "open" <=> drain = "open"
    /\ drain \in {"ticks", "runs"} => DrainMode = "closing"
    /\ drain \in {"resolved", "rejected"} => DrainMode = "closed"
  BY DEF DrainMode

\* Initially the dispatcher is open and has admitted nothing.
LEMMA InitDrain == Init => Drained!Init
  BY DEF Init, Drained!Init

\* A tick begins, goes on or ends; what it claims is launched.
LEMMA TickIsDrain ==
    ASSUME Sequenced, TickStarts \/ TickStep
    PROVE  [Drained!Next]_<<DrainMode, tick # "none", Registered>>
  <1>1. CASE TickStarts
    <2>1. Drained!Tick
      BY <1>1 DEF TickStarts, Drained!Tick
    <2> QED BY <2>1 DEF Drained!Next
  <1>2. CASE TickGoesOn
    <2>1. CASE tick' = "none"
      <3>1. Drained!TickEnds
        BY <1>2, <2>1 DEF TickGoesOn, Drained!TickEnds
      <3> QED BY <3>1 DEF Drained!Next
    <2>2. CASE tick' # "none"
      <3>1. SameDrain
        BY <1>2, <2>2 DEF TickGoesOn, SameDrain, DrainMode, Registered
      <3> QED BY <3>1, StutterOfDrain
    <2> QED BY <2>1, <2>2
  <1>3. ASSUME NEW r \in Runs, ClaimAnswers(r)
        PROVE  [Drained!Next]_<<DrainMode, tick # "none", Registered>>
    <2>1. /\ task' = [task EXCEPT ![r] = IF @ = "none" THEN "handler" ELSE @]
          /\ tick' = IF drain = "open" THEN "claim" ELSE "none"
          /\ tick = "claim"
          /\ drain' = drain
      BY <1>3 DEF ClaimAnswers, Admits, Sequenced, DrainOrder
    <2>2. Registered' = Registered \cup {r}
      BY <1>3, <2>1 DEF Registered, Sequenced, TypeOK
    <2>3. Drained!Launch(r)
      BY <2>1, <2>2 DEF Drained!Launch, Registered
    <2> QED BY <1>3, <2>3 DEF Drained!Next
  <1>4. CASE ClaimAnswersNone \/ TickFails
    <2>1. Drained!TickEnds
      BY <1>4 DEF ClaimAnswersNone, TickFails, Drained!TickEnds
    <2> QED BY <2>1 DEF Drained!Next
  <1> QED BY <1>1, <1>2, <1>3, <1>4 DEF TickStep

\* A launched run stays registered until its handler fails or its worker has finished.
LEMMA RunIsDrain ==
    ASSUME Sequenced, NEW r \in Runs, RunStep(r)
    PROVE  [Drained!Next]_<<DrainMode, tick # "none", Registered>>
  <1>1. /\ drain' = drain
        /\ tick' = tick
        /\ \E t \in TaskState : task' = [task EXCEPT ![r] = t]
    <2>1. task[r] \in TaskState
      BY DEF Sequenced, TypeOK
    <2> QED BY <2>1 DEF RunStep, HandlerAccepts, HandlerFails, WorkerEnds, TaskState
  <1>2. task'[r] # "none" => task[r] # "none"
    BY DEF RunStep, HandlerAccepts, HandlerFails, WorkerEnds, Sequenced, TypeOK
  <1>3. CASE task'[r] # "none" \/ task[r] = "none"
    <2>1. Registered' = Registered
      BY <1>1, <1>2, <1>3 DEF Registered, Sequenced, TypeOK
    <2> QED BY <1>1, <2>1, StutterOfDrain DEF SameDrain, DrainMode
  <1>4. CASE task'[r] = "none" /\ task[r] # "none"
    <2>1. Registered' = Registered \ {r} /\ r \in Registered
      BY <1>1, <1>4 DEF Registered, Sequenced, TypeOK
    <2>2. Drained!Settles(r)
      BY <1>1, <2>1 DEF Drained!Settles, Registered
    <2> QED BY <2>2 DEF Drained!Next
  <1> QED BY <1>3, <1>4

\* HTTP requests and the signal are invisible to Drain.
LEMMA RequestIsDrain ==
    ASSUME RequestArrives \/ RequestEnds \/ Signal
    PROVE  [Drained!Next]_<<DrainMode, tick # "none", Registered>>
  <1>1. SameDrain
    BY DEF RequestArrives, RequestEnds, Signal, SameDrain, DrainMode, Registered
  <1> QED BY <1>1, StutterOfDrain

\* stopAndDrain closes admission when it is called, and settles when nothing is left: no
\* tick, because the runs registry closed after the last one, and no registered run.
LEMMA ShutdownIsDrain ==
    ASSUME Sequenced, ShutdownStep
    PROVE  [Drained!Next]_<<DrainMode, tick # "none", Registered>>
  <1>1. CASE TicksDrained
    <2>1. SameDrain
      BY <1>1 DEF TicksDrained, SameDrain, DrainMode, Registered
    <2> QED BY <2>1, StutterOfDrain
  <1>2. CASE RunsDrained
    <2>1. tick = "none" /\ Registered = {}
      BY <1>2 DEF RunsDrained, RunsQuiet, RunsClosed, Sequenced, DrainOrder, Registered
    <2>2. drain = "runs" /\ drain' \in {"resolved", "rejected"} /\ UNCHANGED <<tick, task>>
      BY <1>2 DEF RunsDrained
    <2>3. Drained!Closed
      BY <2>1, <2>2 DEF Drained!Closed, Registered
    <2> QED BY <2>3 DEF Drained!Next
  <1>3. CASE ServicesStop
    <2>1. drain = "open" /\ UNCHANGED <<tick, task>> /\ (drain' = drain \/ drain' = "ticks")
      BY <1>3 DEF ServicesStop, Sequenced, ShutdownOrder
    <2>2. CASE drain' = drain
      <3>1. SameDrain
        BY <2>1, <2>2 DEF SameDrain, DrainMode, Registered
      <3> QED BY <3>1, StutterOfDrain
    <2>3. CASE drain' = "ticks"
      <3>1. Drained!Close
        BY <2>1, <2>3 DEF Drained!Close
      <3> QED BY <3>1 DEF Drained!Next
    <2> QED BY <2>1, <2>2, <2>3
  <1>4. CASE DispatcherStops \/ ServerCloses \/ OwnersDrain \/ PoolCloses
    <2>1. SameDrain
      BY <1>4 DEF DispatcherStops, ServerCloses, OwnersDrain, PoolCloses, SameDrain,
                  DrainMode, Registered
    <2> QED BY <2>1, StutterOfDrain
  <1> QED BY <1>1, <1>2, <1>3, <1>4 DEF ShutdownStep

\* Stuttering is invisible to Drain.
LEMMA StutterIsDrain == UNCHANGED vars => SameDrain
  BY DEF vars, SameDrain, DrainMode, Registered

\* The lifetime of the dispatcher implements Drain: work is admitted while it is open, a tick
\* that launches a run while it closes does nothing after that, and it is closed only when
\* no tick and no run is left.
THEOREM DispatcherImplementsDrain == Spec => ImplementsDrain
  <1>1. Sequenced /\ [Next]_vars => [Drained!Next]_<<DrainMode, tick # "none", Registered>>
    BY TickIsDrain, RunIsDrain, RequestIsDrain, ShutdownIsDrain, StutterIsDrain,
       StutterOfDrain DEF Next
  <1> QED BY <1>1, InitDrain, AlwaysSequenced, PTL
          DEF Spec, ImplementsDrain, Drained!Spec, DrainMode, Registered
=============================================================================
