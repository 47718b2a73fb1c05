------------------------ MODULE OperationRunsProofs ------------------------
(***************************************************************************)
(* Proofs about OperationRuns for every set of processes, operators and    *)
(* runs and every value of the bounds.                                     *)
(***************************************************************************)
EXTENDS OperationRuns, TLAPS

-----------------------------------------------------------------------------
(* What the row operators return.                                          *)

\* The row that createOperationRun inserts is a row.
LEMMA NewRowType ==
    ASSUME NEW m \in Nat, NEW d \in {"now", "backoff"}
    PROVE  NewRow(m, d) \in Row
  BY DEF NewRow, NoRow, Row, Status

\* Claiming a row yields a row.
LEMMA ClaimedType ==
    ASSUME NEW row \in Row
    PROVE  Claimed(row) \in Row
  <1>1. row.attempts + 1 \in Nat
    BY DEF Row
  <1> QED BY <1>1, Zenon DEF Claimed, Row

\* Stranded recovery of a row yields a row.
LEMMA RecoveredType ==
    ASSUME NEW row \in Row
    PROVE  Recovered(row) \in Row
  BY DEF Recovered, Row, Status

\* An operator's retry of a row yields a row.
LEMMA RescheduledType ==
    ASSUME NEW row \in Row, NEW m \in Nat
    PROVE  Rescheduled(row, m) \in Row
  BY DEF Rescheduled, Row, Status

Marks == {"started", "completed", "cancelled", "paused", "retry", "failed"}

\* A lifecycle write of a row yields a row.
LEMMA LifecycleType ==
    ASSUME NEW row \in Row, NEW mark \in Marks
    PROVE  Lifecycle(row, mark) \in Row
  <1>1. MaxOf(row.attempts, 1) \in Nat /\ MaxOf(row.attempts - 1, 0) \in Nat
    BY DEF Row, MaxOf
  <1>2. row.cancel \cup {"done"} \in SUBSET {"requested", "done"}
    BY DEF Row
  <1> QED BY <1>1, <1>2, Zenon DEF Lifecycle, Row, Status, Marks

\* At every pc at which a worker writes the lifecycle, the write is one of the six.
LEMMA MarkAtType ==
    ASSUME NEW pc \in MarkPc, NEW row
    PROVE  MarkAt(pc, row) \in Marks
  BY DEF MarkAt, MarkPc, Marks

\* The lifecycle write of a worker keeps the types of what it writes.
LEMMA WriteLifecycleType ==
    ASSUME TypeOK, NEW r \in Runs, NEW a \in Nat, NEW mark \in Marks,
           WriteLifecycle(r, a, mark)
    PROVE  /\ runs' \in [Runs -> Row]
           /\ writer' \in [Runs -> Nat]
           /\ spent' \in [Runs -> Int]
  <1>1. CASE Accepts(r, a, mark)
    <2>1. Lifecycle(runs[r], mark) \in Row
      BY LifecycleType DEF TypeOK
    <2>2. runs' \in [Runs -> Row]
      BY <1>1, <2>1 DEF WriteLifecycle, TypeOK
    <2>3. writer' \in [Runs -> Nat] /\ spent' \in [Runs -> Int]
      BY <1>1 DEF WriteLifecycle, TypeOK, Marks
    <2> QED BY <2>2, <2>3
  <1>2. CASE ~Accepts(r, a, mark)
    BY <1>2 DEF WriteLifecycle, TypeOK
  <1> QED BY <1>1, <1>2

-----------------------------------------------------------------------------
(* Type correctness.                                                       *)

\* Recording one more fault keeps the counter in its bound.
LEMMA FaultType ==
    ASSUME TypeOK, NEW k, Fault(k)
    PROVE  faults' \in 0..MaxFaults
  BY BoundsAssumption DEF TypeOK, Fault

\* Every operation on a lease yields a lease table.
LEMMA LeaseOpsType ==
    ASSUME LeaseTypeOK, NEW r \in Runs
    PROVE  /\ AcquireLease(r) => LeaseTypeOK' /\ NextAcquisition(r) \in Nat
           /\ \A a : ReleaseLease(r, a) => LeaseTypeOK'
           /\ ExpireLease(r) => LeaseTypeOK'
  BY DEF LeaseTypeOK, Lease, LeaseState, AcquireLease, NextAcquisition, ReleaseLease,
         ExpireLease

\* Replacing one task, or the pc of one task, by a proper one yields a task table.
LEMMA TaskUpdateType ==
    ASSUME NEW T \in [Procs -> [Runs -> Task]], NEW p \in Procs, NEW r \in Runs
    PROVE  /\ \A t \in Task : [T EXCEPT ![p][r] = t] \in [Procs -> [Runs -> Task]]
           /\ \A pc \in TaskPc : [T EXCEPT ![p][r].pc = pc] \in [Procs -> [Runs -> Task]]
  <1>1. ASSUME NEW t \in Task
        PROVE  [T EXCEPT ![p][r] = t] \in [Procs -> [Runs -> Task]]
    <2>1. [T[p] EXCEPT ![r] = t] \in [Runs -> Task]
      OBVIOUS
    <2> QED BY <2>1
  <1>2. ASSUME NEW pc \in TaskPc
        PROVE  [T EXCEPT ![p][r].pc = pc] \in [Procs -> [Runs -> Task]]
    <2>1. [T[p][r] EXCEPT !.pc = pc] \in Task
      BY DEF Task
    <2>2. [T[p] EXCEPT ![r] = [T[p][r] EXCEPT !.pc = pc]] \in [Runs -> Task]
      BY <2>1
    <2> QED BY <2>2
  <1> QED BY <1>1, <1>2

\* Replacing one tick by a proper one yields a tick table.
LEMMA TickUpdateType ==
    ASSUME NEW D \in [Procs -> Tick], NEW p \in Procs, NEW t \in Tick
    PROVE  [D EXCEPT ![p] = t] \in [Procs -> Tick]
  OBVIOUS

\* The dispatcher's steps keep the types.
LEMMA DispatcherType ==
    ASSUME TypeOK, NEW p \in Procs, DispatcherStep(p) \/ TickFails(p)
    PROVE  TypeOK'
  <1>a. disp[p].pc \in TickPc /\ disp[p].seen \in SUBSET Observation
    BY DEF TypeOK, Tick
  <1>1. CASE TickBegins(p)
    BY <1>1 DEF TypeOK, TickBegins, Tick, TickPc, LeaseTypeOK
  <1>2. CASE ListRuns(p)
    <2>1. {[run |-> r, attempts |-> runs[r].attempts, max |-> runs[r].max, acq |-> 0]
             : r \in Recoverable} \in SUBSET Observation
      BY DEF TypeOK, Row, Recoverable, Observation
    <2>2. disp' \in [Procs -> Tick]
      BY <1>2, <2>1 DEF TypeOK, ListRuns, Tick, TickPc
    <2> QED BY <1>2, <2>2 DEF TypeOK, ListRuns, LeaseTypeOK
  <1>3. CASE ListLeases(p)
    <2>1. \A S \in SUBSET disp[p].seen : Observed(S) \in SUBSET Observation
      BY <1>a DEF TypeOK, LeaseTypeOK, Lease, Observed, Observation
    <2>2. disp' \in [Procs -> Tick]
      <3>1. \A S \in SUBSET disp[p].seen : [pc |-> "recover", seen |-> Observed(S)] \in Tick
        BY <2>1 DEF Tick, TickPc
      <3>2. PICK S \in SUBSET disp[p].seen :
              disp' = [disp EXCEPT ![p] = [pc |-> "recover", seen |-> Observed(S)]]
        BY <1>3 DEF ListLeases
      <3> QED BY <3>1, <3>2, TickUpdateType DEF TypeOK
    <2>3. faults' \in 0..MaxFaults
      BY <1>3, FaultType DEF ListLeases, TypeOK
    <2> QED BY <1>3, <2>2, <2>3 DEF TypeOK, ListLeases, LeaseTypeOK
  <1>4. CASE \E o \in disp[p].seen : RecoverRun(p, o)
    <2>1. PICK o \in disp[p].seen : RecoverRun(p, o)
      BY <1>4
    <2>2. o.run \in Runs
      BY <1>a DEF Observation
    <2>3. disp' \in [Procs -> Tick]
      BY <2>1, <1>a DEF TypeOK, RecoverRun, Tick
    <2>4. runs' \in [Runs -> Row]
      <3>1. Recovered(runs[o.run]) \in Row
        BY <2>2, RecoveredType DEF TypeOK
      <3> QED BY <2>1, <3>1 DEF TypeOK, RecoverRun
    <2>5. LeaseTypeOK'
      BY <2>1, <2>2, LeaseOpsType DEF TypeOK, RecoverRun, LeaseTypeOK
    <2> QED BY <2>1, <2>3, <2>4, <2>5 DEF TypeOK, RecoverRun
  <1>5. CASE RecoveryEnds(p)
    BY <1>5 DEF TypeOK, RecoveryEnds, Tick, TickPc, LeaseTypeOK
  <1>6. CASE \E r \in Runs : ClaimRun(p, r)
    <2>1. PICK r \in Runs : ClaimRun(p, r)
      BY <1>6
    <2>2. runs' \in [Runs -> Row]
      <3>1. Claimed(runs[r]) \in Row
        BY ClaimedType DEF TypeOK
      <3> QED BY <2>1, <3>1 DEF TypeOK, ClaimRun
    <2>3. task' \in [Procs -> [Runs -> Task]]
      <3>1. Launched(task[p][r]) \in Task
        BY DEF TypeOK, Launched, Task, TaskPc
      <3>2. task' = [task EXCEPT ![p][r] = Launched(task[p][r])] \/ task' = task
        BY <2>1 DEF ClaimRun
      <3>3. task \in [Procs -> [Runs -> Task]]
        BY DEF TypeOK
      <3>4. [task EXCEPT ![p][r] = Launched(task[p][r])] \in [Procs -> [Runs -> Task]]
        BY ONLY <3>1, <3>3, TaskUpdateType
      <3> QED BY <3>2, <3>3, <3>4
    <2>4. disp' \in [Procs -> Tick]
      <3>1. IdleTick \in Tick
        BY DEF IdleTick, Tick, TickPc
      <3>2. disp' = [disp EXCEPT ![p] = IdleTick] \/ disp' = disp
        BY <2>1 DEF ClaimRun
      <3> QED BY <3>1, <3>2, TickUpdateType DEF TypeOK
    <2>5. faults' \in 0..MaxFaults
      BY <2>1, FaultType DEF ClaimRun, TypeOK
    <2> QED BY <2>1, <2>2, <2>3, <2>4, <2>5 DEF TypeOK, ClaimRun, LeaseTypeOK
  <1>7. CASE TickEnds(p)
    BY <1>7 DEF TypeOK, TickEnds, IdleTick, Tick, TickPc, LeaseTypeOK
  <1>8. CASE TickFails(p)
    <2>1. faults' \in 0..MaxFaults
      BY <1>8, FaultType DEF TickFails
    <2> QED BY <1>8, <2>1 DEF TypeOK, TickFails, IdleTick, Tick, TickPc, LeaseTypeOK
  <1> QED BY <1>1, <1>2, <1>3, <1>4, <1>5, <1>6, <1>7, <1>8 DEF DispatcherStep

\* Moving a task, or ending it, yields a task table.
LEMMA MoveType ==
    ASSUME TypeOK, NEW p \in Procs, NEW r \in Runs
    PROVE  /\ \A pc \in TaskPc : Move(p, r, pc) => task' \in [Procs -> [Runs -> Task]]
           /\ Leave(p, r) => task' \in [Procs -> [Runs -> Task]]
  <1>1. task \in [Procs -> [Runs -> Task]] /\ NoTask \in Task
    BY DEF TypeOK, NoTask, Task, TaskPc
  <1>2. \A pc \in TaskPc : [task EXCEPT ![p][r].pc = pc] \in [Procs -> [Runs -> Task]]
    BY ONLY <1>1, TaskUpdateType
  <1>3. [task EXCEPT ![p][r] = NoTask] \in [Procs -> [Runs -> Task]]
    BY ONLY <1>1, TaskUpdateType
  <1> QED BY <1>2, <1>3 DEF Move, Leave

\* The worker's steps keep the types.
LEMMA TaskStepType ==
    ASSUME TypeOK, NEW p \in Procs, NEW r \in Runs, TaskStep(p, r) \/ WorkFails(p, r)
    PROVE  TypeOK'
  <1>a. task[p][r] \in Task /\ task[p][r].acq \in Nat
    BY DEF TypeOK, Task
  <1>b. LeaseTypeOK
    BY DEF TypeOK
  <1>1. CASE Acquire(p, r)
    <2>1. LeaseTypeOK'
      BY <1>1, <1>b, LeaseOpsType DEF Acquire, LeaseTypeOK
    <2>2. task' \in [Procs -> [Runs -> Task]]
      <3>1. CASE AcquireLease(r)
                 /\ task' = [task EXCEPT ![p][r] = [pc |-> "check", acq |-> NextAcquisition(r)]]
        <4>1. [pc |-> "check", acq |-> NextAcquisition(r)] \in Task
          BY <3>1, <1>b, LeaseOpsType DEF Task, TaskPc
        <4>2. task \in [Procs -> [Runs -> Task]]
          BY DEF TypeOK
        <4>3. [task EXCEPT ![p][r] = [pc |-> "check", acq |-> NextAcquisition(r)]]
                 \in [Procs -> [Runs -> Task]]
          BY ONLY <4>1, <4>2, TaskUpdateType
        <4> QED BY <3>1, <4>3
      <3>2. CASE Leave(p, r)
        BY <3>2, MoveType
      <3> QED BY <1>1, <3>1, <3>2 DEF Acquire
    <2>3. faults' \in 0..MaxFaults
      BY <1>1, FaultType DEF Acquire, TypeOK
    <2> QED BY <1>1, <2>1, <2>2, <2>3 DEF TypeOK, Acquire
  <1>2. CASE CheckInterruption(p, r)
    <2>1. task' \in [Procs -> [Runs -> Task]]
      <3>1. Interruption(r) \in {"none", "cancel", "pause"}
        BY DEF Interruption
      <3>2. PICK pc \in TaskPc : Move(p, r, pc)
        BY <1>2, <3>1 DEF CheckInterruption, TaskPc
      <3> QED BY <3>2, MoveType
    <2>2. faults' \in 0..MaxFaults
      BY <1>2, FaultType DEF CheckInterruption, TypeOK
    <2> QED BY <1>2, <2>1, <2>2 DEF TypeOK, CheckInterruption, LeaseTypeOK
  <1>3. CASE Mark(p, r)
    <2> DEFINE pc == task[p][r].pc
               a == task[p][r].acq
               mark == MarkAt(pc, runs[r])
    <2>1. pc \in MarkPc
      BY <1>3 DEF Mark
    <2>2. mark \in Marks
      BY <2>1, MarkAtType
    <2>3. /\ runs' \in [Runs -> Row]
          /\ writer' \in [Runs -> Nat]
          /\ spent' \in [Runs -> Int]
      <3>1. CASE WriteLifecycle(r, a, mark)
        BY <3>1, <2>2, <1>a, WriteLifecycleType
      <3>2. CASE UNCHANGED <<runs, writer, spent>>
        BY <3>2 DEF TypeOK
      <3> QED BY <1>3, <3>1, <3>2 DEF Mark
    <2>4. task' \in [Procs -> [Runs -> Task]]
      <3>1. AfterMarkError(pc) \in TaskPc /\ \A b : AfterMark(pc, b) \in TaskPc
        BY DEF AfterMark, AfterMarkError, TaskPc
      <3>2. PICK to \in TaskPc : Move(p, r, to)
        BY <1>3, <3>1 DEF Mark
      <3> QED BY <3>2, MoveType
    <2>5. faults' \in 0..MaxFaults
      BY <1>3, FaultType DEF Mark, TypeOK
    <2> QED BY <1>3, <2>3, <2>4, <2>5 DEF TypeOK, Mark, LeaseTypeOK
  <1>4. CASE WorkWrites(p, r)
    <2>1. writer' \in [Runs -> Nat]
      BY <1>4, <1>a DEF WorkWrites, TypeOK
    <2>2. task' \in [Procs -> [Runs -> Task]]
      BY <1>4, MoveType DEF WorkWrites, TypeOK, TaskPc
    <2> QED BY <1>4, <2>1, <2>2 DEF TypeOK, WorkWrites, LeaseTypeOK
  <1>5. CASE WorkDone(p, r)
    <2>1. task' \in [Procs -> [Runs -> Task]]
      BY <1>5, MoveType DEF WorkDone, TaskPc
    <2> QED BY <1>5, <2>1 DEF TypeOK, WorkDone, LeaseTypeOK
  <1>6. CASE Release(p, r)
    <2>1. task' \in [Procs -> [Runs -> Task]]
      BY <1>6, MoveType DEF Release
    <2>2. LeaseTypeOK'
      BY <1>6, <1>b, LeaseOpsType DEF Release, LeaseTypeOK
    <2>3. faults' \in 0..MaxFaults
      BY <1>6, FaultType DEF Release, TypeOK
    <2> QED BY <1>6, <2>1, <2>2, <2>3 DEF TypeOK, Release
  <1>7. CASE WorkFails(p, r)
    <2>1. task' \in [Procs -> [Runs -> Task]]
      BY <1>7, MoveType DEF WorkFails, TaskPc
    <2> QED BY <1>7, <2>1 DEF TypeOK, WorkFails, LeaseTypeOK
  <1> QED BY <1>1, <1>2, <1>3, <1>4, <1>5, <1>6, <1>7 DEF TaskStep

\* The operator's requests keep the types.
LEMMA RequestType ==
    ASSUME TypeOK, NEW o \in Operators, RequestStep(o)
    PROVE  TypeOK'
  <1>a. NoRequest \in Request
    BY DEF Request
  <1>1. ASSUME NEW p \in Procs, NEW r \in Runs, RequestCancel(o, p, r)
        PROVE  TypeOK'
    <2>1. [op |-> "cancel", proc |-> p, run |-> r] \in Request
      BY DEF Request
    <2>2. ctl' \in [Operators -> Request]
      BY <1>1, <2>1 DEF RequestCancel, TypeOK
    <2> QED BY <1>1, <2>2 DEF RequestCancel, TypeOK, LeaseTypeOK
  <1>2. ASSUME NEW p \in Procs, NEW r \in Runs, RequestRetry(o, p, r)
        PROVE  TypeOK'
    <2>1. RetryBudget(runs[r]) \in Nat
      BY DEF TypeOK, Row, RetryBudget, MaxOf
    <2>2. [op |-> "retry", proc |-> p, run |-> r, max |-> RetryBudget(runs[r])] \in Request
      BY <2>1 DEF Request
    <2>3. ctl' \in [Operators -> Request]
      BY <1>2, <2>2 DEF RequestRetry, TypeOK
    <2> QED BY <1>2, <2>3 DEF RequestRetry, TypeOK, LeaseTypeOK
  <1>3. CASE ApplyCancel(o)
    <2>1. ctl[o] \in [op : {"cancel"}, proc : Procs, run : Runs]
      BY <1>3 DEF ApplyCancel, TypeOK, Request, NoRequest
    <2>2. ctl[o].run \in Runs
      BY <2>1
    <2>3. runs' \in [Runs -> Row]
      <3> DEFINE row == runs[ctl[o].run]
      <3>1. row \in Row
        BY <2>2 DEF TypeOK
      <3>2. row.cancel \cup {"requested"} \in SUBSET {"requested", "done"}
        BY <3>1 DEF Row
      <3>3. [row EXCEPT !.cancel = row.cancel \cup {"requested"}] \in Row
        BY <3>1, <3>2, Zenon DEF Row
      <3>4. runs' = [runs EXCEPT ![ctl[o].run] =
                       [row EXCEPT !.cancel = row.cancel \cup {"requested"}]]
        BY <1>3 DEF ApplyCancel
      <3> QED BY <3>3, <3>4 DEF TypeOK
    <2>4. ctl' \in [Operators -> Request]
      BY <1>3, <1>a DEF ApplyCancel, TypeOK
    <2> QED BY <1>3, <2>3, <2>4 DEF ApplyCancel, TypeOK, LeaseTypeOK
  <1>4. CASE ApplyRetry(o)
    <2>1. ctl[o] \in [op : {"retry"}, proc : Procs, run : Runs, max : Nat]
      BY <1>4 DEF ApplyRetry, TypeOK, Request, NoRequest
    <2>2. ctl[o].run \in Runs /\ ctl[o].max \in Nat
      BY <2>1
    <2>3. runs' \in [Runs -> Row]
      <3>1. Rescheduled(runs[ctl[o].run], ctl[o].max) \in Row
        BY <2>2, RescheduledType DEF TypeOK
      <3> QED BY <1>4, <3>1 DEF ApplyRetry, TypeOK
    <2>4. ctl' \in [Operators -> Request]
      BY <1>4, <1>a DEF ApplyRetry, TypeOK
    <2> QED BY <1>4, <2>3, <2>4 DEF ApplyRetry, TypeOK, LeaseTypeOK
  <1> QED BY <1>1, <1>2, <1>3, <1>4 DEF RequestStep

\* The passing of time keeps the types.
LEMMA ClockType ==
    ASSUME TypeOK, NEW r \in Runs, ClockStep(r)
    PROVE  TypeOK'
  <1>1. CASE BackoffElapses(r)
    <2>1. runs' \in [Runs -> Row]
      BY <1>1 DEF BackoffElapses, TypeOK, Row
    <2>2. faults' \in 0..MaxFaults
      BY <1>1, FaultType DEF BackoffElapses, TypeOK
    <2>3. pauses' \in 0..MaxPauses
      BY <1>1, BoundsAssumption DEF BackoffElapses, TypeOK
    <2> QED BY <1>1, <2>1, <2>2, <2>3 DEF BackoffElapses, TypeOK, LeaseTypeOK
  <1>2. CASE ClaimTimesOut(r)
    <2>1. runs' \in [Runs -> Row]
      BY <1>2 DEF ClaimTimesOut, TypeOK, Row
    <2>2. faults' \in 0..MaxFaults
      BY <1>2, FaultType DEF ClaimTimesOut, TypeOK
    <2> QED BY <1>2, <2>1, <2>2 DEF ClaimTimesOut, TypeOK, LeaseTypeOK
  <1>3. CASE LeaseExpires(r)
    <2>1. LeaseTypeOK'
      BY <1>3, LeaseOpsType DEF LeaseExpires, TypeOK
    <2>2. faults' \in 0..MaxFaults
      BY <1>3, FaultType DEF LeaseExpires, TypeOK
    <2> QED BY <1>3, <2>1, <2>2 DEF LeaseExpires, TypeOK
  <1> QED BY <1>1, <1>2, <1>3 DEF ClockStep

\* A crash keeps the types: the process comes back with nothing in memory.
LEMMA CrashType ==
    ASSUME TypeOK, NEW p \in Procs, Crash(p)
    PROVE  TypeOK'
  <1>1. task' \in [Procs -> [Runs -> Task]]
    <2>1. [r \in Runs |-> NoTask] \in [Runs -> Task]
      BY DEF NoTask, Task, TaskPc
    <2> QED BY <2>1 DEF Crash, TypeOK
  <1>2. disp' \in [Procs -> Tick]
    <2>1. IdleTick \in Tick
      BY DEF IdleTick, Tick, TickPc
    <2> QED BY <2>1 DEF Crash, TypeOK
  <1>3. ctl' \in [Operators -> Request]
    BY DEF Crash, TypeOK, Request
  <1>4. faults' \in 0..MaxFaults
    BY FaultType DEF Crash
  <1> QED BY <1>1, <1>2, <1>3, <1>4 DEF Crash, TypeOK, LeaseTypeOK

\* The initial state is well typed.
LEMMA InitType == Init => TypeOK
  <1> SUFFICES ASSUME Init PROVE TypeOK
    OBVIOUS
  <1>1. LeaseTypeOK
    BY DEF Init, LeaseInit, NoLease, LeaseTypeOK, Lease, LeaseState
  <1>2. runs \in [Runs -> Row] /\ writer \in [Runs -> Nat] /\ spent \in [Runs -> Int]
    BY DEF Init, NoRow, Row, Status
  <1>3. task \in [Procs -> [Runs -> Task]] /\ disp \in [Procs -> Tick]
    BY DEF Init, NoTask, Task, TaskPc, IdleTick, Tick, TickPc
  <1>4. ctl \in [Operators -> Request]
    BY DEF Init, Request
  <1>5. pauses \in 0..MaxPauses /\ faults \in 0..MaxFaults
    BY BoundsAssumption DEF Init
  <1>6. paused \in BOOLEAN
    BY Zenon DEF Init
  <1> QED BY <1>1, <1>2, <1>3, <1>4, <1>5, <1>6 DEF TypeOK

\* Every step keeps the types.
LEMMA StepType == TypeOK /\ [Next]_vars => TypeOK'
  <1> SUFFICES ASSUME TypeOK, [Next]_vars PROVE TypeOK'
    OBVIOUS
  <1>1. ASSUME NEW r \in Runs, NEW m \in StartMaxAttempts, CreateRun(r, m)
        PROVE  TypeOK'
    <2>1. PICK d \in {"now", "backoff"} : runs' = [runs EXCEPT ![r] = NewRow(m, d)]
      BY <1>1 DEF CreateRun
    <2>2. NewRow(m, d) \in Row
      BY BoundsAssumption, NewRowType
    <2>3. runs' \in [Runs -> Row]
      BY <2>1, <2>2 DEF TypeOK
    <2> QED BY <1>1, <2>3 DEF CreateRun, TypeOK, LeaseTypeOK
  <1>2. CASE MaintenanceBegins
    BY <1>2, BoundsAssumption DEF MaintenanceBegins, TypeOK, LeaseTypeOK
  <1>3. CASE MaintenanceEnds
    BY <1>3 DEF MaintenanceEnds, TypeOK, LeaseTypeOK
  <1>4. CASE UNCHANGED vars
    BY <1>4 DEF vars, TypeOK, LeaseTypeOK
  <1> QED
    BY <1>1, <1>2, <1>3, <1>4, DispatcherType, TaskStepType, RequestType, ClockType,
       CrashType DEF Next

\* In every reachable state all tables and all in-memory records of the engine are well
\* typed: no attempt counter or budget ever becomes negative, whatever is refunded.
THEOREM TypeCorrect == Spec => []TypeOK
  BY InitType, StepType, PTL DEF Spec
=============================================================================
