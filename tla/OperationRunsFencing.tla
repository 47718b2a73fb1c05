------------------------ MODULE OperationRunsFencing ------------------------
(***************************************************************************)
(* Fencing of the operation-run engine by lease acquisitions, proved for   *)
(* every set of processes, operators and runs and under every fault.       *)
(*                                                                         *)
(* OneOwner is not inductive: nothing in it forbids a worker to hold an    *)
(* acquisition that has not been drawn yet.  TokensOrdered is the          *)
(* strengthening.  Three facts about a single step carry its proof: how a  *)
(* lease row, a worker's acquisition and the last accepted writer may      *)
(* change.                                                                 *)
(***************************************************************************)
EXTENDS OperationRunsProofs

\* a step acquires the lease anew, or leaves its acquisition and does not revive it
LeaseMoves(r) ==
    \/ lease'[r].acq = lease[r].acq + 1
    \/ /\ lease'[r].acq = lease[r].acq
       /\ lease'[r].state = "active" => lease[r].state = "active"

\* process p alone obtains the acquisition that the lease row now has
Fresh(p, r) ==
    /\ lease'[r].acq = lease[r].acq + 1
    /\ task'[p][r].acq = lease'[r].acq
    /\ \A q \in Procs \ {p} : task'[q][r].acq = task[q][r].acq

TokenMoves(p, r) == task'[p][r].acq \in {0, task[p][r].acq} \/ Fresh(p, r)

\* a write is accepted from the current owner only
WriterMoves(r) == writer'[r] = writer[r] \/ Owns(r, writer'[r])

Moves ==
    /\ \A r \in Runs : LeaseMoves(r) /\ WriterMoves(r)
    /\ \A p \in Procs, r \in Runs : TokenMoves(p, r)

-----------------------------------------------------------------------------
(* What the operators on leases and tasks change.                          *)

\* Acquiring, releasing and expiring a lease are lease moves.
LEMMA LeaseOpsMove ==
    ASSUME LeaseTypeOK, NEW r \in Runs,
           \/ AcquireLease(r) \/ ExpireLease(r) \/ UNCHANGED lease
           \/ \E a \in Nat : ReleaseLease(r, a)
    PROVE  \A s \in Runs : LeaseMoves(s)
  BY DEF LeaseTypeOK, Lease, LeaseState, AcquireLease, NextAcquisition, ExpireLease,
         ReleaseLease, LeaseMoves

\* Replacing the task of one run in one process changes no other acquisition.
LEMMA TaskUpdateTokens ==
    ASSUME NEW T \in [Procs -> [Runs -> Task]], NEW p \in Procs, NEW r \in Runs, NEW t,
           NEW q \in Procs, NEW s \in Runs
    PROVE  [T EXCEPT ![p][r] = t][q][s] = IF q = p /\ s = r THEN t ELSE T[q][s]
  OBVIOUS

\* Moving a task keeps its acquisition; leaving it drops the acquisition.
LEMMA MoveTokens ==
    ASSUME TypeOK, NEW p \in Procs, NEW r \in Runs,
           Leave(p, r) \/ (\E pc \in TaskPc : Move(p, r, pc)) \/ UNCHANGED task
    PROVE  \A q \in Procs, s \in Runs : task'[q][s].acq \in {0, task[q][s].acq}
  <1>1. task \in [Procs -> [Runs -> Task]]
    BY DEF TypeOK
  <1>2. CASE Leave(p, r)
    <2>1. NoTask.acq = 0
      BY DEF NoTask
    <2>2. task' = [task EXCEPT ![p][r] = NoTask]
      BY <1>2 DEF Leave
    <2>3. \A q \in Procs, s \in Runs :
             task'[q][s] = IF q = p /\ s = r THEN NoTask ELSE task[q][s]
      BY <1>1, <2>2, TaskUpdateTokens
    <2> QED BY <2>1, <2>3
  <1>3. ASSUME NEW pc \in TaskPc, Move(p, r, pc)
        PROVE  \A q \in Procs, s \in Runs : task'[q][s].acq = task[q][s].acq
    <2> DEFINE t == [task[p][r] EXCEPT !.pc = pc]
    <2>1. task' = [task EXCEPT ![p][r] = t]
      BY <1>3 DEF Move
    <2>2. t.acq = task[p][r].acq
      BY <1>1 DEF Task
    <2>3. \A q \in Procs, s \in Runs :
             task'[q][s] = IF q = p /\ s = r THEN t ELSE task[q][s]
      <3> HIDE DEF t
      <3> QED BY <1>1, <2>1, TaskUpdateTokens
    <2> QED BY <2>2, <2>3
  <1> QED BY <1>2, <1>3

\* A step that leaves the leases, the tasks and the writers alone makes only moves.
LEMMA QuietMoves ==
    ASSUME TypeOK, UNCHANGED <<lease, task, writer>>
    PROVE  Moves
  BY DEF Moves, LeaseMoves, TokenMoves, WriterMoves

-----------------------------------------------------------------------------
(* Every step makes only moves.                                            *)

\* The dispatcher acquires nothing: it releases stranded leases and launches workers
\* that hold nothing yet.
LEMMA DispatcherMoves ==
    ASSUME TypeOK, NEW p \in Procs, DispatcherStep(p) \/ TickFails(p)
    PROVE  Moves
  <1>1. CASE TickBegins(p) \/ ListRuns(p) \/ ListLeases(p) \/ RecoveryEnds(p)
             \/ TickEnds(p) \/ TickFails(p)
    BY <1>1, QuietMoves
       DEF TickBegins, ListRuns, ListLeases, RecoveryEnds, TickEnds, TickFails
  <1>2. ASSUME NEW o \in disp[p].seen, RecoverRun(p, o)
        PROVE  Moves
    <2>1. o.run \in Runs /\ o.acq \in Nat
      BY <1>2 DEF TypeOK, Tick, Observation
    <2>2. \A s \in Runs : LeaseMoves(s)
      BY <1>2, <2>1, LeaseOpsMove DEF RecoverRun, TypeOK
    <2> QED BY <1>2, <2>2 DEF RecoverRun, Moves, TokenMoves, WriterMoves
  <1>3. ASSUME NEW r \in Runs, ClaimRun(p, r)
        PROVE  Moves
    <2>1. task \in [Procs -> [Runs -> Task]]
      BY DEF TypeOK
    <2>2. Launched(task[p][r]).acq \in {0, task[p][r].acq}
      BY DEF Launched
    <2>3. task' = [task EXCEPT ![p][r] = Launched(task[p][r])] \/ task' = task
      BY <1>3 DEF ClaimRun
    <2>4. \A q \in Procs, s \in Runs :
             task'[q][s] = task[q][s]
             \/ (q = p /\ s = r /\ task'[q][s] = Launched(task[p][r]))
      BY <2>1, <2>3, TaskUpdateTokens
    <2>5. \A q \in Procs, s \in Runs : TokenMoves(q, s)
      BY <2>2, <2>4 DEF TokenMoves
    <2> QED BY <1>3, <2>5 DEF ClaimRun, Moves, LeaseMoves, WriterMoves
  <1> QED BY <1>1, <1>2, <1>3 DEF DispatcherStep

\* A worker obtains an acquisition only by acquiring the lease, and its writes are
\* accepted only while it owns it.
LEMMA TaskMoves ==
    ASSUME TypeOK, NEW p \in Procs, NEW r \in Runs, TaskStep(p, r) \/ WorkFails(p, r)
    PROVE  Moves
  <1>a. task \in [Procs -> [Runs -> Task]] /\ LeaseTypeOK /\ task[p][r].acq \in Nat
    BY DEF TypeOK, Task
  <1>b. writer \in [Runs -> Nat]
    BY DEF TypeOK
  <1>1. CASE Acquire(p, r)
    <2>1. \A s \in Runs : LeaseMoves(s)
      BY <1>1, <1>a, LeaseOpsMove DEF Acquire
    <2>2. CASE Leave(p, r)
      BY <2>1, <2>2, <1>1, MoveTokens DEF Acquire, Moves, TokenMoves, WriterMoves
    <2>3. CASE /\ AcquireLease(r)
               /\ task' = [task EXCEPT ![p][r] = [pc |-> "check", acq |-> NextAcquisition(r)]]
      <3>1. lease'[r].acq = lease[r].acq + 1 /\ NextAcquisition(r) = lease[r].acq + 1
        BY <2>3, <1>a DEF AcquireLease, NextAcquisition, LeaseTypeOK
      <3> DEFINE t == [pc |-> "check", acq |-> NextAcquisition(r)]
      <3>2. t.acq = NextAcquisition(r)
        OBVIOUS
      <3>3. \A q \in Procs, s \in Runs :
               task'[q][s] = IF q = p /\ s = r THEN t ELSE task[q][s]
        <4>1. task' = [task EXCEPT ![p][r] = t]
          BY <2>3
        <4> HIDE DEF t
        <4> QED BY <4>1, <1>a, TaskUpdateTokens
      <3> HIDE DEF t
      <3>4. Fresh(p, r)
        BY <3>1, <3>2, <3>3 DEF Fresh
      <3>5. \A q \in Procs, s \in Runs : TokenMoves(q, s)
        BY <3>3, <3>4 DEF TokenMoves
      <3> QED BY <2>1, <3>5, <1>1 DEF Acquire, Moves, WriterMoves
    <2> QED BY <1>1, <2>2, <2>3 DEF Acquire
  <1>2. CASE CheckInterruption(p, r)
    <2>1. Interruption(r) \in {"none", "cancel", "pause"}
      BY DEF Interruption
    <2>2. \E pc \in TaskPc : Move(p, r, pc)
      BY <1>2, <2>1 DEF CheckInterruption, TaskPc
    <2> QED BY <1>2, <2>2, MoveTokens
            DEF CheckInterruption, Moves, LeaseMoves, TokenMoves, WriterMoves
  <1>3. CASE Mark(p, r)
    <2>1. \E pc \in TaskPc : Move(p, r, pc)
      BY <1>3 DEF Mark, AfterMark, AfterMarkError, TaskPc
    <2>2. \A s \in Runs : WriterMoves(s)
      <3>1. \A mark : WriteLifecycle(r, task[p][r].acq, mark) => \A s \in Runs : WriterMoves(s)
        BY <1>b DEF WriteLifecycle, Accepts, WriterMoves
      <3> QED BY <1>3, <3>1 DEF Mark, WriterMoves
    <2> QED BY <1>3, <2>1, <2>2, MoveTokens DEF Mark, Moves, LeaseMoves, TokenMoves
  <1>4. CASE WorkWrites(p, r)
    <2>1. Move(p, r, "release") \/ UNCHANGED task
      BY <1>4 DEF WorkWrites
    <2>2. \A s \in Runs : WriterMoves(s)
      BY <1>4, <1>b DEF WorkWrites, WriterMoves
    <2> QED BY <1>4, <2>1, <2>2, MoveTokens
            DEF WorkWrites, Moves, LeaseMoves, TokenMoves, TaskPc
  <1>5. CASE WorkDone(p, r) \/ WorkFails(p, r)
    <2>1. \E pc \in TaskPc : Move(p, r, pc)
      BY <1>5 DEF WorkDone, WorkFails, TaskPc
    <2> QED BY <1>5, <2>1, MoveTokens
            DEF WorkDone, WorkFails, Moves, LeaseMoves, TokenMoves, WriterMoves
  <1>6. CASE Release(p, r)
    <2>1. \A s \in Runs : LeaseMoves(s)
      BY <1>6, <1>a, LeaseOpsMove DEF Release
    <2> QED BY <1>6, <2>1, MoveTokens DEF Release, Moves, TokenMoves, WriterMoves
  <1> QED BY <1>1, <1>2, <1>3, <1>4, <1>5, <1>6 DEF TaskStep

\* Every step of the engine, faults and crashes included, makes only moves.
LEMMA StepMoves == TypeOK /\ [Next]_vars => Moves
  <1> SUFFICES ASSUME TypeOK, [Next]_vars PROVE Moves
    OBVIOUS
  <1>1. ASSUME NEW r \in Runs, NEW m \in StartMaxAttempts, CreateRun(r, m)
        PROVE  Moves
    BY <1>1, QuietMoves DEF CreateRun
  <1>2. ASSUME NEW p \in Procs, Crash(p)
        PROVE  Moves
    <2>1. \A q \in Procs, s \in Runs : task'[q][s] \in {NoTask, task[q][s]}
      BY <1>2 DEF Crash, TypeOK
    <2>2. \A q \in Procs, s \in Runs : TokenMoves(q, s)
      BY <2>1 DEF TokenMoves, NoTask
    <2> QED BY <1>2, <2>2 DEF Crash, Moves, LeaseMoves, WriterMoves
  <1>3. ASSUME NEW r \in Runs, ClockStep(r)
        PROVE  Moves
    <2>1. CASE BackoffElapses(r) \/ ClaimTimesOut(r)
      BY <2>1, QuietMoves DEF BackoffElapses, ClaimTimesOut
    <2>2. CASE LeaseExpires(r)
      <3>1. \A s \in Runs : LeaseMoves(s)
        BY <2>2, LeaseOpsMove DEF LeaseExpires, TypeOK
      <3> QED BY <2>2, <3>1 DEF LeaseExpires, Moves, TokenMoves, WriterMoves
    <2> QED BY <1>3, <2>1, <2>2 DEF ClockStep
  <1>4. ASSUME NEW o \in Operators, RequestStep(o)
        PROVE  Moves
    BY <1>4, QuietMoves
       DEF RequestStep, RequestCancel, RequestRetry, ApplyCancel, ApplyRetry
  <1>5. CASE MaintenanceBegins \/ MaintenanceEnds \/ UNCHANGED vars
    BY <1>5, QuietMoves DEF MaintenanceBegins, MaintenanceEnds, vars
  <1> QED BY <1>1, <1>2, <1>3, <1>4, <1>5, DispatcherMoves, TaskMoves DEF Next

-----------------------------------------------------------------------------
(* The theorems.                                                           *)

\* Initially nobody holds anything.
LEMMA InitOrdered == Init => TokensOrdered
  <1> SUFFICES ASSUME Init PROVE TokensOrdered
    OBVIOUS
  <1>1. \A r \in Runs : lease[r].acq = 0 /\ lease[r].state = "absent" /\ writer[r] = 0
    BY DEF Init, LeaseInit, NoLease
  <1>2. \A p \in Procs, r \in Runs : task[p][r].acq = 0
    BY DEF Init, NoTask
  <1>3. ASSUME NEW r \in Runs
        PROVE  /\ lease[r].state # "active"
               /\ writer[r] <= lease[r].acq
               /\ \A p \in Procs : task[p][r].acq <= lease[r].acq
    BY <1>1, <1>2
  <1> QED BY <1>2, <1>3, Zenon DEF TokensOrdered

\* Moves keep the acquisitions ordered.
LEMMA StepOrdered == TypeOK /\ TypeOK' /\ TokensOrdered /\ Moves => TokensOrdered'
  <1> SUFFICES ASSUME TypeOK, TypeOK', TokensOrdered, Moves, NEW r \in Runs
               PROVE  /\ lease'[r].state = "active" => lease'[r].acq # 0
                      /\ writer'[r] <= lease'[r].acq
                      /\ \A p \in Procs : task'[p][r].acq <= lease'[r].acq
                      /\ \A p, q \in Procs :
                           (p # q /\ task'[p][r].acq # 0) => task'[p][r].acq # task'[q][r].acq
    BY DEF TokensOrdered
  <1>1. /\ lease[r].acq \in Nat /\ lease'[r].acq \in Nat /\ writer[r] \in Nat
        /\ \A p \in Procs : task[p][r].acq \in Nat
    BY DEF TypeOK, LeaseTypeOK, Lease, Task
  <1>2. LeaseMoves(r) /\ WriterMoves(r) /\ \A p \in Procs : TokenMoves(p, r)
    BY DEF Moves
  <1>3. lease'[r].state = "active" => lease'[r].acq # 0
    BY <1>1, <1>2 DEF LeaseMoves, TokensOrdered
  <1>4. writer'[r] <= lease'[r].acq
    BY <1>1, <1>2 DEF LeaseMoves, WriterMoves, Owns, TokensOrdered
  <1>5. \A p \in Procs : task'[p][r].acq <= lease'[r].acq
    BY <1>1, <1>2 DEF LeaseMoves, TokenMoves, Fresh, TokensOrdered
  <1>6. ASSUME NEW p \in Procs, NEW q \in Procs, p # q, task'[p][r].acq # 0
        PROVE  task'[p][r].acq # task'[q][r].acq
    <2>1. CASE Fresh(p, r)
      BY <1>1, <1>6, <2>1 DEF Fresh, TokensOrdered
    <2>2. CASE Fresh(q, r)
      BY <1>1, <1>6, <2>2 DEF Fresh, TokensOrdered
    <2>3. CASE ~Fresh(p, r) /\ ~Fresh(q, r)
      BY <1>2, <1>6, <2>3 DEF TokenMoves, TokensOrdered
    <2> QED BY <2>1, <2>2, <2>3
  <1> QED BY <1>3, <1>4, <1>5, <1>6

\* Lease acquisitions of a run are ordered, whatever workers are delayed, lost or fenced.
THEOREM AcquisitionsOrdered == Spec => []TokensOrdered
  BY InitOrdered, StepOrdered, StepMoves, StepType, TypeCorrect, PTL DEF Spec

\* No two processes ever own the lease of a run at the same time.
THEOREM SingleOwner == Spec => []OneOwner
  <1>1. TokensOrdered => OneOwner
    BY DEF TokensOrdered, OneOwner, Owns
  <1> QED BY <1>1, AcquisitionsOrdered, PTL

\* A worker whose acquisition has been superseded never gets a write accepted again.
THEOREM StaleWritersFenced == Spec => WritersFenced
  <1>1. TypeOK /\ TokensOrdered /\ [Next]_vars => [\A r \in Runs : writer'[r] >= writer[r]]_vars
    <2> SUFFICES ASSUME TypeOK, TokensOrdered, [Next]_vars, NEW r \in Runs
                 PROVE  writer'[r] >= writer[r]
      OBVIOUS
    <2>1. WriterMoves(r)
      BY StepMoves DEF Moves
    <2>2. writer[r] \in Nat /\ lease[r].acq \in Nat /\ writer[r] <= lease[r].acq
      BY DEF TypeOK, LeaseTypeOK, Lease, TokensOrdered
    <2> QED BY <2>1, <2>2 DEF WriterMoves, Owns
  <1> QED BY <1>1, TypeCorrect, AcquisitionsOrdered, PTL DEF Spec, WritersFenced

-----------------------------------------------------------------------------
(* Who ends a run.                                                         *)

\* the step is a lifecycle write of the worker that owns the lease of run r
OwnerActs(r) ==
    \E p \in Procs : Owns(r, task[p][r].acq) /\ task'[p][r].pc # task[p][r].pc

\* the step applies an operator's retry of run r
OperatorActs(r) ==
    \E o \in Operators : ctl[o].op = "retry" /\ ctl[o].run = r /\ ctl'[o] # ctl[o]

Ends(r) ==
    runs[r].status = "running" /\ lease[r].state = "active" /\ runs'[r].status # "running"

\* The dispatcher ends no run whose lease is active: recovery reads the lease again under
\* the lock, and a claim does not change the status.
LEMMA DispatcherSpares ==
    ASSUME TypeOK, NEW p \in Procs, DispatcherStep(p) \/ TickFails(p), NEW r \in Runs
    PROVE  ~Ends(r)
  <1>1. CASE TickBegins(p) \/ ListRuns(p) \/ ListLeases(p) \/ RecoveryEnds(p)
             \/ TickEnds(p) \/ TickFails(p)
    BY <1>1 DEF Ends, TickBegins, ListRuns, ListLeases, RecoveryEnds, TickEnds, TickFails
  <1>2. ASSUME NEW o \in disp[p].seen, RecoverRun(p, o)
        PROVE  ~Ends(r)
    <2>1. CASE o.run = r
      BY <1>2, <2>1 DEF RecoverRun, StillStranded, Ends
    <2>2. CASE o.run # r
      BY <1>2, <2>2 DEF RecoverRun, Ends, TypeOK
    <2> QED BY <2>1, <2>2
  <1>3. ASSUME NEW s \in Runs, ClaimRun(p, s)
        PROVE  ~Ends(r)
    BY <1>3 DEF ClaimRun, Claimable, Ends, TypeOK
  <1> QED BY <1>1, <1>2, <1>3 DEF DispatcherStep

\* A worker ends a run only as its owner.
LEMMA WorkerOwns ==
    ASSUME TypeOK, NEW p \in Procs, NEW s \in Runs, TaskStep(p, s) \/ WorkFails(p, s),
           NEW r \in Runs, Ends(r)
    PROVE  OwnerActs(r)
  <1>1. Mark(p, s)
    BY DEF TaskStep, Acquire, CheckInterruption, WorkWrites, WorkDone, WorkFails, Release,
           Ends
  <1>2. PICK mark : WriteLifecycle(s, task[p][s].acq, mark)
    BY <1>1 DEF Mark, Ends
  <1>3. s = r
    BY <1>2 DEF WriteLifecycle, Ends, TypeOK
  <1>4. Owns(r, task[p][r].acq)
    BY <1>2, <1>3 DEF WriteLifecycle, Accepts, Ends
  <1>5. task'[p][r].pc # task[p][r].pc
    <2>1. PICK to \in TaskPc : Move(p, s, to) /\ to # task[p][s].pc
      BY <1>1 DEF Mark, MarkPc, AfterMark, AfterMarkError, TaskPc
    <2>2. task'[p][s].pc = to
      BY <2>1 DEF Move, TypeOK, Task
    <2> QED BY <1>3, <2>1, <2>2
  <1> QED BY <1>4, <1>5 DEF OwnerActs

\* A request ends a run only as a retry of that run.
LEMMA RequestRetries ==
    ASSUME TypeOK, NEW o \in Operators, RequestStep(o), NEW r \in Runs, Ends(r)
    PROVE  OperatorActs(r)
  <1>1. CASE ApplyRetry(o)
    <2>1. ctl[o].run = r
      BY <1>1 DEF ApplyRetry, Ends, TypeOK
    <2>2. ctl'[o] = NoRequest /\ ctl[o] # NoRequest
      BY <1>1 DEF ApplyRetry, NoRequest, TypeOK
    <2> QED BY <1>1, <2>1, <2>2 DEF ApplyRetry, OperatorActs
  <1>2. CASE ApplyCancel(o)
    <2>1. ctl[o] \in [op : {"cancel"}, proc : Procs, run : Runs]
      BY <1>2 DEF ApplyCancel, TypeOK, Request, NoRequest
    <2>2. runs'[r].status = runs[r].status
      BY <1>2, <2>1 DEF ApplyCancel, TypeOK, Row
    <2> QED BY <2>2 DEF Ends
  <1> QED BY <1>1, <1>2 DEF RequestStep, RequestCancel, RequestRetry, Ends

\* A run under an unexpired lease leaves "running" only by its owner's write or by an
\* operator's retry, whatever recovery has observed and however many processes there are.
THEOREM OnlyOwnerEnds == Spec => OwnerDecides
  <1>1. TypeOK /\ [Next]_vars
          => [\A r \in Runs :
               (runs[r].status = "running" /\ lease[r].state = "active"
                  /\ runs'[r].status # "running")
               => \/ \E p \in Procs : /\ Owns(r, task[p][r].acq)
                                      /\ task'[p][r].pc # task[p][r].pc
                  \/ \E o \in Operators : /\ ctl[o].op = "retry"
                                          /\ ctl[o].run = r
                                          /\ ctl'[o] # ctl[o]]_vars
    <2> SUFFICES ASSUME TypeOK, [Next]_vars, NEW r \in Runs, Ends(r)
                 PROVE  OwnerActs(r) \/ OperatorActs(r)
      BY DEF Ends, OwnerActs, OperatorActs
    <2>1. ASSUME NEW s \in Runs, NEW m \in StartMaxAttempts, CreateRun(s, m)
          PROVE  FALSE
      BY <2>1 DEF CreateRun, Ends, TypeOK
    <2>2. ASSUME NEW s \in Runs, ClockStep(s)
          PROVE  FALSE
      <3>1. CASE LeaseExpires(s)
        BY <3>1 DEF LeaseExpires, Ends
      <3>2. CASE BackoffElapses(s)
        BY <3>2 DEF BackoffElapses, Ends, TypeOK
      <3>3. CASE ClaimTimesOut(s)
        <4>1. runs' = [runs EXCEPT ![s].claim = "stale"]
          BY <3>3 DEF ClaimTimesOut
        <4>2. runs'[r].status = runs[r].status
          BY <4>1 DEF TypeOK, Row
        <4> QED BY <4>2 DEF Ends
      <3> QED BY <2>2, <3>1, <3>2, <3>3 DEF ClockStep
    <2>3. CASE MaintenanceBegins \/ MaintenanceEnds \/ UNCHANGED vars \/ \E p \in Procs : Crash(p)
      BY <2>3 DEF MaintenanceBegins, MaintenanceEnds, vars, Crash, Ends
    <2> QED BY <2>1, <2>2, <2>3, DispatcherSpares, WorkerOwns, RequestRetries DEF Next
  <1> QED BY <1>1, TypeCorrect, PTL DEF Spec, OwnerDecides
=============================================================================
