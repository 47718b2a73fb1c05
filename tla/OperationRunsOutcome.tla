------------------------ MODULE OperationRunsOutcome ------------------------
(***************************************************************************)
(* What becomes of a run: its attempt budget, which runs of a type may run *)
(* together, what a cancellation and a completion are worth, and that the  *)
(* engine implements RunLifecycle.                                         *)
(*                                                                         *)
(* Everything rests on one description of a step (StepChanges): at most    *)
(* one run is changed, in one of nine ways, and a crash only drops tasks.  *)
(*                                                                         *)
(* The budget needs a single operator: of two retries of one run, the one  *)
(* that read the run first may write last and lower max_attempts below     *)
(* what has been used (double_retry.cfg).  The rest needs a single process *)
(* as well, the supported topology: then a launched worker that has not    *)
(* started its run can only be overtaken by itself.                        *)
(***************************************************************************)
EXTENDS OperationRunsFencing, FiniteSetTheorems

\* one application process, and one operator's request at a time
OneProcess == \A p, q \in Procs : p = q

OneOperator == \A o, q \in Operators : o = q

-----------------------------------------------------------------------------
(* How a step may change a run: its row, its lease and its workers.        *)

RowKept(r) ==
    /\ runs'[r].status = runs[r].status
    /\ runs'[r].attempts = runs[r].attempts
    /\ runs'[r].max = runs[r].max
    /\ runs'[r].claim = runs[r].claim
    /\ spent'[r] = spent[r]

TasksKept(r) == \A p \in Procs : task'[p][r] = task[p][r]

OthersKept(p, r) == \A q \in Procs \ {p} : task'[q][r] = task[q][r]

RowOnly(r) == lease'[r] = lease[r] /\ spent'[r] = spent[r] /\ TasksKept(r)

\* nothing happens to run r, unless its process dies
Undisturbed(r) ==
    /\ RowKept(r)
    /\ lease'[r] = lease[r]
    /\ \A p \in Procs : task'[p][r] \in {task[p][r], NoTask}

Created(r) ==
    /\ runs[r].status = "absent"
    /\ \E m \in StartMaxAttempts, d \in {"now", "backoff"} : runs'[r] = NewRow(m, d)
    /\ RowOnly(r)

Unstarted == {"acquire", "check", "start"}

Aged(r) ==
    /\ runs[r].claim = "fresh"
    /\ runs'[r] = [runs[r] EXCEPT !.claim = "stale"]
    /\ (\E p \in Procs : task[p][r].pc \in Unstarted) => "slow_start" \in FaultKinds
    /\ RowOnly(r)

Taken(p, r) ==
    /\ Claimable(r)
    /\ runs'[r] = Claimed(runs[r])
    /\ lease'[r] = lease[r] /\ spent'[r] = spent[r]
    /\ task'[p][r] \in {task[p][r], Launched(task[p][r])}
    /\ OthersKept(p, r)

Reclaimed(r) ==
    /\ runs[r].status = "running" /\ lease[r].state # "active"
    /\ runs'[r] = Recovered(runs[r])
    /\ lease'[r].acq = lease[r].acq /\ lease'[r].state # "active"
    /\ spent'[r] = spent[r]
    /\ TasksKept(r)

Retried(o, r) ==
    /\ ctl[o].op = "retry" /\ ctl[o].run = r
    /\ ctl'[o].op # "retry"
    /\ runs'[r] = Rescheduled(runs[r], ctl[o].max)
    /\ RowOnly(r)

\* the accepted lifecycle write of a worker, which moves on or sees an error
Written(p, r) ==
    LET pc == task[p][r].pc
        mark == MarkAt(pc, runs[r])
    IN /\ pc \in MarkPc
       /\ Owns(r, task[p][r].acq)
       /\ runs'[r] = Lifecycle(runs[r], mark)
       /\ spent'[r] = CASE mark = "started" -> spent[r] + 1
                        [] mark = "paused" -> spent[r] - 1
                        [] OTHER -> spent[r]
       /\ lease'[r] = lease[r]
       /\ task'[p][r].acq = task[p][r].acq
       /\ \/ task'[p][r].pc = AfterMark(pc, TRUE)
          \/ "lost_ack" \in FaultKinds /\ task'[p][r].pc = AfterMarkError(pc)
       /\ OthersKept(p, r)

\* the lease is granted; the worker that asked for it has it, or never learns of it
Granted(p, r) ==
    /\ RowKept(r)
    /\ lease[r].state # "active"
    /\ lease'[r] = [acq |-> lease[r].acq + 1, state |-> "active"]
    /\ task[p][r].pc = "acquire"
    /\ task'[p][r] \in {NoTask, [pc |-> "check", acq |-> lease[r].acq + 1]}
    /\ OthersKept(p, r)

\* a worker goes on or leaves, and may release its lease
Moved(p, r) ==
    /\ RowKept(r)
    /\ lease'[r].acq = lease[r].acq
    /\ lease'[r].state = "active" => lease[r].state = "active"
    /\ task[p][r].pc # "none"
    /\ \/ task'[p][r] = NoTask
       \/ /\ task[p][r].pc # "release"
          /\ task'[p][r].acq = task[p][r].acq
          /\ task'[p][r].pc \in Unstarted => task[p][r].pc \in Unstarted
    /\ OthersKept(p, r)

Expired(r) ==
    /\ RowKept(r)
    /\ lease[r].state = "active"
    /\ lease'[r] = [lease[r] EXCEPT !.state = "expired"]
    /\ TasksKept(r)

Changed(r) ==
    \/ Created(r) \/ Aged(r) \/ Reclaimed(r) \/ Expired(r)
    \/ \E o \in Operators : Retried(o, r)
    \/ \E p \in Procs : Taken(p, r) \/ Written(p, r) \/ Granted(p, r) \/ Moved(p, r)

Others(r) == \A s \in Runs \ {r} : Undisturbed(s)

Changes == (\A s \in Runs : Undisturbed(s)) \/ (\E r \in Runs : Changed(r) /\ Others(r))

-----------------------------------------------------------------------------
(* Every step is such a change.                                            *)

\* A step that leaves rows, leases, tasks and the count of starts alone disturbs no run.
LEMMA QuietChanges ==
    ASSUME UNCHANGED <<runs, lease, task, spent>>
    PROVE  Changes
  BY DEF Changes, Undisturbed, RowKept

\* Rewriting one row, all else equal, leaves the other runs undisturbed.
LEMMA RowWritten ==
    ASSUME TypeOK, NEW r \in Runs, NEW row, UNCHANGED <<task, spent>>,
           runs' = [runs EXCEPT ![r] = row], \A s \in Runs \ {r} : lease'[s] = lease[s]
    PROVE  runs'[r] = row /\ Others(r)
  BY DEF TypeOK, Others, Undisturbed, RowKept

\* Rewriting one task leaves the other tasks of the run and the other runs alone.
LEMMA TaskWritten ==
    ASSUME TypeOK, NEW p \in Procs, NEW r \in Runs, NEW t,
           task' = [task EXCEPT ![p][r] = t],
           \A s \in Runs \ {r} : RowKept(s) /\ lease'[s] = lease[s]
    PROVE  task'[p][r] = t /\ OthersKept(p, r) /\ Others(r)
  <1>1. \A q \in Procs, s \in Runs : task'[q][s] = IF q = p /\ s = r THEN t ELSE task[q][s]
    BY TaskUpdateTokens DEF TypeOK
  <1> QED BY <1>1 DEF OthersKept, Others, Undisturbed

\* The dispatcher takes a claimable run or recovers a stranded one.
LEMMA DispatcherChanges ==
    ASSUME TypeOK, NEW p \in Procs, DispatcherStep(p) \/ TickFails(p)
    PROVE  Changes
  <1>1. CASE TickBegins(p) \/ ListRuns(p) \/ ListLeases(p) \/ RecoveryEnds(p)
             \/ TickEnds(p) \/ TickFails(p)
    BY <1>1, QuietChanges
       DEF TickBegins, ListRuns, ListLeases, RecoveryEnds, TickEnds, TickFails
  <1>2. ASSUME NEW o \in disp[p].seen, RecoverRun(p, o)
        PROVE  Changes
    <2>1. CASE ~StillStranded(o)
      BY <1>2, <2>1, QuietChanges DEF RecoverRun
    <2>2. CASE StillStranded(o)
      <3> DEFINE r == o.run
      <3>0. r \in Runs /\ LeaseTypeOK
        BY DEF TypeOK, Tick, Observation
      <3>1. /\ runs' = [runs EXCEPT ![r] = Recovered(runs[r])]
            /\ ReleaseLease(r, o.acq) /\ UNCHANGED <<task, spent>>
        BY <1>2, <2>2 DEF RecoverRun
      <3>2. /\ \A s \in Runs \ {r} : lease'[s] = lease[s]
            /\ lease'[r].acq = lease[r].acq /\ lease'[r].state # "active"
        BY <2>2, <3>0, <3>1 DEF StillStranded, ReleaseLease, LeaseTypeOK, Lease
      <3>3. runs'[r] = Recovered(runs[r]) /\ Others(r)
        BY <3>0, <3>1, <3>2, RowWritten
      <3>4. Reclaimed(r)
        BY <2>2, <3>1, <3>2, <3>3 DEF StillStranded, Reclaimed, TasksKept
      <3> QED BY <3>0, <3>3, <3>4 DEF Changes, Changed
    <2> QED BY <2>1, <2>2
  <1>3. ASSUME NEW r \in Runs, ClaimRun(p, r)
        PROVE  Changes
    <2>1. runs'[r] = Claimed(runs[r]) /\ \A s \in Runs \ {r} : RowKept(s)
      BY <1>3 DEF ClaimRun, TypeOK, RowKept
    <2>2. /\ task'[p][r] \in {task[p][r], Launched(task[p][r])}
          /\ OthersKept(p, r) /\ Others(r)
      <3>1. CASE task' = [task EXCEPT ![p][r] = Launched(task[p][r])]
        BY <1>3, <2>1, <3>1, TaskWritten DEF ClaimRun
      <3>2. CASE UNCHANGED task
        BY <1>3, <2>1, <3>2 DEF ClaimRun, OthersKept, Others, Undisturbed
      <3> QED BY <1>3, <3>1, <3>2 DEF ClaimRun
    <2>3. Taken(p, r)
      BY <1>3, <2>1, <2>2 DEF ClaimRun, Taken
    <2> QED BY <2>2, <2>3 DEF Changes, Changed
  <1> QED BY <1>1, <1>2, <1>3 DEF DispatcherStep

\* Moving a task to a pc that is not before the start, or ending it.
LEMMA MoveChanges ==
    ASSUME TypeOK, NEW p \in Procs, NEW r \in Runs, UNCHANGED <<runs, spent>>,
           \/ Leave(p, r) /\ \E a \in Nat : ReleaseLease(r, a) \/ UNCHANGED lease
           \/ /\ UNCHANGED lease /\ task[p][r].pc # "release"
              /\ \E to \in TaskPc : /\ Move(p, r, to)
                                    /\ to \in Unstarted => task[p][r].pc \in Unstarted,
           task[p][r].pc # "none"
    PROVE  Changes
  <1>0. LeaseTypeOK /\ task[p][r] \in Task
    BY DEF TypeOK
  <1>1. /\ lease'[r].acq = lease[r].acq
        /\ lease'[r].state = "active" => lease[r].state = "active"
        /\ \A s \in Runs \ {r} : lease'[s] = lease[s]
    BY <1>0 DEF ReleaseLease, LeaseTypeOK, Lease
  <1>2. \A s \in Runs : RowKept(s)
    BY DEF RowKept
  <1>3. CASE Leave(p, r)
    <2>1. task'[p][r] = NoTask /\ OthersKept(p, r) /\ Others(r)
      BY <1>1, <1>2, <1>3, TaskWritten DEF Leave
    <2> QED BY <1>1, <1>2, <2>1 DEF Moved, Changes, Changed
  <1>4. CASE ~Leave(p, r)
    <2>1. PICK to \in TaskPc : /\ Move(p, r, to) /\ task[p][r].pc # "release"
                               /\ to \in Unstarted => task[p][r].pc \in Unstarted
      BY <1>4
    <2> DEFINE t == [task[p][r] EXCEPT !.pc = to]
    <2>2. task' = [task EXCEPT ![p][r] = t] /\ t.pc = to /\ t.acq = task[p][r].acq
      BY <1>0, <2>1 DEF Move, Task
    <2> HIDE DEF t
    <2>3. task'[p][r] = t /\ OthersKept(p, r) /\ Others(r)
      BY <1>1, <1>2, <2>2, TaskWritten
    <2>4. Moved(p, r)
      BY <1>1, <1>2, <2>1, <2>2, <2>3 DEF Moved
    <2> QED BY <2>3, <2>4 DEF Changes, Changed
  <1> QED BY <1>3, <1>4

\* A worker's accepted write is the lifecycle write of the lease's owner.
LEMMA MarkChanges ==
    ASSUME TypeOK, NEW p \in Procs, NEW r \in Runs, Mark(p, r)
    PROVE  Changes
  <1> DEFINE pc == task[p][r].pc
             a == task[p][r].acq
             mark == MarkAt(pc, runs[r])
  <1>0. pc \in MarkPc /\ pc \notin {"none", "release"} /\ UNCHANGED lease /\ task[p][r] \in Task
    BY DEF Mark, MarkPc, TypeOK
  <1> DEFINE ends == {"work", "fail", "release"}
  <1>1. PICK to \in ends :
          /\ Move(p, r, to)
          /\ \/ /\ WriteLifecycle(r, a, mark)
                /\ \/ to = AfterMark(pc, Accepts(r, a, mark))
                   \/ "lost_ack" \in FaultKinds /\ to = AfterMarkError(pc)
             \/ UNCHANGED <<runs, writer, spent>>
    <2>1. AfterMark(pc, Accepts(r, a, mark)) \in ends /\ AfterMarkError(pc) \in ends
      BY DEF AfterMark, AfterMarkError
    <2>2. CASE WriteLifecycle(r, a, mark) /\ Move(p, r, AfterMark(pc, Accepts(r, a, mark)))
      BY <2>1, <2>2, Zenon
    <2>3. CASE Fault("query_error") /\ Move(p, r, AfterMarkError(pc))
               /\ UNCHANGED <<runs, writer, spent>>
      BY <2>1, <2>3, Zenon
    <2>4. CASE Fault("lost_ack") /\ WriteLifecycle(r, a, mark) /\ Move(p, r, AfterMarkError(pc))
      BY <2>1, <2>4, Zenon DEF Fault
    <2> QED BY <2>2, <2>3, <2>4, Zenon DEF Mark
  <1>a. to \in TaskPc /\ to \notin Unstarted
    BY DEF TaskPc, Unstarted
  <1>2. CASE UNCHANGED <<runs, spent>>
    BY <1>0, <1>a, <1>1, <1>2, MoveChanges
  <1>3. CASE WriteLifecycle(r, a, mark) /\ Accepts(r, a, mark)
    <2>1. /\ runs' = [runs EXCEPT ![r] = Lifecycle(runs[r], mark)]
          /\ spent' = [spent EXCEPT ![r] = CASE mark = "started" -> @ + 1
                                             [] mark = "paused" -> @ - 1
                                             [] OTHER -> @]
      BY <1>3 DEF WriteLifecycle
    <2>2. /\ runs'[r] = Lifecycle(runs[r], mark)
          /\ spent'[r] = CASE mark = "started" -> spent[r] + 1
                           [] mark = "paused" -> spent[r] - 1
                           [] OTHER -> spent[r]
          /\ \A s \in Runs \ {r} : RowKept(s)
      BY <2>1 DEF TypeOK, RowKept
    <2> DEFINE t == [task[p][r] EXCEPT !.pc = to]
    <2>3. task' = [task EXCEPT ![p][r] = t] /\ t.pc = to /\ t.acq = a
      BY <1>0, <1>1 DEF Move, Task
    <2> HIDE DEF t
    <2>4. task'[p][r] = t /\ OthersKept(p, r) /\ Others(r)
      BY <1>0, <2>2, <2>3, TaskWritten
    <2>5. Owns(r, a)
      BY <1>3 DEF Accepts
    <2>6. \/ to = AfterMark(pc, TRUE)
          \/ "lost_ack" \in FaultKinds /\ to = AfterMarkError(pc)
          \/ UNCHANGED <<runs, spent>>
      BY <1>1, <1>3 DEF AfterMark
    <2>7. CASE ~UNCHANGED <<runs, spent>>
      <3>1. Written(p, r)
        BY <1>0, <2>2, <2>3, <2>4, <2>5, <2>6, <2>7 DEF Written
      <3> QED BY <2>4, <3>1 DEF Changes, Changed
    <2> QED BY <1>2, <2>7
  <1>4. CASE WriteLifecycle(r, a, mark) /\ ~Accepts(r, a, mark)
    BY <1>2, <1>4 DEF WriteLifecycle
  <1> QED BY <1>1, <1>2, <1>3, <1>4

\* Acquiring the lease grants it, or ends the task.
LEMMA AcquireChanges ==
    ASSUME TypeOK, NEW p \in Procs, NEW r \in Runs, Acquire(p, r)
    PROVE  Changes
  <1>0. LeaseTypeOK /\ task[p][r].pc = "acquire" /\ UNCHANGED <<runs, spent>>
    BY DEF TypeOK, Acquire
  <1>1. CASE Leave(p, r) /\ UNCHANGED lease
    BY <1>0, <1>1, MoveChanges
  <1>2. CASE AcquireLease(r)
    <2>1. /\ lease[r].state # "active"
          /\ lease'[r] = [acq |-> lease[r].acq + 1, state |-> "active"]
          /\ \A s \in Runs \ {r} : RowKept(s) /\ lease'[s] = lease[s]
          /\ RowKept(r)
      BY <1>0, <1>2 DEF AcquireLease, LeaseAvailable, NextAcquisition, LeaseTypeOK, RowKept
    <2> DEFINE c == [pc |-> "check", acq |-> lease[r].acq + 1]
    <2>2. PICK t \in {NoTask, c} : task' = [task EXCEPT ![p][r] = t]
      BY <1>2, SMT DEF Acquire, AcquireLease, Leave, NextAcquisition
    <2>3. task'[p][r] = t /\ OthersKept(p, r) /\ Others(r)
      <3> HIDE DEF c
      <3> QED BY <2>1, <2>2, TaskWritten
    <2>4. Granted(p, r)
      BY <1>0, <2>1, <2>2, <2>3 DEF Granted
    <2> QED BY <2>3, <2>4 DEF Changes, Changed
  <1> QED BY <1>1, <1>2 DEF Acquire

\* A worker's step is a grant, an accepted write, or a move of its task.
LEMMA TaskChanges ==
    ASSUME TypeOK, NEW p \in Procs, NEW r \in Runs, TaskStep(p, r) \/ WorkFails(p, r)
    PROVE  Changes
  <1>1. CASE CheckInterruption(p, r)
    <2>1. Interruption(r) \in {"none", "cancel", "pause"} /\ UNCHANGED <<lease, runs, spent>>
      BY <1>1 DEF Interruption, CheckInterruption
    <2>2. /\ task[p][r].pc \notin {"none", "release"}
          /\ \E to \in TaskPc : Move(p, r, to) /\ (to \in Unstarted => task[p][r].pc \in Unstarted)
      BY <1>1, <2>1 DEF CheckInterruption, TaskPc, Unstarted
    <2> QED BY <2>1, <2>2, MoveChanges
  <1>2. CASE WorkWrites(p, r) /\ UNCHANGED task
    BY <1>2, QuietChanges DEF WorkWrites
  <1>3. CASE WorkWrites(p, r) /\ ~UNCHANGED task
    BY <1>3, MoveChanges DEF WorkWrites, TaskPc, Unstarted
  <1>4. CASE WorkDone(p, r) \/ WorkFails(p, r)
    BY <1>4, MoveChanges DEF WorkDone, WorkFails, TaskPc, Unstarted
  <1>5. CASE Release(p, r)
    <2>1. task[p][r].acq \in Nat
      BY DEF TypeOK, Task
    <2> QED BY <1>5, <2>1, MoveChanges DEF Release
  <1> QED BY <1>1, <1>2, <1>3, <1>4, <1>5, AcquireChanges, MarkChanges DEF TaskStep

\* Time makes a run due, makes its claim stale, or ends its lease.
LEMMA ClockChanges ==
    ASSUME TypeOK, NEW r \in Runs, ClockStep(r)
    PROVE  Changes
  <1>0. runs[r] \in Row /\ LeaseTypeOK
    BY DEF TypeOK
  <1>1. CASE BackoffElapses(r)
    <2> DEFINE row == [runs[r] EXCEPT !.due = "now"]
    <2>1. runs' = [runs EXCEPT ![r] = row] /\ UNCHANGED <<task, spent, lease>>
      BY <1>1 DEF BackoffElapses
    <2>2. /\ row.status = runs[r].status /\ row.attempts = runs[r].attempts
          /\ row.max = runs[r].max /\ row.claim = runs[r].claim
      BY <1>0 DEF Row
    <2> HIDE DEF row
    <2>3. runs'[r] = row /\ Others(r)
      BY <2>1, RowWritten
    <2> QED BY <2>1, <2>2, <2>3 DEF Others, Undisturbed, RowKept, Changes
  <1>2. CASE ClaimTimesOut(r)
    <2> DEFINE row == [runs[r] EXCEPT !.claim = "stale"]
    <2>1. runs' = [runs EXCEPT ![r] = row] /\ UNCHANGED <<task, spent, lease>>
      BY <1>2 DEF ClaimTimesOut
    <2>2. runs'[r] = row /\ Others(r)
      <3> HIDE DEF row
      <3> QED BY <2>1, RowWritten
    <2>3. Aged(r)
      BY <1>2, <2>1, <2>2 DEF ClaimTimesOut, Fault, Unstarted, Aged, RowOnly, TasksKept
    <2> QED BY <2>2, <2>3 DEF Changes, Changed
  <1>3. CASE LeaseExpires(r)
    <2>1. /\ lease' = [lease EXCEPT ![r].state = "expired"] /\ lease[r].state = "active"
          /\ UNCHANGED <<runs, task, spent>>
      BY <1>3 DEF LeaseExpires, ExpireLease
    <2>2. Expired(r) /\ Others(r)
      BY <1>0, <2>1 DEF Expired, Others, Undisturbed, RowKept, TasksKept, LeaseTypeOK
    <2> QED BY <2>2 DEF Changes, Changed
  <1> QED BY <1>1, <1>2, <1>3 DEF ClockStep

\* A request changes a run only when its retry is applied.
LEMMA RequestChanges ==
    ASSUME TypeOK, NEW o \in Operators, RequestStep(o)
    PROVE  Changes
  <1>1. CASE ApplyCancel(o)
    <2>1. ctl[o] \in [op : {"cancel"}, proc : Procs, run : Runs]
      BY <1>1 DEF ApplyCancel, TypeOK, Request, NoRequest
    <2> DEFINE r == ctl[o].run
               row == [runs[r] EXCEPT !.cancel = @ \cup {"requested"}]
    <2>2. r \in Runs /\ runs[r] \in Row
      BY <2>1 DEF TypeOK
    <2>3. runs' = [runs EXCEPT ![r] = row] /\ UNCHANGED <<task, spent, lease>>
      BY <1>1 DEF ApplyCancel
    <2>4. /\ row.status = runs[r].status /\ row.attempts = runs[r].attempts
          /\ row.max = runs[r].max /\ row.claim = runs[r].claim
      BY <2>2 DEF Row
    <2> HIDE DEF row
    <2>5. runs'[r] = row /\ Others(r)
      BY <2>2, <2>3, RowWritten
    <2> QED BY <2>3, <2>4, <2>5 DEF Others, Undisturbed, RowKept, Changes
  <1>2. CASE ApplyRetry(o)
    <2>1. ctl[o] \in [op : {"retry"}, proc : Procs, run : Runs, max : Nat]
      BY <1>2 DEF ApplyRetry, TypeOK, Request, NoRequest
    <2> DEFINE r == ctl[o].run
               row == Rescheduled(runs[r], ctl[o].max)
    <2>2. r \in Runs
      BY <2>1
    <2>3. runs' = [runs EXCEPT ![r] = row] /\ UNCHANGED <<task, spent, lease>>
      BY <1>2 DEF ApplyRetry
    <2>4. runs'[r] = row /\ Others(r)
      <3> HIDE DEF row
      <3> QED BY <2>2, <2>3, RowWritten
    <2>a. ctl'[o] = NoRequest
      BY <1>2 DEF ApplyRetry, TypeOK
    <2>5. Retried(o, r)
      BY <1>2, <2>3, <2>4, <2>a DEF NoRequest, ApplyRetry, Retried, RowOnly, TasksKept
    <2> QED BY <2>2, <2>4, <2>5 DEF Changes, Changed
  <1> QED BY <1>1, <1>2, QuietChanges DEF RequestStep, RequestCancel, RequestRetry

\* Every step of the engine, faults included, changes at most one run, in one of nine ways.
LEMMA StepChanges == TypeOK /\ [Next]_vars => Changes
  <1> SUFFICES ASSUME TypeOK, [Next]_vars PROVE Changes
    OBVIOUS
  <1>1. ASSUME NEW r \in Runs, NEW m \in StartMaxAttempts, CreateRun(r, m)
        PROVE  Changes
    <2>1. PICK d \in {"now", "backoff"} : runs' = [runs EXCEPT ![r] = NewRow(m, d)]
      BY <1>1 DEF CreateRun
    <2>2. runs'[r] = NewRow(m, d) /\ Others(r)
      BY <1>1, <2>1, RowWritten DEF CreateRun
    <2>3. Created(r)
      BY <1>1, <2>2 DEF CreateRun, Created, RowOnly, TasksKept
    <2> QED BY <2>2, <2>3 DEF Changes, Changed
  <1>2. ASSUME NEW p \in Procs, Crash(p)
        PROVE  Changes
    <2>1. \A q \in Procs, s \in Runs : task'[q][s] \in {task[q][s], NoTask}
      BY <1>2 DEF Crash, TypeOK
    <2> QED BY <1>2, <2>1 DEF Crash, Changes, Undisturbed, RowKept
  <1>3. CASE MaintenanceBegins \/ MaintenanceEnds \/ UNCHANGED vars
    BY <1>3, QuietChanges DEF MaintenanceBegins, MaintenanceEnds, vars
  <1> QED BY <1>1, <1>2, <1>3, DispatcherChanges, TaskChanges, ClockChanges, RequestChanges
          DEF Next

\* a request is kept, is over, or is a retry just decided on
RequestKept(o) ==
    \/ ctl'[o] = ctl[o]
    \/ ctl'[o].op # "retry"
    \/ /\ UNCHANGED runs
       /\ ctl'[o].run \in Runs
       /\ CanRetry(runs[ctl'[o].run])
       /\ ctl'[o].max = RetryBudget(runs[ctl'[o].run])

\* Every step keeps the requests, ends them, or decides on a retry of an unsuccessful run.
LEMMA StepRequests == TypeOK /\ [Next]_vars => \A o \in Operators : RequestKept(o)
  <1> SUFFICES ASSUME TypeOK, [Next]_vars, NEW o \in Operators PROVE RequestKept(o)
    OBVIOUS
  <1> USE DEF RequestKept
  <1>1. CASE UNCHANGED ctl
    BY <1>1
  <1>2. ASSUME NEW q \in Operators, RequestStep(q)
        PROVE  RequestKept(o)
    <2>1. ASSUME NEW p \in Procs, NEW r \in Runs, RequestCancel(q, p, r) \/ RequestRetry(q, p, r)
          PROVE  RequestKept(o)
      BY <2>1 DEF RequestCancel, RequestRetry, TypeOK
    <2>2. CASE ApplyCancel(q) \/ ApplyRetry(q)
      BY <2>2 DEF ApplyCancel, ApplyRetry, NoRequest, TypeOK
    <2> QED BY <1>2, <2>1, <2>2 DEF RequestStep
  <1>3. ASSUME NEW p \in Procs, Crash(p)
        PROVE  RequestKept(o)
    BY <1>3 DEF Crash, NoRequest, TypeOK
  <1>4. ASSUME NEW p \in Procs, DispatcherStep(p) \/ TickFails(p)
        PROVE  UNCHANGED ctl
    BY <1>4 DEF DispatcherStep, TickBegins, ListRuns, ListLeases, RecoverRun, RecoveryEnds,
                ClaimRun, TickEnds, TickFails
  <1>5. ASSUME NEW p \in Procs, NEW r \in Runs, TaskStep(p, r) \/ WorkFails(p, r)
        PROVE  UNCHANGED ctl
    BY <1>5 DEF TaskStep, Acquire, CheckInterruption, Mark, WorkWrites, WorkDone, WorkFails,
                Release
  <1>6. ASSUME NEW r \in Runs, ClockStep(r) \/ \E m \in StartMaxAttempts : CreateRun(r, m)
        PROVE  UNCHANGED ctl
    BY <1>6 DEF ClockStep, BackoffElapses, ClaimTimesOut, LeaseExpires, CreateRun
  <1>7. CASE MaintenanceBegins \/ MaintenanceEnds \/ UNCHANGED vars
    BY <1>7 DEF MaintenanceBegins, MaintenanceEnds, vars
  <1> QED BY <1>1, <1>2, <1>3, <1>4, <1>5, <1>6, <1>7 DEF Next

-----------------------------------------------------------------------------
(* What the row operators write.                                           *)

\* A new run is queued, unclaimed, and has used none of its attempts.
LEMMA NewRowIs ==
    ASSUME NEW m \in Nat, NEW d \in {"now", "backoff"}
    PROVE  /\ NewRow(m, d).status = "pending" /\ NewRow(m, d).claim = "none"
           /\ NewRow(m, d).attempts = 0 /\ NewRow(m, d).max = m
  BY DEF NewRow, NoRow

\* A claim uses one attempt and nothing else of the budget.
LEMMA ClaimedIs ==
    ASSUME NEW row \in Row
    PROVE  /\ Claimed(row).status = row.status /\ Claimed(row).claim = "fresh"
           /\ Claimed(row).attempts = row.attempts + 1 /\ Claimed(row).max = row.max
  BY DEF Claimed, Row

\* The age of a claim says nothing of the budget.
LEMMA AgedIs ==
    ASSUME NEW row \in Row
    PROVE  LET aged == [row EXCEPT !.claim = "stale"]
           IN  /\ aged.status = row.status /\ aged.claim = "stale"
               /\ aged.attempts = row.attempts /\ aged.max = row.max
  BY DEF Row

\* A retry queues the run under the budget it was given.
LEMMA RescheduledIs ==
    ASSUME NEW row \in Row, NEW m \in Nat
    PROVE  /\ Rescheduled(row, m).status = "pending" /\ Rescheduled(row, m).claim = "none"
           /\ Rescheduled(row, m).attempts = row.attempts /\ Rescheduled(row, m).max = m
  BY DEF Rescheduled, Row

\* Recovery leaves the budget alone and carries out a requested cancellation.
LEMMA RecoveredIs ==
    ASSUME NEW row \in Row
    PROVE  /\ Recovered(row).status \in {"pending", "failed", "cancelled"}
           /\ Recovered(row).claim = "none"
           /\ Recovered(row).attempts = row.attempts /\ Recovered(row).max = row.max
           /\ "requested" \in row.cancel => Recovered(row).status = "cancelled"
  BY DEF Recovered, Row

\* the status that each lifecycle write stores
StatusOf(mark) ==
    CASE mark = "started" -> "running"
      [] mark \in {"retry", "paused"} -> "pending"
      [] OTHER -> mark

\* A lifecycle write drops the claim; a start uses at least one attempt and a pause gives
\* back at most one.
LEMMA LifecycleIs ==
    ASSUME NEW row \in Row, NEW mark \in Marks
    PROVE  LET new == Lifecycle(row, mark)
           IN  /\ new.status = StatusOf(mark) /\ new.claim = "none" /\ new.max = row.max
               /\ mark = "started" => new.attempts = MaxOf(row.attempts, 1)
               /\ mark = "paused" => new.attempts = MaxOf(row.attempts - 1, 0)
               /\ mark \notin {"started", "paused"} => new.attempts = row.attempts
  <1>1. Lifecycle(row, mark).status = StatusOf(mark) /\ Lifecycle(row, mark).claim = "none"
        /\ Lifecycle(row, mark).max = row.max
    BY Zenon DEF Lifecycle, Row, StatusOf
  <1>2. Lifecycle(row, mark).attempts = CASE mark = "started" -> MaxOf(row.attempts, 1)
                                          [] mark = "paused" -> MaxOf(row.attempts - 1, 0)
                                          [] OTHER -> row.attempts
    BY Zenon DEF Lifecycle, Row
  <1>3. mark = "started" => Lifecycle(row, mark).attempts = MaxOf(row.attempts, 1)
    BY <1>2
  <1>4. mark = "paused" => Lifecycle(row, mark).attempts = MaxOf(row.attempts - 1, 0)
    BY <1>2
  <1>5. mark \notin {"started", "paused"} => Lifecycle(row, mark).attempts = row.attempts
    BY <1>2
  <1> QED BY <1>1, <1>3, <1>4, <1>5

-----------------------------------------------------------------------------
(* The attempt budget.                                                     *)
(*                                                                         *)
(* That a run is not started more often than it has been claimed is not    *)
(* inductive: a worker may still be about to start it.  Each claim has to  *)
(* pay for the worker it launches (Paid), whatever becomes of the claim.   *)

Starters(r) == {p \in Procs : task[p][r].pc \in Unstarted}

Paid(r) == spent[r] + Cardinality(Starters(r)) <= runs[r].attempts

\* before its creation a run has no worker and has used nothing
Unknown(r) ==
    runs[r].status = "absent" =>
        runs[r].attempts = 0 /\ \A p \in Procs : task[p][r].pc = "none"

Within(r) ==
    runs[r].status # "absent" => runs[r].max >= 1 /\ runs[r].attempts <= runs[r].max

\* a retry in flight raises the budget of an existing run, or leaves it
Raises(o) ==
    ctl[o].op = "retry" =>
        /\ runs[ctl[o].run].status # "absent"
        /\ runs[ctl[o].run].max <= ctl[o].max

PaidInv == TypeOK /\ \A r \in Runs : Unknown(r) /\ Paid(r)

BudgetInv ==
    /\ PaidInv
    /\ \A r \in Runs : Within(r)
    /\ \A o \in Operators : Raises(o)

\* Counting a finite set after at most one element came, and after one went.
LEMMA CountOne ==
    ASSUME NEW S, IsFiniteSet(S), NEW T, NEW x
    PROVE  /\ T \subseteq S => Cardinality(T) <= Cardinality(S)
           /\ T \subseteq S \cup {x} => Cardinality(T) <= Cardinality(S) + 1
           /\ (x \in S /\ T \subseteq S \ {x}) => Cardinality(T) <= Cardinality(S) - 1
           /\ Cardinality(S) \in Nat
           /\ T \subseteq S \cup {x} => Cardinality(T) \in Nat
  <1>1. Cardinality(S) \in Nat /\ T \subseteq S => Cardinality(T) <= Cardinality(S)
    BY FS_CardinalityType, FS_Subset
  <1>2. ASSUME T \subseteq S \cup {x}
        PROVE  Cardinality(T) <= Cardinality(S) + 1 /\ Cardinality(T) \in Nat
    <2>1. /\ IsFiniteSet(S \cup {x}) /\ Cardinality(S) \in Nat
          /\ Cardinality(S \cup {x}) = IF x \in S THEN Cardinality(S) ELSE Cardinality(S) + 1
      BY FS_AddElement, FS_CardinalityType
    <2>2. IsFiniteSet(T) /\ Cardinality(T) <= Cardinality(S \cup {x})
      BY <1>2, <2>1, FS_Subset
    <2>3. Cardinality(T) \in Nat
      BY <2>2, FS_CardinalityType
    <2> QED BY <2>1, <2>2, <2>3
  <1>3. ASSUME x \in S, T \subseteq S \ {x}
        PROVE  Cardinality(T) <= Cardinality(S) - 1
    <2>1. IsFiniteSet(S \ {x}) /\ Cardinality(S \ {x}) = Cardinality(S) - 1
      BY <1>3, FS_RemoveElement
    <2> QED BY <1>3, <2>1, FS_Subset
  <1>4. Cardinality(S) \in Nat
    BY FS_CardinalityType
  <1> QED BY <1>1, <1>2, <1>3, <1>4, FS_Subset

\* A run stays unknown until it is created, and then never is again.
LEMMA UnknownKept ==
    ASSUME TypeOK, NEW r \in Runs, Unknown(r), Changed(r) \/ Undisturbed(r)
    PROVE  Unknown(r)'
  <1>0. runs[r] \in Row /\ Unknown(r) /\ NoTask.pc = "none"
    BY DEF TypeOK, NoTask
  <1>1. CASE Undisturbed(r) \/ Expired(r)
    BY <1>0, <1>1 DEF Undisturbed, Expired, RowKept, TasksKept, Unknown
  <1>2. CASE Created(r)
    BY <1>2, NewRowIs, BoundsAssumption DEF Created, Unknown
  <1>3. CASE Aged(r)
    BY <1>0, <1>3, AgedIs DEF Aged, RowOnly, TasksKept, Unknown
  <1>4. CASE Reclaimed(r)
    BY <1>0, <1>4, RecoveredIs DEF Reclaimed, Unknown
  <1>5. ASSUME NEW o \in Operators, Retried(o, r)
        PROVE  Unknown(r)'
    <2>1. ctl[o].max \in Nat
      BY <1>5 DEF Retried, TypeOK, Request, NoRequest
    <2> QED BY <1>0, <1>5, <2>1, RescheduledIs DEF Retried, Unknown
  <1>6. ASSUME NEW p \in Procs, Taken(p, r)
        PROVE  Unknown(r)'
    BY <1>0, <1>6, ClaimedIs DEF Taken, Claimable, Unknown
  <1>7. ASSUME NEW p \in Procs, Written(p, r)
        PROVE  Unknown(r)'
    <2>1. MarkAt(task[p][r].pc, runs[r]) \in Marks
      BY <1>7, MarkAtType DEF Written
    <2>2. \A mark \in Marks : StatusOf(mark) # "absent"
      BY DEF StatusOf, Marks
    <2> QED BY <1>0, <1>7, <2>1, <2>2, LifecycleIs DEF Written, Unknown
  <1>8. ASSUME NEW p \in Procs, Granted(p, r) \/ Moved(p, r)
        PROVE  Unknown(r)'
    BY <1>0, <1>8 DEF Granted, Moved, RowKept, Unknown
  <1> QED BY <1>1, <1>2, <1>3, <1>4, <1>5, <1>6, <1>7, <1>8 DEF Changed

\* Every worker about to start a run has been paid for by a claim of its own.
LEMMA PaidKept ==
    ASSUME IsFiniteSet(Procs), PaidInv, NEW r \in Runs, Changed(r) \/ Undisturbed(r)
    PROVE  Paid(r)'
  <1> DEFINE n == Cardinality(Starters(r))
             m == Cardinality(Starters(r)')
  <1>a. IsFiniteSet(Starters(r)) /\ n \in Nat
    <2>1. Starters(r) \subseteq Procs
      BY DEF Starters
    <2>2. IsFiniteSet(Starters(r))
      BY <2>1, FS_Subset
    <2> QED BY <2>2, FS_CardinalityType
  <1>b. /\ runs[r] \in Row /\ runs[r].attempts \in Nat /\ spent[r] \in Int
        /\ spent[r] + n <= runs[r].attempts
    BY DEF PaidInv, TypeOK, Row, Paid
  <1>c. Starters(r)' \subseteq Starters(r) => m <= n /\ m \in Nat
    BY <1>a, CountOne
  <1>d. NoTask.pc \notin Unstarted
    BY DEF NoTask, Unstarted
  <1>e. SUFFICES spent'[r] + m <= runs'[r].attempts
    BY DEF Paid
  <1>1. CASE Undisturbed(r) \/ Expired(r)
    <2>1. Starters(r)' \subseteq Starters(r) /\ RowKept(r)
      BY <1>1, <1>d DEF Undisturbed, Expired, TasksKept, Starters
    <2> HIDE DEF n, m
    <2> QED BY <1>a, <1>b, <1>c, <2>1 DEF RowKept
  <1>2. CASE TasksKept(r) /\ spent'[r] = spent[r] /\ runs'[r].attempts = runs[r].attempts
    <2>1. Starters(r)' \subseteq Starters(r)
      BY <1>2 DEF TasksKept, Starters
    <2> HIDE DEF n, m
    <2> QED BY <1>a, <1>b, <1>c, <1>2, <2>1
  <1>3. CASE Created(r)
    <2>1. runs'[r].attempts = 0
      BY <1>3, NewRowIs, BoundsAssumption DEF Created
    <2>2. runs[r].attempts = 0
      BY <1>3 DEF Created, PaidInv, Unknown
    <2> QED BY <1>2, <1>3, <2>1, <2>2 DEF Created, RowOnly
  <1>4. CASE Aged(r)
    BY <1>b, <1>2, <1>4, AgedIs DEF Aged, RowOnly
  <1>5. CASE Reclaimed(r)
    BY <1>b, <1>2, <1>5, RecoveredIs DEF Reclaimed
  <1>6. ASSUME NEW o \in Operators, Retried(o, r)
        PROVE  spent'[r] + m <= runs'[r].attempts
    <2>1. ctl[o].max \in Nat
      BY <1>6 DEF Retried, PaidInv, TypeOK, Request, NoRequest
    <2> QED BY <1>b, <1>2, <1>6, <2>1, RescheduledIs DEF Retried, RowOnly
  <1>7. ASSUME NEW p \in Procs, Taken(p, r)
        PROVE  spent'[r] + m <= runs'[r].attempts
    <2>1. Starters(r)' \subseteq Starters(r) \cup {p}
      BY <1>7 DEF Taken, OthersKept, Starters
    <2>2. m <= n + 1 /\ m \in Nat
      BY <1>a, <2>1, CountOne
    <2>3. runs'[r].attempts = runs[r].attempts + 1 /\ spent'[r] = spent[r]
      BY <1>b, <1>7, ClaimedIs DEF Taken
    <2> HIDE DEF n, m
    <2> QED BY <1>a, <1>b, <2>2, <2>3
  <1>8. ASSUME NEW p \in Procs, Granted(p, r) \/ Moved(p, r)
        PROVE  spent'[r] + m <= runs'[r].attempts
    <2>1. Starters(r)' \subseteq Starters(r) /\ RowKept(r)
      BY <1>8, <1>d DEF Granted, Moved, OthersKept, Starters, Unstarted
    <2> HIDE DEF n, m
    <2> QED BY <1>a, <1>b, <1>c, <2>1 DEF RowKept
  <1>9. ASSUME NEW p \in Procs, Written(p, r)
        PROVE  spent'[r] + m <= runs'[r].attempts
    <2> DEFINE mark == MarkAt(task[p][r].pc, runs[r])
    <2>1. mark \in Marks /\ task'[p][r].pc \notin Unstarted
      BY <1>9, MarkAtType DEF Written, AfterMark, AfterMarkError, Unstarted
    <2>2. Starters(r)' \subseteq Starters(r) \ {p}
      BY <1>9, <2>1 DEF Written, OthersKept, Starters
    <2>3. mark = "started" => m <= n - 1
      <3>1. mark = "started" => p \in Starters(r)
        BY <1>9 DEF Written, MarkAt, MarkPc, HasRetry, Starters, Unstarted
      <3> QED BY <1>a, <2>2, <3>1, CountOne
    <2>4. m <= n /\ m \in Nat
      BY <1>c, <2>2
    <2>5. /\ mark = "started" => /\ runs'[r].attempts = MaxOf(runs[r].attempts, 1)
                                 /\ spent'[r] = spent[r] + 1
          /\ mark = "paused" => /\ runs'[r].attempts = MaxOf(runs[r].attempts - 1, 0)
                                /\ spent'[r] = spent[r] - 1
          /\ mark \notin {"started", "paused"} => /\ runs'[r].attempts = runs[r].attempts
                                                  /\ spent'[r] = spent[r]
      BY <1>b, <1>9, <2>1, LifecycleIs DEF Written
    <2> HIDE DEF n, m, mark
    <2> QED BY <1>a, <1>b, <2>3, <2>4, <2>5 DEF MaxOf
  <1> QED BY <1>1, <1>3, <1>4, <1>5, <1>6, <1>7, <1>8, <1>9 DEF Changed

\* A run that exists goes on to exist, and only a retry changes its budget.
LEMMA MaxKept ==
    ASSUME TypeOK, NEW r \in Runs, Changed(r) \/ Undisturbed(r), runs[r].status # "absent"
    PROVE  /\ runs'[r].status # "absent"
           /\ runs'[r].max = runs[r].max \/ \E o \in Operators : Retried(o, r)
  <1>0. runs[r] \in Row
    BY DEF TypeOK
  <1>1. CASE Undisturbed(r) \/ Expired(r) \/ \E p \in Procs : Granted(p, r) \/ Moved(p, r)
    BY <1>1 DEF Undisturbed, Expired, Granted, Moved, RowKept
  <1>2. CASE Aged(r)
    BY <1>0, <1>2, AgedIs DEF Aged
  <1>5. CASE Reclaimed(r)
    BY <1>0, <1>5, RecoveredIs DEF Reclaimed
  <1>6. ASSUME NEW p \in Procs, Taken(p, r)
        PROVE  runs'[r].status # "absent" /\ runs'[r].max = runs[r].max
    BY <1>0, <1>6, ClaimedIs DEF Taken
  <1>3. ASSUME NEW o \in Operators, Retried(o, r)
        PROVE  runs'[r].status # "absent"
    <2>1. ctl[o].max \in Nat
      BY <1>3 DEF Retried, TypeOK, Request, NoRequest
    <2> QED BY <1>0, <1>3, <2>1, RescheduledIs DEF Retried
  <1>4. ASSUME NEW p \in Procs, Written(p, r)
        PROVE  runs'[r].status # "absent" /\ runs'[r].max = runs[r].max
    <2>1. MarkAt(task[p][r].pc, runs[r]) \in Marks
      BY <1>4, MarkAtType DEF Written
    <2>2. \A mark \in Marks : StatusOf(mark) # "absent"
      BY DEF StatusOf, Marks
    <2> QED BY <1>0, <1>4, <2>1, <2>2, LifecycleIs DEF Written
  <1> QED BY <1>1, <1>2, <1>3, <1>4, <1>5, <1>6 DEF Changed, Created

\* With one operator a retry in flight never falls behind the budget of its run.
LEMMA RaisesKept ==
    ASSUME OneOperator, BudgetInv, NEW o \in Operators, RequestKept(o), Changes
    PROVE  Raises(o)'
  <1>0. TypeOK
    BY DEF BudgetInv, PaidInv
  <1>1. SUFFICES ASSUME ctl'[o].op = "retry"
                 PROVE  /\ runs'[ctl'[o].run].status # "absent"
                        /\ runs'[ctl'[o].run].max <= ctl'[o].max
    BY DEF Raises
  <1>2. CASE ctl'[o] = ctl[o]
    <2> DEFINE r == ctl[o].run
    <2>1. ctl[o] \in [op : {"retry"}, proc : Procs, run : Runs, max : Nat]
      BY <1>0, <1>1, <1>2 DEF TypeOK, Request, NoRequest
    <2>2. r \in Runs /\ (Changed(r) \/ Undisturbed(r))
      BY <2>1 DEF Changes, Others
    <2>3. runs[r].status # "absent" /\ runs[r].max <= ctl[o].max
      BY <1>1, <1>2 DEF BudgetInv, Raises
    <2>4. \A q \in Operators : ~Retried(q, r)
      BY <1>1 DEF OneOperator, Retried
    <2> QED BY <1>0, <1>2, <2>2, <2>3, <2>4, MaxKept
  <1>3. CASE ctl'[o] # ctl[o]
    <2>1. /\ UNCHANGED runs /\ ctl'[o].run \in Runs /\ CanRetry(runs[ctl'[o].run])
          /\ ctl'[o].max = RetryBudget(runs[ctl'[o].run])
      BY <1>1, <1>3 DEF RequestKept
    <2>2. runs[ctl'[o].run] \in Row
      BY <1>0, <2>1 DEF TypeOK
    <2> QED BY <2>1, <2>2 DEF CanRetry, RetryBudget, MaxOf, Row
  <1> QED BY <1>2, <1>3

\* No step uses more attempts of a run than its budget allows.
LEMMA WithinKept ==
    ASSUME BudgetInv, NEW r \in Runs, Changed(r) \/ Undisturbed(r)
    PROVE  Within(r)'
  <1>0. runs[r] \in Row /\ runs[r].attempts \in Nat /\ runs[r].max \in Nat /\ Within(r) /\ TypeOK
    BY DEF BudgetInv, PaidInv, TypeOK, Row
  <1>1. CASE Undisturbed(r) \/ Expired(r) \/ \E p \in Procs : Granted(p, r) \/ Moved(p, r)
    BY <1>0, <1>1 DEF Undisturbed, Expired, Granted, Moved, RowKept, Within
  <1>2. CASE Created(r)
    BY <1>2, NewRowIs, BoundsAssumption DEF Created, Within
  <1>3. CASE Aged(r)
    BY <1>0, <1>3, AgedIs DEF Aged, Within
  <1>4. CASE Reclaimed(r)
    BY <1>0, <1>4, RecoveredIs DEF Reclaimed, Within
  <1>5. ASSUME NEW o \in Operators, Retried(o, r)
        PROVE  Within(r)'
    <2>1. ctl[o].max \in Nat /\ Raises(o)
      BY <1>5 DEF Retried, BudgetInv, PaidInv, TypeOK, Request, NoRequest
    <2>2. runs'[r].attempts = runs[r].attempts /\ runs'[r].max = ctl[o].max
      BY <1>0, <1>5, <2>1, RescheduledIs DEF Retried
    <2> QED BY <1>0, <1>5, <2>1, <2>2 DEF Retried, Raises, Within
  <1>6. ASSUME NEW p \in Procs, Taken(p, r)
        PROVE  Within(r)'
    BY <1>0, <1>6, ClaimedIs DEF Taken, Claimable, Within
  <1>7. ASSUME NEW p \in Procs, Written(p, r)
        PROVE  Within(r)'
    <2> DEFINE mark == MarkAt(task[p][r].pc, runs[r])
    <2>1. mark \in Marks
      BY <1>7, MarkAtType DEF Written
    <2>2. runs[r].status # "absent"
      BY <1>7 DEF Written, MarkPc, BudgetInv, PaidInv, Unknown
    <2>3. /\ runs'[r].max = runs[r].max
          /\ runs'[r].attempts \in {MaxOf(runs[r].attempts, 1), MaxOf(runs[r].attempts - 1, 0),
                                    runs[r].attempts}
      BY <1>0, <1>7, <2>1, LifecycleIs DEF Written
    <2> QED BY <1>0, <2>2, <2>3 DEF Within, MaxOf
  <1> QED BY <1>1, <1>2, <1>3, <1>4, <1>5, <1>6, <1>7 DEF Changed

\* Initially nothing has been used and nobody works.
LEMMA InitBudget == Init => BudgetInv
  <1> SUFFICES ASSUME Init PROVE BudgetInv
    OBVIOUS
  <1>1. TypeOK
    BY InitType
  <1>2. \A r \in Runs : runs[r].status = "absent" /\ runs[r].attempts = 0 /\ spent[r] = 0
    BY DEF Init, NoRow
  <1>3. \A p \in Procs, r \in Runs : task[p][r].pc = "none"
    BY DEF Init, NoTask
  <1>4. \A r \in Runs : Starters(r) = {}
    BY <1>3 DEF Starters, Unstarted
  <1>5. ASSUME NEW r \in Runs
        PROVE  Unknown(r) /\ Within(r) /\ Paid(r)
    <2>1. Cardinality(Starters(r)) = 0
      BY <1>4, FS_EmptySet
    <2>2. Paid(r)
      BY <1>2, <2>1 DEF Paid
    <2> QED BY <1>2, <1>3, <2>2 DEF Unknown, Within
  <1>6. \A o \in Operators : Raises(o)
    BY DEF Init, NoRequest, Raises
  <1> QED BY <1>1, <1>5, <1>6 DEF BudgetInv, PaidInv

\* Every start of a run that is not given back was paid for by a claim of the run: for any
\* number of processes and operators, and under every fault, a run is started at most as
\* often as attempt_count says.
THEOREM StartsArePaid ==
    ASSUME IsFiniteSet(Procs)
    PROVE  Spec => []PaidInv
  <1>1. Init => PaidInv
    BY InitBudget DEF BudgetInv
  <1>2. PaidInv /\ [Next]_vars => PaidInv'
    <2> SUFFICES ASSUME PaidInv, [Next]_vars PROVE PaidInv'
      OBVIOUS
    <2>1. TypeOK' /\ Changes
      BY StepType, StepChanges DEF PaidInv
    <2>2. \A r \in Runs : Changed(r) \/ Undisturbed(r)
      BY <2>1 DEF Changes, Others
    <2>3. \A r \in Runs : Unknown(r)' /\ Paid(r)'
      BY <2>2, UnknownKept, PaidKept DEF PaidInv
    <2> QED BY <2>1, <2>3 DEF PaidInv
  <1> QED BY <1>1, <1>2, PTL DEF Spec

\* With one operator's request at a time, a run is never started more often than
\* max_attempts allows, across crashes, recoveries, maintenance pauses and retries, for any
\* number of processes.
THEOREM BudgetIsKept ==
    ASSUME IsFiniteSet(Procs), OneOperator
    PROVE  Spec => []WithinBudget
  <1>1. BudgetInv /\ [Next]_vars => BudgetInv'
    <2> SUFFICES ASSUME BudgetInv, [Next]_vars PROVE BudgetInv'
      OBVIOUS
    <2>1. TypeOK' /\ Changes /\ \A o \in Operators : RequestKept(o)
      BY StepType, StepChanges, StepRequests DEF BudgetInv, PaidInv
    <2>2. \A r \in Runs : Changed(r) \/ Undisturbed(r)
      BY <2>1 DEF Changes, Others
    <2>3. \A r \in Runs : Unknown(r)' /\ Paid(r)' /\ Within(r)'
      BY <2>2, UnknownKept, PaidKept, WithinKept DEF BudgetInv, PaidInv
    <2>4. \A o \in Operators : Raises(o)'
      BY <2>1, RaisesKept
    <2> QED BY <2>1, <2>3, <2>4 DEF BudgetInv, PaidInv
  <1>2. BudgetInv => WithinBudget
    <2> SUFFICES ASSUME BudgetInv, NEW r \in Runs, runs[r].status # "absent"
                 PROVE  runs[r].attempts <= runs[r].max /\ spent[r] <= runs[r].attempts
      BY DEF WithinBudget
    <2>1. runs[r].attempts <= runs[r].max
      BY DEF BudgetInv, Within
    <2>2. Cardinality(Starters(r)) \in Nat
      <3>1. Starters(r) \subseteq Procs
        BY DEF Starters
      <3> QED BY <3>1, FS_Subset, FS_CardinalityType
    <2>3. spent[r] + Cardinality(Starters(r)) <= runs[r].attempts
          /\ spent[r] \in Int /\ runs[r].attempts \in Nat
      BY DEF BudgetInv, PaidInv, Paid, TypeOK, Row
    <2> QED BY <2>1, <2>2, <2>3
  <1> QED BY <1>1, <1>2, InitBudget, PTL DEF Spec

-----------------------------------------------------------------------------
(* One process and one operator: who may still touch a run.                *)

\* a worker that has not started its run finds it queued; and, unless starts are slow, under
\* the claim it was launched for
Awaited(r) ==
    \A p \in Procs : task[p][r].pc \in Unstarted =>
        /\ runs[r].status = "pending"
        /\ "slow_start" \notin FaultKinds => runs[r].claim = "fresh"

\* a status that no worker undoes: a completion whose acknowledgement is lost is marked as a
\* failure by the worker's catch block
Over(row) ==
    \/ row.status \in {"failed", "cancelled"}
    \/ row.status = "completed" /\ "lost_ack" \notin FaultKinds

\* the owner of a run that is over has only its lease left to drain
Leaving(r) ==
    \A p \in Procs :
        Over(runs[r]) /\ Owns(r, task[p][r].acq) => task[p][r].pc = "release"

\* the run of a retry in flight is still failed or cancelled
Unsuccessful(o) == ctl[o].op = "retry" => CanRetry(runs[ctl[o].run])

HandledInv ==
    /\ TypeOK
    /\ TokensOrdered
    /\ \A r \in Runs : Unknown(r) /\ Awaited(r) /\ Leaving(r)
    /\ \A o \in Operators : Unsuccessful(o)

\* The unstarted worker of a run is its only worker, so nobody else moves the run on.
LEMMA AwaitedKept ==
    ASSUME OneProcess, HandledInv, NEW r \in Runs, Changed(r) \/ Undisturbed(r)
    PROVE  Awaited(r)'
  <1>0. runs[r] \in Row /\ Awaited(r) /\ TypeOK /\ NoTask.pc \notin Unstarted
    BY DEF HandledInv, TypeOK, NoTask, Unstarted
  <1>1. CASE Undisturbed(r) \/ Expired(r)
    BY <1>0, <1>1 DEF Undisturbed, Expired, RowKept, TasksKept, Awaited
  <1>2. CASE Created(r)
    BY <1>2 DEF Created, RowOnly, TasksKept, HandledInv, Unknown, Unstarted, Awaited
  <1>3. CASE Aged(r)
    BY <1>0, <1>3, AgedIs DEF Aged, RowOnly, TasksKept, Awaited
  <1>4. CASE Reclaimed(r)
    BY <1>0, <1>4 DEF Reclaimed, TasksKept, Awaited
  <1>5. ASSUME NEW o \in Operators, Retried(o, r)
        PROVE  Awaited(r)'
    <2>1. runs[r].status \in {"failed", "cancelled"}
      BY <1>5 DEF Retried, HandledInv, Unsuccessful, CanRetry
    <2> QED BY <1>0, <1>5, <2>1 DEF Retried, RowOnly, TasksKept, Awaited
  <1>6. ASSUME NEW p \in Procs, Taken(p, r)
        PROVE  Awaited(r)'
    BY <1>0, <1>6, ClaimedIs DEF Taken, Claimable, Awaited
  <1>7. ASSUME NEW p \in Procs, Written(p, r)
        PROVE  Awaited(r)'
    <2>1. task'[p][r].pc \notin Unstarted
      BY <1>7 DEF Written, AfterMark, AfterMarkError, Unstarted
    <2> QED BY <2>1 DEF OneProcess, Awaited
  <1>8. ASSUME NEW p \in Procs, Granted(p, r) \/ Moved(p, r)
        PROVE  Awaited(r)'
    BY <1>0, <1>8 DEF OneProcess, Granted, Moved, RowKept, Unstarted, Awaited
  <1> QED BY <1>1, <1>2, <1>3, <1>4, <1>5, <1>6, <1>7, <1>8 DEF Changed

\* A run gets over by its owner's last write, or by recovery when nobody owns it.
LEMMA LeavingKept ==
    ASSUME OneProcess, HandledInv, NEW r \in Runs, Changed(r) \/ Undisturbed(r)
    PROVE  Leaving(r)'
  <1>0. runs[r] \in Row /\ Leaving(r) /\ LeaseTypeOK /\ TypeOK
    BY DEF HandledInv, TypeOK
  <1>a. /\ NoTask.acq = 0
        /\ lease[r].state = "active" => lease[r].acq # 0
    BY DEF HandledInv, TokensOrdered, NoTask
  <1>b. ~Over(runs'[r]) => Leaving(r)'
    BY DEF Leaving
  <1>1. CASE Undisturbed(r)
    <2> SUFFICES ASSUME NEW p \in Procs, Over(runs'[r]), Owns(r, task[p][r].acq)'
                 PROVE  task'[p][r].pc = "release"
      BY DEF Leaving
    <2>1. task'[p][r] = task[p][r]
      BY <1>1, <1>a DEF Undisturbed, Owns
    <2> QED BY <1>0, <1>1, <2>1 DEF Undisturbed, RowKept, Leaving, Over, Owns
  <1>e. CASE Expired(r)
    <2>1. lease'[r].state = "expired"
      BY <1>0, <1>e DEF Expired, LeaseTypeOK, Lease
    <2> QED BY <2>1 DEF Leaving, Owns
  <1>2. CASE Created(r)
    BY <1>2, <1>b, NewRowIs, BoundsAssumption DEF Created, Over
  <1>3. CASE Aged(r)
    BY <1>0, <1>3, AgedIs DEF Aged, RowOnly, TasksKept, Leaving, Over, Owns
  <1>4. CASE Reclaimed(r)
    BY <1>4 DEF Reclaimed, Leaving, Owns
  <1>5. ASSUME NEW o \in Operators, Retried(o, r)
        PROVE  Leaving(r)'
    <2>1. ctl[o].max \in Nat
      BY <1>0, <1>5 DEF Retried, TypeOK, Request, NoRequest
    <2> QED BY <1>0, <1>b, <1>5, <2>1, RescheduledIs DEF Retried, Over
  <1>6. ASSUME NEW p \in Procs, Taken(p, r)
        PROVE  Leaving(r)'
    BY <1>0, <1>b, <1>6, ClaimedIs DEF Taken, Claimable, Over
  <1>7. ASSUME NEW p \in Procs, Written(p, r)
        PROVE  Leaving(r)'
    <2> DEFINE pc == task[p][r].pc
               mark == MarkAt(pc, runs[r])
    <2>1. mark \in Marks /\ pc \in MarkPc
      BY <1>7, MarkAtType DEF Written
    <2>2. runs'[r].status = StatusOf(mark)
      BY <1>0, <1>7, <2>1, LifecycleIs DEF Written
    <2>3. CASE task'[p][r].pc = "release"
      BY <2>3 DEF OneProcess, Leaving
    <2>4. CASE task'[p][r].pc # "release"
      <3>1. pc = "start" \/ (pc = "complete" /\ "lost_ack" \in FaultKinds)
        BY <1>7, <2>1, <2>4 DEF Written, AfterMark, AfterMarkError
      <3>2. mark = "started" \/ (mark = "completed" /\ "lost_ack" \in FaultKinds)
        BY <3>1 DEF MarkAt
      <3> QED BY <1>b, <2>2, <3>2 DEF StatusOf, Over
    <2> QED BY <2>3, <2>4
  <1>8. ASSUME NEW p \in Procs, Granted(p, r)
        PROVE  Leaving(r)'
    <2>1. runs[r].status = "pending"
      BY <1>8 DEF Granted, HandledInv, Awaited, Unstarted
    <2> QED BY <1>b, <1>8, <2>1 DEF Granted, RowKept, Over
  <1>9. ASSUME NEW p \in Procs, Moved(p, r)
        PROVE  Leaving(r)'
    <2>1. CASE task'[p][r] = NoTask
      BY <1>9, <1>a, <2>1 DEF OneProcess, Moved, Leaving, Owns
    <2>2. CASE task'[p][r] # NoTask
      BY <1>0, <1>9, <2>2 DEF OneProcess, Moved, RowKept, Leaving, Over, Owns
    <2> QED BY <2>1, <2>2
  <1> QED BY <1>1, <1>e, <1>2, <1>3, <1>4, <1>5, <1>6, <1>7, <1>8, <1>9 DEF Changed

\* A run that is over stays as it is, but for an operator's retry of a failed or cancelled
\* one.
LEMMA OverKept ==
    ASSUME OneProcess, HandledInv, NEW r \in Runs, Changed(r) \/ Undisturbed(r),
           Over(runs[r])
    PROVE  \/ runs'[r].status = runs[r].status
           \/ CanRetry(runs[r]) /\ \E o \in Operators : Retried(o, r)
  <1>0. runs[r] \in Row
    BY DEF HandledInv, TypeOK
  <1>1. CASE Undisturbed(r) \/ Expired(r) \/ \E p \in Procs : Granted(p, r) \/ Moved(p, r)
    BY <1>1 DEF Undisturbed, Expired, Granted, Moved, RowKept
  <1>2. CASE Aged(r)
    BY <1>0, <1>2, AgedIs DEF Aged
  <1>3. CASE Created(r) \/ Reclaimed(r) \/ \E p \in Procs : Taken(p, r)
    BY <1>3 DEF Created, Reclaimed, Taken, Claimable, Over
  <1>4. ASSUME NEW p \in Procs, Written(p, r)
        PROVE  FALSE
    BY <1>4 DEF Written, MarkPc, HandledInv, Leaving
  <1>5. ASSUME NEW o \in Operators, Retried(o, r)
        PROVE  CanRetry(runs[r])
    BY <1>5 DEF Retried, HandledInv, Unsuccessful
  <1> QED BY <1>1, <1>2, <1>3, <1>4, <1>5 DEF Changed

\* Between a retry's decision and its write nobody touches the run.
LEMMA UnsuccessfulKept ==
    ASSUME OneProcess, OneOperator, HandledInv, NEW o \in Operators, RequestKept(o), Changes
    PROVE  Unsuccessful(o)'
  <1>1. SUFFICES ASSUME ctl'[o].op = "retry"
                 PROVE  CanRetry(runs'[ctl'[o].run])
    BY DEF Unsuccessful
  <1>2. CASE ctl'[o] = ctl[o]
    <2> DEFINE r == ctl[o].run
    <2>1. ctl[o] \in [op : {"retry"}, proc : Procs, run : Runs, max : Nat]
      BY <1>1, <1>2 DEF HandledInv, TypeOK, Request, NoRequest
    <2>2. r \in Runs /\ (Changed(r) \/ Undisturbed(r))
      BY <2>1 DEF Changes, Others
    <2>3. CanRetry(runs[r]) /\ Over(runs[r])
      BY <1>1, <1>2 DEF HandledInv, Unsuccessful, CanRetry, Over
    <2>4. \A q \in Operators : ~Retried(q, r)
      BY <1>1 DEF OneOperator, Retried
    <2>5. runs'[r].status = runs[r].status
      BY <2>2, <2>3, <2>4, OverKept
    <2> QED BY <1>2, <2>3, <2>5 DEF CanRetry
  <1>3. CASE ctl'[o] # ctl[o]
    BY <1>1, <1>3 DEF RequestKept
  <1> QED BY <1>2, <1>3

\* HandledInv is an inductive invariant.
LEMMA AlwaysHandled ==
    ASSUME OneProcess, OneOperator
    PROVE  Spec => []HandledInv
  <1>1. Init => HandledInv
    <2> SUFFICES ASSUME Init PROVE HandledInv
      OBVIOUS
    <2>1. TypeOK /\ TokensOrdered /\ \A r \in Runs : Unknown(r)
      BY InitOrdered, InitBudget DEF BudgetInv, PaidInv
    <2>2. \A p \in Procs, r \in Runs : task[p][r].pc = "none" /\ runs[r].status = "absent"
      BY DEF Init, NoTask, NoRow
    <2>3. \A r \in Runs : Awaited(r) /\ Leaving(r)
      BY <2>2 DEF Awaited, Leaving, Over, Unstarted
    <2>4. \A o \in Operators : Unsuccessful(o)
      BY DEF Init, NoRequest, Unsuccessful
    <2> QED BY <2>1, <2>3, <2>4 DEF HandledInv
  <1>2. HandledInv /\ [Next]_vars => HandledInv'
    <2> SUFFICES ASSUME HandledInv, [Next]_vars PROVE HandledInv'
      OBVIOUS
    <2>1. TypeOK' /\ TokensOrdered' /\ Changes /\ \A o \in Operators : RequestKept(o)
      BY StepType, StepMoves, StepOrdered, StepChanges, StepRequests DEF HandledInv
    <2>2. \A r \in Runs : Changed(r) \/ Undisturbed(r)
      BY <2>1 DEF Changes, Others
    <2>3. \A r \in Runs : Unknown(r)' /\ Awaited(r)' /\ Leaving(r)'
      BY <2>2, UnknownKept, AwaitedKept, LeavingKept DEF HandledInv
    <2>4. \A o \in Operators : Unsuccessful(o)'
      BY <2>1, UnsuccessfulKept
    <2> QED BY <2>1, <2>3, <2>4 DEF HandledInv
  <1> QED BY <1>1, <1>2, PTL DEF Spec

-----------------------------------------------------------------------------
(* What a status is worth, and which runs of a type run together.          *)

\* With one process and one operator's request at a time, a running run without an active
\* lease goes nowhere but to "cancelled" once its cancellation was asked for.
THEOREM StrandedCancelKept ==
    ASSUME OneProcess, OneOperator
    PROVE  Spec => StrandedCancelHonoured
  <1>1. HandledInv /\ [Next]_vars
          => [\A r \in Runs :
               (runs[r].status = "running" /\ "requested" \in runs[r].cancel
                  /\ lease[r].state # "active")
               => runs'[r].status \in {"running", "cancelled"}]_vars
    <2> SUFFICES ASSUME HandledInv, [Next]_vars, NEW r \in Runs, runs[r].status = "running",
                        "requested" \in runs[r].cancel, lease[r].state # "active"
                 PROVE  runs'[r].status \in {"running", "cancelled"}
      OBVIOUS
    <2>0. runs[r] \in Row /\ (Changed(r) \/ Undisturbed(r))
      BY StepChanges DEF HandledInv, TypeOK, Changes, Others
    <2>1. CASE Undisturbed(r) \/ Expired(r) \/ \E p \in Procs : Granted(p, r) \/ Moved(p, r)
      BY <2>1 DEF Undisturbed, Expired, Granted, Moved, RowKept
    <2>2. CASE Aged(r)
      BY <2>0, <2>2, AgedIs DEF Aged
    <2>3. CASE Reclaimed(r)
      BY <2>0, <2>3, RecoveredIs DEF Reclaimed
    <2>4. ~Created(r) /\ \A p \in Procs : ~Taken(p, r) /\ ~Written(p, r)
      BY DEF Created, Taken, Claimable, Written, Owns
    <2>5. \A o \in Operators : ~Retried(o, r)
      BY DEF Retried, HandledInv, Unsuccessful, CanRetry
    <2> QED BY <2>0, <2>1, <2>2, <2>3, <2>4, <2>5 DEF Changed
  <1> QED BY <1>1, AlwaysHandled, PTL DEF Spec, StrandedCancelHonoured

\* With one process and one operator's request at a time, and no lost acknowledgement, a
\* completed run stays completed.
THEOREM CompletedStays ==
    ASSUME OneProcess, OneOperator, "lost_ack" \notin FaultKinds
    PROVE  Spec => CompletedIsFinal
  <1>1. HandledInv /\ [Next]_vars
          => [\A r \in Runs : runs[r].status = "completed" => runs'[r].status = "completed"]_vars
    <2> SUFFICES ASSUME HandledInv, [Next]_vars, NEW r \in Runs, runs[r].status = "completed"
                 PROVE  runs'[r].status = "completed"
      OBVIOUS
    <2>1. Changed(r) \/ Undisturbed(r)
      BY StepChanges DEF HandledInv, Changes, Others
    <2>2. Over(runs[r]) /\ ~CanRetry(runs[r])
      BY DEF Over, CanRetry
    <2> QED BY <2>1, <2>2, OverKept
  <1> QED BY <1>1, AlwaysHandled, PTL DEF Spec, CompletedIsFinal

\* With one process and one operator's request at a time, a retry only ever rewrites a run
\* that is still failed or cancelled, although the request read it in an earlier step.
THEOREM RetryIsOfUnsuccessful ==
    ASSUME OneProcess, OneOperator
    PROVE  Spec => RetryOnlyUnsuccessful
  <1>1. HandledInv
          => [\A o \in Operators :
               (ctl[o].op = "retry" /\ ctl'[o] = NoRequest /\ runs' # runs)
               => CanRetry(runs[ctl[o].run])]_vars
    BY DEF HandledInv, Unsuccessful
  <1> QED BY <1>1, AlwaysHandled, PTL DEF RetryOnlyUnsuccessful

\* of two runs of one type, at most one is running or freshly claimed
Exclusive ==
    \A q, r \in Runs : (q # r /\ TypeOf[q] = TypeOf[r]) => ~(BlocksType(q) /\ BlocksType(r))

\* A run comes to block its type only by a claim: a worker starts a run that is claimed.
LEMMA BlockingBegins ==
    ASSUME HandledInv, "slow_start" \notin FaultKinds, NEW r \in Runs,
           Changed(r) \/ Undisturbed(r), BlocksType(r)'
    PROVE  BlocksType(r) \/ \E p \in Procs : Taken(p, r)
  <1>0. runs[r] \in Row /\ TypeOK
    BY DEF HandledInv, TypeOK
  <1>1. CASE Undisturbed(r) \/ Expired(r) \/ \E p \in Procs : Granted(p, r) \/ Moved(p, r)
    BY <1>1 DEF Undisturbed, Expired, Granted, Moved, RowKept, BlocksType
  <1>2. CASE Created(r)
    BY <1>2, NewRowIs, BoundsAssumption DEF Created, BlocksType
  <1>3. CASE Aged(r)
    BY <1>0, <1>3, AgedIs DEF Aged, BlocksType
  <1>4. CASE Reclaimed(r)
    BY <1>0, <1>4, RecoveredIs DEF Reclaimed, BlocksType
  <1>5. ASSUME NEW o \in Operators, Retried(o, r)
        PROVE  FALSE
    <2>1. ctl[o].max \in Nat
      BY <1>0, <1>5 DEF Retried, TypeOK, Request, NoRequest
    <2> QED BY <1>0, <1>5, <2>1, RescheduledIs DEF Retried, BlocksType
  <1>6. ASSUME NEW p \in Procs, Written(p, r)
        PROVE  BlocksType(r)
    <2> DEFINE pc == task[p][r].pc
               mark == MarkAt(pc, runs[r])
    <2>1. mark \in Marks /\ pc \in MarkPc
      BY <1>6, MarkAtType DEF Written
    <2>2. runs'[r].status = StatusOf(mark) /\ runs'[r].claim = "none"
      BY <1>0, <1>6, <2>1, LifecycleIs DEF Written
    <2>3. mark = "started"
      BY <2>1, <2>2 DEF BlocksType, StatusOf, Marks
    <2>4. pc = "start"
      BY <2>1, <2>3 DEF MarkAt, MarkPc
    <2> QED BY <2>4 DEF HandledInv, Awaited, Unstarted, BlocksType
  <1> QED BY <1>1, <1>2, <1>3, <1>4, <1>5, <1>6 DEF Changed

\* With one process, one operator's request at a time and no worker slower to start than
\* the claim timeout, two runs of one type never run at the same time, although the claim
\* and the start of a run are two transactions.
THEOREM OneRunPerType ==
    ASSUME OneProcess, OneOperator, "slow_start" \notin FaultKinds
    PROVE  Spec => []OneRunningPerType
  <1>1. Init => Exclusive
    BY DEF Init, NoRow, Exclusive, BlocksType
  <1>2. HandledInv /\ Exclusive /\ [Next]_vars => Exclusive'
    <2> SUFFICES ASSUME HandledInv, Exclusive, [Next]_vars, NEW q \in Runs, NEW r \in Runs,
                        q # r, TypeOf[q] = TypeOf[r], BlocksType(q)', BlocksType(r)'
                 PROVE  FALSE
      BY DEF Exclusive
    <2>1. Changes
      BY StepChanges DEF HandledInv
    <2>2. ASSUME NEW s \in Runs, NEW t \in Runs, s # t, TypeOf[s] = TypeOf[t],
                 BlocksType(s)', BlocksType(t)', Changed(s) \/ Undisturbed(s), Undisturbed(t)
          PROVE  FALSE
      <3>1. BlocksType(t)
        BY <2>2 DEF Undisturbed, RowKept, BlocksType
      <3>2. BlocksType(s) \/ \E p \in Procs : Taken(p, s)
        BY <2>2, BlockingBegins
      <3> QED BY <2>2, <3>1, <3>2 DEF Exclusive, Taken, Claimable
    <2> QED BY <2>1, <2>2 DEF Changes, Others
  <1>3. Exclusive => OneRunningPerType
    BY DEF Exclusive, OneRunningPerType, BlocksType
  <1> QED BY <1>1, <1>2, <1>3, AlwaysHandled, PTL DEF Spec

-----------------------------------------------------------------------------
(* The engine implements RunLifecycle.                                     *)

PhaseOf(r) == Phase(runs[r])

Held(r) == lease[r].state = "active"

\* a step of RunLifecycle that moves run r on, or leaves it as it is
PhaseMoves(r) ==
    /\ lease'[r].acq = lease[r].acq
    /\ Held(r)' = Held(r)
    /\ \/ PhaseOf(r)' = PhaseOf(r)
       \/ PhaseOf(r) = "absent" /\ PhaseOf(r)' = "queued"
       \/ PhaseOf(r) = "done" /\ PhaseOf(r)' = "queued"
       \/ Held(r) /\ PhaseOf(r) = "queued" /\ PhaseOf(r)' = "running"
       \/ /\ Held(r)
          /\ PhaseOf(r) \in {"queued", "running"} /\ PhaseOf(r)' \in {"queued", "done"}
       \/ /\ ~Held(r)
          /\ PhaseOf(r) = "running" /\ PhaseOf(r)' \in {"queued", "done"}

\* a step of RunLifecycle that grants or ends the holding of run r
HoldMoves(r) ==
    /\ PhaseOf(r)' = PhaseOf(r)
    /\ \/ ~Held(r) /\ Held(r)' /\ lease'[r].acq = lease[r].acq + 1
       \/ Held(r) /\ ~Held(r)' /\ lease'[r].acq = lease[r].acq

Same(r) ==
    PhaseOf(r)' = PhaseOf(r) /\ Held(r)' = Held(r) /\ lease'[r].acq = lease[r].acq

\* An undisturbed run stutters.
LEMMA UndisturbedSame ==
    ASSUME NEW r \in Runs, Undisturbed(r)
    PROVE  Same(r)
  BY DEF Undisturbed, RowKept, Same, PhaseOf, Phase, Held

\* Whatever changes a run is a move RunLifecycle allows.
LEMMA ChangedMoves ==
    ASSUME OneProcess, "lost_ack" \notin FaultKinds, HandledInv, NEW r \in Runs, Changed(r)
    PROVE  PhaseMoves(r) \/ HoldMoves(r)
  <1>0. runs[r] \in Row /\ runs[r].status \in Status /\ lease[r] \in Lease /\ TypeOK
    BY DEF HandledInv, TypeOK, LeaseTypeOK, Row
  <1> USE DEF PhaseOf, Held
  <1>1. CASE Created(r)
    <2>1. runs'[r].status = "pending"
      BY <1>1, NewRowIs, BoundsAssumption DEF Created
    <2> QED BY <1>1, <2>1 DEF Created, RowOnly, PhaseMoves, Phase
  <1>2. CASE Aged(r)
    <2>1. runs'[r].status = runs[r].status
      BY <1>0, <1>2, AgedIs DEF Aged
    <2> QED BY <1>2, <2>1 DEF Aged, RowOnly, PhaseMoves, Phase
  <1>3. CASE Reclaimed(r)
    <2>1. runs'[r].status \in {"pending", "failed", "cancelled"}
      BY <1>0, <1>3, RecoveredIs DEF Reclaimed
    <2> QED BY <1>3, <2>1 DEF Reclaimed, PhaseMoves, Phase
  <1>4. CASE Expired(r)
    <2>1. lease'[r].state = "expired" /\ lease'[r].acq = lease[r].acq
      BY <1>0, <1>4 DEF Expired, Lease
    <2> QED BY <1>4, <2>1 DEF Expired, RowKept, HoldMoves, Phase
  <1>5. ASSUME NEW o \in Operators, Retried(o, r)
        PROVE  PhaseMoves(r)
    <2>1. ctl[o].max \in Nat
      BY <1>0, <1>5 DEF Retried, TypeOK, Request, NoRequest
    <2>2. runs'[r].status = "pending"
      BY <1>0, <1>5, <2>1, RescheduledIs DEF Retried
    <2>3. runs[r].status \in {"failed", "cancelled"}
      BY <1>5 DEF Retried, HandledInv, Unsuccessful, CanRetry
    <2> QED BY <1>5, <2>2, <2>3 DEF Retried, RowOnly, PhaseMoves, Phase
  <1>6. ASSUME NEW p \in Procs, Taken(p, r)
        PROVE  PhaseMoves(r)
    <2>1. runs'[r].status = runs[r].status
      BY <1>0, <1>6, ClaimedIs DEF Taken
    <2> QED BY <1>6, <2>1 DEF Taken, PhaseMoves, Phase
  <1>7. ASSUME NEW p \in Procs, Written(p, r)
        PROVE  PhaseMoves(r)
    <2> DEFINE pc == task[p][r].pc
               mark == MarkAt(pc, runs[r])
    <2>1. mark \in Marks /\ pc \in MarkPc /\ Held(r) /\ lease'[r] = lease[r]
      BY <1>7, MarkAtType DEF Written, Owns
    <2>2. runs'[r].status = StatusOf(mark)
      BY <1>0, <1>7, <2>1, LifecycleIs DEF Written
    <2>3. CASE pc = "start"
      <3>1. mark = "started"
        BY <2>3 DEF MarkAt
      <3>2. runs'[r].status = "running" /\ runs[r].status = "pending"
        BY <2>2, <2>3, <3>1 DEF StatusOf, HandledInv, Awaited, Unstarted
      <3> QED BY <2>1, <3>2 DEF PhaseMoves, Phase
    <2>4. CASE pc # "start"
      <3>1. mark # "started"
        BY <2>1, <2>4 DEF MarkAt, MarkPc
      <3>2. PhaseOf(r)' \in {"queued", "done"}
        BY <2>1, <2>2, <3>1 DEF StatusOf, Marks, Phase
      <3>3. runs[r].status # "absent"
        BY <2>1 DEF MarkPc, HandledInv, Unknown
      <3>4. ~Over(runs[r])
        BY <1>7, <2>1 DEF Written, MarkPc, HandledInv, Leaving
      <3>5. PhaseOf(r) \in {"queued", "running"}
        BY <1>0, <3>3, <3>4 DEF Over, Status, Phase
      <3> QED BY <2>1, <3>2, <3>5 DEF PhaseMoves
    <2> QED BY <2>3, <2>4
  <1>8. ASSUME NEW p \in Procs, Granted(p, r)
        PROVE  HoldMoves(r)
    BY <1>8 DEF Granted, RowKept, HoldMoves, Phase
  <1>9. ASSUME NEW p \in Procs, Moved(p, r)
        PROVE  PhaseMoves(r) \/ HoldMoves(r)
    BY <1>9 DEF Moved, RowKept, PhaseMoves, HoldMoves, Phase
  <1> QED BY <1>1, <1>2, <1>3, <1>4, <1>5, <1>6, <1>7, <1>8, <1>9 DEF Changed

\* One run's move with all others the same is a step of RunLifecycle.
LEMMA MoveIsAbstract ==
    ASSUME NEW r \in Runs, PhaseMoves(r) \/ HoldMoves(r), \A s \in Runs \ {r} : Same(s)
    PROVE  [Abstract!Next]_<<[s \in Runs |-> Phase(runs[s])],
                             [s \in Runs |-> lease[s].state = "active"],
                             [s \in Runs |-> lease[s].acq]>>
  <1> DEFINE phase == [s \in Runs |-> Phase(runs[s])]
             held == [s \in Runs |-> lease[s].state = "active"]
             epoch == [s \in Runs |-> lease[s].acq]
  <1>1. /\ \A s \in Runs \ {r} : phase'[s] = phase[s] /\ held'[s] = held[s] /\ epoch'[s] = epoch[s]
        /\ phase[r] = PhaseOf(r) /\ phase'[r] = PhaseOf(r)'
        /\ held[r] = Held(r) /\ held'[r] = Held(r)'
        /\ epoch[r] = lease[r].acq /\ epoch'[r] = lease'[r].acq
    BY DEF Same, PhaseOf, Held
  <1>2. /\ phase' = [phase EXCEPT ![r] = phase'[r]]
        /\ held' = [held EXCEPT ![r] = held'[r]]
        /\ epoch' = [epoch EXCEPT ![r] = epoch'[r]]
    BY <1>1
  <1>3. /\ phase'[r] = phase[r] => phase' = phase
        /\ held'[r] = held[r] => held' = held
        /\ epoch'[r] = epoch[r] => epoch' = epoch
    BY <1>2
  <1>4. CASE PhaseMoves(r) /\ phase'[r] # phase[r]
    <2>1. UNCHANGED <<held, epoch>>
      BY <1>1, <1>3, <1>4 DEF PhaseMoves
    <2>2. CASE phase[r] = "absent" /\ phase'[r] = "queued"
      <3>1. Abstract!Create(r)
        BY <1>2, <2>1, <2>2 DEF Abstract!Create
      <3> QED BY <3>1 DEF Abstract!Next
    <2>3. CASE phase[r] = "done" /\ phase'[r] = "queued"
      <3>1. Abstract!Retry(r)
        BY <1>2, <2>1, <2>3 DEF Abstract!Retry
      <3> QED BY <3>1 DEF Abstract!Next
    <2>4. CASE held[r] /\ phase[r] = "queued" /\ phase'[r] = "running"
      <3>1. Abstract!Start(r)
        BY <1>2, <2>1, <2>4 DEF Abstract!Start
      <3> QED BY <3>1 DEF Abstract!Next
    <2>5. CASE held[r] /\ phase[r] \in {"queued", "running"} /\ phase'[r] \in {"queued", "done"}
      <3>1. Abstract!Settle(r)
        BY <1>2, <2>1, <2>5 DEF Abstract!Settle
      <3> QED BY <3>1 DEF Abstract!Next
    <2>6. CASE ~held[r] /\ phase[r] = "running" /\ phase'[r] \in {"queued", "done"}
      <3>1. Abstract!Recover(r)
        BY <1>2, <2>1, <2>6 DEF Abstract!Recover
      <3> QED BY <3>1 DEF Abstract!Next
    <2> HIDE DEF phase, held, epoch
    <2> QED BY <1>1, <1>4, <2>2, <2>3, <2>4, <2>5, <2>6 DEF PhaseMoves
  <1>5. CASE PhaseMoves(r) /\ phase'[r] = phase[r]
    BY <1>1, <1>3, <1>5 DEF PhaseMoves
  <1>6. CASE HoldMoves(r)
    <2>1. UNCHANGED phase
      BY <1>1, <1>3, <1>6 DEF HoldMoves
    <2>2. CASE ~held[r] /\ held'[r] /\ epoch'[r] = epoch[r] + 1
      <3>1. Abstract!Grant(r)
        BY <1>2, <2>1, <2>2 DEF Abstract!Grant
      <3> QED BY <3>1 DEF Abstract!Next
    <2>3. CASE held[r] /\ ~held'[r] /\ epoch'[r] = epoch[r]
      <3>1. Abstract!Yield(r)
        BY <1>2, <1>3, <2>1, <2>3 DEF Abstract!Yield
      <3> QED BY <3>1 DEF Abstract!Next
    <2> HIDE DEF phase, held, epoch
    <2> QED BY <1>1, <1>6, <2>2, <2>3 DEF HoldMoves
  <1> QED BY <1>4, <1>5, <1>6

\* With one process, one operator's request at a time and no lost acknowledgement, the engine
\* implements RunLifecycle: a run is moved on only by the holder of its lease, or by recovery
\* when nobody holds it, and a run that is done is queued again only by an operator.
THEOREM EngineImplementsLifecycle ==
    ASSUME OneProcess, OneOperator, "lost_ack" \notin FaultKinds
    PROVE  Spec => ImplementsRunLifecycle
  <1>1. Init => Abstract!Init
    <2> SUFFICES ASSUME Init PROVE Abstract!Init
      OBVIOUS
    <2>1. \A r \in Runs : runs[r].status = "absent"
      BY DEF Init, NoRow
    <2>2. \A r \in Runs : Phase(runs[r]) = "absent"
      BY <2>1 DEF Phase
    <2>3. \A r \in Runs : lease[r].acq = 0 /\ lease[r].state = "absent"
      BY DEF Init, LeaseInit, NoLease
    <2>4. \A r \in Runs : (lease[r].state = "active") = FALSE
      BY <2>3
    <2>5. [r \in Runs |-> Phase(runs[r])] = [r \in Runs |-> "absent"]
      BY <2>2
    <2>6. [r \in Runs |-> lease[r].state = "active"] = [r \in Runs |-> FALSE]
      BY <2>4, Zenon
    <2>7. [r \in Runs |-> lease[r].acq] = [r \in Runs |-> 0]
      BY <2>3
    <2> QED BY <2>5, <2>6, <2>7 DEF Abstract!Init
  <1>2. HandledInv /\ [Next]_vars
          => [Abstract!Next]_<<[r \in Runs |-> Phase(runs[r])],
                               [r \in Runs |-> lease[r].state = "active"],
                               [r \in Runs |-> lease[r].acq]>>
    <2> SUFFICES ASSUME HandledInv, [Next]_vars
                 PROVE  [Abstract!Next]_<<[r \in Runs |-> Phase(runs[r])],
                                          [r \in Runs |-> lease[r].state = "active"],
                                          [r \in Runs |-> lease[r].acq]>>
      OBVIOUS
    <2>1. Changes
      BY StepChanges DEF HandledInv
    <2>2. CASE \A s \in Runs : Undisturbed(s)
      <3>1. \A s \in Runs : Same(s)
        BY <2>2, UndisturbedSame
      <3> QED BY <3>1 DEF Same, PhaseOf, Held
    <2>3. ASSUME NEW r \in Runs, Changed(r), Others(r)
          PROVE  [Abstract!Next]_<<[s \in Runs |-> Phase(runs[s])],
                                   [s \in Runs |-> lease[s].state = "active"],
                                   [s \in Runs |-> lease[s].acq]>>
      <3>1. \A s \in Runs \ {r} : Same(s)
        BY <2>3, UndisturbedSame DEF Others
      <3>2. PhaseMoves(r) \/ HoldMoves(r)
        BY <2>3, ChangedMoves
      <3> QED BY <3>1, <3>2, MoveIsAbstract
    <2> QED BY <2>1, <2>2, <2>3 DEF Changes
  <1> QED BY <1>1, <1>2, AlwaysHandled, PTL DEF Spec, ImplementsRunLifecycle, Abstract!Spec
=============================================================================
