----------------------- MODULE DownloadHandoffProofs -----------------------
(***************************************************************************)
(* The safety of DownloadHandoff for every set of processes and runs, and  *)
(* every number of faults, administrator moves and start requests.         *)
(***************************************************************************)
EXTENDS DownloadHandoff, TLAPS

\* A worker that forgets its local data is well typed.
LEMMA AtType ==
    ASSUME NEW pc \in TaskPc, NEW a \in Nat
    PROVE  At(pc, a) \in Task
  BY DEF At, Task, Evidence, Receipt

\* Moving a worker keeps the type of all workers.
LEMMA MoveType ==
    ASSUME task \in [Procs -> [Runs -> Task]], NEW p \in Procs, NEW r \in Runs,
           NEW pc \in TaskPc, Move(p, r, pc)
    PROVE  task' \in [Procs -> [Runs -> Task]]
  <1>1. task[p][r].acq \in Nat
    BY DEF Task
  <1>2. At(pc, task[p][r].acq) \in Task
    BY <1>1, AtType
  <1>3. task' = [task EXCEPT ![p][r] = At(pc, task[p][r].acq)]
    BY DEF Move
  <1> QED BY <1>2, <1>3

\* So does the way into the refusal.
LEMMA RefuseThenType ==
    ASSUME task \in [Procs -> [Runs -> Task]], NEW p \in Procs, NEW r \in Runs,
           NEW s \in {"completed", "failed", "cancelled"}, RefuseThen(p, r, s)
    PROVE  task' \in [Procs -> [Runs -> Task]]
  <1>1. task[p][r].acq \in Nat /\ "refuse" \in TaskPc
    BY DEF Task, TaskPc
  <1>2. At("refuse", task[p][r].acq) \in Task
    BY <1>1, AtType
  <1>3. [At("refuse", task[p][r].acq) EXCEPT !.end = s] \in Task
    BY <1>2 DEF Task
  <1>4. task' = [task EXCEPT ![p][r] = [At("refuse", task[p][r].acq) EXCEPT !.end = s]]
    BY DEF RefuseThen
  <1> QED BY <1>3, <1>4

\* A worker that goes on to stage with its data is well typed.
LEMMA StageType ==
    ASSUME task \in [Procs -> [Runs -> Task]], NEW p \in Procs, NEW r \in Runs,
           task' = [task EXCEPT ![p][r].pc = "stage"]
    PROVE  task' \in [Procs -> [Runs -> Task]]
  <1>1. task[p][r] \in Task
    OBVIOUS
  <1>2. \A t \in Task : [t EXCEPT !.pc = "stage"] \in Task
    BY DEF Task, TaskPc
  <1> QED BY <1>1, <1>2

\* Leaving a run keeps the type of all workers.
LEMMA LeaveType ==
    ASSUME task \in [Procs -> [Runs -> Task]], NEW p \in Procs, NEW r \in Runs, Leave(p, r)
    PROVE  task' \in [Procs -> [Runs -> Task]]
  <1>1. NoTask \in Task
    BY AtType DEF NoTask, TaskPc
  <1> QED BY <1>1 DEF Leave

\* Releasing a lease keeps the type of the leases.
LEMMA ReleaseType ==
    ASSUME LeaseTypeOK, NEW r, NEW a, ReleaseLease(r, a)
    PROVE  LeaseTypeOK'
  BY DEF ReleaseLease, LeaseTypeOK, Lease, LeaseState

\* A fault keeps within its bound.
LEMMA FaultType ==
    ASSUME faults \in 0..MaxFaults, NEW k, Fault(k) \/ UNCHANGED faults
    PROVE  faults' \in 0..MaxFaults
  BY HandoffAssumption DEF Fault

\* Initially every row is absent and nobody works.
LEMMA InitType == Init => TypeOK
  <1> SUFFICES ASSUME Init PROVE TypeOK
    OBVIOUS
  <1>1. LeaseTypeOK
    BY DEF Init, LeaseInit, LeaseTypeOK, NoLease, Lease, LeaseState
  <1>2. NoRun \in Run /\ NoItem \in Item
    BY DEF NoRun, Run, NoItem, Item, Receipt
  <1>3. NoTask \in Task
    BY AtType DEF NoTask, TaskPc
  <1>4. cand \in Candidate
    BY DEF Init, Candidate
  <1>5. recon \in Recon /\ net \in [Runs -> Net]
    BY DEF Init, Recon, Idle, Net
  <1> QED BY <1>1, <1>2, <1>3, <1>4, <1>5, HandoffAssumption DEF Init, TypeOK

\* Requests, the queue and the clock keep the types.
LEMMA QueueType ==
    ASSUME TypeOK, NEW r \in Runs,
           \/ RequestStep(r) \/ RecoverRun(r) \/ ClaimTimesOut(r) \/ LeaseExpires(r)
           \/ \E p \in Procs : ClaimRun(p, r)
    PROVE  TypeOK'
  <1> USE DEF TypeOK, rowVars, controlVars, counters
  <1>1. CASE RequestStart(r)
    BY <1>1, HandoffAssumption DEF RequestStart, LeaseTypeOK
  <1>0. QueuedRun \in Run
    BY DEF QueuedRun, Run
  <1>2. CASE CreateRun(r)
    BY <1>0, <1>2 DEF CreateRun, LeaseTypeOK
  <1>3. CASE CancelRun(r)
    <2>1. runs' \in [Runs -> Run]
      BY <1>3 DEF CancelRun, Run
    <2>2. moves' \in 0..MaxMoves
      BY <1>3, HandoffAssumption DEF CancelRun, Moved
    <2> QED BY <1>3, <2>1, <2>2 DEF CancelRun, LeaseTypeOK
  <1>4. CASE RequestRetry(r)
    BY <1>4, HandoffAssumption DEF RequestRetry, Moved, LeaseTypeOK
  <1>5. CASE ApplyRetry(r)
    BY <1>0, <1>5 DEF ApplyRetry, LeaseTypeOK
  <1>6. ASSUME NEW p \in Procs, ClaimRun(p, r) PROVE TypeOK'
    <2>1. runs' \in [Runs -> Run]
      BY <1>6 DEF ClaimRun, Run
    <2>2. At("acquire", 0) \in Task
      BY AtType DEF TaskPc
    <2>3. task' \in [Procs -> [Runs -> Task]]
      BY <1>6, <2>2 DEF ClaimRun
    <2> QED BY <1>6, <2>1, <2>3 DEF ClaimRun, LeaseTypeOK
  <1>7. CASE RecoverRun(r)
    <2>1. runs' \in [Runs -> Run]
      BY <1>7 DEF RecoverRun, Run
    <2>2. LeaseTypeOK'
      BY <1>7, ReleaseType DEF RecoverRun
    <2> QED BY <1>7, <2>1, <2>2 DEF RecoverRun
  <1>8. CASE ClaimTimesOut(r)
    <2>1. runs' \in [Runs -> Run]
      BY <1>8 DEF ClaimTimesOut, Run
    <2>2. faults' \in 0..MaxFaults
      BY <1>8, FaultType DEF ClaimTimesOut
    <2> QED BY <1>8, <2>1, <2>2 DEF ClaimTimesOut, LeaseTypeOK
  <1>9. CASE LeaseExpires(r)
    <2>1. LeaseTypeOK'
      BY <1>9 DEF LeaseExpires, ExpireLease, LeaseTypeOK, Lease, LeaseState
    <2>2. faults' \in 0..MaxFaults
      BY <1>9, FaultType DEF LeaseExpires
    <2> QED BY <1>9, <2>1, <2>2 DEF LeaseExpires
  <1> QED BY <1>1, <1>2, <1>3, <1>4, <1>5, <1>6, <1>7, <1>8, <1>9 DEF RequestStep

\* A confirmation keeps the types of item and candidate.
LEMMA ConfirmHandoffType ==
    ASSUME item \in [Runs -> Item], cand \in Candidate, NEW r \in Runs, NEW had,
           NEW e \in Evidence, ConfirmHandoff(r, had, e)
    PROVE  item' \in [Runs -> Item] /\ cand' \in Candidate
  <1>1. CASE Applies(r, had)
    <2>1. Proof(r, e) \in Receipt
      BY DEF Proof, Evidence, Item
    <2>a. ConfirmedState(r, e) \in {"confirmed", "dispatching", "awaiting_confirmation"}
      BY DEF ConfirmedState
    <2>b. [item[r] EXCEPT !.receipt = Proof(r, e), !.state = ConfirmedState(r, e)] \in Item
      BY <2>1, <2>a DEF Item
    <2>2. item' \in [Runs -> Item]
      BY <1>1, <2>b DEF ConfirmHandoff
    <2>c. cand.rev + 1 \in Nat
      BY DEF Candidate
    <2>d. [cand EXCEPT !.status = "downloading", !.rev = cand.rev + 1] \in Candidate
      BY <2>c DEF Candidate
    <2>3. cand' \in Candidate
      BY <1>1, <2>d DEF ConfirmHandoff
    <2> QED BY <2>2, <2>3
  <1>2. CASE ~Applies(r, had)
    BY <1>2 DEF ConfirmHandoff
  <1> QED BY <1>1, <1>2

\* So does the failure of a candidate.
LEMMA FailCandidateType ==
    ASSUME cand \in Candidate, FailCandidate
    PROVE  cand' \in Candidate
  <1>1. cand.rev + 1 \in Nat
    BY DEF Candidate
  <1>2. [cand EXCEPT !.status = "failed", !.rev = cand.rev + 1] \in Candidate
    BY <1>1 DEF Candidate
  <1> QED BY <1>2 DEF FailCandidate

\* A refused item is well typed.
LEMMA RefusedItemType ==
    ASSUME NEW i \in Item
    PROVE  RefusedItem(i) \in Item
  BY DEF RefusedItem, Item

\* The worker's steps in front of the dispatch boundary keep the types.
LEMMA PreparationType ==
    ASSUME TypeOK, NEW p \in Procs, NEW r \in Runs,
           \/ Acquire(p, r) \/ Start(p, r) \/ Load(p, r) \/ Look(p, r) \/ Evidence_(p, r)
           \/ Begin(p, r) \/ SealBlocked(p, r) \/ PreparationThrows(p, r)
    PROVE  TypeOK'
  <1> USE DEF TypeOK, rowVars, controlVars, counters
  <1>0. /\ task[p][r].acq \in Nat /\ task[p][r].obs \in Nat
        /\ cand.rev \in Nat
    BY DEF Task, Candidate
  <1>1. CASE Acquire(p, r)
    <2>1. CASE ~runs[r].closed /\ LeaseAvailable(r)
      <3>1. NextAcquisition(r) \in Nat
        BY DEF NextAcquisition, LeaseTypeOK, Lease
      <3>2. LeaseTypeOK'
        BY <1>1, <2>1, <3>1 DEF Acquire, AcquireLease, LeaseTypeOK, Lease, LeaseState
      <3>3. task' \in [Procs -> [Runs -> Task]]
        <4>1. At("start", NextAcquisition(r)) \in Task
          BY <3>1, AtType DEF TaskPc
        <4> QED BY <1>1, <2>1, <4>1 DEF Acquire
      <3> QED BY <1>1, <3>2, <3>3 DEF Acquire
    <2>2. CASE ~(~runs[r].closed /\ LeaseAvailable(r))
      BY <1>1, <2>2, LeaveType DEF Acquire, LeaseTypeOK
    <2> QED BY <2>1, <2>2
  <1>2. CASE Start(p, r)
    <2>1. runs' \in [Runs -> Run]
      BY <1>2 DEF Start, Run
    <2>2. PICK pc \in {"cancelled", "load", "release"} : Move(p, r, pc)
      BY <1>2 DEF Start
    <2>3. task' \in [Procs -> [Runs -> Task]]
      BY <2>2, MoveType DEF TaskPc
    <2> QED BY <1>2, <2>1, <2>3 DEF Start, LeaseTypeOK
  <1>3. CASE Load(p, r)
    <2>1. item' \in [Runs -> Item]
      <3> DEFINE s == IF item[r].state = "absent" THEN "none" ELSE item[r].state
      <3>1. s \in {"absent", "none", "preparing", "pre_provider_refused", "dispatching",
                   "awaiting_confirmation", "confirmed", "not_dispatched"}
        BY DEF Item
      <3> HIDE DEF s
      <3>2. [item[r] EXCEPT !.state = s] \in Item
        BY <3>1 DEF Item
      <3>3. item' = item \/ item' = [item EXCEPT ![r].state = s]
        BY <1>3 DEF Load, s
      <3> QED BY <3>2, <3>3
    <2>2. task' \in [Procs -> [Runs -> Task]]
      <3>1. CASE cand.status # "selected"
        BY <1>3, <3>1, MoveType DEF Load, TaskPc
      <3>2. CASE cand.status = "selected"
        <4>1. At("look", task[p][r].acq) \in Task
          BY <1>0, AtType DEF TaskPc
        <4>2. SeenAs(item[r]) \in {"fresh", "evidence", "blocked"}
          BY DEF SeenAs
        <4>3. item[r].receipt \in Receipt
          BY DEF Item
        <4>4. [At("look", task[p][r].acq) EXCEPT !.seen = SeenAs(item[r]),
                                                 !.receipt = item[r].receipt] \in Task
          BY <4>1, <4>2, <4>3 DEF Task
        <4> QED BY <1>3, <3>2, <4>4 DEF Load
      <3> QED BY <3>1, <3>2
    <2> QED BY <1>3, <2>1, <2>2 DEF Load, LeaseTypeOK
  <1>4. CASE Look(p, r)
    <2> DEFINE a == task[p][r].acq
               c == task[p][r].receipt
    <2>1. PICK t \in {At("cancelled", a), At("completed", a), [At("begin", a) EXCEPT !.obs = cand.rev],
                      [At("evidence", a) EXCEPT !.receipt = c]} :
             task' = [task EXCEPT ![p][r] = t]
      BY <1>4 DEF Look
    <2>2. /\ At("cancelled", a) \in Task /\ At("completed", a) \in Task
          /\ At("begin", a) \in Task /\ At("evidence", a) \in Task
      BY <1>0, AtType DEF TaskPc
    <2>3. c \in Receipt /\ cand.rev \in Nat
      BY DEF Task, Candidate
    <2>4. t \in Task
      BY <2>1, <2>2, <2>3 DEF Task
    <2>5. task' \in [Procs -> [Runs -> Task]]
      BY <2>1, <2>4
    <2> QED BY <1>4, <2>5 DEF Look, LeaseTypeOK
  <1>5. CASE Evidence_(p, r)
    <2>1. PICK e \in Lookup(r, task[p][r].receipt) :
             IF e = "error" THEN Move(p, r, "failed")
             ELSE task' = [task EXCEPT ![p][r] = [At("confirm", task[p][r].acq) EXCEPT !.proof = e]]
      BY <1>5 DEF Evidence_
    <2>2. task' \in [Procs -> [Runs -> Task]]
      <3>1. CASE e = "error"
        BY <2>1, <3>1, MoveType DEF TaskPc
      <3>2. CASE e # "error"
        <4>1. e \in Evidence
          BY <3>2 DEF Lookup, Evidence, Receipt
        <4>2. At("confirm", task[p][r].acq) \in Task
          BY <1>0, AtType DEF TaskPc
        <4> DEFINE t == [At("confirm", task[p][r].acq) EXCEPT !.proof = e]
        <4>3. t \in Task
          BY <4>1, <4>2 DEF Task
        <4>4. task' = [task EXCEPT ![p][r] = t]
          BY <2>1, <3>2
        <4> HIDE DEF t
        <4> QED BY <4>3, <4>4
      <3> QED BY <3>1, <3>2
    <2> QED BY <1>5, <2>2 DEF Evidence_, LeaseTypeOK
  <1>6. CASE Begin(p, r)
    <2>1. item' \in [Runs -> Item]
      BY <1>0, <1>6 DEF Begin, Item
    <2>2. task' = [task EXCEPT ![p][r].pc = "stage"] \/ Move(p, r, "completed")
      BY <1>6 DEF Begin
    <2>3. task' \in [Procs -> [Runs -> Task]]
      <3>1. CASE task' = [task EXCEPT ![p][r].pc = "stage"]
        BY <3>1, StageType
      <3>2. CASE Move(p, r, "completed")
        BY <3>2, MoveType DEF TaskPc
      <3> QED BY <2>2, <3>1, <3>2
    <2> QED BY <1>6, <2>1, <2>3 DEF Begin, LeaseTypeOK
  <1>7. CASE SealBlocked(p, r)
    BY <1>7, RefuseThenType DEF SealBlocked, LeaseTypeOK
  <1>8. CASE PreparationThrows(p, r)
    BY <1>8, RefuseThenType DEF PreparationThrows, LeaseTypeOK
  <1> QED BY <1>1, <1>2, <1>3, <1>4, <1>5, <1>6, <1>7, <1>8

\* The worker's steps from the staged attempt on keep the types.
LEMMA DispatchType ==
    ASSUME TypeOK, NEW p \in Procs, NEW r \in Runs,
           \/ Stage(p, r) \/ Guard(p, r) \/ Fence(p, r) \/ Post(p, r) \/ Answer(p, r)
           \/ AnswerLost(p, r) \/ Confirm(p, r) \/ RejectCandidate(p, r) \/ Refuse(p, r)
           \/ WorkerThrows(p, r) \/ Mark(p, r) \/ Release(p, r)
    PROVE  TypeOK'
  <1> USE DEF TypeOK, rowVars, controlVars, counters
  <1>0. task[p][r].acq \in Nat /\ task[p][r].proof \in Evidence
        /\ task[p][r].end \in {"completed", "failed", "cancelled"}
    BY DEF Task
  <1>1. CASE Stage(p, r)
    <2>1. item' \in [Runs -> Item]
      <3>1. [item[r] EXCEPT !.attempt = TRUE, !.state = "dispatching"] \in Item
        BY DEF Item
      <3>2. \/ item' = item
            \/ item' = [item EXCEPT ![r].attempt = TRUE, ![r].state = "dispatching"]
        BY <1>1 DEF Stage
      <3> QED BY <3>1, <3>2
    <2>2. \/ Move(p, r, "guard") \/ Move(p, r, "confirm")
          \/ RefuseThen(p, r, "completed") \/ RefuseThen(p, r, "failed")
      BY <1>1 DEF Stage
    <2>3. task' \in [Procs -> [Runs -> Task]]
      BY <2>2, MoveType, RefuseThenType DEF TaskPc
    <2> QED BY <1>1, <2>1, <2>3 DEF Stage, LeaseTypeOK
  <1>2. CASE Guard(p, r)
    <2>1. \/ Move(p, r, "fence") \/ RefuseThen(p, r, "cancelled") \/ RefuseThen(p, r, "failed")
      BY <1>2 DEF Guard
    <2>2. task' \in [Procs -> [Runs -> Task]]
      BY <2>1, MoveType, RefuseThenType DEF TaskPc
    <2> QED BY <1>2, <2>2 DEF Guard, LeaseTypeOK
  <1>3. CASE Fence(p, r)
    <2>1. item' \in [Runs -> Item]
      <3>1. [item[r] EXCEPT !.phase = "may_have_dispatched"] \in Item
        BY DEF Item
      <3> QED BY <1>3, <3>1 DEF Fence
    <2>2. Move(p, r, "post") \/ RefuseThen(p, r, "failed")
      BY <1>3 DEF Fence
    <2>3. task' \in [Procs -> [Runs -> Task]]
      BY <2>2, MoveType, RefuseThenType DEF TaskPc
    <2>4. faults' \in 0..MaxFaults
      BY <1>3, FaultType DEF Fence
    <2> QED BY <1>3, <2>1, <2>3, <2>4 DEF Fence, LeaseTypeOK
  <1>4. CASE Post(p, r)
    <2>1. task' \in [Procs -> [Runs -> Task]]
      BY <1>4, MoveType DEF Post, TaskPc
    <2>2. net' \in [Runs -> Net] /\ posts' \in [Runs -> Nat]
      BY <1>4 DEF Post, Net
    <2> QED BY <1>4, <2>1, <2>2 DEF Post, LeaseTypeOK
  <1>5. CASE Answer(p, r)
    <2>1. PICK e \in {IF net[r] = "refused" THEN "rejected" ELSE "confirmed", "unknown"} :
             task' = [task EXCEPT ![p][r] = [At("confirm", task[p][r].acq) EXCEPT !.proof = e]]
      BY <1>5 DEF Answer
    <2>2. e \in Evidence
      BY DEF Evidence, Receipt
    <2>3. At("confirm", task[p][r].acq) \in Task
      BY <1>0, AtType DEF TaskPc
    <2>4. [At("confirm", task[p][r].acq) EXCEPT !.proof = e] \in Task
      BY <2>2, <2>3 DEF Task
    <2>5. task' \in [Procs -> [Runs -> Task]]
      BY <2>1, <2>4
    <2> QED BY <1>5, <2>5 DEF Answer, LeaseTypeOK
  <1>6. CASE AnswerLost(p, r)
    <2>1. task' \in [Procs -> [Runs -> Task]]
      BY <1>6, MoveType DEF AnswerLost, TaskPc
    <2>2. faults' \in 0..MaxFaults
      BY <1>6, FaultType DEF AnswerLost
    <2> QED BY <1>6, <2>1, <2>2 DEF AnswerLost, LeaseTypeOK
  <1>7. CASE Confirm(p, r)
    <2>1. item' \in [Runs -> Item] /\ cand' \in Candidate
      BY <1>0, <1>7, ConfirmHandoffType DEF Confirm
    <2>2. Move(p, r, "reject") \/ Move(p, r, "completed")
      BY <1>7 DEF Confirm
    <2>3. task' \in [Procs -> [Runs -> Task]]
      BY <2>2, MoveType DEF TaskPc
    <2> QED BY <1>7, <2>1, <2>3 DEF Confirm, LeaseTypeOK
  <1>8. CASE RejectCandidate(p, r)
    <2>1. Move(p, r, "failed") \/ Move(p, r, "completed")
      BY <1>8 DEF RejectCandidate
    <2>2. task' \in [Procs -> [Runs -> Task]]
      BY <2>1, MoveType DEF TaskPc
    <2>3. cand' \in Candidate
      BY <1>8, FailCandidateType DEF RejectCandidate
    <2> QED BY <1>8, <2>2, <2>3 DEF RejectCandidate, LeaseTypeOK
  <1>9. CASE Refuse(p, r)
    <2>1. item' \in [Runs -> Item]
      BY <1>9, RefusedItemType DEF Refuse
    <2>2. Move(p, r, task[p][r].end) \/ Move(p, r, "failed")
      BY <1>9 DEF Refuse
    <2>3. task[p][r].end \in TaskPc /\ "failed" \in TaskPc
      BY <1>0 DEF TaskPc
    <2>4. task' \in [Procs -> [Runs -> Task]]
      BY <2>2, <2>3, MoveType
    <2> QED BY <1>9, <2>1, <2>4 DEF Refuse, LeaseTypeOK
  <1>10. CASE WorkerThrows(p, r)
    <2>1. task' \in [Procs -> [Runs -> Task]]
      BY <1>10, MoveType DEF WorkerThrows, TaskPc
    <2>2. faults' \in 0..MaxFaults
      BY <1>10, FaultType DEF WorkerThrows
    <2> QED BY <1>10, <2>1, <2>2 DEF WorkerThrows, LeaseTypeOK
  <1>11. CASE Mark(p, r)
    <2>1. task' \in [Procs -> [Runs -> Task]]
      <3>1. Move(p, r, "release") \/ Move(p, r, "failed")
        BY <1>11 DEF Mark, AfterMarkError
      <3> QED BY <3>1, MoveType DEF TaskPc
    <2>2. runs' \in [Runs -> Run]
      <3> DEFINE s == IF task[p][r].pc = "failed" /\ runs[r].due THEN "pending" ELSE task[p][r].pc
      <3>1. s \in {"pending", "completed", "failed", "cancelled"}
        BY <1>11 DEF Mark
      <3>2. runs' = runs \/ runs' = [runs EXCEPT ![r].claim = "none", ![r].status = s]
        BY <1>11 DEF Mark, Marked
      <3> HIDE DEF s
      <3>3. [runs[r] EXCEPT !.claim = "none", !.status = s] \in Run
        BY <3>1 DEF Run
      <3> QED BY <3>2, <3>3
    <2>3. faults' \in 0..MaxFaults
      BY <1>11, FaultType DEF Mark
    <2> QED BY <1>11, <2>1, <2>2, <2>3 DEF Mark, LeaseTypeOK
  <1>12. CASE Release(p, r)
    BY <1>12, LeaveType, ReleaseType DEF Release
  <1> QED BY <1>1, <1>2, <1>3, <1>4, <1>5, <1>6, <1>7, <1>8, <1>9, <1>10, <1>11, <1>12

\* The heartbeat keeps the types.
LEMMA ReconType ==
    ASSUME TypeOK, (\E r \in Runs : ReconBegins(r)) \/ ReconStep \/ ReconFails
    PROVE  TypeOK'
  <1> USE DEF TypeOK, rowVars, controlVars, counters
  <1>0. recon = Idle \/ recon \in [pc : {"look", "close", "confirm", "reject"}, run : Runs,
                                   snap : Snapshot, proof : Evidence]
    BY DEF Recon, Idle
  <1>1. ASSUME NEW r \in Runs, ReconBegins(r) PROVE TypeOK'
    <2>1. SnapshotOf(item[r]) \in Snapshot
      BY DEF SnapshotOf, Snapshot, Item
    <2>2. recon' \in Recon
      BY <1>1, <2>1 DEF ReconBegins, Recon, Evidence
    <2> QED BY <1>1, <2>2 DEF ReconBegins, LeaseTypeOK
  <1>2. CASE recon # Idle /\ ReconStep
    <2>0. recon \in [pc : {"look", "close", "confirm", "reject"}, run : Runs,
                     snap : Snapshot, proof : Evidence]
      BY <1>0, <1>2
    <2>a. \A pc \in {"close", "confirm", "reject"}, e \in Evidence :
             /\ [recon EXCEPT !.pc = pc] \in Recon
             /\ [recon EXCEPT !.pc = pc, !.proof = e] \in Recon
      BY <2>0 DEF Recon
    <2>b. Idle \in Recon
      BY DEF Recon, Idle
    <2>1. CASE ReconLooks
      <3>1. PICK e : /\ e \in (IF recon.snap.attempt THEN Lookup(recon.run, recon.snap.receipt)
                               ELSE {"none"})
                     /\ recon' = [recon EXCEPT
                            !.pc = IF recon.snap.phase = "preparing" THEN "close" ELSE "confirm",
                            !.proof = IF e = "error" THEN "none" ELSE e]
        BY <2>1 DEF ReconLooks
      <3>2. (IF e = "error" THEN "none" ELSE e) \in Evidence
        BY <3>1 DEF Lookup, Evidence, Receipt
      <3>3. recon' \in Recon
        BY <2>a, <3>1, <3>2
      <3> QED BY <2>1, <3>3 DEF ReconLooks, LeaseTypeOK
    <2>2. CASE ReconCloses
      <3>1. CASE Abandoned(recon.run, recon.snap)
        <4>1. recon.run \in Runs
          BY <2>0
        <4>2. item' \in [Runs -> Item]
          BY <2>2, <3>1, <4>1, RefusedItemType DEF ReconCloses
        <4>3. runs' \in [Runs -> Run]
          <5>1. \A x \in Run :
                   [x EXCEPT !.status = "cancelled", !.cancel = TRUE, !.closed = TRUE] \in Run
            BY DEF Run
          <5>2. runs' = [runs EXCEPT ![recon.run] =
                   [runs[recon.run] EXCEPT !.status = "cancelled", !.cancel = TRUE, !.closed = TRUE]]
            BY <2>2, <3>1, <4>1 DEF ReconCloses
          <5> QED BY <4>1, <5>1, <5>2
        <4>4. LeaseTypeOK'
          BY <2>2, <3>1, <4>1 DEF ReconCloses, NextAcquisition, LeaseTypeOK, Lease, LeaseState
        <4> QED BY <2>2, <3>1, <2>b, <4>2, <4>3, <4>4 DEF ReconCloses
      <3>2. CASE ~Abandoned(recon.run, recon.snap)
        <4>1. recon' = [recon EXCEPT !.pc = "confirm"] /\ UNCHANGED <<item, runs, lease>>
          BY <2>2, <3>2 DEF ReconCloses
        <4>2. [recon EXCEPT !.pc = "confirm"] \in Recon
          BY <2>0 DEF Recon
        <4> QED BY <2>2, <4>1, <4>2 DEF ReconCloses, LeaseTypeOK
      <3> QED BY <3>1, <3>2
    <2>3. CASE ReconConfirms
      <3>1. item' \in [Runs -> Item] /\ cand' \in Candidate
        BY <2>0, <2>3, ConfirmHandoffType DEF ReconConfirms
      <3>2. recon' = [recon EXCEPT !.pc = "reject"] \/ recon' = Idle
        BY <2>3 DEF ReconConfirms
      <3>3. [recon EXCEPT !.pc = "reject"] \in Recon
        BY <2>0 DEF Recon
      <3> QED BY <2>3, <2>b, <3>1, <3>2, <3>3 DEF ReconConfirms, LeaseTypeOK
    <2>4. CASE ReconRejects
      BY <2>4, <2>b, FailCandidateType DEF ReconRejects, LeaseTypeOK
    <2> QED BY <1>2, <2>1, <2>2, <2>3, <2>4 DEF ReconStep
  <1>3. CASE recon = Idle /\ ReconStep
    BY <1>3 DEF ReconStep, ReconLooks, ReconCloses, ReconConfirms, ReconRejects, Idle
  <1>4. CASE ReconFails
    <2>1. recon' \in Recon
      BY <1>4 DEF ReconFails, Recon, Idle
    <2>2. faults' \in 0..MaxFaults
      BY <1>4, FaultType DEF ReconFails
    <2> QED BY <1>4, <2>1, <2>2 DEF ReconFails, LeaseTypeOK
  <1> QED BY <1>1, <1>2, <1>3, <1>4

\* The candidate's next revision is well typed.
LEMMA BecomesType ==
    ASSUME cand \in Candidate, NEW s \in {"pending", "selected", "import_pending", "failed"},
           CandidateBecomes(s)
    PROVE  cand' \in Candidate
  <1>1. cand.rev + 1 \in Nat
    BY DEF Candidate
  <1>2. [cand EXCEPT !.status = s, !.rev = cand.rev + 1] \in Candidate
    BY <1>1 DEF Candidate
  <1> QED BY <1>2 DEF CandidateBecomes

\* The provider, the network, the candidate's other writers and crashes keep the types.
LEMMA WorldType ==
    ASSUME TypeOK,
           \/ \E r \in Runs : Provider(r) \/ RequestLost(r)
           \/ CandidateStep
           \/ \E p \in Procs : Crash(p)
    PROVE  TypeOK'
  <1> USE DEF TypeOK, rowVars, controlVars, counters
  <1>1. ASSUME NEW r \in Runs, Provider(r) PROVE TypeOK'
    BY <1>1 DEF Provider, Net, LeaseTypeOK
  <1>2. ASSUME NEW r \in Runs, RequestLost(r) PROVE TypeOK'
    <2>1. net' \in [Runs -> Net]
      BY <1>2 DEF RequestLost, Net
    <2>2. faults' \in 0..MaxFaults
      BY <1>2, FaultType DEF RequestLost
    <2> QED BY <1>2, <2>1, <2>2 DEF RequestLost, LeaseTypeOK
  <1>3. ASSUME NEW q \in Runs, TransferEnds(q) PROVE TypeOK'
    BY <1>3, BecomesType DEF TransferEnds, LeaseTypeOK
  <1>4. CASE Reopen
    <2>1. moves' \in 0..MaxMoves
      BY <1>4, HandoffAssumption DEF Reopen, Moved
    <2> QED BY <1>4, <2>1, BecomesType DEF Reopen, LeaseTypeOK
  <1>5. CASE Select
    BY <1>5, BecomesType DEF Select, LeaseTypeOK
  <1>6. CASE Reingest
    <2>1. moves' \in 0..MaxMoves
      BY <1>6, HandoffAssumption DEF Reingest, Moved
    <2>2. cand.rev + 1 \in Nat
      BY DEF Candidate
    <2>3. [cand EXCEPT !.source = cand.rev + 1, !.rev = cand.rev + 1] \in Candidate
      BY <2>2 DEF Candidate
    <2> QED BY <1>6, <2>1, <2>3 DEF Reingest, LeaseTypeOK
  <1>7. ASSUME NEW p \in Procs, Crash(p) PROVE TypeOK'
    <2>1. NoTask \in Task
      BY AtType DEF NoTask, TaskPc
    <2>2. task' \in [Procs -> [Runs -> Task]]
      BY <1>7, <2>1 DEF Crash
    <2>3. recon' \in Recon
      BY <1>7 DEF Crash, Recon, Idle
    <2>4. faults' \in 0..MaxFaults
      BY <1>7, FaultType DEF Crash
    <2> QED BY <1>7, <2>2, <2>3, <2>4 DEF Crash, LeaseTypeOK
  <1> QED BY <1>1, <1>2, <1>3, <1>4, <1>5, <1>6, <1>7 DEF CandidateStep

\* Every step keeps the types.
LEMMA NextType == TypeOK /\ [Next]_vars => TypeOK'
  <1> SUFFICES ASSUME TypeOK, [Next]_vars PROVE TypeOK'
    OBVIOUS
  <1>1. ASSUME NEW p \in Procs, NEW r \in Runs, ClaimRun(p, r) \/ TaskStep(p, r) \/ TaskErrs(p, r)
        PROVE  TypeOK'
    BY <1>1, QueueType, PreparationType, DispatchType DEF TaskStep, TaskErrs
  <1>2. ASSUME NEW r \in Runs,
               RequestStep(r) \/ RecoverRun(r) \/ ClaimTimesOut(r) \/ LeaseExpires(r)
        PROVE  TypeOK'
    BY <1>2, QueueType
  <1>3. CASE \/ \E r \in Runs : Provider(r) \/ RequestLost(r)
             \/ CandidateStep
             \/ \E p \in Procs : Crash(p)
    BY <1>3, WorldType
  <1>4. CASE (\E r \in Runs : ReconBegins(r)) \/ ReconStep \/ ReconFails
    BY <1>4, ReconType
  <1>5. CASE UNCHANGED vars
    BY <1>5 DEF vars, TypeOK, LeaseTypeOK
  <1> QED BY <1>1, <1>2, <1>3, <1>4, <1>5 DEF Next

\* Every reachable state of the handoff is well typed (the rows, the workers and the
\* provider's records as the code stores them).
THEOREM HandoffTypeCorrect == Spec => []TypeOK
  <1>1. TypeOK /\ [Next]_vars => TypeOK'
    BY NextType
  <1> QED BY InitType, <1>1, PTL DEF Spec
=============================================================================
