----------------------- MODULE DownloadHandoffSafety -----------------------
(***************************************************************************)
(* Why a download request is sent at most once, why what was recorded as   *)
(* refused was never sent, and why a stored receipt is the provider's own  *)
(* answer.                                                                 *)
(*                                                                         *)
(* No lease and no clock enters the argument.  An epoch crosses to         *)
(* may_have_dispatched in one transaction, which finds it in preparing,    *)
(* and never comes back; so the one worker that crossed it is the one that *)
(* may send, however many stalled workers of the run are still alive.      *)
(* SentOnce says this of the workers and the provider, EvidenceTrue        *)
(* follows the provider's answer through the workers' and the heartbeat's  *)
(* memory to the stored receipt, and with both the last check of           *)
(* markDispatchPossible leaves at most one request in doubt.               *)
(***************************************************************************)
EXTENDS DownloadHandoffProofs

Crossed(r) == item[r].phase = "may_have_dispatched"

\* evidence e is what the provider did with the run's request
TrueOf(e, r) ==
    /\ e = "confirmed" => net[r] = "accepted"
    /\ e = "rejected" => net[r] = "refused"

SentOnce ==
    \A r \in Runs :
        /\ posts[r] <= 1
        /\ net[r] # "none" => posts[r] = 1
        /\ posts[r] = 1 => Crossed(r)
        /\ \A p \in Procs : task[p][r].pc = "post" => Crossed(r) /\ posts[r] = 0
        /\ \A p, q \in Procs : task[p][r].pc = "post" /\ task[q][r].pc = "post" => p = q

EvidenceTrue ==
    /\ \A r \in Runs : TrueOf(item[r].receipt, r)
    /\ \A p \in Procs, r \in Runs : TrueOf(task[p][r].proof, r)
    /\ recon.pc # "idle" => TrueOf(recon.proof, recon.run)

HandoffInv == TypeOK /\ SentOnce /\ EvidenceTrue /\ OneUncertainRequest

\* a step that sends nothing, crosses nothing and learns nothing
Calm ==
    /\ \A p \in Procs, r \in Runs : /\ task'[p][r].pc = "post" => task[p][r].pc = "post"
                                    /\ task'[p][r].proof \in {"none", task[p][r].proof}
    /\ \A r \in Runs : /\ Crossed(r)' <=> Crossed(r)
                       /\ item'[r].receipt = item[r].receipt
    /\ recon'.pc # "idle" => \/ recon'.proof = "none"
                             \/ recon.pc # "idle" /\ recon'.proof = recon.proof /\ recon'.run = recon.run
    /\ UNCHANGED <<net, posts>>

\* Calm steps keep what was sent and what is known.
LEMMA CalmKeeps ==
    ASSUME SentOnce, EvidenceTrue, OneUncertainRequest, Calm
    PROVE  (SentOnce /\ EvidenceTrue /\ OneUncertainRequest)'
  <1>1. SentOnce'
    BY DEF Calm, SentOnce, Crossed
  <1>2. EvidenceTrue'
    <2>1. (\A r \in Runs : TrueOf(item[r].receipt, r))'
      BY DEF Calm, EvidenceTrue, TrueOf
    <2>2. (\A p \in Procs, r \in Runs : TrueOf(task[p][r].proof, r))'
      BY DEF Calm, EvidenceTrue, TrueOf
    <2>3. (recon.pc # "idle" => TrueOf(recon.proof, recon.run))'
      BY DEF Calm, EvidenceTrue, TrueOf
    <2> QED BY <2>1, <2>2, <2>3 DEF EvidenceTrue
  <1>3. OneUncertainRequest'
    BY DEF Calm, OneUncertainRequest, Answered, Crossed
  <1> QED BY <1>1, <1>2, <1>3

\* Moving a worker on, to anything but the request itself, is calm for the workers.
LEMMA MoveCalm ==
    ASSUME TypeOK, NEW p \in Procs, NEW r \in Runs, NEW pc, pc # "post", Move(p, r, pc),
           NEW q \in Procs, NEW s \in Runs
    PROVE  /\ task'[q][s].pc = "post" => task[q][s].pc = "post"
           /\ task'[q][s].proof \in {"none", task[q][s].proof}
  <1>1. /\ task'[p][r] = At(pc, task[p][r].acq)
        /\ (q # p \/ s # r) => task'[q][s] = task[q][s]
    BY DEF Move, TypeOK
  <1>2. At(pc, task[p][r].acq).pc = pc /\ At(pc, task[p][r].acq).proof = "none"
    BY DEF At
  <1> QED BY <1>1, <1>2

\* So is the way into the refusal.
LEMMA RefuseThenCalm ==
    ASSUME TypeOK, NEW p \in Procs, NEW r \in Runs, NEW e, RefuseThen(p, r, e),
           NEW q \in Procs, NEW s \in Runs
    PROVE  /\ task'[q][s].pc = "post" => task[q][s].pc = "post"
           /\ task'[q][s].proof \in {"none", task[q][s].proof}
  <1>1. /\ task'[p][r] = [At("refuse", task[p][r].acq) EXCEPT !.end = e]
        /\ (q # p \/ s # r) => task'[q][s] = task[q][s]
    BY DEF RefuseThen, TypeOK
  <1>2. task'[p][r].pc = "refuse" /\ task'[p][r].proof = "none"
    BY <1>1 DEF At
  <1> QED BY <1>1, <1>2

\* So is leaving.
LEMMA LeaveCalm ==
    ASSUME TypeOK, NEW p \in Procs, NEW r \in Runs, Leave(p, r),
           NEW q \in Procs, NEW s \in Runs
    PROVE  /\ task'[q][s].pc = "post" => task[q][s].pc = "post"
           /\ task'[q][s].proof \in {"none", task[q][s].proof}
  <1>1. /\ task'[p][r] = NoTask
        /\ (q # p \/ s # r) => task'[q][s] = task[q][s]
    BY DEF Leave, TypeOK
  <1>2. NoTask.pc = "none" /\ NoTask.proof = "none"
    BY DEF NoTask, At
  <1> QED BY <1>1, <1>2

\* Requests, the queue and the clock are calm.
LEMMA QueueCalm ==
    ASSUME TypeOK, NEW r \in Runs,
           \/ RequestStep(r) \/ RecoverRun(r) \/ ClaimTimesOut(r) \/ LeaseExpires(r)
           \/ \E p \in Procs : ClaimRun(p, r)
    PROVE  Calm
  <1> USE DEF Calm, Crossed
  <1>1. CASE UNCHANGED <<task, item, recon, net, posts>>
    BY <1>1
  <1>2. CASE RequestStep(r)
    BY <1>2, <1>1 DEF RequestStep, RequestStart, CreateRun, CancelRun, RequestRetry, ApplyRetry
  <1>3. CASE RecoverRun(r) \/ ClaimTimesOut(r) \/ LeaseExpires(r)
    BY <1>3, <1>1 DEF RecoverRun, ClaimTimesOut, LeaseExpires
  <1>4. ASSUME NEW p \in Procs, ClaimRun(p, r) PROVE Calm
    <2>1. \A q \in Procs, s \in Runs :
             task'[q][s] = task[q][s] \/ task'[q][s] = At("acquire", 0)
      BY <1>4 DEF ClaimRun, TypeOK
    <2>2. At("acquire", 0).pc = "acquire" /\ At("acquire", 0).proof = "none"
      BY DEF At
    <2>3. UNCHANGED <<item, recon, net, posts>>
      BY <1>4 DEF ClaimRun
    <2> QED BY <2>1, <2>2, <2>3
  <1> QED BY <1>2, <1>3, <1>4

\* The preparation of a request is calm, except for the provider's answers.
LEMMA PreparationCalm ==
    ASSUME TypeOK, NEW p \in Procs, NEW r \in Runs,
           \/ Acquire(p, r) \/ Start(p, r) \/ Load(p, r) \/ Look(p, r)
           \/ Begin(p, r) \/ SealBlocked(p, r) \/ PreparationThrows(p, r)
           \/ Stage(p, r) \/ Guard(p, r)
    PROVE  Calm
  <1> DEFINE Workers == \A q \in Procs, s \in Runs :
                           /\ task'[q][s].pc = "post" => task[q][s].pc = "post"
                           /\ task'[q][s].proof \in {"none", task[q][s].proof}
             Items == \A s \in Runs : /\ Crossed(s)' <=> Crossed(s)
                                      /\ item'[s].receipt = item[s].receipt
  <1>0. ASSUME Workers, Items, UNCHANGED <<recon, net, posts>> PROVE Calm
    BY <1>0 DEF Calm
  <1>a. ASSUME UNCHANGED item PROVE Items
    BY <1>a DEF Crossed
  <1>1. CASE Acquire(p, r)
    <2>1. CASE Leave(p, r)
      BY <2>1, <1>1, <1>0, <1>a, LeaveCalm DEF Acquire
    <2>2. CASE task' = [task EXCEPT ![p][r] = At("start", NextAcquisition(r))]
      <3>1. \A q \in Procs, s \in Runs :
               task'[q][s] = task[q][s] \/ task'[q][s] = At("start", NextAcquisition(r))
        BY <2>2 DEF TypeOK
      <3>2. At("start", NextAcquisition(r)).pc = "start" /\ At("start", NextAcquisition(r)).proof = "none"
        BY DEF At
      <3>3. Workers
        BY <3>1, <3>2
      <3> QED BY <1>1, <1>0, <1>a, <3>3 DEF Acquire
    <2> QED BY <1>1, <2>1, <2>2 DEF Acquire
  <1>2. CASE Start(p, r)
    <2>1. PICK pc \in {"cancelled", "load", "release"} : Move(p, r, pc)
      BY <1>2 DEF Start
    <2>2. Workers
      BY <2>1, MoveCalm
    <2> QED BY <1>2, <2>2, <1>0, <1>a DEF Start
  <1>3. CASE Load(p, r)
    <2> DEFINE t == [At("look", task[p][r].acq) EXCEPT !.seen = SeenAs(item[r]),
                                                      !.receipt = item[r].receipt]
    <2>1. Workers
      <3>1. CASE Move(p, r, "completed")
        BY <3>1, MoveCalm
      <3>2. CASE task' = [task EXCEPT ![p][r] = t]
        <4>1. \A q \in Procs, s \in Runs : task'[q][s] = task[q][s] \/ task'[q][s] = t
          BY <3>2 DEF TypeOK
        <4>2. t.pc = "look" /\ t.proof = "none"
          BY DEF At
        <4> QED BY <4>1, <4>2
      <3> QED BY <1>3, <3>1, <3>2 DEF Load
    <2>2. Items
      BY <1>3 DEF Load, Crossed, TypeOK, Item
    <2> QED BY <1>3, <1>0, <2>1, <2>2 DEF Load
  <1>4. CASE Look(p, r)
    <2>1. PICK t \in {At("cancelled", task[p][r].acq), At("completed", task[p][r].acq),
                      [At("begin", task[p][r].acq) EXCEPT !.obs = cand.rev],
                      [At("evidence", task[p][r].acq) EXCEPT !.receipt = task[p][r].receipt]} :
             task' = [task EXCEPT ![p][r] = t]
      BY <1>4 DEF Look
    <2>2. t.pc # "post" /\ t.proof = "none"
      BY <2>1 DEF At
    <2>3. \A q \in Procs, s \in Runs : task'[q][s] = task[q][s] \/ task'[q][s] = t
      BY <2>1 DEF TypeOK
    <2>4. Workers
      BY <2>2, <2>3
    <2> QED BY <1>4, <1>0, <1>a, <2>4 DEF Look
  <1>5. CASE Begin(p, r)
    <2>1. Workers
      <3>1. CASE Move(p, r, "completed")
        BY <3>1, MoveCalm
      <3>2. CASE task' = [task EXCEPT ![p][r].pc = "stage"]
        <4>1. task'[p][r] = [task[p][r] EXCEPT !.pc = "stage"]
              /\ \A q \in Procs, s \in Runs : (q # p \/ s # r) => task'[q][s] = task[q][s]
          BY <3>2 DEF TypeOK
        <4>2. task[p][r] \in Task
          BY DEF TypeOK
        <4>3. task'[p][r].pc = "stage" /\ task'[p][r].proof = task[p][r].proof
          BY <4>1, <4>2 DEF Task
        <4> QED BY <4>1, <4>3
      <3> QED BY <1>5, <3>1, <3>2 DEF Begin
    <2>2. Items
      BY <1>5 DEF Begin, MayBeginEpoch, Crossed, TypeOK, Item
    <2> QED BY <1>5, <1>0, <2>1, <2>2 DEF Begin
  <1>6. CASE SealBlocked(p, r) \/ PreparationThrows(p, r)
    <2>1. Workers
      BY <1>6, RefuseThenCalm DEF SealBlocked, PreparationThrows
    <2> QED BY <1>6, <1>0, <1>a, <2>1 DEF SealBlocked, PreparationThrows
  <1>7. CASE Stage(p, r)
    <2>1. \/ Move(p, r, "guard") \/ Move(p, r, "confirm")
          \/ RefuseThen(p, r, "completed") \/ RefuseThen(p, r, "failed")
      BY <1>7 DEF Stage
    <2>2. Workers
      BY <2>1, MoveCalm, RefuseThenCalm
    <2>3. Items
      BY <1>7 DEF Stage, Crossed, TypeOK, Item
    <2> QED BY <1>7, <1>0, <2>2, <2>3 DEF Stage
  <1>8. CASE Guard(p, r)
    <2>1. \/ Move(p, r, "fence") \/ RefuseThen(p, r, "cancelled") \/ RefuseThen(p, r, "failed")
      BY <1>8 DEF Guard
    <2>2. Workers
      BY <2>1, MoveCalm, RefuseThenCalm
    <2> QED BY <1>8, <1>0, <1>a, <2>2 DEF Guard
  <1> QED BY <1>1, <1>2, <1>3, <1>4, <1>5, <1>6, <1>7, <1>8

\* A refused item was not crossed, and keeps its receipt.
LEMMA RefusalCalm ==
    ASSUME TypeOK, NEW r \in Runs, item[r].phase = "preparing",
           item' = [item EXCEPT ![r] = RefusedItem(item[r])]
    PROVE  \A s \in Runs : (Crossed(s)' <=> Crossed(s)) /\ item'[s].receipt = item[s].receipt
  <1>1. item[r] \in Item
    BY DEF TypeOK
  <1>2. \A i \in Item : RefusedItem(i).phase = "refused" /\ RefusedItem(i).receipt = i.receipt
    BY DEF RefusedItem, Item
  <1>3. item'[r] = RefusedItem(item[r]) /\ \A s \in Runs : s # r => item'[s] = item[s]
    BY DEF TypeOK
  <1> QED BY <1>1, <1>2, <1>3 DEF Crossed

\* The end of a worker is calm.
LEMMA EndCalm ==
    ASSUME TypeOK, NEW p \in Procs, NEW r \in Runs,
           \/ AnswerLost(p, r) \/ RejectCandidate(p, r) \/ Refuse(p, r)
           \/ WorkerThrows(p, r) \/ Mark(p, r) \/ Release(p, r)
    PROVE  Calm
  <1> DEFINE Workers == \A q \in Procs, s \in Runs :
                           /\ task'[q][s].pc = "post" => task[q][s].pc = "post"
                           /\ task'[q][s].proof \in {"none", task[q][s].proof}
             Items == \A s \in Runs : /\ Crossed(s)' <=> Crossed(s)
                                      /\ item'[s].receipt = item[s].receipt
  <1>0. ASSUME Workers, Items, UNCHANGED <<recon, net, posts>> PROVE Calm
    BY <1>0 DEF Calm
  <1>a. ASSUME UNCHANGED item PROVE Items
    BY <1>a DEF Crossed
  <1>1. CASE AnswerLost(p, r) \/ WorkerThrows(p, r)
    <2>1. Workers
      BY <1>1, MoveCalm DEF AnswerLost, WorkerThrows
    <2> QED BY <1>1, <2>1, <1>0, <1>a DEF AnswerLost, WorkerThrows
  <1>2. CASE RejectCandidate(p, r)
    <2>1. Move(p, r, "failed") \/ Move(p, r, "completed")
      BY <1>2 DEF RejectCandidate
    <2>2. Workers
      BY <2>1, MoveCalm
    <2> QED BY <1>2, <2>2, <1>0, <1>a DEF RejectCandidate
  <1>3. CASE Refuse(p, r)
    <2>1. Move(p, r, task[p][r].end) \/ Move(p, r, "failed")
      BY <1>3 DEF Refuse
    <2>2. task[p][r].end # "post"
      BY DEF TypeOK, Task
    <2>3. Workers
      BY <2>1, <2>2, MoveCalm
    <2>4. Items
      <3>1. CASE MayRefuse(r, task[p][r].acq)
        BY <1>3, <3>1, RefusalCalm DEF Refuse, MayRefuse, Preparing
      <3>2. CASE ~MayRefuse(r, task[p][r].acq)
        BY <1>3, <3>2, <1>a DEF Refuse
      <3> QED BY <3>1, <3>2
    <2> QED BY <1>3, <2>3, <2>4, <1>0 DEF Refuse
  <1>4. CASE Mark(p, r)
    <2>1. Workers
      BY <1>4, MoveCalm DEF Mark, AfterMarkError
    <2> QED BY <1>4, <2>1, <1>0, <1>a DEF Mark
  <1>5. CASE Release(p, r)
    <2>1. Workers
      BY <1>5, LeaveCalm DEF Release
    <2> QED BY <1>5, <2>1, <1>0, <1>a DEF Release
  <1> QED BY <1>1, <1>2, <1>3, <1>4, <1>5

\* The heartbeat's own steps, the candidate's other writers and crashes are calm.
LEMMA WorldCalm ==
    ASSUME TypeOK,
           \/ (\E r \in Runs : ReconBegins(r)) \/ ReconCloses \/ ReconRejects \/ ReconFails
           \/ CandidateStep \/ (\E p \in Procs : Crash(p))
    PROVE  Calm
  <1> USE DEF Calm, Crossed
  <1>1. ASSUME NEW r \in Runs, ReconBegins(r) PROVE Calm
    BY <1>1 DEF ReconBegins
  <1>2. CASE ReconCloses
    <2>0. recon \in [pc : {"look", "close", "confirm", "reject"}, run : Runs,
                     snap : Snapshot, proof : Evidence]
      BY <1>2 DEF ReconCloses, TypeOK, Recon
    <2>1. CASE Abandoned(recon.run, recon.snap)
      <3>1. item' = [item EXCEPT ![recon.run] = RefusedItem(item[recon.run])]
        BY <1>2, <2>1 DEF ReconCloses
      <3>2. \A s \in Runs : (Crossed(s)' <=> Crossed(s)) /\ item'[s].receipt = item[s].receipt
        BY <2>0, <2>1, <3>1, RefusalCalm DEF Abandoned
      <3>3. recon' = Idle /\ UNCHANGED <<task, net, posts>>
        BY <1>2, <2>1 DEF ReconCloses
      <3> QED BY <3>2, <3>3 DEF Idle
    <2>2. CASE ~Abandoned(recon.run, recon.snap)
      <3>1. recon' = [recon EXCEPT !.pc = "confirm"] /\ UNCHANGED <<item, task, net, posts>>
        BY <1>2, <2>2 DEF ReconCloses
      <3>2. recon'.proof = recon.proof /\ recon'.run = recon.run /\ recon.pc # "idle"
        BY <2>0, <3>1
      <3> QED BY <3>1, <3>2
    <2> QED BY <2>1, <2>2
  <1>3. CASE ReconRejects \/ ReconFails
    <2>1. recon' = Idle /\ UNCHANGED <<item, task, net, posts>>
      BY <1>3 DEF ReconRejects, ReconFails
    <2> QED BY <2>1 DEF Idle
  <1>4. CASE CandidateStep
    BY <1>4 DEF CandidateStep, TransferEnds, Reopen, Select, Reingest
  <1>5. ASSUME NEW p \in Procs, Crash(p) PROVE Calm
    <2>1. \A q \in Procs, s \in Runs : task'[q][s] = task[q][s] \/ task'[q][s] = NoTask
      BY <1>5 DEF Crash, TypeOK
    <2>2. NoTask.pc = "none" /\ NoTask.proof = "none"
      BY DEF NoTask, At
    <2>3. recon' = recon \/ recon'.pc = "idle"
      BY <1>5 DEF Crash, Idle
    <2>4. UNCHANGED <<item, net, posts>>
      BY <1>5 DEF Crash
    <2> QED BY <2>1, <2>2, <2>3, <2>4
  <1> QED BY <1>1, <1>2, <1>3, <1>4, <1>5

\* A worker learns only what the provider did: from its answer, or from a lookup.
LEMMA LookupTrue ==
    ASSUME NEW r \in Runs, NEW c, NEW e \in Lookup(r, c)
    PROVE  e # "error" => TrueOf(e, r)
  BY DEF Lookup, TrueOf

\* Learning keeps the invariant.
LEMMA WorkerLearns ==
    ASSUME HandoffInv, NEW p \in Procs, NEW r \in Runs, Answer(p, r) \/ Evidence_(p, r)
    PROVE  (SentOnce /\ EvidenceTrue /\ OneUncertainRequest)'
  <1>1. PICK e : /\ TrueOf(e, r)
                 /\ \/ task' = [task EXCEPT ![p][r] = [At("confirm", task[p][r].acq) EXCEPT !.proof = e]]
                    \/ Move(p, r, "failed")
    <2>1. CASE Answer(p, r)
      BY <2>1 DEF Answer, TrueOf
    <2>2. CASE Evidence_(p, r)
      <3>1. PICK e \in Lookup(r, task[p][r].receipt) :
               IF e = "error" THEN Move(p, r, "failed")
               ELSE task' = [task EXCEPT ![p][r] = [At("confirm", task[p][r].acq) EXCEPT !.proof = e]]
        BY <2>2 DEF Evidence_
      <3>2. CASE e = "error"
        <4>1. TrueOf("none", r)
          BY DEF TrueOf
        <4> QED BY <3>1, <3>2, <4>1
      <3>3. CASE e # "error"
        BY <3>1, <3>3, LookupTrue
      <3> QED BY <3>2, <3>3
    <2> QED BY <2>1, <2>2
  <1>2. UNCHANGED <<item, recon, net, posts>>
    BY DEF Answer, Evidence_
  <1>3. CASE Move(p, r, "failed")
    <2>1. Calm
      BY <1>2, <1>3, MoveCalm DEF Calm, Crossed, HandoffInv
    <2> QED BY <2>1, CalmKeeps DEF HandoffInv
  <1>4. CASE task' = [task EXCEPT ![p][r] = [At("confirm", task[p][r].acq) EXCEPT !.proof = e]]
    <2>1. /\ task'[p][r] = [At("confirm", task[p][r].acq) EXCEPT !.proof = e]
          /\ \A q \in Procs, s \in Runs : (q # p \/ s # r) => task'[q][s] = task[q][s]
      BY <1>4 DEF HandoffInv, TypeOK
    <2>2. task'[p][r].pc = "confirm" /\ task'[p][r].proof = e
      BY <2>1 DEF At
    <2>a. \A q \in Procs, s \in Runs : task'[q][s].pc = "post" => task[q][s].pc = "post"
      BY <2>1, <2>2
    <2>3. SentOnce'
      BY <1>2, <2>a DEF HandoffInv, SentOnce, Crossed
    <2>b0. ASSUME NEW q \in Procs, NEW s \in Runs PROVE TrueOf(task'[q][s].proof, s)
      <3>1. CASE q = p /\ s = r
        BY <1>1, <2>2, <3>1
      <3>2. CASE ~(q = p /\ s = r)
        BY <2>1, <3>2 DEF HandoffInv, EvidenceTrue
      <3> QED BY <3>1, <3>2
    <2>b. (\A q \in Procs, s \in Runs : TrueOf(task[q][s].proof, s))'
      BY <1>2, <2>b0 DEF TrueOf
    <2>c. (\A s \in Runs : TrueOf(item[s].receipt, s))'
      BY <1>2 DEF HandoffInv, EvidenceTrue, TrueOf
    <2>d. (recon.pc # "idle" => TrueOf(recon.proof, recon.run))'
      BY <1>2 DEF HandoffInv, EvidenceTrue, TrueOf
    <2>4. EvidenceTrue'
      BY <2>b, <2>c, <2>d DEF EvidenceTrue
    <2>5. OneUncertainRequest'
      BY <1>2 DEF HandoffInv, OneUncertainRequest, Answered
    <2> QED BY <2>3, <2>4, <2>5
  <1> QED BY <1>1, <1>3, <1>4

\* The heartbeat's lookup keeps the invariant.
LEMMA ReconLearns ==
    ASSUME HandoffInv, ReconLooks
    PROVE  (SentOnce /\ EvidenceTrue /\ OneUncertainRequest)'
  <1>0. recon \in [pc : {"look", "close", "confirm", "reject"}, run : Runs,
                   snap : Snapshot, proof : Evidence]
    BY DEF ReconLooks, HandoffInv, TypeOK, Recon
  <1>1. PICK e : /\ e \in (IF recon.snap.attempt THEN Lookup(recon.run, recon.snap.receipt)
                           ELSE {"none"})
                 /\ recon' = [recon EXCEPT
                        !.pc = IF recon.snap.phase = "preparing" THEN "close" ELSE "confirm",
                        !.proof = IF e = "error" THEN "none" ELSE e]
    BY DEF ReconLooks
  <1>2. recon'.run = recon.run /\ recon'.proof = (IF e = "error" THEN "none" ELSE e)
    BY <1>0, <1>1
  <1>3. TrueOf(recon'.proof, recon.run)
    <2>1. CASE e = "error" \/ e = "none"
      BY <1>2, <2>1 DEF TrueOf
    <2>2. CASE e # "error" /\ e # "none"
      BY <1>0, <1>1, <1>2, <2>2, LookupTrue
    <2> QED BY <2>1, <2>2
  <1>4. UNCHANGED <<item, task, net, posts>>
    BY DEF ReconLooks
  <1>5. SentOnce'
    BY <1>4 DEF HandoffInv, SentOnce, Crossed
  <1>6. EvidenceTrue'
    <2>1. (\A s \in Runs : TrueOf(item[s].receipt, s))'
      BY <1>4 DEF HandoffInv, EvidenceTrue, TrueOf
    <2>2. (\A q \in Procs, s \in Runs : TrueOf(task[q][s].proof, s))'
      BY <1>4 DEF HandoffInv, EvidenceTrue, TrueOf
    <2>3. (recon.pc # "idle" => TrueOf(recon.proof, recon.run))'
      BY <1>2, <1>3, <1>4 DEF TrueOf
    <2> QED BY <2>1, <2>2, <2>3 DEF EvidenceTrue
  <1>7. OneUncertainRequest'
    BY <1>4 DEF HandoffInv, OneUncertainRequest, Answered
  <1> QED BY <1>5, <1>6, <1>7

\* What a confirmation stores is what the provider did, and it crosses nothing.
LEMMA ConfirmStores ==
    ASSUME HandoffInv, NEW r \in Runs, NEW had, NEW e, TrueOf(e, r), ConfirmHandoff(r, had, e)
    PROVE  \A s \in Runs : (Crossed(s)' <=> Crossed(s)) /\ TrueOf(item'[s].receipt, s)
  <1>1. TrueOf(Proof(r, e), r)
    BY DEF Proof, HandoffInv, EvidenceTrue
  <1>2. CASE Applies(r, had)
    <2>1. item[r] \in Item
      BY DEF HandoffInv, TypeOK
    <2>2. item' = [item EXCEPT ![r] =
                      [item[r] EXCEPT !.receipt = Proof(r, e), !.state = ConfirmedState(r, e)]]
      BY <1>2 DEF ConfirmHandoff
    <2>3. /\ item'[r] = [item[r] EXCEPT !.receipt = Proof(r, e), !.state = ConfirmedState(r, e)]
          /\ \A s \in Runs : s # r => item'[s] = item[s]
      BY <2>2 DEF HandoffInv, TypeOK
    <2>4. \A i \in Item : \A c, t : /\ [i EXCEPT !.receipt = c, !.state = t].phase = i.phase
                                    /\ [i EXCEPT !.receipt = c, !.state = t].receipt = c
      BY DEF Item
    <2>5. item'[r].phase = item[r].phase /\ item'[r].receipt = Proof(r, e)
      BY <2>1, <2>3, <2>4
    <2> QED BY <1>1, <2>3, <2>5 DEF Crossed, HandoffInv, EvidenceTrue
  <1>3. CASE ~Applies(r, had)
    BY <1>3 DEF ConfirmHandoff, Crossed, HandoffInv, EvidenceTrue
  <1> QED BY <1>2, <1>3

\* Confirmations, by the worker or by the heartbeat, keep the invariant.
LEMMA ConfirmKeeps ==
    ASSUME HandoffInv, (\E p \in Procs, r \in Runs : Confirm(p, r)) \/ ReconConfirms
    PROVE  (SentOnce /\ EvidenceTrue /\ OneUncertainRequest)'
  <1>1. /\ \A s \in Runs : (Crossed(s)' <=> Crossed(s)) /\ TrueOf(item'[s].receipt, s)
        /\ \A q \in Procs, s \in Runs : /\ task'[q][s].pc = "post" => task[q][s].pc = "post"
                                        /\ task'[q][s].proof \in {"none", task[q][s].proof}
        /\ \/ recon' = recon \/ recon' = Idle
           \/ recon.pc # "idle" /\ recon' = [recon EXCEPT !.pc = "reject"]
        /\ UNCHANGED <<net, posts>>
    <2>1. ASSUME NEW p \in Procs, NEW r \in Runs, Confirm(p, r)
          PROVE  <1>1!1 /\ <1>1!2 /\ <1>1!3 /\ <1>1!4
      <3>1. TrueOf(task[p][r].proof, r)
        BY DEF HandoffInv, EvidenceTrue
      <3>2. <1>1!1
        BY <2>1, <3>1, ConfirmStores DEF Confirm
      <3>3. Move(p, r, "reject") \/ Move(p, r, "completed")
        BY <2>1 DEF Confirm
      <3>4. <1>1!2
        BY <3>3, MoveCalm DEF HandoffInv
      <3> QED BY <2>1, <3>2, <3>4 DEF Confirm
    <2>2. CASE ReconConfirms
      <3>0. recon \in [pc : {"look", "close", "confirm", "reject"}, run : Runs,
                       snap : Snapshot, proof : Evidence]
        BY <2>2 DEF ReconConfirms, HandoffInv, TypeOK, Recon
      <3>1. TrueOf(recon.proof, recon.run)
        BY <3>0 DEF HandoffInv, EvidenceTrue
      <3>2. <1>1!1
        BY <2>2, <3>0, <3>1, ConfirmStores DEF ReconConfirms
      <3>3. /\ recon' = Idle \/ recon' = [recon EXCEPT !.pc = "reject"]
            /\ recon.pc # "idle"
            /\ UNCHANGED <<task, net, posts>>
        BY <2>2 DEF ReconConfirms
      <3> QED BY <3>2, <3>3
    <2> QED BY <2>1, <2>2
  <1>2. SentOnce'
    BY <1>1 DEF HandoffInv, SentOnce, Crossed
  <1>3. EvidenceTrue'
    <2>1. (\A s \in Runs : TrueOf(item[s].receipt, s))'
      BY <1>1 DEF TrueOf
    <2>2. (\A q \in Procs, s \in Runs : TrueOf(task[q][s].proof, s))'
      BY <1>1 DEF HandoffInv, EvidenceTrue, TrueOf
    <2>3. (recon.pc # "idle" => TrueOf(recon.proof, recon.run))'
      <3>1. CASE recon.pc # "idle" /\ recon' = [recon EXCEPT !.pc = "reject"]
        <4>1. recon \in [pc : {"look", "close", "confirm", "reject"}, run : Runs,
                         snap : Snapshot, proof : Evidence]
          BY <3>1 DEF HandoffInv, TypeOK, Recon
        <4>2. recon'.proof = recon.proof /\ recon'.run = recon.run
          BY <3>1, <4>1
        <4> QED BY <1>1, <3>1, <4>2 DEF HandoffInv, EvidenceTrue, TrueOf
      <3>2. CASE recon' = recon
        BY <1>1, <3>2 DEF HandoffInv, EvidenceTrue, TrueOf
      <3>3. CASE recon' = Idle
        BY <3>3 DEF Idle
      <3> QED BY <1>1, <3>1, <3>2, <3>3
    <2> QED BY <2>1, <2>2, <2>3 DEF EvidenceTrue
  <1>4. OneUncertainRequest'
    BY <1>1 DEF HandoffInv, OneUncertainRequest, Answered, Crossed
  <1> QED BY <1>2, <1>3, <1>4

\* The fence is crossed once, by one worker, and only when no other request is in doubt.
LEMMA FenceKeeps ==
    ASSUME HandoffInv, NEW p \in Procs, NEW r \in Runs, Fence(p, r)
    PROVE  (SentOnce /\ EvidenceTrue /\ OneUncertainRequest)'
  <1>0. UNCHANGED <<net, posts, recon>>
    BY DEF Fence
  <1>1. CASE ~MayDispatch(r, task[p][r].acq)
    <2>1. RefuseThen(p, r, "failed") /\ UNCHANGED item
      BY <1>1 DEF Fence
    <2>2. Calm
      BY <1>0, <2>1, RefuseThenCalm DEF Calm, Crossed, HandoffInv
    <2> QED BY <2>2, CalmKeeps DEF HandoffInv
  <1>2. CASE MayDispatch(r, task[p][r].acq)
    <2>1. ~Crossed(r) /\ ~UnresolvedOther(r)
      BY <1>2 DEF MayDispatch, Preparing, Crossed
    <2>2. posts[r] = 0 /\ \A q \in Procs : task[q][r].pc # "post"
      <3>1. posts[r] \in Nat /\ posts[r] <= 1 /\ posts[r] # 1
        BY <2>1 DEF HandoffInv, SentOnce, TypeOK
      <3> QED BY <2>1, <3>1 DEF HandoffInv, SentOnce
    <2>3. item' = [item EXCEPT ![r].phase = "may_have_dispatched"]
      BY <1>2 DEF Fence
    <2>4. /\ item'[r] = [item[r] EXCEPT !.phase = "may_have_dispatched"]
          /\ \A s \in Runs : s # r => item'[s] = item[s]
      BY <2>3 DEF HandoffInv, TypeOK
    <2>5. item[r] \in Item
      BY DEF HandoffInv, TypeOK
    <2>6. Crossed(r)' /\ item'[r].receipt = item[r].receipt
      BY <2>4, <2>5 DEF Crossed, Item
    <2>7. \A q \in Procs, s \in Runs :
             /\ (q # p \/ s # r) => task'[q][s] = task[q][s]
             /\ task'[q][s].proof \in {"none", task[q][s].proof}
      <3>1. CASE Move(p, r, "post")
        <4>1. /\ task'[p][r] = At("post", task[p][r].acq)
              /\ \A q \in Procs, s \in Runs : (q # p \/ s # r) => task'[q][s] = task[q][s]
          BY <3>1 DEF Move, HandoffInv, TypeOK
        <4>2. task'[p][r].proof = "none"
          BY <4>1 DEF At
        <4> QED BY <4>1, <4>2
      <3>2. CASE RefuseThen(p, r, "failed")
        <4>1. \A q \in Procs, s \in Runs : (q # p \/ s # r) => task'[q][s] = task[q][s]
          BY <3>2 DEF RefuseThen, HandoffInv, TypeOK
        <4> QED BY <3>2, <4>1, RefuseThenCalm DEF HandoffInv
      <3> QED BY <1>2, <3>1, <3>2 DEF Fence
    <2>8. SentOnce'
      <3> SUFFICES ASSUME NEW s \in Runs
                   PROVE  (/\ posts[s] <= 1
                           /\ net[s] # "none" => posts[s] = 1
                           /\ posts[s] = 1 => Crossed(s)
                           /\ \A q \in Procs : task[q][s].pc = "post" => Crossed(s) /\ posts[s] = 0
                           /\ \A q, o \in Procs : task[q][s].pc = "post" /\ task[o][s].pc = "post" => q = o)'
        BY DEF SentOnce
      <3>1. CASE s = r
        BY <1>0, <2>2, <2>6, <2>7, <3>1 DEF HandoffInv, SentOnce
      <3>2. CASE s # r
        BY <1>0, <2>4, <2>7, <3>2 DEF HandoffInv, SentOnce, Crossed
      <3> QED BY <3>1, <3>2
    <2>9. EvidenceTrue'
      <3>b. ASSUME NEW s \in Runs PROVE TrueOf(item'[s].receipt, s)
        <4>1. TrueOf(item[s].receipt, s)
          BY DEF HandoffInv, EvidenceTrue
        <4>2. CASE s = r
          BY <2>6, <4>1, <4>2 DEF TrueOf
        <4>3. CASE s # r
          BY <2>4, <4>1, <4>3
        <4> QED BY <4>2, <4>3
      <3>1. (\A s \in Runs : TrueOf(item[s].receipt, s))'
        BY <1>0, <3>b DEF TrueOf
      <3>a. ASSUME NEW q \in Procs, NEW s \in Runs PROVE TrueOf(task'[q][s].proof, s)
        <4>1. task'[q][s].proof \in {"none", task[q][s].proof}
          BY <2>7
        <4>2. TrueOf(task[q][s].proof, s)
          BY DEF HandoffInv, EvidenceTrue
        <4> QED BY <4>1, <4>2 DEF TrueOf
      <3>2. (\A q \in Procs, s \in Runs : TrueOf(task[q][s].proof, s))'
        BY <1>0, <3>a DEF TrueOf
      <3>3. (recon.pc # "idle" => TrueOf(recon.proof, recon.run))'
        BY <1>0 DEF HandoffInv, EvidenceTrue, TrueOf
      <3> QED BY <3>1, <3>2, <3>3 DEF EvidenceTrue
    <2>10. OneUncertainRequest'
      <3>1. \A q \in Runs \ {r} : Crossed(q) => Answered(q)
        BY <2>1 DEF UnresolvedOther, Unresolved, Crossed, HandoffInv, EvidenceTrue, TrueOf, Answered
      <3>2. \A q \in Runs : Answered(q)' <=> Answered(q)
        BY <1>0 DEF Answered
      <3>3. \A q \in Runs : q # r => (Crossed(q)' <=> Crossed(q))
        BY <2>4 DEF Crossed
      <3> QED BY <3>1, <3>2, <3>3 DEF HandoffInv, OneUncertainRequest, Crossed
    <2> QED BY <2>8, <2>9, <2>10
  <1> QED BY <1>1, <1>2

\* The request is sent by the one worker that crossed the fence.
LEMMA PostKeeps ==
    ASSUME HandoffInv, NEW p \in Procs, NEW r \in Runs, Post(p, r)
    PROVE  (SentOnce /\ EvidenceTrue /\ OneUncertainRequest)'
  <1>1. /\ posts[r] = 0 /\ Crossed(r) /\ net[r] = "none"
        /\ \A q \in Procs : task[q][r].pc = "post" => q = p
    BY DEF Post, HandoffInv, SentOnce
  <1>2. /\ net'[r] = "sent" /\ posts'[r] = 1
        /\ \A s \in Runs : s # r => net'[s] = net[s] /\ posts'[s] = posts[s]
        /\ UNCHANGED <<item, recon>>
    BY <1>1 DEF Post, HandoffInv, TypeOK
  <1>3. \A q \in Procs, s \in Runs : /\ task'[q][s].pc = "post" => task[q][s].pc = "post"
                                     /\ task'[q][s].proof \in {"none", task[q][s].proof}
    BY MoveCalm DEF Post, HandoffInv
  <1>4. task'[p][r].pc # "post"
    <2>1. task'[p][r] = At("answer", task[p][r].acq)
      BY DEF Post, Move, HandoffInv, TypeOK
    <2> QED BY <2>1 DEF At
  <1>5. SentOnce'
    <2> SUFFICES ASSUME NEW s \in Runs
                 PROVE  (/\ posts[s] <= 1
                         /\ net[s] # "none" => posts[s] = 1
                         /\ posts[s] = 1 => Crossed(s)
                         /\ \A q \in Procs : task[q][s].pc = "post" => Crossed(s) /\ posts[s] = 0
                         /\ \A q, o \in Procs : task[q][s].pc = "post" /\ task[o][s].pc = "post" => q = o)'
      BY DEF SentOnce
    <2>1. CASE s = r
      BY <1>1, <1>2, <1>3, <1>4, <2>1 DEF Crossed
    <2>2. CASE s # r
      BY <1>2, <1>3, <2>2 DEF HandoffInv, SentOnce, Crossed
    <2> QED BY <2>1, <2>2
  <1>6. EvidenceTrue'
    <2>1. \A s \in Runs : \A e : TrueOf(e, s) => TrueOf(e, s)'
      BY <1>1, <1>2 DEF TrueOf
    <2>2. (\A s \in Runs : TrueOf(item[s].receipt, s))'
      BY <1>2, <2>1 DEF HandoffInv, EvidenceTrue, TrueOf
    <2>3. (\A q \in Procs, s \in Runs : TrueOf(task[q][s].proof, s))'
      BY <1>1, <1>2, <1>3 DEF HandoffInv, EvidenceTrue, TrueOf
    <2>4. (recon.pc # "idle" => TrueOf(recon.proof, recon.run))'
      <3>1. recon.pc # "idle" => recon.run \in Runs
        BY DEF HandoffInv, TypeOK, Recon
      <3> QED BY <1>1, <1>2, <3>1 DEF HandoffInv, EvidenceTrue, TrueOf
    <2> QED BY <2>2, <2>3, <2>4 DEF EvidenceTrue
  <1>7. OneUncertainRequest'
    BY <1>1, <1>2 DEF HandoffInv, OneUncertainRequest, Answered
  <1> QED BY <1>5, <1>6, <1>7

\* The provider decides a request once.
LEMMA NetKeeps ==
    ASSUME HandoffInv, NEW r \in Runs, Provider(r) \/ RequestLost(r)
    PROVE  (SentOnce /\ EvidenceTrue /\ OneUncertainRequest)'
  <1>1. /\ net[r] = "sent" /\ net'[r] # "none"
        /\ \A s \in Runs : s # r => net'[s] = net[s]
        /\ UNCHANGED <<item, task, recon, posts>>
    BY DEF Provider, RequestLost, HandoffInv, TypeOK
  <1>2. SentOnce'
    BY <1>1 DEF HandoffInv, SentOnce, Crossed
  <1>3. EvidenceTrue'
    <2>1. (\A s \in Runs : TrueOf(item[s].receipt, s))'
      BY <1>1 DEF HandoffInv, EvidenceTrue, TrueOf
    <2>2. (\A q \in Procs, s \in Runs : TrueOf(task[q][s].proof, s))'
      BY <1>1 DEF HandoffInv, EvidenceTrue, TrueOf
    <2>3. (recon.pc # "idle" => TrueOf(recon.proof, recon.run))'
      <3>1. recon.pc # "idle" => recon.run \in Runs
        BY DEF HandoffInv, TypeOK, Recon
      <3> QED BY <1>1, <3>1 DEF HandoffInv, EvidenceTrue, TrueOf
    <2> QED BY <2>1, <2>2, <2>3 DEF EvidenceTrue
  <1>4. OneUncertainRequest'
    BY <1>1 DEF HandoffInv, OneUncertainRequest, Answered
  <1> QED BY <1>2, <1>3, <1>4

\* Nothing is sent or known initially.
LEMMA InitHandoff == Init => HandoffInv
  <1> SUFFICES ASSUME Init PROVE HandoffInv
    OBVIOUS
  <1>1. NoTask.pc = "none" /\ NoTask.proof = "none"
    BY DEF NoTask, At
  <1>2. NoItem.phase = "none" /\ NoItem.receipt = "unknown"
    BY DEF NoItem
  <1>3. /\ \A p \in Procs, r \in Runs : task[p][r] = NoTask
        /\ \A r \in Runs : item[r] = NoItem /\ net[r] = "none" /\ posts[r] = 0
        /\ recon.pc = "idle"
    BY DEF Init, Idle
  <1>4. SentOnce /\ OneUncertainRequest
    BY <1>1, <1>2, <1>3 DEF SentOnce, OneUncertainRequest, Crossed
  <1>5. EvidenceTrue
    BY <1>1, <1>2, <1>3 DEF EvidenceTrue, TrueOf
  <1> QED BY <1>4, <1>5, InitType DEF HandoffInv

\* Every step keeps the invariant.
LEMMA NextHandoff == HandoffInv /\ [Next]_vars => HandoffInv'
  <1> SUFFICES ASSUME HandoffInv, [Next]_vars PROVE HandoffInv'
    OBVIOUS
  <1>0. TypeOK'
    BY NextType DEF HandoffInv
  <1>k. ASSUME (SentOnce /\ EvidenceTrue /\ OneUncertainRequest)' PROVE HandoffInv'
    BY <1>0, <1>k DEF HandoffInv
  <1>c. ASSUME Calm PROVE HandoffInv'
    BY <1>c, <1>k, CalmKeeps DEF HandoffInv
  <1>1. ASSUME NEW p \in Procs, NEW r \in Runs, ClaimRun(p, r) \/ TaskStep(p, r) \/ TaskErrs(p, r)
        PROVE  HandoffInv'
    <2>1. CASE ClaimRun(p, r)
      BY <2>1, <1>c, QueueCalm DEF HandoffInv
    <2>2. CASE Fence(p, r)
      BY <2>2, <1>k, FenceKeeps
    <2>3. CASE Post(p, r)
      BY <2>3, <1>k, PostKeeps
    <2>4. CASE Answer(p, r) \/ Evidence_(p, r)
      BY <2>4, <1>k, WorkerLearns
    <2>5. CASE Confirm(p, r)
      BY <2>5, <1>k, ConfirmKeeps
    <2>6. CASE \/ Acquire(p, r) \/ Start(p, r) \/ Load(p, r) \/ Look(p, r)
               \/ Begin(p, r) \/ SealBlocked(p, r) \/ PreparationThrows(p, r)
               \/ Stage(p, r) \/ Guard(p, r)
      BY <2>6, <1>c, PreparationCalm DEF HandoffInv
    <2>7. CASE \/ AnswerLost(p, r) \/ RejectCandidate(p, r) \/ Refuse(p, r)
               \/ WorkerThrows(p, r) \/ Mark(p, r) \/ Release(p, r)
      BY <2>7, <1>c, EndCalm DEF HandoffInv
    <2> QED BY <1>1, <2>1, <2>2, <2>3, <2>4, <2>5, <2>6, <2>7 DEF TaskStep, TaskErrs
  <1>2. ASSUME NEW r \in Runs,
               RequestStep(r) \/ RecoverRun(r) \/ ClaimTimesOut(r) \/ LeaseExpires(r)
        PROVE  HandoffInv'
    BY <1>2, <1>c, QueueCalm DEF HandoffInv
  <1>3. ASSUME NEW r \in Runs, Provider(r) \/ RequestLost(r)
        PROVE  HandoffInv'
    BY <1>3, <1>k, NetKeeps
  <1>4. CASE ReconLooks
    BY <1>4, <1>k, ReconLearns
  <1>5. CASE ReconConfirms
    BY <1>5, <1>k, ConfirmKeeps
  <1>6. CASE \/ (\E r \in Runs : ReconBegins(r)) \/ ReconCloses \/ ReconRejects \/ ReconFails
             \/ CandidateStep \/ (\E p \in Procs : Crash(p))
    BY <1>6, <1>c, WorldCalm DEF HandoffInv
  <1>7. CASE UNCHANGED vars
    <2>1. Calm
      BY <1>7 DEF vars, Calm, Crossed
    <2> QED BY <2>1, <1>c
  <1> QED BY <1>1, <1>2, <1>3, <1>4, <1>5, <1>6, <1>7 DEF Next, ReconStep

LEMMA AlwaysHandoffInv == Spec => []HandoffInv
  BY InitHandoff, NextHandoff, PTL DEF Spec

\* A run's download request is sent at most once, for any number of processes, retries,
\* takeovers, crashes and stalls (markDispatchPossible before enqueueDownloadBatch).
THEOREM RequestSentOnce == Spec => []OnePostPerRun
  <1>1. HandoffInv => OnePostPerRun
    BY DEF HandoffInv, SentOnce, OnePostPerRun
  <1> QED BY <1>1, AlwaysHandoffInv, PTL

\* What refusePreparation or closeAbandonedPreparation recorded as refused was never sent
\* and never will be.
THEOREM RefusedIsUnsent == Spec => []RefusedNeverSent
  <1>1. HandoffInv => RefusedNeverSent
    <2> SUFFICES ASSUME HandoffInv, NEW r \in Runs, item[r].phase = "refused"
                 PROVE  posts[r] = 0 /\ \A p \in Procs : task[p][r].pc # "post"
      BY DEF RefusedNeverSent
    <2>1. ~Crossed(r)
      BY DEF Crossed
    <2>2. posts[r] \in Nat /\ posts[r] <= 1 /\ posts[r] # 1
      BY <2>1 DEF HandoffInv, SentOnce, TypeOK
    <2> QED BY <2>1, <2>2 DEF HandoffInv, SentOnce
  <1> QED BY <1>1, AlwaysHandoffInv, PTL

\* A stored receipt is the provider's own answer (confirmDownloadHandoff).
THEOREM ReceiptsAreTrue == Spec => []ReceiptIsTrue
  <1>1. HandoffInv => ReceiptIsTrue
    BY DEF HandoffInv, EvidenceTrue, TrueOf, ReceiptIsTrue
  <1> QED BY <1>1, AlwaysHandoffInv, PTL

\* At most one run of the candidate has a request in doubt (findUnresolvedOtherHandoff
\* under the lock of the candidate).
THEOREM UncertaintyIsExclusive == Spec => []OneUncertainRequest
  <1>1. HandoffInv => OneUncertainRequest
    BY DEF HandoffInv
  <1> QED BY <1>1, AlwaysHandoffInv, PTL

-----------------------------------------------------------------------------
(* What becomes of a candidate and of a run: a candidate downloads only    *)
(* what the provider admitted for its newest run, and a retired run is     *)
(* retired for good.                                                       *)
(*                                                                         *)
(* The first is inductive with HandoffInv: the evidence that moves the     *)
(* candidate is true (EvidenceTrue), it is applied for the origin only,    *)
(* and a new origin is created for a selected candidate only.  The second  *)
(* is inductive by itself: each write of the run or of its item either     *)
(* reads the closure in its own transaction or needs a status that a       *)
(* retired run has not.                                                    *)

\* Evidence applied by confirmDownloadHandoff moves only the origin's candidate, and only
\* when the provider admitted the request.
LEMMA ConfirmOwned ==
    ASSUME HandoffInv, DownloadingIsOwned, UNCHANGED <<origin, net>>,
           NEW r \in Runs, NEW had, NEW e, TrueOf(e, r), ConfirmHandoff(r, had, e)
    PROVE  DownloadingIsOwned'
  <1>1. CASE cand'.status # "downloading"
    BY <1>1 DEF DownloadingIsOwned
  <1>2. CASE cand' = cand
    BY <1>2 DEF DownloadingIsOwned, IsOrigin
  <1>3. CASE cand' # cand
    <2>1. MayAdvance(r) /\ Proof(r, e) = "confirmed"
      BY <1>3 DEF ConfirmHandoff
    <2>2. IsOrigin(r) /\ TrueOf(item[r].receipt, r)
      BY <2>1 DEF MayAdvance, HandoffInv, EvidenceTrue
    <2>3. net[r] = "accepted"
      BY <2>1, <2>2 DEF Proof, TrueOf
    <2> QED BY <2>2, <2>3 DEF DownloadingIsOwned, IsOrigin
  <1> QED BY <1>1, <1>2, <1>3

\* No step of a worker makes a candidate download without the provider's admission.
LEMMA WorkerOwned ==
    ASSUME HandoffInv, DownloadingIsOwned, NEW p \in Procs, NEW r \in Runs,
           ClaimRun(p, r) \/ TaskStep(p, r) \/ TaskErrs(p, r)
    PROVE  DownloadingIsOwned'
  <1>0. ASSUME UNCHANGED <<cand, origin, net>> PROVE DownloadingIsOwned'
    BY <1>0 DEF DownloadingIsOwned, IsOrigin
  <1>1. CASE Confirm(p, r)
    <2>1. TrueOf(task[p][r].proof, r)
      BY DEF HandoffInv, EvidenceTrue
    <2> QED BY <1>1, <2>1, ConfirmOwned DEF Confirm
  <1>2. CASE RejectCandidate(p, r)
    <2>1. cand' = cand \/ cand'.status = "failed"
      BY <1>2 DEF RejectCandidate, FailCandidate, HandoffInv, TypeOK, Candidate
    <2>2. UNCHANGED <<origin, net>>
      BY <1>2 DEF RejectCandidate
    <2> QED BY <2>1, <2>2 DEF DownloadingIsOwned, IsOrigin
  <1>3. CASE Post(p, r)
    <2>1. UNCHANGED <<cand, origin>> /\ net' = [net EXCEPT ![r] = "sent"]
      BY <1>3 DEF Post
    <2>2. net[r] = "none"
      BY <1>3 DEF Post, HandoffInv, SentOnce
    <2>3. \A s \in Runs : net[s] = "accepted" => net'[s] = "accepted"
      BY <2>1, <2>2 DEF HandoffInv, TypeOK
    <2> QED BY <2>1, <2>3 DEF DownloadingIsOwned, IsOrigin
  <1>4. CASE \/ ClaimRun(p, r) \/ Acquire(p, r) \/ Start(p, r) \/ Load(p, r) \/ Look(p, r)
             \/ Evidence_(p, r) \/ Begin(p, r) \/ SealBlocked(p, r) \/ PreparationThrows(p, r)
    BY <1>4, <1>0 DEF ClaimRun, Acquire, Start, Load, Look, Evidence_, Begin, SealBlocked,
                      PreparationThrows
  <1>5. CASE \/ Stage(p, r) \/ Guard(p, r) \/ Fence(p, r) \/ Answer(p, r) \/ AnswerLost(p, r)
             \/ Refuse(p, r) \/ WorkerThrows(p, r) \/ Mark(p, r) \/ Release(p, r)
    BY <1>5, <1>0 DEF Stage, Guard, Fence, Answer, AnswerLost, Refuse, WorkerThrows, Mark, Release
  <1> QED BY <1>1, <1>2, <1>3, <1>4, <1>5 DEF TaskStep, TaskErrs

\* Nor does any other step.
LEMMA NextOwned == HandoffInv /\ DownloadingIsOwned /\ [Next]_vars => DownloadingIsOwned'
  <1> SUFFICES ASSUME HandoffInv, DownloadingIsOwned, [Next]_vars PROVE DownloadingIsOwned'
    OBVIOUS
  <1>0. ASSUME UNCHANGED <<cand, origin, net>> PROVE DownloadingIsOwned'
    BY <1>0 DEF DownloadingIsOwned, IsOrigin
  <1>a. ASSUME UNCHANGED <<origin, net>>, cand'.status # "downloading" PROVE DownloadingIsOwned'
    BY <1>a DEF DownloadingIsOwned
  <1>b. cand.status \in {"pending", "selected", "downloading", "import_pending", "failed"}
    BY DEF HandoffInv, TypeOK, Candidate
  <1>1. ASSUME NEW p \in Procs, NEW r \in Runs, ClaimRun(p, r) \/ TaskStep(p, r) \/ TaskErrs(p, r)
        PROVE  DownloadingIsOwned'
    BY <1>1, WorkerOwned
  <1>2. ASSUME NEW r \in Runs, RequestStep(r) PROVE DownloadingIsOwned'
    <2>1. CASE CreateRun(r)
      <3>1. UNCHANGED <<cand, net>> /\ (UNCHANGED origin \/ cand.status = "selected")
        BY <2>1 DEF CreateRun
      <3>2. CASE UNCHANGED origin
        BY <3>1, <3>2, <1>0
      <3>3. CASE cand.status = "selected"
        BY <3>1, <3>3 DEF DownloadingIsOwned
      <3> QED BY <3>1, <3>2, <3>3
    <2>2. CASE RequestStart(r) \/ CancelRun(r) \/ RequestRetry(r) \/ ApplyRetry(r)
      BY <2>2, <1>0 DEF RequestStart, CancelRun, RequestRetry, ApplyRetry
    <2> QED BY <1>2, <2>1, <2>2 DEF RequestStep
  <1>3. ASSUME NEW r \in Runs, RecoverRun(r) \/ ClaimTimesOut(r) \/ LeaseExpires(r) \/ ReconBegins(r)
        PROVE  DownloadingIsOwned'
    BY <1>3, <1>0 DEF RecoverRun, ClaimTimesOut, LeaseExpires, ReconBegins
  <1>4. ASSUME NEW r \in Runs, Provider(r) \/ RequestLost(r) PROVE DownloadingIsOwned'
    <2>1. UNCHANGED <<cand, origin>> /\ net[r] = "sent"
          /\ \A s \in Runs : s # r => net'[s] = net[s]
      BY <1>4 DEF Provider, RequestLost, HandoffInv, TypeOK
    <2> QED BY <2>1 DEF DownloadingIsOwned, IsOrigin
  <1>5. CASE ReconConfirms
    <2>1. recon.run \in Runs /\ recon.pc # "idle"
      BY <1>5 DEF ReconConfirms, HandoffInv, TypeOK, Recon
    <2>2. TrueOf(recon.proof, recon.run)
      BY <2>1 DEF HandoffInv, EvidenceTrue
    <2> QED BY <1>5, <2>1, <2>2, ConfirmOwned DEF ReconConfirms
  <1>6. CASE ReconRejects
    <2>1. UNCHANGED <<origin, net>> /\ (cand' = cand \/ cand'.status = "failed")
      BY <1>6 DEF ReconRejects, FailCandidate, HandoffInv, TypeOK, Candidate
    <2> QED BY <2>1, <1>0, <1>a
  <1>7. CASE ReconLooks \/ ReconCloses \/ ReconFails \/ (\E p \in Procs : Crash(p))
    BY <1>7, <1>0 DEF ReconLooks, ReconCloses, ReconFails, Crash
  <1>8. CASE CandidateStep
    <2>1. ASSUME NEW s \in {"import_pending", "failed", "selected", "pending"}, CandidateBecomes(s)
          PROVE  cand'.status # "downloading"
      BY <2>1 DEF CandidateBecomes, HandoffInv, TypeOK, Candidate
    <2>2. CASE (\E r \in Runs : TransferEnds(r)) \/ Reopen \/ Select
      BY <2>2, <2>1, <1>a DEF TransferEnds, Reopen, Select
    <2>3. CASE Reingest
      <3>1. cand' = [cand EXCEPT !.source = cand.rev + 1, !.rev = cand.rev + 1]
            /\ UNCHANGED <<origin, net>>
        BY <2>3 DEF Reingest
      <3>2. \A c \in Candidate : \A n : [c EXCEPT !.source = n, !.rev = n].status = c.status
        BY DEF Candidate
      <3>3. cand'.status = cand.status
        BY <3>1, <3>2 DEF HandoffInv, TypeOK
      <3> QED BY <3>1, <3>3 DEF DownloadingIsOwned, IsOrigin
    <2> QED BY <1>8, <2>2, <2>3 DEF CandidateStep
  <1>9. CASE UNCHANGED vars
    BY <1>9, <1>0 DEF vars
  <1> QED BY <1>1, <1>2, <1>3, <1>4, <1>5, <1>6, <1>7, <1>8, <1>9 DEF Next, ReconStep

\* A candidate is downloading only if the provider admitted the request of its newest run
\* (transitionDownloading with isCurrentOrigin).
THEOREM DownloadIsAdmitted == Spec => []DownloadingIsOwned
  <1>1. Init => DownloadingIsOwned
    BY DEF Init, DownloadingIsOwned
  <1> QED BY <1>1, NextOwned, AlwaysHandoffInv, PTL DEF Spec

-----------------------------------------------------------------------------
\* a step that leaves every retired run alone and retires none
LeavesClosed ==
    \A s \in Runs :
        /\ runs'[s].closed => runs[s].closed
        /\ runs[s].closed => runs'[s].status = runs[s].status /\ item'[s].phase = item[s].phase

\* Such a step keeps the retirement final.
LEMMA LeavesClosedKeeps == ClosedIsFinal /\ LeavesClosed => ClosedIsFinal'
  BY DEF ClosedIsFinal, LeavesClosed

\* confirmDownloadHandoff changes no epoch's phase.
LEMMA ConfirmPhase ==
    ASSUME item \in [Runs -> Item], NEW r \in Runs, NEW had, NEW e, ConfirmHandoff(r, had, e)
    PROVE  \A s \in Runs : item'[s].phase = item[s].phase
  <1>1. CASE ~Applies(r, had)
    BY <1>1 DEF ConfirmHandoff
  <1>2. CASE Applies(r, had)
    <2>1. \A x \in Item : \A a, b : [x EXCEPT !.receipt = a, !.state = b].phase = x.phase
      BY DEF Item
    <2>2. item' = [item EXCEPT ![r] =
                     [item[r] EXCEPT !.receipt = Proof(r, e), !.state = ConfirmedState(r, e)]]
      BY <1>2 DEF ConfirmHandoff
    <2>3. /\ item'[r] = [item[r] EXCEPT !.receipt = Proof(r, e), !.state = ConfirmedState(r, e)]
          /\ \A s \in Runs : s # r => item'[s] = item[s]
      BY <2>2
    <2>4. item[r] \in Item
      OBVIOUS
    <2>5. item'[r].phase = item[r].phase
      BY <2>1, <2>3, <2>4
    <2> QED BY <2>3, <2>5
  <1> QED BY <1>1, <1>2

\* A worker's step leaves retired runs alone.
LEMMA WorkerLeavesClosed ==
    ASSUME TypeOK, ClosedIsFinal, NEW p \in Procs, NEW r \in Runs,
           ClaimRun(p, r) \/ TaskStep(p, r) \/ TaskErrs(p, r)
    PROVE  LeavesClosed
  <1>0. ASSUME UNCHANGED <<runs, item>> PROVE LeavesClosed
    BY <1>0 DEF LeavesClosed
  <1>a. ASSUME ~runs[r].closed, \A s \in Runs : s # r => runs'[s] = runs[s] /\ item'[s] = item[s],
               ~runs'[r].closed
        PROVE  LeavesClosed
    BY <1>a DEF LeavesClosed
  <1>t. runs[r] \in Run /\ item[r] \in Item
    BY DEF TypeOK
  <1>1. CASE ClaimRun(p, r)
    <2>1. ~runs[r].closed /\ UNCHANGED item
          /\ runs' = [runs EXCEPT ![r].claim = "fresh", ![r].due = FALSE]
      BY <1>1 DEF ClaimRun
    <2>2. \A x \in Run : [x EXCEPT !.claim = "fresh", !.due = FALSE].closed = x.closed
      BY DEF Run
    <2>3. runs' = [runs EXCEPT ![r] = [runs[r] EXCEPT !.claim = "fresh", !.due = FALSE]]
      BY <2>1
    <2>4. runs'[r] = [runs[r] EXCEPT !.claim = "fresh", !.due = FALSE]
          /\ \A s \in Runs : s # r => runs'[s] = runs[s]
      BY <2>3 DEF TypeOK
    <2> QED BY <2>1, <2>2, <2>4, <1>t, <1>a
  <1>2. CASE Start(p, r)
    <2>1. CASE MayMark(p, r) /\ ~runs[r].cancel
      <3>1. ~runs[r].closed /\ UNCHANGED item
            /\ runs' = [runs EXCEPT ![r].status = "running", ![r].claim = "none"]
        BY <1>2, <2>1 DEF Start, MayMark
      <3>2. \A x \in Run : [x EXCEPT !.status = "running", !.claim = "none"].closed = x.closed
        BY DEF Run
      <3>3. runs' = [runs EXCEPT ![r] = [runs[r] EXCEPT !.status = "running", !.claim = "none"]]
        BY <3>1
      <3>4. runs'[r] = [runs[r] EXCEPT !.status = "running", !.claim = "none"]
            /\ \A s \in Runs : s # r => runs'[s] = runs[s]
        BY <3>3 DEF TypeOK
      <3> QED BY <3>1, <3>2, <3>4, <1>t, <1>a
    <2>2. CASE ~(MayMark(p, r) /\ ~runs[r].cancel)
      BY <1>2, <2>2, <1>0 DEF Start
    <2> QED BY <2>1, <2>2
  <1>3. CASE Mark(p, r)
    <2>1. CASE UNCHANGED runs
      BY <1>3, <2>1, <1>0 DEF Mark
    <2>2. CASE ~UNCHANGED runs
      <3>1. PICK s0 : runs' = [runs EXCEPT ![r].claim = "none", ![r].status = s0]
        BY <1>3, <2>2 DEF Mark, Marked
      <3>2. ~runs[r].closed /\ UNCHANGED item
        BY <1>3, <2>2 DEF Mark, Marked, MayMark
      <3>3. \A x \in Run : [x EXCEPT !.claim = "none", !.status = s0].closed = x.closed
        BY DEF Run
      <3>4. runs' = [runs EXCEPT ![r] = [runs[r] EXCEPT !.claim = "none", !.status = s0]]
        BY <3>1
      <3>5. runs'[r] = [runs[r] EXCEPT !.claim = "none", !.status = s0]
            /\ \A s \in Runs : s # r => runs'[s] = runs[s]
        BY <3>4 DEF TypeOK
      <3> QED BY <3>2, <3>3, <3>5, <1>t, <1>a
    <2> QED BY <2>1, <2>2
  <1>4. CASE Load(p, r) \/ Stage(p, r) \/ Confirm(p, r)
    <2>1. \A s \in Runs : item'[s].phase = item[s].phase
      <3>1. CASE Load(p, r)
        BY <3>1 DEF Load, TypeOK, Item
      <3>2. CASE Stage(p, r)
        <4>1. \A x \in Item : [x EXCEPT !.attempt = TRUE, !.state = "dispatching"].phase = x.phase
          BY DEF Item
        <4>2. UNCHANGED item
              \/ item' = [item EXCEPT ![r] = [item[r] EXCEPT !.attempt = TRUE, !.state = "dispatching"]]
          BY <3>2 DEF Stage
        <4> QED BY <4>1, <4>2 DEF TypeOK
      <3>3. CASE Confirm(p, r)
        BY <3>3, ConfirmPhase DEF Confirm, TypeOK
      <3> QED BY <1>4, <3>1, <3>2, <3>3
    <2>2. UNCHANGED runs
      BY <1>4 DEF Load, Stage, Confirm, rowVars
    <2> QED BY <2>1, <2>2 DEF LeavesClosed
  <1>5. CASE Begin(p, r)
    <2>1. UNCHANGED runs /\ \A s \in Runs : s # r => item'[s] = item[s]
      BY <1>5 DEF Begin, rowVars, TypeOK
    <2>2. UNCHANGED item \/ ~runs[r].closed
      BY <1>5 DEF Begin, OwnsActively, OwnsPreparation
    <2> QED BY <2>1, <2>2 DEF LeavesClosed
  <1>6. CASE Fence(p, r)
    <2>1. UNCHANGED runs /\ \A s \in Runs : s # r => item'[s] = item[s]
      BY <1>6 DEF Fence, rowVars, TypeOK
    <2>2. UNCHANGED item \/ ~runs[r].closed
      BY <1>6 DEF Fence, MayDispatch, OwnsActively, OwnsPreparation
    <2> QED BY <2>1, <2>2 DEF LeavesClosed
  <1>7. CASE Refuse(p, r)
    <2>1. UNCHANGED runs /\ \A s \in Runs : s # r => item'[s] = item[s]
      BY <1>7 DEF Refuse, rowVars, TypeOK
    <2>2. UNCHANGED item \/ ~runs[r].closed
      BY <1>7 DEF Refuse, MayRefuse, OwnsPreparation
    <2> QED BY <2>1, <2>2 DEF LeavesClosed
  <1>8. CASE \/ Acquire(p, r) \/ Look(p, r) \/ Evidence_(p, r) \/ SealBlocked(p, r)
             \/ PreparationThrows(p, r) \/ Guard(p, r) \/ Post(p, r) \/ Answer(p, r)
             \/ AnswerLost(p, r) \/ RejectCandidate(p, r) \/ WorkerThrows(p, r) \/ Release(p, r)
    BY <1>8, <1>0 DEF Acquire, Look, Evidence_, SealBlocked, PreparationThrows, Guard, Post,
                      Answer, AnswerLost, RejectCandidate, WorkerThrows, Release, rowVars
  <1> QED BY <1>1, <1>2, <1>3, <1>4, <1>5, <1>6, <1>7, <1>8 DEF TaskStep, TaskErrs

\* So do requests, the queue and the clock.
LEMMA QueueLeavesClosed ==
    ASSUME TypeOK, ClosedIsFinal, NEW r \in Runs,
           RequestStep(r) \/ RecoverRun(r) \/ ClaimTimesOut(r) \/ LeaseExpires(r)
    PROVE  LeavesClosed
  <1>0. ASSUME UNCHANGED <<runs, item>> PROVE LeavesClosed
    BY <1>0 DEF LeavesClosed
  <1>1. CASE RequestStart(r) \/ RequestRetry(r) \/ LeaseExpires(r)
    BY <1>1, <1>0 DEF RequestStart, RequestRetry, LeaseExpires, rowVars
  <1>2. CASE CreateRun(r)
    <2>1. CASE UNCHANGED runs
      BY <1>2, <2>1, <1>0 DEF CreateRun
    <2>2. CASE ~UNCHANGED runs
      <3>1. runs[r].status = "absent" /\ runs' = [runs EXCEPT ![r] = QueuedRun] /\ UNCHANGED item
        BY <1>2, <2>2 DEF CreateRun
      <3>2. ~runs[r].closed
        BY <3>1 DEF ClosedIsFinal
      <3> QED BY <3>1, <3>2 DEF LeavesClosed, QueuedRun, TypeOK
    <2> QED BY <2>1, <2>2
  <1>3. CASE CancelRun(r)
    <2>1. runs' = [runs EXCEPT ![r].cancel = TRUE] /\ UNCHANGED item
      BY <1>3 DEF CancelRun
    <2> QED BY <2>1 DEF LeavesClosed, TypeOK, Run
  <1>4. CASE ApplyRetry(r)
    <2>1. UNCHANGED item
          /\ (UNCHANGED runs \/ (~runs[r].closed /\ runs' = [runs EXCEPT ![r] = QueuedRun]))
      BY <1>4 DEF ApplyRetry
    <2> QED BY <2>1 DEF LeavesClosed, QueuedRun, TypeOK
  <1>5. CASE RecoverRun(r)
    <2>1. PICK s0 : runs' = [runs EXCEPT ![r].claim = "none", ![r].status = s0]
      BY <1>5 DEF RecoverRun
    <2>2. runs[r].status = "running" /\ UNCHANGED item
      BY <1>5 DEF RecoverRun
    <2>3. ~runs[r].closed
      BY <2>2 DEF ClosedIsFinal
    <2>4. \A x \in Run : [x EXCEPT !.claim = "none", !.status = s0].closed = x.closed
      BY DEF Run
    <2>5. runs' = [runs EXCEPT ![r] = [runs[r] EXCEPT !.claim = "none", !.status = s0]]
      BY <2>1
    <2>6. runs'[r] = [runs[r] EXCEPT !.claim = "none", !.status = s0]
          /\ runs[r] \in Run /\ \A s \in Runs : s # r => runs'[s] = runs[s]
      BY <2>5 DEF TypeOK
    <2>7. ~runs'[r].closed
      BY <2>3, <2>4, <2>6
    <2> QED BY <2>2, <2>3, <2>6, <2>7 DEF LeavesClosed
  <1>6. CASE ClaimTimesOut(r)
    <2>1. runs' = [runs EXCEPT ![r].claim = "stale"] /\ UNCHANGED item
      BY <1>6 DEF ClaimTimesOut
    <2> QED BY <2>1 DEF LeavesClosed, TypeOK, Run
  <1> QED BY <1>1, <1>2, <1>3, <1>4, <1>5, <1>6 DEF RequestStep

\* The heartbeat retires a run only with its item, and confirmations change no phase.
LEMMA ReconClosedFinal ==
    ASSUME TypeOK, ClosedIsFinal, ReconCloses \/ ReconConfirms
    PROVE  ClosedIsFinal'
  <1>0. recon.run \in Runs
    BY DEF ReconCloses, ReconConfirms, TypeOK, Recon
  <1>1. CASE ReconConfirms
    <2>1. UNCHANGED runs /\ \A s \in Runs : item'[s].phase = item[s].phase
      BY <1>1, <1>0, ConfirmPhase DEF ReconConfirms, TypeOK, rowVars
    <2> QED BY <2>1 DEF ClosedIsFinal
  <1>2. CASE ReconCloses /\ ~Abandoned(recon.run, recon.snap)
    BY <1>2 DEF ReconCloses, ClosedIsFinal, rowVars
  <1>3. CASE ReconCloses /\ Abandoned(recon.run, recon.snap)
    <2> DEFINE r == recon.run
               retired == [runs[r] EXCEPT !.status = "cancelled", !.cancel = TRUE, !.closed = TRUE]
    <2>1. item' = [item EXCEPT ![r] = RefusedItem(item[r])] /\ runs' = [runs EXCEPT ![r] = retired]
      BY <1>3 DEF ReconCloses
    <2>2. item[r] \in Item /\ runs[r] \in Run
      BY <1>0 DEF TypeOK
    <2>3. \A i \in Item : RefusedItem(i).phase = "refused"
      BY DEF RefusedItem, Item
    <2>4. \A x \in Run : [x EXCEPT !.status = "cancelled", !.cancel = TRUE, !.closed = TRUE].status
                         = "cancelled"
      BY DEF Run
    <2>5. retired.status = "cancelled"
      BY <2>2, <2>4
    <2> HIDE DEF retired
    <2>6. /\ item'[r] = RefusedItem(item[r]) /\ runs'[r] = retired
          /\ \A s \in Runs : s # r => item'[s] = item[s] /\ runs'[s] = runs[s]
      BY <1>0, <2>1 DEF TypeOK
    <2> QED BY <2>2, <2>3, <2>5, <2>6 DEF ClosedIsFinal
  <1> QED BY <1>1, <1>2, <1>3

\* Every step keeps a retirement final.
LEMMA NextClosed == TypeOK /\ ClosedIsFinal /\ [Next]_vars => ClosedIsFinal'
  <1> SUFFICES ASSUME TypeOK, ClosedIsFinal, [Next]_vars PROVE ClosedIsFinal'
    OBVIOUS
  <1>0. ASSUME UNCHANGED <<runs, item>> PROVE ClosedIsFinal'
    BY <1>0 DEF ClosedIsFinal
  <1>1. ASSUME NEW p \in Procs, NEW r \in Runs, ClaimRun(p, r) \/ TaskStep(p, r) \/ TaskErrs(p, r)
        PROVE  ClosedIsFinal'
    BY <1>1, WorkerLeavesClosed, LeavesClosedKeeps
  <1>2. ASSUME NEW r \in Runs, RequestStep(r) \/ RecoverRun(r) \/ ClaimTimesOut(r) \/ LeaseExpires(r)
        PROVE  ClosedIsFinal'
    BY <1>2, QueueLeavesClosed, LeavesClosedKeeps
  <1>3. CASE ReconCloses \/ ReconConfirms
    BY <1>3, ReconClosedFinal
  <1>4. CASE \/ \E r \in Runs : Provider(r) \/ RequestLost(r) \/ ReconBegins(r)
             \/ ReconLooks \/ ReconRejects \/ ReconFails \/ \E p \in Procs : Crash(p)
    BY <1>4, <1>0 DEF Provider, RequestLost, ReconBegins, ReconLooks, ReconRejects, ReconFails,
                      Crash, rowVars
  <1>5. CASE CandidateStep \/ UNCHANGED vars
    BY <1>5, <1>0 DEF CandidateStep, TransferEnds, Reopen, Select, Reingest, vars, rowVars
  <1> QED BY <1>1, <1>2, <1>3, <1>4, <1>5 DEF Next, ReconStep

\* A run retired by closeAbandonedPreparation stays cancelled and refused, whichever late
\* claim, retry, recovery or lifecycle write still reaches for it (saveClosureFence).
THEOREM RetirementIsFinal == Spec => []ClosedIsFinal
  <1>1. Init => ClosedIsFinal
    BY DEF Init, NoRun, ClosedIsFinal
  <1> QED BY <1>1, NextClosed, HandoffTypeCorrect, PTL DEF Spec

-----------------------------------------------------------------------------
(* The handoff implements DownloadRequest.                                 *)

ItemSame(r) == item'[r].phase = item[r].phase /\ item'[r].receipt = item[r].receipt

\* run r begins, refuses or crosses its epoch
EpochMoves(r) ==
    /\ item'[r].receipt = item[r].receipt
    /\ \/ item[r].phase \in {"none", "refused"} /\ item'[r].phase = "preparing"
       \/ item[r].phase = "preparing" /\ item'[r].phase = "refused"
       \/ /\ item[r].phase = "preparing" /\ item'[r].phase = "may_have_dispatched"
          /\ \A q \in Runs \ {r} : Crossed(q) => Answered(q)

\* what the provider did with the request of run r is recorded
ReceiptMoves(r) == Crossed(r) /\ item'[r].phase = item[r].phase /\ TrueOf(item'[r].receipt, r)

\* the request of run r is sent, or comes to its end
NetMoves(r) ==
    /\ UNCHANGED item
    /\ net' = [net EXCEPT ![r] = net'[r]]
    /\ \/ Crossed(r) /\ net[r] = "none" /\ net'[r] = "sent"
       \/ net[r] = "sent" /\ net'[r] \in {"lost", "accepted", "refused"}

RequestMoves ==
    \/ UNCHANGED net /\ \A s \in Runs : ItemSame(s)
    \/ \E r \in Runs : /\ UNCHANGED net
                       /\ EpochMoves(r) \/ ReceiptMoves(r)
                       /\ \A s \in Runs \ {r} : ItemSame(s)
    \/ \E r \in Runs : NetMoves(r)

\* A worker in front of the fence begins at most one epoch.
LEMMA PreparationMoves ==
    ASSUME TypeOK, NEW p \in Procs, NEW r \in Runs, Load(p, r) \/ Begin(p, r) \/ Stage(p, r)
    PROVE  RequestMoves
  <1>0. item[r] \in Item /\ UNCHANGED net
    BY DEF TypeOK, Load, Begin, Stage
  <1>1. CASE UNCHANGED item
    BY <1>0, <1>1 DEF RequestMoves, ItemSame
  <1>2. CASE Load(p, r)
    <2>1. CASE item' = [item EXCEPT ![r].state = IF @ = "absent" THEN "none" ELSE @]
      BY <1>0, <2>1 DEF RequestMoves, ItemSame, TypeOK, Item
    <2> QED BY <1>1, <1>2, <2>1 DEF Load
  <1>3. CASE Stage(p, r)
    <2>1. CASE item' = [item EXCEPT ![r].attempt = TRUE, ![r].state = "dispatching"]
      BY <1>0, <2>1 DEF RequestMoves, ItemSame, TypeOK, Item
    <2> QED BY <1>1, <1>3, <2>1 DEF Stage
  <1>4. CASE Begin(p, r)
    <2>1. CASE /\ MayBeginEpoch(r)
               /\ item' = [item EXCEPT ![r].state = "preparing", ![r].phase = "preparing",
                                       ![r].acq = task[p][r].acq, ![r].obs = task[p][r].obs]
      <3>1. item'[r].phase = "preparing" /\ item'[r].receipt = item[r].receipt
            /\ \A s \in Runs \ {r} : item'[s] = item[s]
        BY <1>0, <2>1 DEF TypeOK, Item
      <3> QED BY <1>0, <2>1, <3>1 DEF MayBeginEpoch, RequestMoves, EpochMoves, ItemSame
    <2> QED BY <1>1, <1>4, <2>1 DEF Begin
  <1> QED BY <1>2, <1>3, <1>4

\* Only an undecided epoch is refused, by its worker or by the heartbeat.
LEMMA RefusalMoves ==
    ASSUME TypeOK, (\E p \in Procs, r \in Runs : Refuse(p, r)) \/ ReconCloses
    PROVE  RequestMoves
  <1>1. ASSUME NEW r \in Runs, item[r].phase = "preparing", UNCHANGED net,
               item' = [item EXCEPT ![r] = RefusedItem(item[r])]
        PROVE  RequestMoves
    <2>1. item[r] \in Item
      BY DEF TypeOK
    <2>2. \A i \in Item : RefusedItem(i).phase = "refused" /\ RefusedItem(i).receipt = i.receipt
      BY DEF RefusedItem, Item
    <2>3. item'[r] = RefusedItem(item[r]) /\ \A s \in Runs : s # r => item'[s] = item[s]
      BY <1>1 DEF TypeOK
    <2> QED BY <1>1, <2>1, <2>2, <2>3 DEF RequestMoves, EpochMoves, ItemSame
  <1>2. CASE UNCHANGED <<item, net>>
    BY <1>2 DEF RequestMoves, ItemSame
  <1>3. ASSUME NEW p \in Procs, NEW r \in Runs, Refuse(p, r)
        PROVE  RequestMoves
    BY <1>1, <1>2, <1>3 DEF Refuse, MayRefuse, Preparing
  <1>4. CASE ReconCloses
    <2>1. recon.run \in Runs
      BY <1>4 DEF ReconCloses, TypeOK, Recon, Idle
    <2> QED BY <1>1, <1>2, <1>4, <2>1 DEF ReconCloses, Abandoned
  <1> QED BY <1>3, <1>4

\* The fence is crossed only while no other request is in doubt.
LEMMA FenceMoves ==
    ASSUME HandoffInv, NEW p \in Procs, NEW r \in Runs, Fence(p, r)
    PROVE  RequestMoves
  <1>0. item[r] \in Item /\ UNCHANGED net
    BY DEF HandoffInv, TypeOK, Fence
  <1>1. CASE ~MayDispatch(r, task[p][r].acq)
    BY <1>0, <1>1 DEF Fence, RequestMoves, ItemSame
  <1>2. CASE MayDispatch(r, task[p][r].acq)
    <2>1. item[r].phase = "preparing" /\ ~UnresolvedOther(r)
      BY <1>2 DEF MayDispatch, Preparing
    <2>2. \A q \in Runs \ {r} : Crossed(q) => Answered(q)
      BY <2>1 DEF UnresolvedOther, Unresolved, Crossed, HandoffInv, EvidenceTrue, TrueOf, Answered
    <2>3. /\ item'[r].phase = "may_have_dispatched" /\ item'[r].receipt = item[r].receipt
          /\ \A s \in Runs \ {r} : item'[s] = item[s]
      BY <1>0, <1>2 DEF Fence, HandoffInv, TypeOK, Item
    <2> QED BY <1>0, <2>1, <2>2, <2>3 DEF RequestMoves, EpochMoves, ItemSame
  <1> QED BY <1>1, <1>2

\* A confirmation records what the provider did.
LEMMA ConfirmMoves ==
    ASSUME HandoffInv, NEW r \in Runs, NEW had, NEW e, TrueOf(e, r), ConfirmHandoff(r, had, e),
           UNCHANGED net
    PROVE  RequestMoves
  <1>1. TrueOf(item'[r].receipt, r)
    BY ConfirmStores
  <1>2. CASE Applies(r, had)
    <2>1. item[r] \in Item /\ Crossed(r)
      BY <1>2 DEF HandoffInv, TypeOK, Applies, Confirmable, Crossed
    <2>2. item' = [item EXCEPT ![r] =
                      [item[r] EXCEPT !.receipt = Proof(r, e), !.state = ConfirmedState(r, e)]]
      BY <1>2 DEF ConfirmHandoff
    <2>3. /\ item'[r] = [item[r] EXCEPT !.receipt = Proof(r, e), !.state = ConfirmedState(r, e)]
          /\ \A s \in Runs \ {r} : item'[s] = item[s]
      BY <2>2 DEF HandoffInv, TypeOK
    <2>4. \A i \in Item : \A c, t : [i EXCEPT !.receipt = c, !.state = t].phase = i.phase
      BY DEF Item
    <2>5. ReceiptMoves(r)
      BY <1>1, <2>1, <2>3, <2>4 DEF ReceiptMoves
    <2>6. \A s \in Runs \ {r} : ItemSame(s)
      BY <2>3 DEF ItemSame
    <2> QED BY <2>5, <2>6 DEF RequestMoves
  <1>3. CASE ~Applies(r, had)
    BY <1>3 DEF ConfirmHandoff, RequestMoves, ItemSame
  <1> QED BY <1>2, <1>3

\* The request is sent by the worker that crossed, and decided once.
LEMMA WireMoves ==
    ASSUME HandoffInv, NEW r \in Runs,
           (\E p \in Procs : Post(p, r)) \/ Provider(r) \/ RequestLost(r)
    PROVE  RequestMoves
  <1>0. net \in [Runs -> Net]
    BY DEF HandoffInv, TypeOK
  <1>1. ASSUME NEW p \in Procs, Post(p, r)
        PROVE  NetMoves(r)
    <2>1. Crossed(r) /\ net[r] = "none"
      BY <1>1 DEF Post, HandoffInv, SentOnce
    <2> QED BY <1>0, <1>1, <2>1 DEF Post, NetMoves
  <1>2. CASE Provider(r) \/ RequestLost(r)
    <2>1. PICK w \in {"lost", "accepted", "refused"} : net' = [net EXCEPT ![r] = w]
      BY <1>2 DEF Provider, RequestLost
    <2>2. net[r] = "sent" /\ UNCHANGED item
      BY <1>2 DEF Provider, RequestLost
    <2>3. net'[r] = w
      BY <1>0, <2>1
    <2>4. net' = [net EXCEPT ![r] = net'[r]]
      BY <2>1, <2>3
    <2> QED BY <2>2, <2>3, <2>4 DEF NetMoves, RequestMoves
  <1> QED BY <1>1, <1>2 DEF RequestMoves

\* Every step moves the requests on as DownloadRequest allows, or leaves them.
LEMMA StepRequestMoves == HandoffInv /\ [Next]_vars => RequestMoves
  <1> SUFFICES ASSUME HandoffInv, [Next]_vars PROVE RequestMoves
    OBVIOUS
  <1>u. CASE UNCHANGED <<item, net>>
    BY <1>u DEF RequestMoves, ItemSame
  <1>1. ASSUME NEW p \in Procs, NEW r \in Runs, ClaimRun(p, r) \/ TaskStep(p, r) \/ TaskErrs(p, r)
        PROVE  RequestMoves
    <2>1. CASE ClaimRun(p, r) \/ TaskErrs(p, r)
      BY <1>u, <2>1 DEF ClaimRun, TaskErrs, SealBlocked, PreparationThrows, WorkerThrows, AnswerLost
    <2>2. CASE Load(p, r) \/ Begin(p, r) \/ Stage(p, r)
      BY <2>2, PreparationMoves DEF HandoffInv
    <2>3. CASE Fence(p, r)
      BY <2>3, FenceMoves
    <2>4. CASE Post(p, r)
      BY <2>4, WireMoves
    <2>5. CASE Confirm(p, r)
      BY <2>5, ConfirmMoves DEF Confirm, HandoffInv, EvidenceTrue
    <2>6. CASE Refuse(p, r)
      BY <2>6, RefusalMoves DEF HandoffInv
    <2>7. CASE \/ Acquire(p, r) \/ Start(p, r) \/ Look(p, r) \/ Evidence_(p, r) \/ Guard(p, r)
               \/ Answer(p, r) \/ RejectCandidate(p, r) \/ Mark(p, r) \/ Release(p, r)
      BY <1>u, <2>7 DEF Acquire, Start, Look, Evidence_, Guard, Answer, RejectCandidate, Mark,
                        Release
    <2> QED BY <1>1, <2>1, <2>2, <2>3, <2>4, <2>5, <2>6, <2>7 DEF TaskStep
  <1>2. ASSUME NEW r \in Runs,
               RequestStep(r) \/ RecoverRun(r) \/ ClaimTimesOut(r) \/ LeaseExpires(r) \/ ReconBegins(r)
        PROVE  RequestMoves
    BY <1>u, <1>2 DEF RequestStep, RequestStart, CreateRun, CancelRun, RequestRetry, ApplyRetry,
                      RecoverRun, ClaimTimesOut, LeaseExpires, ReconBegins
  <1>3. ASSUME NEW r \in Runs, Provider(r) \/ RequestLost(r)
        PROVE  RequestMoves
    BY <1>3, WireMoves
  <1>4. CASE ReconLooks \/ ReconRejects \/ ReconFails
    BY <1>u, <1>4 DEF ReconLooks, ReconRejects, ReconFails
  <1>5. CASE ReconCloses
    BY <1>5, RefusalMoves DEF HandoffInv
  <1>6. CASE ReconConfirms
    <2>1. recon.run \in Runs /\ TrueOf(recon.proof, recon.run)
      BY <1>6 DEF ReconConfirms, HandoffInv, EvidenceTrue, TypeOK, Recon, Idle
    <2> QED BY <1>6, <2>1, ConfirmMoves DEF ReconConfirms
  <1>7. CASE CandidateStep \/ (\E p \in Procs : Crash(p)) \/ UNCHANGED vars
    BY <1>u, <1>7 DEF CandidateStep, TransferEnds, Reopen, Select, Reingest, Crash, vars
  <1> QED BY <1>1, <1>2, <1>3, <1>4, <1>5, <1>6, <1>7 DEF Next, ReconStep

\* A move of one run's request is a step of DownloadRequest.
LEMMA MovesAreAbstract ==
    ASSUME TypeOK', item \in [Runs -> Item], RequestMoves
    PROVE  [Request!Next]_<<[r \in Runs |-> item[r].phase], net, [r \in Runs |-> item[r].receipt]>>
  <1> DEFINE epoch == [r \in Runs |-> item[r].phase]
             receipt == [r \in Runs |-> item[r].receipt]
  <1>0. item' \in [Runs -> Item]
    BY DEF TypeOK
  <1>1. CASE UNCHANGED net /\ \A s \in Runs : ItemSame(s)
    BY <1>1 DEF ItemSame
  <1>2. ASSUME NEW r \in Runs, UNCHANGED net, EpochMoves(r), \A s \in Runs \ {r} : ItemSame(s)
        PROVE  Request!Next
    <2>1. UNCHANGED receipt /\ epoch' = [epoch EXCEPT ![r] = item'[r].phase]
      BY <1>2 DEF EpochMoves, ItemSame
    <2>2. CASE item[r].phase \in {"none", "refused"} /\ item'[r].phase = "preparing"
      <3>1. Request!Prepare(r)
        BY <1>2, <2>1, <2>2 DEF Request!Prepare
      <3> QED BY <3>1 DEF Request!Next
    <2>3. CASE item[r].phase = "preparing" /\ item'[r].phase = "refused"
      <3>1. Request!Refuse(r)
        BY <1>2, <2>1, <2>3 DEF Request!Refuse
      <3> QED BY <3>1 DEF Request!Next
    <2>4. CASE /\ item[r].phase = "preparing" /\ item'[r].phase = "may_have_dispatched"
               /\ \A q \in Runs \ {r} : Crossed(q) => Answered(q)
      <3>1. Request!Cross(r)
        BY <1>2, <2>1, <2>4
           DEF Request!Cross, Request!Crossed, Request!Answered, Crossed, Answered
      <3> QED BY <3>1 DEF Request!Next
    <2> QED BY <1>2, <2>2, <2>3, <2>4 DEF EpochMoves
  <1>3. ASSUME NEW r \in Runs, UNCHANGED net, ReceiptMoves(r), \A s \in Runs \ {r} : ItemSame(s)
        PROVE  Request!Next
    <2>1. UNCHANGED epoch /\ receipt' = [receipt EXCEPT ![r] = item'[r].receipt]
      BY <1>3 DEF ReceiptMoves, ItemSame
    <2>2. item'[r].receipt \in Request!Truth(r)
      BY <1>0, <1>3 DEF ReceiptMoves, TrueOf, Request!Truth, Item, Receipt
    <2>3. Request!Record(r)
      BY <1>3, <2>1, <2>2 DEF Request!Record, Request!Crossed, ReceiptMoves, Crossed
    <2> QED BY <2>3 DEF Request!Next
  <1>4. ASSUME NEW r \in Runs, NetMoves(r)
        PROVE  Request!Next
    <2>1. UNCHANGED <<epoch, receipt>>
      BY <1>4 DEF NetMoves
    <2>2. CASE Crossed(r) /\ net[r] = "none" /\ net'[r] = "sent"
      <3>1. Request!Send(r)
        BY <1>4, <2>1, <2>2 DEF NetMoves, Request!Send, Request!Crossed, Crossed
      <3> QED BY <3>1 DEF Request!Next
    <2>3. CASE net[r] = "sent" /\ net'[r] \in {"lost", "accepted", "refused"}
      <3>1. Request!Arrive(r)
        BY <1>4, <2>1, <2>3 DEF NetMoves, Request!Arrive
      <3> QED BY <3>1 DEF Request!Next
    <2> QED BY <1>4, <2>2, <2>3 DEF NetMoves
  <1> QED BY <1>1, <1>2, <1>3, <1>4 DEF RequestMoves

\* The handoff of every run, with all its workers, retries, retirements and confirmations,
\* implements DownloadRequest: a request is sent at most once, after the fence, and never
\* while another one is in doubt.
THEOREM HandoffImplementsRequest == Spec => ImplementsDownloadRequest
  <1>1. Init => Request!Init
    BY DEF Init, NoItem, Request!Init
  <1>2. HandoffInv /\ [Next]_vars
          => [Request!Next]_<<[r \in Runs |-> item[r].phase], net, [r \in Runs |-> item[r].receipt]>>
    <2> SUFFICES ASSUME HandoffInv, [Next]_vars
                 PROVE  [Request!Next]_<<[r \in Runs |-> item[r].phase], net,
                                         [r \in Runs |-> item[r].receipt]>>
      OBVIOUS
    <2>1. TypeOK' /\ item \in [Runs -> Item]
      BY NextType DEF HandoffInv, TypeOK
    <2> QED BY <2>1, StepRequestMoves, MovesAreAbstract
  <1> QED BY <1>1, <1>2, AlwaysHandoffInv, PTL DEF Spec, ImplementsDownloadRequest, Request!Spec
=============================================================================
