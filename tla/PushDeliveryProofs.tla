------------------------- MODULE PushDeliveryProofs -------------------------
(***************************************************************************)
(* Types and recorded outcomes of PushDelivery, for every set of events    *)
(* and heartbeats and every bound.  The claims are the subject of          *)
(* PushDeliveryClaims.                                                     *)
(***************************************************************************)
EXTENDS PushDelivery, TLAPS

-----------------------------------------------------------------------------
(* What the updates of a row and of a delivery change.                     *)

\* A new row waits, unclaimed.
LEMMA QueuedRow ==
    ASSUME NEW e \in Events, NEW s \in Nat
    PROVE  /\ Queued(e, s) \in Row
           /\ Queued(e, s).status = "pending" /\ ~Queued(e, s).held
           /\ Queued(e, s).attempts = 0
  BY DEF Queued, NoRow, Row

\* A claim keeps everything but the token, the attempts and the deadline.
LEMMA ClaimedRow ==
    ASSUME NEW r \in Row
    PROVE  /\ Claimed(r) \in Row
           /\ Claimed(r).held /\ Claimed(r).attempts = r.attempts + 1
           /\ Claimed(r).next = "ample"
           /\ Claimed(r).status = r.status /\ Claimed(r).payload = r.payload
  <1> DEFINE c(n) == [r EXCEPT !.held = TRUE, !.attempts = n, !.next = "ample"]
  <1>1. r.attempts + 1 \in Nat
    BY DEF Row
  <1>2. Claimed(r) = c(r.attempts + 1)
    BY DEF Claimed, Row
  <1>3. \A n \in Nat : /\ c(n) \in Row /\ c(n).held /\ c(n).attempts = n /\ c(n).next = "ample"
                      /\ c(n).status = r.status /\ c(n).payload = r.payload
    BY DEF Row
  <1> HIDE DEF c
  <1> QED BY <1>1, <1>2, <1>3

\* Coalescing keeps the row's status, claim and attempts.
LEMMA RewrittenRow ==
    ASSUME NEW r \in Row, NEW e \in Events
    PROVE  /\ Rewritten(r, e) \in Row
           /\ Rewritten(r, e).status = r.status /\ Rewritten(r, e).held = r.held
           /\ Rewritten(r, e).attempts = r.attempts /\ Rewritten(r, e).next = r.next
  BY DEF Rewritten, Row

\* A deleted row has no claim and keeps its payload.
LEMMA DeletedRowIs ==
    ASSUME row \in [Events -> Row], NEW i \in Events
    PROVE  /\ DeletedRow(i) \in Row
           /\ DeletedRow(i).status = "deleted" /\ DeletedRow(i).attempts = 0
           /\ DeletedRow(i).payload = row[i].payload
  BY DEF DeletedRow, NoRow, Row

\* An outcome gives the claim up, and keeps the row waiting exactly if it is retried.
LEMMA OutcomeRow ==
    ASSUME row \in [Events -> Row], NEW t \in Delivery, t.result # "none"
    PROVE  /\ Outcome(t) \in Row
           /\ ~Outcome(t).held /\ Outcome(t).attempts = row[t.id].attempts
           /\ Outcome(t).payload = row[t.id].payload
           /\ Retries(t) => Outcome(t).status = row[t.id].status
           /\ ~Retries(t) => Outcome(t).status \in {"sent", "failed", "expired"}
           /\ ~Retries(t) /\ Outcome(t).status = "sent" => t.result = "sent"
  <1>1. row[t.id] \in Row /\ t.result \in Result
    BY DEF Delivery
  <1>2. CASE Retries(t)
    <2>1. Outcome(t) = [row[t.id] EXCEPT !.held = FALSE, !.next = "waiting"]
      BY <1>2 DEF Outcome
    <2> QED BY <1>1, <1>2, <2>1 DEF Row
  <1>3. CASE ~Retries(t)
    <2> DEFINE s == IF t.result = "retry" THEN "failed" ELSE t.result
    <2>1. Outcome(t) = [row[t.id] EXCEPT !.held = FALSE, !.next = "due", !.life = "over",
                                         !.status = s]
      BY <1>3 DEF Outcome
    <2>2. s \in {"sent", "failed", "expired"} /\ (s = "sent" => t.result = "sent")
      BY <1>1 DEF Result
    <2> HIDE DEF s
    <2> QED BY <1>1, <1>3, <2>1, <2>2 DEF Row
  <1> QED BY <1>2, <1>3

\* A fresh delivery.
LEMMA CopyOfRow ==
    ASSUME row \in [Events -> Row], NEW i \in Events
    PROVE  CopyOf(i) \in Delivery
  BY DEF CopyOf, Delivery, Row, Result

\* What a delivery is about does not change while it goes on.
Same(u, t) == u.id = t.id /\ u.claim = t.claim /\ u.payload = t.payload

LEMMA PreparedTask ==
    ASSUME NEW t \in Delivery, NEW g \in Nat, NEW s \in Result
    PROVE  LET u == Prepared(t, g, s)
           IN /\ u \in Delivery /\ Same(u, t)
              /\ u.pc = "preflight" /\ u.reg = g /\ u.result = s /\ u.ample = t.ample
  BY DEF Prepared, Delivery, Same

LEMMA ClearedTask ==
    ASSUME NEW t \in Delivery
    PROVE  LET u == Cleared(t)
           IN /\ u \in Delivery /\ Same(u, t)
              /\ u.pc = "post" /\ u.ample = (row[t.id].next = "ample")
  BY DEF Cleared, Delivery, Same

LEMMA PostedTask ==
    ASSUME NEW t \in Delivery, NEW b \in BOOLEAN
    PROVE  LET u == Posted(t, b)
           IN /\ u \in Delivery /\ Same(u, t)
              /\ u.pc = "answer" /\ u.taken = b /\ u.ample = t.ample
  BY DEF Posted, Delivery, Same

LEMMA SettledTask ==
    ASSUME NEW t \in Delivery, NEW s \in Result
    PROVE  LET u == Settled(t, s)
           IN /\ u \in Delivery /\ Same(u, t)
              /\ u.pc = "mark" /\ u.result = s /\ u.ample = t.ample
  BY DEF Settled, Delivery, Same

\* A worker that is not idle has a delivery.
LEMMA Busy ==
    ASSUME NEW t \in Task
    PROVE  /\ t # Idle <=> t \in Delivery
           /\ t # Idle <=> t.pc # "idle"
           /\ t = Idle => t.pc = "idle"
  BY DEF Task, Delivery, Idle

-----------------------------------------------------------------------------
(* Types.                                                                  *)

\* The worker has a result before it marks, and one that is not "sent" when it skips the send.
ResultKnown ==
    \A p \in Procs :
        /\ task[p].pc = "preflight" /\ task[p].reg = 0 =>
              task[p].result \in {"expired", "retry", "failed"}
        /\ task[p].pc = "mark" => task[p].result # "none"

TypeInv == TypeOK /\ ResultKnown

\* One worker's step keeps the types of all.
LEMMA TaskType ==
    ASSUME task \in [Procs -> Task], NEW p \in Procs, NEW u \in Task,
           task' = [task EXCEPT ![p] = u]
    PROVE  /\ task' \in [Procs -> Task]
           /\ task'[p] = u /\ \A q \in Procs \ {p} : task'[q] = task[q]
  OBVIOUS

\* A fault keeps within its bound.
LEMMA FaultType ==
    ASSUME faults \in 0..MaxFaults, NEW k, Fault(k) \/ UNCHANGED faults
    PROVE  faults' \in 0..MaxFaults /\ faults' >= faults
  BY PushAssumption DEF Fault

\* A worker at work has a delivery.
LEMMA AtWork ==
    ASSUME TypeOK, NEW p \in Procs, task[p].pc # "idle"
    PROVE  task[p] \in Delivery /\ task[p] # Idle
  <1>1. task[p] \in Task
    BY DEF TypeOK
  <1> QED BY <1>1, Busy

\* How the preparation leaves the worker.
LEMMA PrepareIs ==
    ASSUME TypeOK, NEW p \in Procs, Prepare(p)
    PROVE  /\ task[p] \in Delivery
           /\ \E g \in Nat, s \in Result :
                 /\ task' = [task EXCEPT ![p] = Prepared(task[p], g, s)]
                 /\ g = 0 => s \in {"expired", "retry", "failed"}
           /\ faults' \in 0..MaxFaults /\ faults' >= faults
           /\ UNCHANGED <<row, sub, prod, cleanups, ghosts, moves>>
  <1>1. task[p] \in Delivery
    BY AtWork DEF Prepare
  <1>2. sub.reg \in Nat \ {0}
    BY DEF TypeOK, Subscription
  <1>3. (UNCHANGED faults) \/ Fault("query_error")
    BY DEF Prepare
  <1>4. faults' \in 0..MaxFaults /\ faults' >= faults
    BY <1>3, FaultType DEF TypeOK
  <1>5. \E g \in Nat, s \in Result :
                 /\ task' = [task EXCEPT ![p] = Prepared(task[p], g, s)]
                 /\ g = 0 => s \in {"expired", "retry", "failed"}
    <2>1. CASE task' = [task EXCEPT ![p] = Prepared(task[p], sub.reg, "none")]
      BY <1>2, <2>1 DEF Result
    <2>2. CASE \E s \in {"expired", "retry", "failed"} :
                  task' = [task EXCEPT ![p] = Prepared(task[p], 0, s)]
      BY <2>2 DEF Result
    <2> QED BY <2>1, <2>2 DEF Prepare
  <1> QED BY <1>1, <1>4, <1>5 DEF Prepare

\* How the preflight leaves the worker.
LEMMA PreflightIs ==
    ASSUME TypeInv, NEW p \in Procs, Preflight(p)
    PROVE  /\ task[p] \in Delivery /\ task[p].pc = "preflight"
           /\ \/ ~Holds(task[p]) /\ task' = [task EXCEPT ![p] = Idle]
              \/ /\ Holds(task[p]) /\ row[task[p].id].next = "ample"
                 /\ task' = [task EXCEPT ![p] = Cleared(task[p])]
              \/ /\ Holds(task[p])
                 /\ \E s \in {"expired", "retry", "failed"} :
                       task' = [task EXCEPT ![p] = Settled(task[p], s)]
           /\ UNCHANGED <<row, sub, prod, cleanups, ghosts, faults, moves>>
  <1>1. task[p] \in Delivery /\ task[p].pc = "preflight"
    BY AtWork DEF Preflight, TypeInv
  <1>2. task[p].reg = 0 => task[p].result \in {"expired", "retry", "failed"}
    BY <1>1 DEF TypeInv, ResultKnown
  <1>3. CASE ~Holds(task[p])
    BY <1>1, <1>3 DEF Preflight
  <1>4. CASE Holds(task[p]) /\ row[task[p].id].life = "over"
    BY <1>1, <1>4 DEF Preflight
  <1>5. CASE Holds(task[p]) /\ row[task[p].id].life # "over" /\ task[p].reg = 0
    BY <1>1, <1>2, <1>5 DEF Preflight
  <1>6. CASE Holds(task[p]) /\ row[task[p].id].life # "over" /\ task[p].reg # 0
    <2>1. CASE Ample(task[p])
      BY <1>1, <1>6, <2>1 DEF Preflight, Ample
    <2>2. CASE ~Ample(task[p])
      BY <1>1, <1>6, <2>2 DEF Preflight
    <2> QED BY <2>1, <2>2
  <1> QED BY <1>3, <1>4, <1>5, <1>6

\* How the request leaves the worker.
LEMMA PostIs ==
    ASSUME TypeOK, NEW p \in Procs, Post(p)
    PROVE  /\ task[p] \in Delivery /\ task[p].pc = "post"
           /\ \/ \E b \in BOOLEAN : /\ task' = [task EXCEPT ![p] = Posted(task[p], b)]
                                    /\ took' = IF b THEN took \cup {task[p].id} ELSE took
              \/ /\ \E s \in {"failed", "retry"} : task' = [task EXCEPT ![p] = Settled(task[p], s)]
                 /\ took' = took
           /\ UNCHANGED <<row, sub, prod, cleanups, gone, stored, stalled, faults, moves>>
  <1>1. task[p] \in Delivery
    BY AtWork DEF Post
  <1> QED BY <1>1 DEF Post

\* How the answer leaves the worker.
LEMMA AnswerIs ==
    ASSUME TypeOK, NEW p \in Procs, Answer(p)
    PROVE  /\ task[p] \in Delivery /\ task[p].pc = "answer"
           /\ \E s \in {"sent", "failed", "retry", "expired"} :
                 /\ task' = [task EXCEPT ![p] = Settled(task[p], s)]
                 /\ s = "sent" => task[p].taken
           /\ \/ UNCHANGED <<cleanups, gone>>
              \/ cleanups' = cleanups \cup {task[p].reg} /\ gone' = gone \cup {task[p].reg}
           /\ UNCHANGED <<row, sub, prod, took, stored, stalled, faults, moves>>
  <1>1. task[p] \in Delivery
    BY AtWork DEF Answer
  <1>2. PICK a \in Answers(task[p]) :
             /\ task' = [task EXCEPT ![p] = Settled(task[p], IF a = "gone" THEN "expired" ELSE a)]
             /\ cleanups' = IF a = "gone" THEN cleanups \cup {task[p].reg} ELSE cleanups
             /\ gone' = IF a = "gone" THEN gone \cup {task[p].reg} ELSE gone
    BY DEF Answer
  <1>3. a \in {"sent", "gone", "failed", "retry"} /\ (a = "sent" => task[p].taken)
    BY DEF Answers
  <1>4. CASE a = "gone"
    BY <1>1, <1>2, <1>4 DEF Answer
  <1>5. CASE a # "gone"
    BY <1>1, <1>2, <1>3, <1>5 DEF Answer
  <1> QED BY <1>4, <1>5

\* How the outcome leaves the row.
LEMMA MarkIs ==
    ASSUME TypeInv, NEW p \in Procs, Mark(p)
    PROVE  /\ task[p] \in Delivery /\ task[p].pc = "mark" /\ task[p].result # "none"
           /\ task' = [task EXCEPT ![p] = Idle]
           /\ \/ row' = row /\ (~Holds(task[p]) \/ Fault("query_error"))
              \/ Holds(task[p]) /\ row' = [row EXCEPT ![task[p].id] = Outcome(task[p])]
           /\ faults' \in 0..MaxFaults /\ faults' >= faults
           /\ UNCHANGED <<sub, prod, cleanups, ghosts, moves>>
  <1>1. task[p] \in Delivery /\ task[p].pc = "mark"
    BY AtWork DEF Mark, TypeInv
  <1>2. (UNCHANGED faults) \/ Fault("query_error")
    BY DEF Mark
  <1>3. faults' \in 0..MaxFaults /\ faults' >= faults
    BY <1>2, FaultType DEF TypeInv, TypeOK
  <1> QED BY <1>1, <1>3 DEF Mark, TypeInv, ResultKnown

\* A crash or a failed preflight ends the worker's delivery.
LEMMA DropIs ==
    ASSUME TypeOK, NEW p \in Procs, Crash(p) \/ PreflightThrows(p)
    PROVE  /\ task' = [task EXCEPT ![p] = Idle]
           /\ faults' \in 0..MaxFaults /\ faults' = faults + 1
           /\ cleanups' \subseteq cleanups
           /\ UNCHANGED <<row, sub, prod, ghosts, moves>>
  <1>1. Fault("crash") \/ Fault("query_error")
    BY DEF Crash, PreflightThrows
  <1>2. faults' \in 0..MaxFaults
    BY <1>1, FaultType DEF TypeOK
  <1> QED BY <1>1, <1>2 DEF Crash, PreflightThrows, Fault

\* Initially nothing is queued and nobody works.
LEMMA InitType == Init => TypeInv
  <1> SUFFICES ASSUME Init PROVE TypeInv
    OBVIOUS
  <1>1. \A e \in Events : NoRow(e) \in Row
    BY DEF NoRow, Row
  <1>2. row \in [Events -> Row] /\ sub \in Subscription /\ prod \in [Events -> Producer]
    BY <1>1 DEF Init, Subscription, Producer
  <1>3. task \in [Procs -> Task] /\ \A p \in Procs : task[p].pc = "idle"
    BY DEF Init, Task, Idle
  <1>4. faults \in 0..MaxFaults /\ moves \in 0..MaxMoves
    BY PushAssumption DEF Init
  <1>5. cleanups \subseteq Nat /\ took \subseteq Events /\ gone \subseteq Nat /\ stored \subseteq Events
    BY DEF Init
  <1>6. stalled \in BOOLEAN
    BY DEF Init
  <1>7. TypeOK
    BY <1>2, <1>3, <1>4, <1>5, <1>6 DEF TypeOK
  <1> QED BY <1>3, <1>7 DEF TypeInv, ResultKnown

\* A producer's step keeps the types.
LEMMA ProduceType ==
    ASSUME TypeInv, NEW e \in Events, Produce(e)
    PROVE  TypeInv'
  <1> USE DEF TypeInv, TypeOK
  <1>1. \A pc \in {"find", "update", "enqueue", "done", "skipped"}, s \in Nat, ids \in SUBSET Events :
           ProducerGoes(e, pc, s, ids) => prod' \in [Events -> Producer]
    BY DEF ProducerGoes, Producer
  <1>2. \A pc \in {"done", "skipped"} : ProducerEnds(e, pc) => prod' \in [Events -> Producer]
    BY <1>1 DEF ProducerEnds
  <1>3. sub.id \in Nat /\ prod[e].sub \in Nat /\ prod[e].ids \subseteq Events
    BY DEF Subscription, Producer
  <1>4. (UNCHANGED task) => ResultKnown'
    BY DEF ResultKnown
  <1>5. CASE ProducerLists(e)
    <2>1. prod' \in [Events -> Producer]
      BY <1>1, <1>2, <1>3, <1>5 DEF ProducerLists
    <2> QED BY <1>4, <1>5, <2>1 DEF ProducerLists, ghosts
  <1>6. CASE ProducerFinds(e)
    <2>1. prod' \in [Events -> Producer]
      BY <1>1, <1>3, <1>6 DEF ProducerFinds
    <2> QED BY <1>4, <1>6, <2>1 DEF ProducerFinds, ghosts
  <1>7. CASE ProducerUpdates(e)
    <2>1. prod' \in [Events -> Producer]
      BY <1>1, <1>2, <1>3, <1>7 DEF ProducerUpdates
    <2>2. \A i \in Events : Rewritten(row[i], e) \in Row
      BY RewrittenRow
    <2>3. row' \in [Events -> Row]
      BY <1>7, <2>2 DEF ProducerUpdates
    <2> QED BY <1>4, <1>7, <2>1, <2>3 DEF ProducerUpdates
  <1>8. CASE ProducerEnqueues(e)
    <2>1. prod' \in [Events -> Producer]
      BY <1>2, <1>8 DEF ProducerEnqueues
    <2>2. Queued(e, prod[e].sub) \in Row
      BY <1>3, QueuedRow
    <2>3. row' \in [Events -> Row]
      BY <1>8, <2>2 DEF ProducerEnqueues
    <2> QED BY <1>4, <1>8, <2>1, <2>3 DEF ProducerEnqueues
  <1> QED BY <1>5, <1>6, <1>7, <1>8 DEF Produce

\* A worker's step keeps the types.
LEMMA DeliverType ==
    ASSUME TypeInv, NEW p \in Procs,
           Deliver(p) \/ PreflightThrows(p) \/ Crash(p) \/ \E i \in Events : Claim(p, i)
    PROVE  TypeInv'
  <1> USE DEF TypeInv
  <1>0. Idle \in Task /\ Idle.pc = "idle" /\ Delivery \subseteq Task
    BY DEF Task, Idle
  <1> DEFINE Good(u) ==
           /\ u.pc = "preflight" /\ u.reg = 0 => u.result \in {"expired", "retry", "failed"}
           /\ u.pc = "mark" => u.result # "none"
  <1>1. ASSUME NEW u \in Task, task' = [task EXCEPT ![p] = u], Good(u)
        PROVE  task' \in [Procs -> Task] /\ ResultKnown'
    <2>1. task' \in [Procs -> Task] /\ task'[p] = u /\ \A q \in Procs \ {p} : task'[q] = task[q]
      BY <1>1, TaskType DEF TypeOK
    <2> QED BY <1>1, <2>1 DEF ResultKnown
  <1>2. ASSUME NEW i \in Events, Claim(p, i) PROVE TypeInv'
    <2>1. CopyOf(i) \in Delivery /\ CopyOf(i).pc = "prepare"
      BY CopyOfRow DEF TypeOK, CopyOf
    <2>2. task' \in [Procs -> Task] /\ ResultKnown'
      BY <1>0, <1>1, <1>2, <2>1 DEF Claim
    <2>3. Claimed(row[i]) \in Row
      BY ClaimedRow DEF TypeOK
    <2> QED BY <1>2, <2>2, <2>3 DEF Claim, TypeOK, ghosts
  <1>3. CASE Prepare(p)
    <2>1. PICK g \in Nat, s \in Result :
                 /\ task' = [task EXCEPT ![p] = Prepared(task[p], g, s)]
                 /\ g = 0 => s \in {"expired", "retry", "failed"}
      BY <1>3, PrepareIs
    <2>2. Prepared(task[p], g, s) \in Task /\ Good(Prepared(task[p], g, s))
      BY <1>0, <1>3, <2>1, PrepareIs, PreparedTask
    <2>3. task' \in [Procs -> Task] /\ ResultKnown'
      BY <1>1, <2>1, <2>2
    <2> QED BY <1>3, <2>3, PrepareIs DEF TypeOK, ghosts
  <1>4. CASE Preflight(p)
    <2>1. Cleared(task[p]) \in Task /\ Good(Cleared(task[p]))
      BY <1>0, <1>4, PreflightIs, ClearedTask
    <2>2. \A s \in {"expired", "retry", "failed"} :
             Settled(task[p], s) \in Task /\ Good(Settled(task[p], s))
      BY <1>0, <1>4, PreflightIs, SettledTask DEF Result
    <2>3. task' \in [Procs -> Task] /\ ResultKnown'
      BY <1>0, <1>1, <1>4, <2>1, <2>2, PreflightIs
    <2> QED BY <1>4, <2>3, PreflightIs DEF TypeOK, ghosts
  <1>5. CASE Post(p)
    <2>1. \A b \in BOOLEAN : Posted(task[p], b) \in Task /\ Good(Posted(task[p], b))
      BY <1>0, <1>5, PostIs, PostedTask
    <2>2. \A s \in {"retry", "failed"} :
             Settled(task[p], s) \in Task /\ Good(Settled(task[p], s))
      BY <1>0, <1>5, PostIs, SettledTask DEF Result
    <2>3. task' \in [Procs -> Task] /\ ResultKnown'
      BY <1>1, <1>5, <2>1, <2>2, PostIs
    <2>4. took' \subseteq Events
      BY <1>5, PostIs DEF TypeOK, Delivery
    <2> QED BY <1>5, <2>3, <2>4, PostIs DEF TypeOK
  <1>6. CASE Answer(p)
    <2>1. \A s \in {"sent", "failed", "retry", "expired"} :
             Settled(task[p], s) \in Task /\ Good(Settled(task[p], s))
      BY <1>0, <1>6, AnswerIs, SettledTask DEF Result
    <2>2. task' \in [Procs -> Task] /\ ResultKnown'
      BY <1>1, <1>6, <2>1, AnswerIs
    <2>3. cleanups' \subseteq Nat /\ gone' \subseteq Nat
      BY <1>6, AnswerIs DEF TypeOK, Delivery
    <2> QED BY <1>6, <2>2, <2>3, AnswerIs DEF TypeOK
  <1>7. CASE Mark(p)
    <2>1. task' \in [Procs -> Task] /\ ResultKnown'
      BY <1>0, <1>1, <1>7, MarkIs
    <2>2. Outcome(task[p]) \in Row
      BY <1>7, MarkIs, OutcomeRow DEF TypeOK
    <2>3. row' \in [Events -> Row]
      BY <1>7, <2>2, MarkIs DEF TypeOK
    <2> QED BY <1>7, <2>1, <2>3, MarkIs DEF TypeOK, ghosts
  <1>8. CASE PreflightThrows(p) \/ Crash(p)
    <2>1. task' \in [Procs -> Task] /\ ResultKnown'
      BY <1>0, <1>1, <1>8, DropIs
    <2> QED BY <1>8, <2>1, DropIs DEF TypeOK, ghosts
  <1> QED BY <1>2, <1>3, <1>4, <1>5, <1>6, <1>7, <1>8 DEF Deliver

\* The user, the retention and time keep the types.
LEMMA RestType ==
    ASSUME TypeInv,
           \/ Register \/ Unsubscribe \/ \E g \in cleanups : Invalidate(g)
           \/ \E i \in Events : DeleteHistory(i) \/ NextAttemptNears(i) \/ LifeEnds(i)
    PROVE  TypeInv'
  <1> USE DEF TypeInv, TypeOK
  <1>0. (UNCHANGED task) => ResultKnown'
    BY DEF ResultKnown
  <1>1. CASE Register
    <2>1. sub' \in Subscription
      BY <1>1 DEF Register, Subscription
    <2>2. moves' \in 0..MaxMoves
      BY <1>1, PushAssumption DEF Register
    <2> QED BY <1>0, <1>1, <2>1, <2>2 DEF Register, ghosts
  <1>2. CASE Unsubscribe
    <2>1. sub' \in Subscription
      BY <1>2 DEF Unsubscribe, Subscription
    <2>2. moves' \in 0..MaxMoves
      BY <1>2, PushAssumption DEF Unsubscribe
    <2>3. row' \in [Events -> Row]
      BY <1>2, DeletedRowIs DEF Unsubscribe
    <2> QED BY <1>0, <1>2, <2>1, <2>2, <2>3 DEF Unsubscribe, ghosts
  <1>3. ASSUME NEW g \in cleanups, Invalidate(g) PROVE TypeInv'
    <2>1. sub' \in Subscription
      BY <1>3 DEF Invalidate, Subscription
    <2> QED BY <1>0, <1>3, <2>1 DEF Invalidate, ghosts
  <1>4. ASSUME NEW i \in Events, DeleteHistory(i) PROVE TypeInv'
    <2>1. row' \in [Events -> Row]
      BY <1>4, DeletedRowIs DEF DeleteHistory
    <2> QED BY <1>0, <1>4, <2>1 DEF DeleteHistory, ghosts
  <1>5. ASSUME NEW i \in Events, NextAttemptNears(i) PROVE TypeInv'
    <2>1. row' \in [Events -> Row]
      BY <1>5 DEF NextAttemptNears, Row
    <2>2. (UNCHANGED faults) \/ Fault("stall") \/ Fault("slow")
      BY <1>5 DEF NextAttemptNears
    <2>3. faults' \in 0..MaxFaults
      BY <2>2, FaultType
    <2>4. stalled' \in BOOLEAN
      BY <1>5 DEF NextAttemptNears
    <2> QED BY <1>0, <1>5, <2>1, <2>3, <2>4 DEF NextAttemptNears
  <1>6. ASSUME NEW i \in Events, LifeEnds(i) PROVE TypeInv'
    <2>1. \A r \in Row : [r EXCEPT !.life = "over"] \in Row
      BY DEF Row
    <2>2. row' \in [Events -> Row]
      BY <1>6, <2>1 DEF LifeEnds
    <2> QED BY <1>0, <1>6, <2>2 DEF LifeEnds, ghosts
  <1> QED BY <1>1, <1>2, <1>3, <1>4, <1>5, <1>6

\* Every step keeps the types.
LEMMA NextType == TypeInv /\ [Next]_vars => TypeInv'
  <1> SUFFICES ASSUME TypeInv, [Next]_vars PROVE TypeInv'
    OBVIOUS
  <1>1. CASE UNCHANGED vars
    BY <1>1 DEF vars, TypeInv, TypeOK, ResultKnown
  <1>2. CASE Next
    BY <1>2, ProduceType, DeliverType, RestType DEF Next
  <1> QED BY <1>1, <1>2

\* Rows, deliveries and registrations keep their types, and a worker never marks a row
\* without a result (deliverNotification).
THEOREM PushTypeCorrect == Spec => []TypeOK
  <1>1. Spec => []TypeInv
    BY InitType, NextType, PTL DEF Spec
  <1>2. TypeInv => TypeOK
    BY DEF TypeInv
  <1> QED BY <1>1, <1>2, PTL

-----------------------------------------------------------------------------
(* What is recorded is true.                                               *)

\* A worker believes that a message was taken only if it was.
BeliefIsTrue ==
    \A p \in Procs :
        /\ task[p].pc = "answer" /\ task[p].taken => task[p].id \in took
        /\ task[p].pc = "mark" /\ task[p].result = "sent" => task[p].id \in took

\* Only registrations that were declared gone are being invalidated.
CleanupIsGone == cleanups \subseteq gone

\* A producer updates at least one row.
UpdateHasTarget == \A e \in Events : prod[e].pc = "update" => prod[e].ids # {}

RecordInv ==
    /\ TypeInv
    /\ SentIsTrue /\ BeliefIsTrue
    /\ CleanupIsGone /\ InvalidIsGone
    /\ UpdateHasTarget /\ EventKept

\* A producer's step keeps the records true.
LEMMA ProduceRecords ==
    ASSUME RecordInv, NEW e \in Events, Produce(e)
    PROVE  RecordInv'
  <1>0. TypeInv /\ TypeInv'
    BY ProduceType DEF RecordInv
  <1>1. UNCHANGED <<sub, task, cleanups, took, gone>>
    BY DEF Produce, ProducerLists, ProducerFinds, ProducerUpdates, ProducerEnqueues, ghosts
  <1>2. BeliefIsTrue' /\ CleanupIsGone' /\ InvalidIsGone'
    BY <1>1 DEF RecordInv, BeliefIsTrue, CleanupIsGone, InvalidIsGone
  <1>3. \A pc, s, ids : ProducerGoes(e, pc, s, ids) =>
           /\ prod'[e].pc = pc /\ prod'[e].ids = ids
           /\ \A f \in Events \ {e} : prod'[f] = prod[f]
    BY <1>0 DEF ProducerGoes, TypeInv, TypeOK
  <1>4. \A pc : ProducerEnds(e, pc) =>
           prod'[e].pc = pc /\ \A f \in Events \ {e} : prod'[f] = prod[f]
    BY <1>3 DEF ProducerEnds
  <1>5. CASE ProducerLists(e)
    <2>1. prod'[e].pc \in {"find", "skipped"} /\ \A f \in Events \ {e} : prod'[f] = prod[f]
      BY <1>3, <1>4, <1>5 DEF ProducerLists
    <2>2. UNCHANGED <<row, stored>>
      BY <1>5 DEF ProducerLists, ghosts
    <2> QED BY <1>0, <1>1, <1>2, <2>1, <2>2 DEF RecordInv, SentIsTrue, UpdateHasTarget, EventKept
  <1>6. CASE ProducerFinds(e)
    <2>1. PICK ids \in SUBSET Events :
             ProducerGoes(e, IF ids = {} THEN "enqueue" ELSE "update", prod[e].sub, ids)
      BY <1>6 DEF ProducerFinds
    <2>2. /\ prod'[e].pc = (IF ids = {} THEN "enqueue" ELSE "update") /\ prod'[e].ids = ids
          /\ \A f \in Events \ {e} : prod'[f] = prod[f]
      BY <1>3, <2>1
    <2>3. UNCHANGED <<row, stored>>
      BY <1>6 DEF ProducerFinds, ghosts
    <2> QED BY <1>0, <1>1, <1>2, <2>2, <2>3 DEF RecordInv, SentIsTrue, UpdateHasTarget, EventKept
  <1>7. CASE ProducerUpdates(e)
    <2> DEFINE updated == {i \in prod[e].ids : Coalescible(i)}
    <2>1. /\ row' = [i \in Events |-> IF i \in updated THEN Rewritten(row[i], e) ELSE row[i]]
          /\ stored' = IF updated = {} THEN stored ELSE stored \cup {e}
          /\ prod[e].pc = "update"
          /\ \/ AllUpdated(prod[e].ids) /\ ProducerEnds(e, "done")
             \/ ProducerGoes(e, "enqueue", prod[e].sub, {})
      BY <1>7 DEF ProducerUpdates
    <2>2. \A i \in Events : Rewritten(row[i], e).status = row[i].status
      BY <1>0, RewrittenRow DEF TypeInv, TypeOK
    <2>3. SentIsTrue'
      BY <1>1, <2>1, <2>2 DEF RecordInv, SentIsTrue
    <2>4. prod[e].ids # {}
      BY <2>1 DEF RecordInv, UpdateHasTarget
    <2>5. AllUpdated(prod[e].ids) => e \in stored'
      BY <2>1, <2>4 DEF AllUpdated
    <2>6. stored \subseteq stored'
      BY <2>1
    <2>7. /\ prod'[e].pc = "enqueue" \/ (prod'[e].pc = "done" /\ e \in stored')
          /\ \A f \in Events \ {e} : prod'[f] = prod[f]
      BY <1>3, <1>4, <2>1, <2>5
    <2> QED BY <1>0, <1>2, <2>3, <2>6, <2>7 DEF RecordInv, UpdateHasTarget, EventKept
  <1>8. CASE ProducerEnqueues(e)
    <2>1. prod[e].sub \in Nat
      BY <1>0 DEF TypeInv, TypeOK, Producer
    <2>2. Queued(e, prod[e].sub).status = "pending"
      BY <2>1, QueuedRow
    <2>3. SentIsTrue'
      BY <1>0, <1>1, <1>8, <2>2 DEF RecordInv, SentIsTrue, ProducerEnqueues, TypeInv, TypeOK
    <2>4. stored \subseteq stored'
      BY <1>8 DEF ProducerEnqueues
    <2>5. /\ prod'[e].pc = "skipped" \/ (prod'[e].pc = "done" /\ e \in stored')
          /\ \A f \in Events \ {e} : prod'[f] = prod[f]
      BY <1>4, <1>8 DEF ProducerEnqueues
    <2> QED BY <1>0, <1>2, <2>3, <2>4, <2>5 DEF RecordInv, UpdateHasTarget, EventKept
  <1> QED BY <1>5, <1>6, <1>7, <1>8 DEF Produce

\* A worker's step keeps the records true: it believes in a "sent" only after an answer to
\* a message that was taken.
LEMMA DeliverRecords ==
    ASSUME RecordInv, NEW p \in Procs,
           Deliver(p) \/ PreflightThrows(p) \/ Crash(p) \/ \E i \in Events : Claim(p, i)
    PROVE  RecordInv'
  <1>0. TypeInv /\ TypeOK /\ TypeInv'
    BY DeliverType DEF RecordInv, TypeInv
  <1>a. UNCHANGED <<sub, prod, stored>>
    <2>1. CASE \E i \in Events : Claim(p, i)
      BY <2>1 DEF Claim, ghosts
    <2>2. CASE Deliver(p)
      BY <1>0, <2>2, PrepareIs, PreflightIs, PostIs, AnswerIs, MarkIs DEF Deliver, ghosts
    <2>3. CASE PreflightThrows(p) \/ Crash(p)
      BY <1>0, <2>3, DropIs DEF ghosts
    <2> QED BY <2>1, <2>2, <2>3
  <1>b. UpdateHasTarget' /\ EventKept'
    BY <1>a DEF RecordInv, UpdateHasTarget, EventKept
  <1>c. gone \subseteq gone' => InvalidIsGone'
    BY <1>a DEF RecordInv, InvalidIsGone
  <1> DEFINE Good(u) ==
           /\ u.pc = "answer" /\ u.taken => u.id \in took'
           /\ u.pc = "mark" /\ u.result = "sent" => u.id \in took'
  <1>1. ASSUME NEW u \in Task, task' = [task EXCEPT ![p] = u], Good(u), took \subseteq took'
        PROVE  BeliefIsTrue'
    <2>1. task'[p] = u /\ \A q \in Procs \ {p} : task'[q] = task[q]
      BY <1>0, <1>1, TaskType DEF TypeOK
    <2> QED BY <1>1, <2>1 DEF RecordInv, BeliefIsTrue
  <1>d. Idle \in Task /\ Idle.pc = "idle" /\ Delivery \subseteq Task
    BY DEF Task, Idle
  <1>e. (UNCHANGED row) /\ took \subseteq took' => SentIsTrue'
    BY DEF RecordInv, SentIsTrue
  <1>f. (UNCHANGED <<cleanups, gone>>) => CleanupIsGone' /\ InvalidIsGone'
    BY <1>c DEF RecordInv, CleanupIsGone
  <1>2. ASSUME NEW i \in Events, Claim(p, i) PROVE RecordInv'
    <2>1. CopyOf(i) \in Task /\ CopyOf(i).pc = "prepare"
      BY <1>0, <1>d, CopyOfRow DEF TypeOK, CopyOf
    <2>2. UNCHANGED <<took, cleanups, gone>>
      BY <1>2 DEF Claim, ghosts
    <2>3. BeliefIsTrue'
      BY <1>1, <1>2, <2>1, <2>2 DEF Claim
    <2>4. Claimed(row[i]).status = row[i].status
      BY <1>0, ClaimedRow DEF TypeOK
    <2>5. SentIsTrue'
      BY <1>0, <1>2, <2>2, <2>4 DEF Claim, RecordInv, SentIsTrue, TypeOK
    <2> QED BY <1>0, <1>b, <1>f, <2>2, <2>3, <2>5 DEF RecordInv
  <1>3. CASE Prepare(p)
    <2>1. PICK g \in Nat, s \in Result : task' = [task EXCEPT ![p] = Prepared(task[p], g, s)]
      BY <1>0, <1>3, PrepareIs
    <2>2. Prepared(task[p], g, s) \in Task /\ Good(Prepared(task[p], g, s))
      BY <1>0, <1>d, <1>3, PrepareIs, PreparedTask
    <2>3. UNCHANGED <<row, took, cleanups, gone>>
      BY <1>0, <1>3, PrepareIs DEF ghosts
    <2> QED BY <1>0, <1>1, <1>b, <1>e, <1>f, <2>1, <2>2, <2>3 DEF RecordInv
  <1>4. CASE Preflight(p)
    <2>1. PICK u \in Task : task' = [task EXCEPT ![p] = u] /\ Good(u)
      <3>1. Cleared(task[p]) \in Task /\ Good(Cleared(task[p]))
        BY <1>0, <1>d, <1>4, PreflightIs, ClearedTask
      <3>2. \A s \in {"expired", "retry", "failed"} :
               Settled(task[p], s) \in Task /\ Good(Settled(task[p], s))
        BY <1>0, <1>d, <1>4, PreflightIs, SettledTask DEF Result
      <3>3. Good(Idle)
        BY <1>d
      <3> HIDE DEF Good
      <3> QED BY <1>0, <1>d, <1>4, <3>1, <3>2, <3>3, PreflightIs
    <2>2. UNCHANGED <<row, took, cleanups, gone>>
      BY <1>0, <1>4, PreflightIs DEF ghosts
    <2> QED BY <1>0, <1>1, <1>b, <1>e, <1>f, <2>1, <2>2 DEF RecordInv
  <1>5. CASE Post(p)
    <2>0. took \subseteq took' /\ UNCHANGED <<row, cleanups, gone>>
      BY <1>0, <1>5, PostIs
    <2>1. PICK u \in Task : task' = [task EXCEPT ![p] = u] /\ Good(u)
      <3>1. CASE \E b \in BOOLEAN : /\ task' = [task EXCEPT ![p] = Posted(task[p], b)]
                                    /\ took' = IF b THEN took \cup {task[p].id} ELSE took
        <4>1. PICK b \in BOOLEAN : /\ task' = [task EXCEPT ![p] = Posted(task[p], b)]
                                   /\ took' = IF b THEN took \cup {task[p].id} ELSE took
          BY <3>1
        <4>2. Posted(task[p], b) \in Task /\ Good(Posted(task[p], b))
          BY <1>0, <1>d, <1>5, <4>1, PostIs, PostedTask DEF Same
        <4> QED BY <4>1, <4>2
      <3>2. CASE \E s \in {"failed", "retry"} : task' = [task EXCEPT ![p] = Settled(task[p], s)]
        <4>1. \A s \in {"retry", "failed"} :
                 Settled(task[p], s) \in Task /\ Good(Settled(task[p], s))
          BY <1>0, <1>d, <1>5, PostIs, SettledTask DEF Result
        <4> QED BY <3>2, <4>1
      <3> QED BY <1>0, <1>5, <3>1, <3>2, PostIs
    <2> QED BY <1>0, <1>1, <1>b, <1>e, <1>f, <2>0, <2>1 DEF RecordInv
  <1>6. CASE Answer(p)
    <2>0. UNCHANGED <<row, took>>
      BY <1>0, <1>6, AnswerIs
    <2>1. PICK s \in {"sent", "failed", "retry", "expired"} :
                 /\ task' = [task EXCEPT ![p] = Settled(task[p], s)]
                 /\ s = "sent" => task[p].taken
      BY <1>0, <1>6, AnswerIs
    <2>2. s = "sent" => task[p].id \in took
      BY <1>0, <1>6, <2>1, AnswerIs DEF RecordInv, BeliefIsTrue
    <2>3. Settled(task[p], s) \in Task /\ Good(Settled(task[p], s))
      BY <1>0, <1>d, <1>6, <2>0, <2>2, AnswerIs, SettledTask DEF Result, Same
    <2>4. CleanupIsGone' /\ gone \subseteq gone'
      BY <1>0, <1>6, AnswerIs DEF RecordInv, CleanupIsGone
    <2> QED BY <1>0, <1>1, <1>b, <1>c, <1>e, <2>0, <2>1, <2>3, <2>4 DEF RecordInv
  <1>7. CASE Mark(p)
    <2>1. UNCHANGED <<took, cleanups, gone>>
      BY <1>0, <1>7, MarkIs DEF ghosts
    <2>2. task[p].result = "sent" => task[p].id \in took
      BY <1>0, <1>7, MarkIs DEF RecordInv, BeliefIsTrue
    <2>3. Outcome(task[p]).status = "sent" => task[p].id \in took
      <3>1. task[p].id \in Events
        BY <1>0, <1>7, MarkIs DEF Delivery
      <3> QED BY <1>0, <1>7, <2>2, <3>1, MarkIs, OutcomeRow DEF TypeOK, RecordInv, SentIsTrue
    <2>4. SentIsTrue'
      BY <1>0, <1>7, <2>1, <2>3, MarkIs DEF RecordInv, SentIsTrue, TypeOK
    <2>5. BeliefIsTrue'
      BY <1>0, <1>1, <1>d, <1>7, <2>1, MarkIs
    <2> QED BY <1>0, <1>b, <1>f, <2>1, <2>4, <2>5 DEF RecordInv
  <1>8. CASE PreflightThrows(p) \/ Crash(p)
    <2>1. (UNCHANGED <<row, took, gone>>) /\ cleanups' \subseteq cleanups
      BY <1>0, <1>8, DropIs DEF ghosts
    <2>2. CleanupIsGone'
      BY <2>1 DEF RecordInv, CleanupIsGone
    <2>3. BeliefIsTrue'
      BY <1>0, <1>1, <1>d, <1>8, <2>1, DropIs
    <2> QED BY <1>0, <1>b, <1>c, <1>e, <2>1, <2>2, <2>3 DEF RecordInv
  <1> QED BY <1>2, <1>3, <1>4, <1>5, <1>6, <1>7, <1>8 DEF Deliver

\* The user, the retention and time keep the records true.
LEMMA RestRecords ==
    ASSUME RecordInv,
           \/ Register \/ Unsubscribe \/ \E g \in cleanups : Invalidate(g)
           \/ \E i \in Events : DeleteHistory(i) \/ NextAttemptNears(i) \/ LifeEnds(i)
    PROVE  RecordInv'
  <1>0. TypeInv /\ TypeOK /\ TypeInv'
    BY RestType DEF RecordInv, TypeInv
  <1>1. (UNCHANGED <<prod, task, took, gone, stored>>) /\ cleanups' \subseteq cleanups
    BY DEF Register, Unsubscribe, Invalidate, DeleteHistory, NextAttemptNears, LifeEnds, ghosts
  <1>2. BeliefIsTrue' /\ CleanupIsGone' /\ UpdateHasTarget' /\ EventKept'
    BY <1>1 DEF RecordInv, BeliefIsTrue, CleanupIsGone, UpdateHasTarget, EventKept
  <1>3. InvalidIsGone'
    <2>1. CASE Register \/ Unsubscribe
      BY <1>0, <2>1 DEF Register, Unsubscribe, InvalidIsGone, TypeOK, Subscription
    <2>2. ASSUME NEW g \in cleanups, Invalidate(g) PROVE InvalidIsGone'
      BY <1>0, <1>1, <2>2 DEF Invalidate, SameRegistration, RecordInv, InvalidIsGone,
         CleanupIsGone, TypeOK, Subscription
    <2>3. CASE \E i \in Events : DeleteHistory(i) \/ NextAttemptNears(i) \/ LifeEnds(i)
      BY <1>1, <2>3 DEF DeleteHistory, NextAttemptNears, LifeEnds, RecordInv, InvalidIsGone
    <2> QED BY <2>1, <2>2, <2>3
  <1>4. SentIsTrue'
    <2>1. CASE Register \/ \E g \in cleanups : Invalidate(g)
      BY <1>1, <2>1 DEF Register, Invalidate, RecordInv, SentIsTrue
    <2>2. CASE Unsubscribe
      BY <1>0, <1>1, <2>2, DeletedRowIs DEF Unsubscribe, RecordInv, SentIsTrue, TypeOK
    <2>3. ASSUME NEW i \in Events, DeleteHistory(i) PROVE SentIsTrue'
      BY <1>0, <1>1, <2>3, DeletedRowIs DEF DeleteHistory, RecordInv, SentIsTrue, TypeOK
    <2>4. ASSUME NEW i \in Events, NextAttemptNears(i) \/ LifeEnds(i) PROVE SentIsTrue'
      <3>1. \A j \in Events : row'[j].status = row[j].status
        BY <1>0, <2>4 DEF NextAttemptNears, LifeEnds, TypeOK, Row
      <3> QED BY <1>1, <3>1 DEF RecordInv, SentIsTrue
    <2> QED BY <2>1, <2>2, <2>3, <2>4
  <1> QED BY <1>0, <1>2, <1>3, <1>4 DEF RecordInv

\* The records are true from the start, and every step keeps them so.
LEMMA RecordInvariance == Spec => []RecordInv
  <1>1. Init => RecordInv
    <2> SUFFICES ASSUME Init PROVE RecordInv
      OBVIOUS
    <2>1. TypeInv
      BY InitType
    <2>2. SentIsTrue
      BY DEF Init, NoRow, SentIsTrue
    <2>3. BeliefIsTrue
      BY DEF Init, Idle, BeliefIsTrue
    <2>4. CleanupIsGone /\ InvalidIsGone /\ UpdateHasTarget /\ EventKept
      BY DEF Init, CleanupIsGone, InvalidIsGone, UpdateHasTarget, EventKept
    <2> QED BY <2>1, <2>2, <2>3, <2>4 DEF RecordInv
  <1>2. RecordInv /\ [Next]_vars => RecordInv'
    <2> SUFFICES ASSUME RecordInv, [Next]_vars PROVE RecordInv'
      OBVIOUS
    <2>1. CASE UNCHANGED vars
      BY <2>1, NextType DEF vars, RecordInv, TypeInv, TypeOK, ResultKnown, SentIsTrue,
         BeliefIsTrue, CleanupIsGone, InvalidIsGone, UpdateHasTarget, EventKept
    <2>2. CASE Next
      BY <2>2, ProduceRecords, DeliverRecords, RestRecords DEF Next
    <2> QED BY <2>1, <2>2
  <1> QED BY <1>1, <1>2, PTL DEF Spec

\* A row is recorded as sent only if the push service accepted it, whatever answers are lost
\* (markNotificationSent).
THEOREM SentWasAccepted == Spec => []SentIsTrue
  BY RecordInvariance, PTL DEF RecordInv

\* A registration is invalidated only if the push service declared it gone, also when the
\* user renewed it while the answer was on its way (invalidateSubscriptionRegistration).
THEOREM InvalidWasGone == Spec => []InvalidIsGone
  BY RecordInvariance, PTL DEF RecordInv

\* An event whose producer finished was stored in a row, also when a claim won the row it
\* was to be coalesced into (sendNotificationToUser).
THEOREM FinishedIsStored == Spec => []EventKept
  BY RecordInvariance, PTL DEF RecordInv
=============================================================================
