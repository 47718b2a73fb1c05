------------------------- MODULE PushDeliveryClaims -------------------------
(***************************************************************************)
(* The claims of PushDelivery, for every set of events and heartbeats and  *)
(* every bound: whose outcome a row takes, what a worker sends, how many   *)
(* workers send a row at a time and how often.                             *)
(***************************************************************************)
EXTENDS PushDeliveryProofs

\* A row exists only after its producer inserted it.
RowIsInserted == \A e \in Events : prod[e].pc # "done" => row[e].status = "absent"

\* A deleted row has no claim.
DeletedIsUnclaimed == \A i \in Events : row[i].status = "deleted" => row[i].attempts = 0

\* A delivery carries a claim that its row has seen.
ClaimIsSeen ==
    \A p \in Procs :
        task[p] # Idle => LET i == task[p].id
                          IN /\ row[i].status # "absent"
                             /\ task[p].claim >= 1
                             /\ row[i].status = "deleted" \/ task[p].claim <= row[i].attempts

\* No two workers carry the same claim.
ClaimsDiffer ==
    \A p, q \in Procs :
        /\ task[p] # Idle /\ task[q] # Idle
        /\ task[p].id = task[q].id /\ task[p].claim = task[q].claim
        => p = q

ClaimInv ==
    /\ TypeInv
    /\ RowIsInserted /\ DeletedIsUnclaimed
    /\ ClaimIsSeen /\ ClaimsDiffer
    /\ ClaimIsOwn /\ ClaimedPayloadKept

\* Steps of a worker that leave the rows alone.
Goes(p) == Prepare(p) \/ Preflight(p) \/ Post(p) \/ Answer(p) \/ PreflightThrows(p) \/ Crash(p)

\* Such a step keeps the worker's delivery or ends it.
LEMMA GoesIs ==
    ASSUME TypeInv, NEW p \in Procs, Goes(p)
    PROVE  /\ UNCHANGED <<row, prod, stalled>>
           /\ task[p] # Idle
           /\ \E u \in Task : /\ task' = [task EXCEPT ![p] = u]
                              /\ u # Idle => Same(u, task[p])
  <1>0. TypeOK /\ Idle \in Task /\ Delivery \subseteq Task
    BY DEF TypeInv, Task
  <1>1. task[p] # Idle
    BY <1>0, AtWork DEF Goes, Prepare, Preflight, Post, Answer, PreflightThrows, Crash
  <1>2. task[p] \in Delivery
    BY <1>0, <1>1, Busy DEF TypeOK
  <1>3. \A g \in Nat, s \in Result :
           Prepared(task[p], g, s) \in Task /\ Same(Prepared(task[p], g, s), task[p])
    BY <1>0, <1>2, PreparedTask
  <1>4. \A s \in Result : Settled(task[p], s) \in Task /\ Same(Settled(task[p], s), task[p])
    BY <1>0, <1>2, SettledTask
  <1>5. \A b \in BOOLEAN : Posted(task[p], b) \in Task /\ Same(Posted(task[p], b), task[p])
    BY <1>0, <1>2, PostedTask
  <1>6. Cleared(task[p]) \in Task /\ Same(Cleared(task[p]), task[p])
    BY <1>0, <1>2, ClearedTask
  <1>7. CASE Prepare(p)
    BY <1>0, <1>1, <1>3, <1>7, PrepareIs DEF ghosts
  <1>8. CASE Preflight(p)
    BY <1>0, <1>1, <1>4, <1>6, <1>8, PreflightIs DEF ghosts, Result
  <1>9. CASE Post(p)
    BY <1>0, <1>1, <1>4, <1>5, <1>9, PostIs DEF Result
  <1>10. CASE Answer(p)
    BY <1>0, <1>1, <1>4, <1>10, AnswerIs DEF Result
  <1>11. CASE PreflightThrows(p) \/ Crash(p)
    BY <1>0, <1>1, <1>11, DropIs DEF ghosts
  <1> QED BY <1>7, <1>8, <1>9, <1>10, <1>11 DEF Goes

\* A worker's step that leaves the rows alone keeps the claims.
LEMMA GoesKeeps ==
    ASSUME ClaimInv, NEW p \in Procs, Goes(p)
    PROVE  ClaimInv'
  <1>0. TypeInv /\ TypeOK
    BY DEF ClaimInv, TypeInv
  <1>1. TypeInv'
    BY <1>0, DeliverType DEF Goes, Deliver
  <1>2. PICK u \in Task : task' = [task EXCEPT ![p] = u] /\ (u # Idle => Same(u, task[p]))
    BY <1>0, GoesIs
  <1>3. task'[p] = u /\ \A q \in Procs \ {p} : task'[q] = task[q]
    BY <1>0, <1>2, TaskType DEF TypeOK
  <1>4. \A q \in Procs : task'[q] # Idle => task[q] # Idle /\ Same(task'[q], task[q])
    BY <1>0, <1>2, <1>3, GoesIs DEF Same
  <1>5. UNCHANGED <<row, prod>>
    BY <1>0, GoesIs
  <1>6. RowIsInserted' /\ DeletedIsUnclaimed'
    BY <1>5 DEF ClaimInv, RowIsInserted, DeletedIsUnclaimed
  <1>7. ClaimIsSeen' /\ ClaimIsOwn' /\ ClaimedPayloadKept'
    BY <1>4, <1>5 DEF ClaimInv, ClaimIsSeen, ClaimIsOwn, ClaimedPayloadKept, Same
  <1>8. ClaimsDiffer'
    BY <1>4 DEF ClaimInv, ClaimsDiffer, Same
  <1> QED BY <1>1, <1>6, <1>7, <1>8 DEF ClaimInv

\* An outcome keeps the claims: only its own claim is given up, and nobody else has it.
LEMMA MarkKeeps ==
    ASSUME ClaimInv, NEW p \in Procs, Mark(p)
    PROVE  ClaimInv'
  <1>0. TypeInv /\ TypeOK
    BY DEF ClaimInv, TypeInv
  <1>1. TypeInv'
    BY <1>0, DeliverType DEF Deliver
  <1>2. task[p] \in Delivery /\ task[p] # Idle /\ task' = [task EXCEPT ![p] = Idle]
    BY <1>0, MarkIs, Busy DEF TypeOK
  <1>3. task'[p] = Idle /\ \A q \in Procs \ {p} : task'[q] = task[q]
    BY <1>0, <1>2 DEF TypeOK
  <1>4. UNCHANGED prod
    BY <1>0, MarkIs
  <1>5. ClaimsDiffer'
    BY <1>3 DEF ClaimInv, ClaimsDiffer
  <1>6. CASE row' = row
    BY <1>1, <1>3, <1>4, <1>5, <1>6 DEF ClaimInv, RowIsInserted, DeletedIsUnclaimed, ClaimIsSeen,
       ClaimIsOwn, ClaimedPayloadKept
  <1>7. CASE Holds(task[p]) /\ row' = [row EXCEPT ![task[p].id] = Outcome(task[p])]
    <2> DEFINE x == task[p].id
               o == Outcome(task[p])
    <2>1. x \in Events /\ task[p].claim = row[x].attempts /\ row[x].status = "pending"
      BY <1>2, <1>7 DEF Holds, Delivery
    <2>2. /\ o.attempts = row[x].attempts /\ o.payload = row[x].payload
          /\ o.status \in {"pending", "sent", "failed", "expired"}
      BY <1>0, <1>2, <2>1, MarkIs, OutcomeRow DEF TypeOK
    <2>3. row'[x] = o /\ \A i \in Events \ {x} : row'[i] = row[i]
      BY <1>0, <1>7, <2>1 DEF TypeOK
    <2> HIDE DEF x, o
    <2>4. RowIsInserted' /\ DeletedIsUnclaimed'
      BY <1>4, <2>1, <2>2, <2>3 DEF ClaimInv, RowIsInserted, DeletedIsUnclaimed
    <2>5. \A q \in Procs : task'[q] # Idle => task[q] # Idle /\ task'[q] = task[q] /\ q # p
      BY <1>3
    <2>6. \A q \in Procs : task[q] # Idle => task[q].id \in Events
      BY <1>0, Busy DEF TypeOK, Delivery
    <2>7. ClaimIsSeen' /\ ClaimedPayloadKept'
      BY <2>1, <2>2, <2>3, <2>5, <2>6 DEF ClaimInv, ClaimIsSeen, ClaimedPayloadKept
    <2>8. \A q \in Procs : task'[q] # Idle /\ task'[q].id = x => task'[q].claim # row'[x].attempts
      BY <1>2, <2>1, <2>2, <2>3, <2>5 DEF ClaimInv, ClaimsDiffer, x
    <2>9. ClaimIsOwn'
      BY <2>3, <2>5, <2>6, <2>8 DEF ClaimInv, ClaimIsOwn
    <2> QED BY <1>1, <1>5, <2>4, <2>7, <2>9 DEF ClaimInv
  <1> QED BY <1>0, <1>6, <1>7, MarkIs

\* A claim is newer than all the claims on its row.
LEMMA ClaimKeeps ==
    ASSUME ClaimInv, NEW p \in Procs, NEW i \in Events, Claim(p, i)
    PROVE  ClaimInv'
  <1>0. TypeInv /\ TypeOK
    BY DEF ClaimInv, TypeInv
  <1>1. TypeInv'
    BY <1>0, DeliverType
  <1>2. /\ row[i] \in Row /\ row[i].status = "pending" /\ row[i].attempts \in Nat
        /\ task[p] = Idle
    BY <1>0 DEF TypeOK, Row, Claim, Claimable
  <1>3. /\ row'[i].held /\ row'[i].attempts = row[i].attempts + 1
        /\ row'[i].status = "pending" /\ row'[i].payload = row[i].payload
        /\ \A j \in Events \ {i} : row'[j] = row[j]
    BY <1>0, <1>2, ClaimedRow DEF Claim, TypeOK
  <1>4. CopyOf(i) \in Task /\ CopyOf(i) # Idle /\ CopyOf(i).id = i
        /\ CopyOf(i).claim = row[i].attempts + 1 /\ CopyOf(i).payload = row[i].payload
    <2>1. CopyOf(i) \in Delivery
      BY <1>0, CopyOfRow DEF TypeOK
    <2> QED BY <2>1, Busy DEF CopyOf, Task
  <1>5. task'[p] = CopyOf(i) /\ \A q \in Procs \ {p} : task'[q] = task[q]
    BY <1>0, <1>4, TaskType DEF Claim, TypeOK
  <1>6. UNCHANGED prod
    BY DEF Claim
  <1>7. \A q \in Procs : task[q] # Idle =>
           /\ task[q].id \in Events /\ task[q].claim \in Nat
           /\ task[q].id = i => task[q].claim <= row[i].attempts
    BY <1>0, <1>2, Busy DEF TypeOK, Delivery, ClaimInv, ClaimIsSeen
  <1>8. RowIsInserted' /\ DeletedIsUnclaimed'
    BY <1>2, <1>3, <1>6 DEF ClaimInv, RowIsInserted, DeletedIsUnclaimed
  <1>9. ASSUME NEW q \in Procs, task'[q] # Idle
        PROVE  LET j == task'[q].id
               IN /\ row'[j].status # "absent" /\ task'[q].claim >= 1
                  /\ row'[j].status = "deleted" \/ task'[q].claim <= row'[j].attempts
                  /\ task'[q].claim = row'[j].attempts => row'[j].held
                  /\ task'[q].payload = row'[j].payload
    <2>1. CASE q = p
      BY <1>2, <1>3, <1>4, <1>5, <2>1
    <2>2. CASE q # p /\ task[q].id = i
      BY <1>2, <1>3, <1>5, <1>7, <1>9, <2>2 DEF ClaimInv, ClaimIsSeen, ClaimedPayloadKept
    <2>3. CASE q # p /\ task[q].id # i
      BY <1>3, <1>5, <1>7, <1>9, <2>3 DEF ClaimInv, ClaimIsSeen, ClaimIsOwn, ClaimedPayloadKept
    <2> QED BY <2>1, <2>2, <2>3
  <1>10. ClaimIsSeen' /\ ClaimIsOwn' /\ ClaimedPayloadKept'
    BY <1>9 DEF ClaimIsSeen, ClaimIsOwn, ClaimedPayloadKept
  <1>11. ClaimsDiffer'
    <2> SUFFICES ASSUME NEW q \in Procs, NEW s \in Procs,
                        task'[q] # Idle, task'[s] # Idle, task'[q].id = task'[s].id,
                        task'[q].claim = task'[s].claim, q # s
                 PROVE  FALSE
      BY DEF ClaimsDiffer
    <2>1. CASE q # p /\ s # p
      BY <1>5, <2>1 DEF ClaimInv, ClaimsDiffer
    <2>2. CASE q = p \/ s = p
      BY <1>2, <1>4, <1>5, <1>7, <2>2
    <2> QED BY <2>1, <2>2
  <1> QED BY <1>1, <1>8, <1>10, <1>11 DEF ClaimInv

\* A producer keeps the claims: it rewrites only rows that were never claimed.
LEMMA ProduceKeeps ==
    ASSUME ClaimInv, NEW e \in Events, Produce(e)
    PROVE  ClaimInv' /\ UNCHANGED <<task, stalled, faults>>
  <1>0. TypeInv /\ TypeOK
    BY DEF ClaimInv, TypeInv
  <1>1. TypeInv'
    BY <1>0, ProduceType
  <1>2. UNCHANGED <<task, stalled, faults>>
    BY DEF Produce, ProducerLists, ProducerFinds, ProducerUpdates, ProducerEnqueues, ghosts
  <1>3. ClaimsDiffer'
    BY <1>2 DEF ClaimInv, ClaimsDiffer
  <1>4. \A pc, s, ids : ProducerGoes(e, pc, s, ids) =>
           prod'[e].pc = pc /\ \A f \in Events \ {e} : prod'[f] = prod[f]
    BY <1>0 DEF ProducerGoes, TypeOK
  <1>5. \A pc : ProducerEnds(e, pc) =>
           prod'[e].pc = pc /\ \A f \in Events \ {e} : prod'[f] = prod[f]
    BY <1>4 DEF ProducerEnds
  <1>6. \A q \in Procs : task[q] # Idle => task[q].id \in Events /\ task[q].claim \in Nat
    BY <1>0, Busy DEF TypeOK, Delivery
  <1>7. prod[e].pc # "done" /\ row[e].status = "absent"
    <2>1. prod[e].pc # "done"
      BY DEF Produce, ProducerLists, ProducerFinds, ProducerUpdates, ProducerEnqueues
    <2> QED BY <2>1 DEF ClaimInv, RowIsInserted
  <1>8. CASE ProducerLists(e) \/ ProducerFinds(e)
    <2>1. UNCHANGED row
      BY <1>8 DEF ProducerLists, ProducerFinds
    <2>2. \A f \in Events \ {e} : prod'[f] = prod[f]
      BY <1>4, <1>5, <1>8 DEF ProducerLists, ProducerFinds
    <2>3. RowIsInserted'
      BY <1>7, <2>1, <2>2 DEF ClaimInv, RowIsInserted
    <2> QED BY <1>1, <1>2, <1>3, <2>1, <2>3 DEF ClaimInv, DeletedIsUnclaimed, ClaimIsSeen,
               ClaimIsOwn, ClaimedPayloadKept
  <1>9. CASE ProducerUpdates(e)
    <2> DEFINE updated == {i \in prod[e].ids : Coalescible(i)}
    <2>1. /\ row' = [i \in Events |-> IF i \in updated THEN Rewritten(row[i], e) ELSE row[i]]
          /\ \/ ProducerEnds(e, "done") /\ AllUpdated(prod[e].ids)
             \/ ProducerGoes(e, "enqueue", prod[e].sub, {})
      BY <1>9 DEF ProducerUpdates
    <2>2. \A i \in Events : i \in updated =>
             row[i].status = "pending" /\ row[i].attempts = 0 /\ ~row[i].held
      BY DEF Coalescible
    <2>3. \A i \in Events : /\ row'[i].status = row[i].status /\ row'[i].held = row[i].held
                            /\ row'[i].attempts = row[i].attempts
                            /\ i \notin updated => row'[i].payload = row[i].payload
      BY <1>0, <2>1, RewrittenRow DEF TypeOK
    <2>4. \A q \in Procs : task[q] # Idle => task[q].id \notin updated
      BY <1>6, <2>2 DEF ClaimInv, ClaimIsSeen
    <2>5. \A f \in Events \ {e} : prod'[f] = prod[f]
      BY <1>4, <1>5, <2>1
    <2> HIDE DEF updated
    <2>6. RowIsInserted' /\ DeletedIsUnclaimed'
      BY <1>7, <2>3, <2>5 DEF ClaimInv, RowIsInserted, DeletedIsUnclaimed
    <2>7. ClaimIsSeen' /\ ClaimIsOwn' /\ ClaimedPayloadKept'
      BY <1>2, <1>6, <2>3, <2>4 DEF ClaimInv, ClaimIsSeen, ClaimIsOwn, ClaimedPayloadKept
    <2> QED BY <1>1, <1>2, <1>3, <2>6, <2>7 DEF ClaimInv
  <1>10. CASE ProducerEnqueues(e)
    <2>1. \/ UNCHANGED row /\ prod'[e].pc = "skipped"
          \/ row' = [row EXCEPT ![e] = Queued(e, prod[e].sub)] /\ prod'[e].pc = "done"
      BY <1>5, <1>10 DEF ProducerEnqueues
    <2>2. \A f \in Events \ {e} : prod'[f] = prod[f]
      BY <1>5, <1>10 DEF ProducerEnqueues
    <2>3. Queued(e, prod[e].sub).status = "pending"
      BY <1>0, QueuedRow DEF TypeOK, Producer
    <2>4. /\ \A i \in Events \ {e} : row'[i] = row[i]
          /\ row'[e].status # "absent" => prod'[e].pc = "done"
          /\ row'[e].status \in {"absent", "pending"}
      BY <1>0, <1>7, <2>1, <2>3 DEF TypeOK
    <2>5. \A q \in Procs : task[q] # Idle => task[q].id # e
      BY <1>7 DEF ClaimInv, ClaimIsSeen
    <2>6. RowIsInserted' /\ DeletedIsUnclaimed'
      BY <2>2, <2>4 DEF ClaimInv, RowIsInserted, DeletedIsUnclaimed
    <2>7. ClaimIsSeen' /\ ClaimIsOwn' /\ ClaimedPayloadKept'
      BY <1>2, <1>6, <2>4, <2>5 DEF ClaimInv, ClaimIsSeen, ClaimIsOwn, ClaimedPayloadKept
    <2> QED BY <1>1, <1>2, <1>3, <2>6, <2>7 DEF ClaimInv
  <1> QED BY <1>2, <1>8, <1>9, <1>10 DEF Produce

\* What the other steps leave of a row.
KeptRow(i) == /\ row'[i].status = row[i].status /\ row'[i].held = row[i].held
              /\ row'[i].attempts = row[i].attempts /\ row'[i].payload = row[i].payload

RemovedRow(i) == /\ row[i].status # "absent" /\ row'[i].status = "deleted"
                 /\ row'[i].attempts = 0 /\ row'[i].payload = row[i].payload

\* Steps of the user and of the retention, and a row's expiry.
Rest == \/ Register \/ Unsubscribe \/ \E g \in cleanups : Invalidate(g)
        \/ \E i \in Events : DeleteHistory(i) \/ LifeEnds(i)

LEMMA RestIs ==
    ASSUME TypeOK, Rest
    PROVE  /\ UNCHANGED <<prod, task, stalled, faults>>
           /\ \A i \in Events : RemovedRow(i) \/ (KeptRow(i) /\ row'[i].next = row[i].next)
  <1>1. UNCHANGED <<prod, task, stalled, faults>>
    BY DEF Rest, Register, Unsubscribe, Invalidate, DeleteHistory, LifeEnds, ghosts
  <1>2. CASE Register \/ \E g \in cleanups : Invalidate(g)
    BY <1>1, <1>2 DEF Register, Invalidate, KeptRow
  <1>3. CASE Unsubscribe
    BY <1>1, <1>3, DeletedRowIs DEF Unsubscribe, KeptRow, RemovedRow, TypeOK
  <1>4. ASSUME NEW i \in Events, DeleteHistory(i)
        PROVE  \A j \in Events : RemovedRow(j) \/ (KeptRow(j) /\ row'[j].next = row[j].next)
    BY <1>4, DeletedRowIs DEF DeleteHistory, KeptRow, RemovedRow, TypeOK
  <1>5. ASSUME NEW i \in Events, LifeEnds(i)
        PROVE  \A j \in Events : RemovedRow(j) \/ (KeptRow(j) /\ row'[j].next = row[j].next)
    <2>1. \A r \in Row : LET c == [r EXCEPT !.life = "over"]
                         IN /\ c.status = r.status /\ c.held = r.held /\ c.attempts = r.attempts
                            /\ c.payload = r.payload /\ c.next = r.next
      BY DEF Row
    <2>2. row' = [row EXCEPT ![i] = [row[i] EXCEPT !.life = "over"]]
      BY <1>5 DEF LifeEnds
    <2> QED BY <2>1, <2>2 DEF KeptRow, TypeOK
  <1> QED BY <1>1, <1>2, <1>3, <1>4, <1>5 DEF Rest

\* How time changes a row.
LEMMA NextAttemptIs ==
    ASSUME TypeOK, NEW i \in Events, NextAttemptNears(i)
    PROVE  /\ UNCHANGED <<prod, task>>
           /\ row[i].status = "pending"
           /\ \A j \in Events : KeptRow(j) /\ (j # i => row'[j].next = row[j].next)
           /\ \/ row'[i].next = "short" /\ UNCHANGED <<stalled, faults>>
              \/ /\ row'[i].next = "due"
                 /\ \/ (Workers(i) = {} \/ ~row[i].held) /\ UNCHANGED <<stalled, faults>>
                    \/ /\ faults' = faults + 1
                       /\ \/ stalled' /\ \E p \in Workers(i) : task[p].ample
                          \/ UNCHANGED stalled /\ ~\E p \in Workers(i) : task[p].ample
  <1>1. (UNCHANGED <<prod, task>>) /\ row[i].status = "pending"
    BY DEF NextAttemptNears
  <1>2. \A r \in Row, n \in {"short", "due"} :
           LET c == [r EXCEPT !.next = n]
           IN /\ c.status = r.status /\ c.held = r.held /\ c.attempts = r.attempts
              /\ c.payload = r.payload /\ c.next = n
    BY DEF Row
  <1>3. row[i] \in Row /\ row \in [Events -> Row]
    BY DEF TypeOK
  <1>4. CASE row' = [row EXCEPT ![i].next = "short"] /\ UNCHANGED <<stalled, faults>>
    <2>1. row' = [row EXCEPT ![i] = [row[i] EXCEPT !.next = "short"]]
      BY <1>4
    <2> QED BY <1>1, <1>2, <1>3, <1>4, <2>1 DEF KeptRow
  <1>5. CASE /\ row' = [row EXCEPT ![i].next = "due"]
             /\ IF Workers(i) = {} \/ ~row[i].held THEN UNCHANGED <<stalled, faults>>
                ELSE IF \E p \in Workers(i) : task[p].ample THEN Fault("stall") /\ stalled' = TRUE
                ELSE Fault("slow") /\ UNCHANGED stalled
    <2>1. row' = [row EXCEPT ![i] = [row[i] EXCEPT !.next = "due"]]
      BY <1>5
    <2>2. (\A j \in Events : KeptRow(j) /\ (j # i => row'[j].next = row[j].next))
          /\ row'[i].next = "due"
      BY <1>2, <1>3, <2>1 DEF KeptRow
    <2> QED BY <1>1, <1>5, <2>2 DEF Fault
  <1> QED BY <1>4, <1>5 DEF NextAttemptNears

\* The rest and time keep the claims.
LEMMA RestKeeps ==
    ASSUME ClaimInv, Rest \/ \E i \in Events : NextAttemptNears(i)
    PROVE  ClaimInv'
  <1>0. TypeInv /\ TypeOK
    BY DEF ClaimInv, TypeInv
  <1>1. TypeInv'
    BY <1>0, RestType DEF Rest
  <1>2. (UNCHANGED <<prod, task>>) /\ \A i \in Events : RemovedRow(i) \/ KeptRow(i)
    BY <1>0, RestIs, NextAttemptIs
  <1>3. \A q \in Procs : task[q] # Idle => task[q].id \in Events /\ task[q].claim \in Nat
    BY <1>0, Busy DEF TypeOK, Delivery
  <1>4. RowIsInserted' /\ DeletedIsUnclaimed' /\ ClaimsDiffer'
    BY <1>2 DEF ClaimInv, RowIsInserted, DeletedIsUnclaimed, ClaimsDiffer, RemovedRow, KeptRow
  <1>5. ClaimIsSeen' /\ ClaimIsOwn' /\ ClaimedPayloadKept'
    BY <1>2, <1>3 DEF ClaimInv, ClaimIsSeen, ClaimIsOwn, ClaimedPayloadKept, RemovedRow, KeptRow
  <1> QED BY <1>1, <1>4, <1>5 DEF ClaimInv

\* Every step is one of those above.
LEMMA Steps ==
    ASSUME Next
    PROVE  \/ \E e \in Events : Produce(e) \/ NextAttemptNears(e)
           \/ \E p \in Procs : Goes(p) \/ Mark(p) \/ \E i \in Events : Claim(p, i)
           \/ Rest
  BY DEF Next, Goes, Deliver, Rest

\* The claims are kept apart from the start.
LEMMA ClaimInit == Init => ClaimInv
  <1> SUFFICES ASSUME Init PROVE ClaimInv
    OBVIOUS
  <1>1. TypeInv
    BY InitType
  <1>2. RowIsInserted /\ DeletedIsUnclaimed
    BY DEF Init, NoRow, RowIsInserted, DeletedIsUnclaimed
  <1>3. ClaimIsSeen /\ ClaimsDiffer /\ ClaimIsOwn /\ ClaimedPayloadKept
    BY DEF Init, ClaimIsSeen, ClaimsDiffer, ClaimIsOwn, ClaimedPayloadKept
  <1> QED BY <1>1, <1>2, <1>3 DEF ClaimInv

LEMMA ClaimNext == ClaimInv /\ [Next]_vars => ClaimInv'
  <1> SUFFICES ASSUME ClaimInv, [Next]_vars PROVE ClaimInv'
    OBVIOUS
  <1>1. CASE UNCHANGED vars
    <2>1. TypeInv'
      BY <1>1, NextType DEF ClaimInv
    <2> QED BY <1>1, <2>1 DEF vars, ClaimInv, RowIsInserted, DeletedIsUnclaimed, ClaimIsSeen,
               ClaimsDiffer, ClaimIsOwn, ClaimedPayloadKept
  <1>2. CASE Next
    BY <1>2, Steps, ProduceKeeps, GoesKeeps, MarkKeeps, ClaimKeeps, RestKeeps
  <1> QED BY <1>1, <1>2

LEMMA ClaimInvariance == Spec => []ClaimInv
  BY ClaimInit, ClaimNext, PTL DEF Spec

\* A claim ends by its own worker's outcome or by a newer claim, never by a late outcome of
\* an older one (the token in markNotificationSent and markNotificationFailed).
THEOREM OutcomeIsOwn == Spec => []ClaimIsOwn
  BY ClaimInvariance, PTL DEF ClaimInv

\* What a worker sends is what its row says (attempts = 0 in updatePendingNotificationPayload).
THEOREM SentPayloadIsCurrent == Spec => []ClaimedPayloadKept
  BY ClaimInvariance, PTL DEF ClaimInv

-----------------------------------------------------------------------------
(* One sender at a time.                                                   *)

\* Without a stall, a delivery that passed its preflight has the claim of a waiting row.
ClearedIsOwn ==
    ~stalled => \A p \in Procs :
        task[p] # Idle /\ task[p].ample =>
            LET i == task[p].id
            IN \/ row[i].status = "deleted"
               \/ /\ row[i].status = "pending" /\ row[i].held /\ row[i].next # "due"
                  /\ task[p].claim = row[i].attempts

\* Without a stall, one delivery of a row at most has passed its preflight.
OneCleared ==
    ~stalled => \A p, q \in Procs :
        /\ task[p] # Idle /\ task[q] # Idle
        /\ task[p].ample /\ task[q].ample /\ task[p].id = task[q].id
        => p = q

\* Only a delivery that passed its preflight sends.
SenderIsCleared == \A p \in Procs : task[p].pc \in {"post", "answer"} => task[p].ample

ClearInv == ClaimInv /\ ClearedIsOwn /\ OneCleared /\ SenderIsCleared

\* What a producer's step leaves of the rows.
LEMMA ProduceRows ==
    ASSUME ClaimInv, NEW e \in Events, Produce(e)
    PROVE  \A i \in Events :
              \/ /\ row'[i].status = row[i].status /\ row'[i].held = row[i].held
                 /\ row'[i].attempts = row[i].attempts /\ row'[i].next = row[i].next
              \/ /\ row[i].status = "absent" /\ row'[i].status = "pending"
                 /\ ~row'[i].held /\ row'[i].attempts = 0
  <1>0. TypeOK
    BY DEF ClaimInv, TypeInv
  <1>1. CASE ProducerLists(e) \/ ProducerFinds(e)
    BY <1>1 DEF ProducerLists, ProducerFinds
  <1>2. CASE ProducerUpdates(e)
    BY <1>0, <1>2, RewrittenRow DEF ProducerUpdates, TypeOK
  <1>3. CASE ProducerEnqueues(e)
    <2>1. row[e].status = "absent"
      BY <1>3 DEF ProducerEnqueues, ClaimInv, RowIsInserted
    <2>2. prod[e].sub \in Nat
      BY <1>0 DEF TypeOK, Producer
    <2> QED BY <1>0, <1>3, <2>1, <2>2, QueuedRow DEF ProducerEnqueues, TypeOK
  <1> QED BY <1>1, <1>2, <1>3 DEF Produce

\* A delivery passes its preflight with a claim that holds, and sends only then.
LEMMA GoesCleared ==
    ASSUME TypeInv, SenderIsCleared, NEW p \in Procs, Goes(p)
    PROVE  \E u \in Task :
              /\ task' = [task EXCEPT ![p] = u]
              /\ u # Idle => /\ Same(u, task[p])
                             /\ u.ample => task[p].ample \/ Holds(task[p])
                             /\ u.pc \in {"post", "answer"} => u.ample
              /\ u = Idle => u.pc = "idle"
  <1>0. TypeOK /\ Idle \in Task /\ Idle.pc = "idle" /\ Delivery \subseteq Task
    BY DEF TypeInv, Task, Idle
  <1>2. task[p] \in Delivery
    BY <1>0, GoesIs, Busy DEF TypeOK
  <1>3. \A g \in Nat, s \in Result :
           LET u == Prepared(task[p], g, s)
           IN u \in Task /\ u # Idle /\ Same(u, task[p]) /\ u.ample = task[p].ample /\ u.pc = "preflight"
    BY <1>0, <1>2, PreparedTask
  <1>4. \A s \in Result :
           LET u == Settled(task[p], s)
           IN u \in Task /\ u # Idle /\ Same(u, task[p]) /\ u.ample = task[p].ample /\ u.pc = "mark"
    BY <1>0, <1>2, SettledTask
  <1>5. \A b \in BOOLEAN :
           LET u == Posted(task[p], b)
           IN u \in Task /\ u # Idle /\ Same(u, task[p]) /\ u.ample = task[p].ample
    BY <1>0, <1>2, PostedTask
  <1>6. LET u == Cleared(task[p])
        IN u \in Task /\ u # Idle /\ Same(u, task[p]) /\ u.ample = (row[task[p].id].next = "ample")
    BY <1>0, <1>2, ClearedTask
  <1>7. CASE Prepare(p)
    <2>1. PICK g \in Nat, s \in Result : task' = [task EXCEPT ![p] = Prepared(task[p], g, s)]
      BY <1>0, <1>7, PrepareIs
    <2> QED BY <1>3, <2>1
  <1>8. CASE Preflight(p)
    <2>1. CASE task' = [task EXCEPT ![p] = Idle]
      BY <1>0, <2>1
    <2>2. CASE /\ Holds(task[p]) /\ row[task[p].id].next = "ample"
               /\ task' = [task EXCEPT ![p] = Cleared(task[p])]
      BY <1>6, <2>2
    <2>3. CASE \E s \in {"expired", "retry", "failed"} :
                  task' = [task EXCEPT ![p] = Settled(task[p], s)]
      <3>1. PICK s \in {"expired", "retry", "failed"} :
                  task' = [task EXCEPT ![p] = Settled(task[p], s)]
        BY <2>3
      <3>2. s \in Result
        BY DEF Result
      <3> QED BY <1>4, <3>1, <3>2
    <2> QED BY <1>8, <2>1, <2>2, <2>3, PreflightIs
  <1>9. CASE Post(p)
    <2>1. task[p].ample
      BY <1>9 DEF Post, SenderIsCleared
    <2>2. CASE \E b \in BOOLEAN : task' = [task EXCEPT ![p] = Posted(task[p], b)]
      BY <1>5, <2>1, <2>2
    <2>3. CASE \E s \in {"failed", "retry"} : task' = [task EXCEPT ![p] = Settled(task[p], s)]
      <3>1. PICK s \in {"retry", "failed"} : task' = [task EXCEPT ![p] = Settled(task[p], s)]
        BY <2>3
      <3>2. s \in Result
        BY DEF Result
      <3> QED BY <1>4, <3>1, <3>2
    <2> QED BY <1>0, <1>9, <2>2, <2>3, PostIs
  <1>10. CASE Answer(p)
    <2>1. PICK s \in {"sent", "failed", "retry", "expired"} :
             task' = [task EXCEPT ![p] = Settled(task[p], s)]
      BY <1>0, <1>10, AnswerIs
    <2>2. s \in Result
      BY DEF Result
    <2> QED BY <1>4, <2>1, <2>2
  <1>11. CASE PreflightThrows(p) \/ Crash(p)
    BY <1>0, <1>11, DropIs
  <1> QED BY <1>7, <1>8, <1>9, <1>10, <1>11 DEF Goes

LEMMA GoesClear ==
    ASSUME ClearInv, NEW p \in Procs, Goes(p)
    PROVE  ClearInv'
  <1>0. TypeInv /\ TypeOK /\ SenderIsCleared
    BY DEF ClearInv, ClaimInv, TypeInv
  <1>1. ClaimInv'
    BY GoesKeeps DEF ClearInv
  <1>2. PICK u \in Task :
              /\ task' = [task EXCEPT ![p] = u]
              /\ u # Idle => /\ Same(u, task[p])
                             /\ u.ample => task[p].ample \/ Holds(task[p])
                             /\ u.pc \in {"post", "answer"} => u.ample
              /\ u = Idle => u.pc = "idle"
    BY <1>0, GoesCleared
  <1>3. task'[p] = u /\ \A q \in Procs \ {p} : task'[q] = task[q]
    BY <1>0, <1>2, TaskType DEF TypeOK
  <1>4. (UNCHANGED <<row, stalled>>) /\ task[p] # Idle
    BY <1>0, GoesIs
  <1>5. SenderIsCleared'
    BY <1>0, <1>2, <1>3 DEF SenderIsCleared
  <1>6. ClearedIsOwn'
    BY <1>2, <1>3, <1>4 DEF ClearInv, ClearedIsOwn, Same, Holds
  <1>7. OneCleared'
    <2> SUFFICES ASSUME ~stalled, NEW q \in Procs, q # p, u # Idle, task[q] # Idle,
                        u.ample, task[q].ample, u.id = task[q].id
                 PROVE  FALSE
      BY <1>2, <1>3, <1>4 DEF ClearInv, OneCleared
    <2>1. u.id = task[p].id
      BY <1>2 DEF Same
    <2>2. CASE task[p].ample
      BY <1>4, <2>1, <2>2 DEF ClearInv, OneCleared
    <2>3. CASE Holds(task[p])
      <3>1. task[q].claim = task[p].claim
        BY <2>1, <2>3 DEF ClearInv, ClearedIsOwn, Holds
      <3> QED BY <1>4, <2>1, <3>1 DEF ClearInv, ClaimInv, ClaimsDiffer
    <2> QED BY <1>2, <2>2, <2>3
  <1> QED BY <1>1, <1>5, <1>6, <1>7 DEF ClearInv

LEMMA MarkClear ==
    ASSUME ClearInv, NEW p \in Procs, Mark(p)
    PROVE  ClearInv'
  <1>0. TypeInv /\ TypeOK /\ ClaimInv
    BY DEF ClearInv, ClaimInv, TypeInv
  <1>1. ClaimInv'
    BY <1>0, MarkKeeps
  <1>2. task[p] \in Delivery /\ task[p] # Idle /\ Idle.pc = "idle"
    BY <1>0, MarkIs, Busy DEF TypeOK, Idle
  <1>3. task'[p] = Idle /\ \A q \in Procs \ {p} : task'[q] = task[q]
    BY <1>0, <1>2, MarkIs DEF TypeOK
  <1>4. UNCHANGED stalled
    BY <1>0, MarkIs DEF ghosts
  <1>5. SenderIsCleared' /\ OneCleared'
    BY <1>2, <1>3, <1>4 DEF ClearInv, SenderIsCleared, OneCleared
  <1>6. CASE row' = row
    <2>1. ClearedIsOwn'
      BY <1>3, <1>4, <1>6 DEF ClearInv, ClearedIsOwn
    <2> QED BY <1>1, <1>5, <2>1 DEF ClearInv
  <1>7. CASE Holds(task[p]) /\ row' = [row EXCEPT ![task[p].id] = Outcome(task[p])]
    <2>1. \A q \in Procs : /\ ~stalled /\ q # p
                           /\ task[q] # Idle /\ task[q].ample
                           => task[q].id # task[p].id
      BY <1>2, <1>7 DEF ClearInv, ClearedIsOwn, Holds, ClaimInv, ClaimsDiffer
    <2>2. \A q \in Procs : task[q] # Idle => task[q].id \in Events
      BY <1>0, Busy DEF TypeOK, Delivery
    <2>3. \A i \in Events : i # task[p].id => row'[i] = row[i]
      BY <1>0, <1>7 DEF TypeOK
    <2>4. ClearedIsOwn'
      BY <1>3, <1>4, <2>1, <2>2, <2>3 DEF ClearInv, ClearedIsOwn
    <2> QED BY <1>1, <1>5, <2>4 DEF ClearInv
  <1> QED BY <1>0, <1>6, <1>7, MarkIs

LEMMA ClaimClear ==
    ASSUME ClearInv, NEW p \in Procs, NEW i \in Events, Claim(p, i)
    PROVE  ClearInv'
  <1>0. TypeInv /\ TypeOK /\ ClaimInv
    BY DEF ClearInv, ClaimInv, TypeInv
  <1>1. ClaimInv'
    BY <1>0, ClaimKeeps
  <1>2. CopyOf(i) \in Task /\ CopyOf(i).ample = FALSE /\ CopyOf(i).pc = "prepare"
    BY <1>0, CopyOfRow DEF TypeOK, CopyOf, Task
  <1>3. task'[p] = CopyOf(i) /\ \A q \in Procs \ {p} : task'[q] = task[q]
    BY <1>0, <1>2, TaskType DEF Claim, TypeOK
  <1>4. UNCHANGED stalled
    BY DEF Claim, ghosts
  <1>5. \A j \in Events : j # i => row'[j] = row[j]
    BY <1>0 DEF Claim, TypeOK
  <1>6. \A q \in Procs : ~stalled /\ task[q] # Idle /\ task[q].ample => task[q].id # i
    BY DEF Claim, Claimable, ClearInv, ClearedIsOwn
  <1>7. \A q \in Procs : task[q] # Idle => task[q].id \in Events
    BY <1>0, Busy DEF TypeOK, Delivery
  <1>8. SenderIsCleared' /\ OneCleared'
    BY <1>2, <1>3, <1>4 DEF ClearInv, SenderIsCleared, OneCleared
  <1>9. ClearedIsOwn'
    BY <1>2, <1>3, <1>4, <1>5, <1>6, <1>7 DEF ClearInv, ClearedIsOwn
  <1> QED BY <1>1, <1>8, <1>9 DEF ClearInv

\* Time lets the claim of a cleared delivery lapse only as a stall.
LEMMA RestClear ==
    ASSUME ClearInv, \/ Rest
                     \/ \E e \in Events : NextAttemptNears(e) \/ Produce(e)
    PROVE  ClearInv'
  <1>0. TypeInv /\ TypeOK /\ ClaimInv
    BY DEF ClearInv, ClaimInv, TypeInv
  <1>1. ClaimInv' /\ UNCHANGED task
    BY <1>0, RestKeeps, ProduceKeeps, RestIs, NextAttemptIs
  <1>2. \A q \in Procs : task[q] # Idle => task[q].id \in Events /\ row[task[q].id].status # "absent"
    BY <1>0, Busy DEF TypeOK, Delivery, ClaimInv, ClaimIsSeen
  <1>3. ~stalled' => ~stalled
    BY <1>0, RestIs, NextAttemptIs, ProduceKeeps
  <1>4. SenderIsCleared' /\ OneCleared'
    BY <1>1, <1>3 DEF ClearInv, SenderIsCleared, OneCleared
  <1>5. ASSUME NEW q \in Procs, task[q] # Idle, task[q].ample, ~stalled'
        PROVE  LET i == task[q].id
               IN \/ row'[i].status = "deleted"
                  \/ /\ row'[i].status = "pending" /\ row'[i].held /\ row'[i].next # "due"
                     /\ task[q].claim = row'[i].attempts
    <2> DEFINE i == task[q].id
    <2>0. i \in Events /\ row[i].status # "absent"
      BY <1>2, <1>5
    <2>1. \/ row[i].status = "deleted"
          \/ /\ row[i].status = "pending" /\ row[i].held /\ row[i].next # "due"
             /\ task[q].claim = row[i].attempts
      BY <1>3, <1>5 DEF ClearInv, ClearedIsOwn
    <2>2. CASE Rest
      <3>1. RemovedRow(i) \/ (KeptRow(i) /\ row'[i].next = row[i].next)
        BY <1>0, <2>0, <2>2, RestIs
      <3> QED BY <2>1, <3>1 DEF RemovedRow, KeptRow
    <2>3. ASSUME NEW e \in Events, Produce(e)
          PROVE  /\ row'[i].status = row[i].status /\ row'[i].held = row[i].held
                 /\ row'[i].attempts = row[i].attempts /\ row'[i].next = row[i].next
      BY <1>0, <2>0, <2>3, ProduceRows
    <2>4. ASSUME NEW e \in Events, NextAttemptNears(e)
          PROVE  KeptRow(i) /\ (row[i].status = "pending" => row'[i].next # "due")
      <3>1. KeptRow(i) /\ (i # e => row'[i].next = row[i].next) /\ row[e].status = "pending"
        BY <1>0, <2>0, <2>4, NextAttemptIs
      <3>2. i = e => row'[i].next # "due"
        <4> SUFFICES ASSUME i = e, row'[i].next = "due" PROVE FALSE
          OBVIOUS
        <4>1. q \in Workers(e) /\ row[e].held
          BY <1>5, <2>1, <3>1 DEF Workers
        <4>2. stalled'
          BY <1>0, <1>5, <2>4, <4>1, NextAttemptIs
        <4> QED BY <1>5, <4>2
      <3> QED BY <2>1, <3>1, <3>2
    <2> HIDE DEF i
    <2>5. \/ row'[i].status = "deleted"
          \/ /\ row'[i].status = "pending" /\ row'[i].held /\ row'[i].next # "due"
             /\ task[q].claim = row'[i].attempts
      BY <2>1, <2>2, <2>3, <2>4 DEF KeptRow, i
    <2> QED BY <2>5 DEF i
  <1>6. ClearedIsOwn'
    BY <1>1, <1>5 DEF ClearedIsOwn
  <1> QED BY <1>1, <1>4, <1>6 DEF ClearInv

\* Two workers send one row at the same time only after a stall: the preflight asks for the
\* transport and its reserve, and no other worker can claim the row before they are used up.
THEOREM OneSenderAtATime == Spec => []OneSender
  <1>1. Init => ClearInv
    BY ClaimInit DEF Init, Idle, ClearInv, ClearedIsOwn, OneCleared, SenderIsCleared
  <1>2. ClearInv /\ [Next]_vars => ClearInv'
    <2> SUFFICES ASSUME ClearInv, [Next]_vars PROVE ClearInv'
      OBVIOUS
    <2>1. CASE UNCHANGED vars
      <3>1. ClaimInv'
        BY <2>1, ClaimNext DEF ClearInv
      <3> QED BY <2>1, <3>1 DEF vars, ClearInv, ClearedIsOwn, OneCleared, SenderIsCleared
    <2>2. CASE Next
      BY <2>2, Steps, GoesClear, MarkClear, ClaimClear, RestClear
    <2> QED BY <2>1, <2>2
  <1>3. ClearInv => OneSender
    <2> SUFFICES ASSUME ClearInv, ~stalled, NEW p \in Procs, NEW q \in Procs,
                        task[p].pc \in {"post", "answer"}, task[q].pc \in {"post", "answer"},
                        task[p].id = task[q].id
                 PROVE  p = q
      BY DEF OneSender
    <2>1. task[p] # Idle /\ task[q] # Idle
      BY DEF Idle
    <2> QED BY <2>1 DEF ClearInv, SenderIsCleared, OneCleared
  <1> QED BY <1>1, <1>2, <1>3, PTL DEF Spec

-----------------------------------------------------------------------------
(* How often a row is claimed.                                             *)

\* A waiting row has an attempt left, and so has a claim that nobody can complete.
AttemptIsLeft ==
    \A i \in Events :
        row[i].status = "pending" =>
            /\ ~row[i].held => row[i].attempts < MaxAttempts
            /\ row[i].next = "due" \/ Workers(i) = {} => row[i].attempts < MaxAttempts + faults

BoundInv == ClaimInv /\ SendsBounded /\ AttemptIsLeft

\* The numbers are natural.
LEMMA Numbers ==
    ASSUME TypeOK
    PROVE  /\ faults \in Nat /\ MaxAttempts \in Nat /\ MaxAttempts > 0
           /\ \A i \in Events : row[i].attempts \in Nat
  <1>1. faults \in Nat /\ MaxAttempts \in Nat /\ MaxAttempts > 0
    BY PushAssumption DEF TypeOK
  <1>2. \A i \in Events : row[i].attempts \in Nat
    BY DEF TypeOK, Row
  <1> QED BY <1>1, <1>2

\* A worker that leaves its newest claim behind, without a lapse, leaves a fault behind.
LEMMA LeftBehind ==
    ASSUME BoundInv, NEW p \in Procs, Goes(p) \/ (Mark(p) /\ row' = row)
    PROVE  BoundInv'
  <1>0. TypeInv /\ TypeOK /\ TypeOK' /\ ClaimInv
    BY DeliverType DEF BoundInv, ClaimInv, TypeInv, Goes, Deliver
  <1>1. ClaimInv'
    BY <1>0, GoesKeeps, MarkKeeps
  <1>2. PICK u \in Task : task' = [task EXCEPT ![p] = u] /\ (u # Idle => Same(u, task[p]))
    BY <1>0, GoesIs, MarkIs DEF Task
  <1>3. task'[p] = u /\ \A q \in Procs \ {p} : task'[q] = task[q]
    BY <1>0, <1>2, TaskType DEF TypeOK
  <1>4. row' = row /\ task[p] # Idle
    BY <1>0, GoesIs, MarkIs, Busy DEF TypeOK
  <1>5. faults \in Nat /\ faults' \in Nat /\ faults' >= faults
    <2>1. faults' \in 0..MaxFaults
      BY <1>0 DEF TypeOK
    <2>2. faults' >= faults
      <3>1. CASE Prepare(p) \/ Mark(p)
        BY <1>0, <3>1, PrepareIs, MarkIs
      <3>2. CASE Preflight(p) \/ Post(p) \/ Answer(p)
        BY <1>0, <3>2, PreflightIs, PostIs, AnswerIs, Numbers
      <3>3. CASE PreflightThrows(p) \/ Crash(p)
        BY <1>0, <3>3, DropIs, Numbers
      <3> QED BY <3>1, <3>2, <3>3 DEF Goes
    <2> QED BY <1>0, <2>1, <2>2, Numbers, PushAssumption
  <1>6. u # Idle \/ faults' = faults + 1 \/ ~Holds(task[p])
    <2>1. CASE Prepare(p)
      <3>1. PICK g \in Nat, s \in Result : task' = [task EXCEPT ![p] = Prepared(task[p], g, s)]
        BY <1>0, <2>1, PrepareIs
      <3>2. Prepared(task[p], g, s) # Idle
        BY <1>0, <2>1, PrepareIs, PreparedTask DEF Idle
      <3> QED BY <1>0, <1>3, <3>1, <3>2 DEF TypeOK
    <2>2. CASE Preflight(p)
      <3>1. task[p] \in Delivery
        BY <1>0, <2>2, PreflightIs
      <3>2. Cleared(task[p]) # Idle /\ \A s \in {"expired", "retry", "failed"} : Settled(task[p], s) # Idle
        BY <3>1, ClearedTask, SettledTask DEF Idle, Result
      <3> QED BY <1>0, <1>3, <2>2, <3>2, PreflightIs DEF TypeOK
    <2>3. CASE Post(p)
      <3>1. task[p] \in Delivery
        BY <1>0, <2>3, PostIs
      <3>2. /\ \A b \in BOOLEAN : Posted(task[p], b) # Idle
            /\ \A s \in {"retry", "failed"} : Settled(task[p], s) # Idle
        BY <3>1, PostedTask, SettledTask DEF Idle, Result
      <3> QED BY <1>0, <1>3, <2>3, <3>2, PostIs DEF TypeOK
    <2>4. CASE Answer(p)
      <3>1. task[p] \in Delivery
        BY <1>0, <2>4, AnswerIs
      <3>2. \A s \in {"sent", "failed", "retry", "expired"} : Settled(task[p], s) # Idle
        BY <3>1, SettledTask DEF Idle, Result
      <3> QED BY <1>0, <1>3, <2>4, <3>2, AnswerIs DEF TypeOK
    <2>5. CASE PreflightThrows(p) \/ Crash(p)
      BY <1>0, <2>5, DropIs
    <2>6. CASE Mark(p) /\ row' = row
      <3>1. CASE ~Holds(task[p]) \/ Fault("query_error")
        BY <3>1 DEF Fault
      <3>2. CASE Holds(task[p]) /\ row' = [row EXCEPT ![task[p].id] = Outcome(task[p])]
        <4>1. task[p].id \in Events /\ row[task[p].id].held
          BY <1>0, <2>6, <3>2, MarkIs DEF Delivery, Holds
        <4>2. ~Outcome(task[p]).held
          BY <1>0, <2>6, MarkIs, OutcomeRow DEF TypeOK
        <4>3. row'[task[p].id] = Outcome(task[p])
          BY <1>0, <3>2, <4>1 DEF TypeOK
        <4> QED BY <2>6, <4>1, <4>2, <4>3
      <3> QED BY <1>0, <2>6, <3>1, <3>2, MarkIs
    <2> QED BY <2>1, <2>2, <2>3, <2>4, <2>5, <2>6 DEF Goes
  <1>7. SendsBounded'
    BY <1>0, <1>4, <1>5, Numbers DEF BoundInv, SendsBounded
  <1>8. ASSUME NEW i \in Events, row[i].status = "pending",
               row[i].next = "due" \/ Workers(i)' = {}
        PROVE  row[i].attempts < MaxAttempts + faults'
    <2>1. CASE row[i].next = "due" \/ Workers(i) = {}
      BY <1>0, <1>5, <1>8, <2>1, Numbers DEF BoundInv, AttemptIsLeft
    <2>2. CASE row[i].next # "due" /\ Workers(i) # {}
      <3>1. PICK q \in Procs : task[q] # Idle /\ task[q].id = i /\ task[q].claim = row[i].attempts
        BY <2>2 DEF Workers
      <3>2. task'[q] = Idle \/ task'[q].id # i \/ task'[q].claim # row[i].attempts
        BY <1>4, <1>8, <2>2 DEF Workers
      <3>3. q = p /\ u = Idle
        BY <1>2, <1>3, <3>1, <3>2 DEF Same
      <3>4. row[i].held
        BY <1>0, <3>1 DEF ClaimInv, ClaimIsOwn
      <3>5. Holds(task[p])
        BY <1>8, <2>2, <3>1, <3>3, <3>4 DEF Holds
      <3>6. faults' = faults + 1
        BY <1>6, <3>3, <3>5
      <3> QED BY <1>0, <1>5, <3>6, Numbers DEF BoundInv, SendsBounded
    <2> QED BY <2>1, <2>2
  <1>9. AttemptIsLeft'
    BY <1>4, <1>8 DEF BoundInv, AttemptIsLeft
  <1> QED BY <1>1, <1>7, <1>9 DEF BoundInv

\* An outcome keeps a row waiting only while an attempt is left.
LEMMA MarkBounds ==
    ASSUME BoundInv, NEW p \in Procs, Mark(p), row' # row
    PROVE  BoundInv'
  <1>0. TypeInv /\ TypeOK /\ TypeOK' /\ ClaimInv
    BY DeliverType DEF BoundInv, ClaimInv, TypeInv, Deliver
  <1>1. ClaimInv'
    BY <1>0, MarkKeeps
  <1>2. /\ task[p] \in Delivery /\ task[p].result # "none" /\ Holds(task[p])
        /\ row' = [row EXCEPT ![task[p].id] = Outcome(task[p])]
        /\ task' = [task EXCEPT ![p] = Idle]
    BY <1>0, MarkIs
  <1>3. /\ faults \in Nat /\ faults' \in Nat /\ faults' >= faults
        /\ MaxAttempts \in Nat /\ \A i \in Events : row[i].attempts \in Nat
    BY <1>0, Numbers, MarkIs, PushAssumption DEF TypeOK
  <1> DEFINE x == task[p].id
             o == Outcome(task[p])
  <1>4. x \in Events /\ row'[x] = o /\ \A i \in Events \ {x} : row'[i] = row[i]
    BY <1>0, <1>2 DEF TypeOK, Delivery
  <1>5. /\ ~o.held /\ o.attempts = row[x].attempts
        /\ o.status = "pending" => row[x].attempts < MaxAttempts
    <2>1. task[p].claim = row[x].attempts
      BY <1>2 DEF Holds
    <2> QED BY <1>0, <1>2, <2>1, OutcomeRow DEF TypeOK, Retries
  <1>6. \A i \in Events \ {x} : Workers(i)' = {} => Workers(i) = {}
    <2> SUFFICES ASSUME NEW i \in Events \ {x}, NEW q \in Procs, q \in Workers(i)
                 PROVE  q \in Workers(i)'
      BY DEF Workers
    <2>1. q # p /\ task'[q] = task[q]
      BY <1>0, <1>2 DEF Workers, TypeOK
    <2> QED BY <1>4, <2>1 DEF Workers
  <1> HIDE DEF x, o
  <1>7. SendsBounded'
    BY <1>3, <1>4, <1>5 DEF BoundInv, SendsBounded
  <1>8. \A i \in Events : row'[i].status = "pending" =>
           /\ ~row'[i].held => row'[i].attempts < MaxAttempts
           /\ row'[i].next = "due" \/ Workers(i)' = {} => row'[i].attempts < MaxAttempts + faults'
    <2>1. \A i \in Events \ {x} : row[i].status = "pending" =>
           /\ ~row[i].held => row[i].attempts < MaxAttempts
           /\ row[i].next = "due" \/ Workers(i)' = {} => row[i].attempts < MaxAttempts + faults'
      BY <1>3, <1>6 DEF BoundInv, AttemptIsLeft
    <2>2. row'[x].status = "pending" => /\ row'[x].attempts < MaxAttempts
                                        /\ row'[x].attempts < MaxAttempts + faults'
      BY <1>3, <1>4, <1>5
    <2> QED BY <1>4, <2>1, <2>2
  <1>9. AttemptIsLeft'
    BY <1>8 DEF AttemptIsLeft
  <1> QED BY <1>1, <1>7, <1>9 DEF BoundInv

\* A claim takes the attempt that is left.
LEMMA ClaimBounds ==
    ASSUME BoundInv, NEW p \in Procs, NEW i \in Events, Claim(p, i)
    PROVE  BoundInv'
  <1>0. TypeInv /\ TypeOK /\ ClaimInv
    BY DEF BoundInv, ClaimInv, TypeInv
  <1>1. ClaimInv'
    BY <1>0, ClaimKeeps
  <1>2. /\ faults' = faults /\ faults \in Nat /\ MaxAttempts \in Nat
        /\ \A j \in Events : row[j].attempts \in Nat
    BY <1>0, Numbers DEF Claim
  <1>3. row[i].attempts < MaxAttempts + faults
    BY <1>2 DEF Claim, Claimable, BoundInv, AttemptIsLeft
  <1>4. /\ row'[i].attempts = row[i].attempts + 1 /\ row'[i].held /\ row'[i].next = "ample"
        /\ \A j \in Events \ {i} : row'[j] = row[j]
    BY <1>0, ClaimedRow DEF Claim, TypeOK
  <1>5. task'[p] = CopyOf(i) /\ \A q \in Procs \ {p} : task'[q] = task[q]
    <2>1. CopyOf(i) \in Task
      BY <1>0, CopyOfRow DEF TypeOK, Task
    <2> QED BY <1>0, <2>1, TaskType DEF Claim, TypeOK
  <1>6. p \in Workers(i)'
    <2>1. CopyOf(i) # Idle
      BY <1>0, CopyOfRow, Busy DEF TypeOK, Task
    <2>2. CopyOf(i).id = i /\ CopyOf(i).claim = row[i].attempts + 1
      BY DEF CopyOf
    <2> QED BY <1>4, <1>5, <2>1, <2>2 DEF Workers
  <1>7. \A j \in Events \ {i} : Workers(j)' = {} => Workers(j) = {}
    <2> SUFFICES ASSUME NEW j \in Events \ {i}, NEW q \in Procs, q \in Workers(j)
                 PROVE  q \in Workers(j)'
      BY DEF Workers
    <2>1. q # p /\ task'[q] = task[q]
      BY <1>5 DEF Workers, Claim
    <2> QED BY <1>4, <2>1 DEF Workers
  <1>8. SendsBounded'
    BY <1>2, <1>3, <1>4 DEF BoundInv, SendsBounded
  <1>9. \A j \in Events : row'[j].status = "pending" =>
           /\ ~row'[j].held => row'[j].attempts < MaxAttempts
           /\ row'[j].next = "due" \/ Workers(j)' = {} => row'[j].attempts < MaxAttempts + faults'
    <2>1. ASSUME NEW j \in Events \ {i}, row[j].status = "pending"
          PROVE  /\ ~row[j].held => row[j].attempts < MaxAttempts
                 /\ row[j].next = "due" \/ Workers(j)' = {} => row[j].attempts < MaxAttempts + faults'
      BY <1>2, <1>7, <2>1 DEF BoundInv, AttemptIsLeft
    <2> QED BY <1>4, <1>6, <2>1
  <1>10. AttemptIsLeft'
    BY <1>9 DEF AttemptIsLeft
  <1> QED BY <1>1, <1>8, <1>10 DEF BoundInv

\* A claim that lapses under its worker is a fault.
LEMMA RestBounds ==
    ASSUME BoundInv, \/ Rest
                     \/ \E e \in Events : NextAttemptNears(e) \/ Produce(e)
    PROVE  BoundInv'
  <1>0. TypeInv /\ TypeOK /\ ClaimInv
    BY DEF BoundInv, ClaimInv, TypeInv
  <1>1. ClaimInv' /\ UNCHANGED task
    BY <1>0, RestKeeps, ProduceKeeps, RestIs, NextAttemptIs
  <1>2. /\ faults \in Nat /\ faults' \in Nat /\ faults' >= faults
        /\ MaxAttempts \in Nat /\ MaxAttempts > 0
        /\ \A j \in Events : row[j].attempts \in Nat
    <2>1. faults' = faults \/ faults' = faults + 1
      BY <1>0, RestIs, NextAttemptIs, ProduceKeeps
    <2> QED BY <1>0, <2>1, Numbers
  <1>3. \A i \in Events : row'[i].attempts = row[i].attempts => Workers(i)' = Workers(i)
    BY <1>1 DEF Workers
  <1> DEFINE Fine(i) ==
           /\ row'[i].attempts <= MaxAttempts + faults'
           /\ row'[i].status = "pending" =>
                 /\ ~row'[i].held => row'[i].attempts < MaxAttempts
                 /\ row'[i].next = "due" \/ Workers(i)' = {} => row'[i].attempts < MaxAttempts + faults'
  <1>4. ASSUME NEW i \in Events,
               /\ row'[i].status = row[i].status /\ row'[i].held = row[i].held
               /\ row'[i].attempts = row[i].attempts /\ row'[i].next = row[i].next
        PROVE  Fine(i)
    <2>1. Workers(i)' = Workers(i)
      BY <1>3, <1>4
    <2> QED BY <1>2, <1>4, <2>1 DEF BoundInv, SendsBounded, AttemptIsLeft
  <1>5. ASSUME NEW i \in Events, row'[i].attempts = 0
        PROVE  Fine(i)
    <2>0. \A m, n \in Nat : m > 0 => 0 <= m + n /\ 0 < m /\ 0 < m + n
      OBVIOUS
    <2>1. 0 <= MaxAttempts + faults' /\ 0 < MaxAttempts /\ 0 < MaxAttempts + faults'
      BY <1>2, <2>0
    <2> QED BY <1>5, <2>1
  <1> HIDE DEF Fine
  <1>6. ASSUME NEW e \in Events, NextAttemptNears(e)
        PROVE  Fine(e)
    <2>1. KeptRow(e) /\ row[e].status = "pending"
      BY <1>0, <1>6, NextAttemptIs
    <2>2. row'[e].attempts = row[e].attempts /\ row'[e].held = row[e].held /\ Workers(e)' = Workers(e)
      BY <1>3, <2>1 DEF KeptRow
    <2>3. /\ row[e].attempts <= MaxAttempts + faults
          /\ ~row[e].held => row[e].attempts < MaxAttempts
          /\ Workers(e) = {} => row[e].attempts < MaxAttempts + faults
      BY <2>1 DEF BoundInv, SendsBounded, AttemptIsLeft
    <2>4. row'[e].next = "due" => \/ Workers(e) = {} \/ ~row[e].held
                                  \/ faults' = faults + 1
      BY <1>0, <1>6, NextAttemptIs
    <2>5. row'[e].next = "due" => row[e].attempts < MaxAttempts + faults'
      <3>1. row[e].attempts \in Nat
        BY <1>2
      <3> QED BY <1>2, <2>3, <2>4, <3>1
    <2>6. /\ row[e].attempts <= MaxAttempts + faults'
          /\ Workers(e) = {} => row[e].attempts < MaxAttempts + faults'
      <3>1. row[e].attempts \in Nat
        BY <1>2
      <3> QED BY <1>2, <2>3, <3>1
    <2> QED BY <2>2, <2>3, <2>5, <2>6 DEF Fine
  <1>7. \A i \in Events : Fine(i)
    <2>1. CASE Rest
      <3> SUFFICES ASSUME NEW i \in Events PROVE Fine(i)
        OBVIOUS
      <3>1. RemovedRow(i) \/ (KeptRow(i) /\ row'[i].next = row[i].next)
        BY <1>0, <2>1, RestIs
      <3> QED BY <1>4, <1>5, <3>1 DEF RemovedRow, KeptRow
    <2>2. CASE \E e \in Events : Produce(e)
      <3> SUFFICES ASSUME NEW i \in Events PROVE Fine(i)
        OBVIOUS
      <3>1. \/ /\ row'[i].status = row[i].status /\ row'[i].held = row[i].held
               /\ row'[i].attempts = row[i].attempts /\ row'[i].next = row[i].next
            \/ row'[i].attempts = 0
        BY <1>0, <2>2, ProduceRows
      <3> QED BY <1>4, <1>5, <3>1
    <2>3. ASSUME NEW e \in Events, NextAttemptNears(e)
          PROVE  \A i \in Events : Fine(i)
      <3> SUFFICES ASSUME NEW i \in Events, i # e PROVE Fine(i)
        BY <1>6, <2>3
      <3>1. KeptRow(i) /\ row'[i].next = row[i].next
        BY <1>0, <2>3, NextAttemptIs
      <3> QED BY <1>4, <3>1 DEF KeptRow
    <2> QED BY <2>1, <2>2, <2>3
  <1>8. SendsBounded' /\ AttemptIsLeft'
    BY <1>7 DEF SendsBounded, AttemptIsLeft, Fine
  <1> QED BY <1>1, <1>8 DEF BoundInv

\* A row is claimed, and so sent, at most maxAttempts times and once more for each fault that
\* lost an outcome: an attempt is spent by the claim, before anything is sent
\* (claimPendingNotifications, getOutcome).
THEOREM SendsAreBounded == Spec => []SendsBounded
  <1>1. Init => BoundInv
    <2> SUFFICES ASSUME Init PROVE BoundInv
      OBVIOUS
    <2>1. ClaimInv
      BY ClaimInit
    <2>2. \A i \in Events : row[i].attempts = 0 /\ row[i].status = "absent"
      BY DEF Init, NoRow
    <2>3. faults = 0 /\ MaxAttempts \in Nat
      BY PushAssumption DEF Init
    <2> QED BY <2>1, <2>2, <2>3 DEF BoundInv, SendsBounded, AttemptIsLeft
  <1>2. BoundInv /\ [Next]_vars => BoundInv'
    <2> SUFFICES ASSUME BoundInv, [Next]_vars PROVE BoundInv'
      OBVIOUS
    <2>1. CASE UNCHANGED vars
      <3>1. ClaimInv'
        BY <2>1, ClaimNext DEF BoundInv
      <3> QED BY <2>1, <3>1 DEF vars, BoundInv, SendsBounded, AttemptIsLeft, Workers
    <2>2. CASE Next
      BY <2>2, Steps, LeftBehind, MarkBounds, ClaimBounds, RestBounds
    <2> QED BY <2>1, <2>2
  <1>3. BoundInv => SendsBounded
    BY DEF BoundInv
  <1> QED BY <1>1, <1>2, <1>3, PTL DEF Spec

-----------------------------------------------------------------------------
(* The queue implements NotificationLifecycle.                             *)

\* A row that was not inserted yet is the one NoRow describes.
AbsentIsNew == \A i \in Events : row[i].status = "absent" => row[i].attempts = 0 /\ row[i].payload = i

LifeInv == ClaimInv /\ RecordInv /\ AbsentIsNew

EndedStatus == {"sent", "failed", "expired"}

RowAppears(i) ==
    /\ row[i].status = "absent" /\ row'[i].status = "pending" /\ ~row'[i].held
    /\ row'[i].attempts = row[i].attempts /\ row'[i].payload = row[i].payload

RowIsClaimed(i) ==
    /\ row[i].status = "pending" /\ row'[i].status = "pending" /\ row'[i].held
    /\ row'[i].attempts = row[i].attempts + 1 /\ row'[i].payload = row[i].payload

RowIsSettled(i) ==
    /\ row[i].status = "pending" /\ row[i].held
    /\ row'[i].attempts = row[i].attempts /\ row'[i].payload = row[i].payload
    /\ \/ row'[i].status = "pending" /\ ~row'[i].held /\ row[i].attempts < MaxAttempts
       \/ row'[i].status \in EndedStatus /\ (row'[i].status = "sent" => i \in took)

RowIsForgotten(i) == row[i].status \in EndedStatus /\ RemovedRow(i)

RowsAreForgotten ==
    \A i \in Events :
        IF row[i].status = "absent" THEN KeptRow(i) /\ row[i].attempts = 0 ELSE RemovedRow(i)

RowsAreRewritten(S, e) ==
    \A i \in Events :
        /\ row'[i].status = row[i].status /\ row'[i].held = row[i].held
        /\ row'[i].attempts = row[i].attempts
        /\ IF i \in S
           THEN /\ row[i].status = "pending" /\ ~row[i].held /\ row[i].attempts = 0
                /\ row'[i].payload = e
           ELSE row'[i].payload = row[i].payload

\* what a step may do to the rows
RowMoves ==
    \/ \A i \in Events : KeptRow(i)
    \/ \E i \in Events : /\ RowAppears(i) \/ RowIsClaimed(i) \/ RowIsSettled(i) \/ RowIsForgotten(i)
                         /\ \A j \in Events \ {i} : KeptRow(j)
    \/ RowsAreForgotten
    \/ \E S \in SUBSET Events, e \in Events : RowsAreRewritten(S, e)

\* what a step may do to the record of what was accepted
LifeMoves ==
    \/ took' = took /\ RowMoves
    \/ /\ \A i \in Events : KeptRow(i)
       /\ \E i \in Events : /\ took' = took \cup {i}
                            /\ row[i].attempts > 0 \/ row[i].status = "deleted"

\* A producer adds its own row, or rewrites rows that were never claimed.
LEMMA ProduceMoves ==
    ASSUME LifeInv, NEW e \in Events, Produce(e)
    PROVE  LifeMoves
  <1>0. TypeOK /\ UNCHANGED took
    BY DEF LifeInv, ClaimInv, TypeInv, Produce, ProducerLists, ProducerFinds, ProducerUpdates,
           ProducerEnqueues, ghosts
  <1>1. CASE UNCHANGED row
    BY <1>0, <1>1 DEF LifeMoves, RowMoves, KeptRow
  <1>2. CASE ProducerUpdates(e)
    <2> DEFINE updated == {i \in prod[e].ids : Coalescible(i)}
    <2>1. /\ row' = [i \in Events |-> IF i \in updated THEN Rewritten(row[i], e) ELSE row[i]]
          /\ updated \subseteq Events
      BY <1>0, <1>2 DEF ProducerUpdates, TypeOK, Producer
    <2>2. \A i \in updated : row[i].status = "pending" /\ ~row[i].held /\ row[i].attempts = 0
      BY DEF Coalescible
    <2>3. \A r \in Row : Rewritten(r, e).payload = e
      BY DEF Rewritten, Row
    <2> HIDE DEF updated
    <2>4. RowsAreRewritten(updated, e)
      BY <1>0, <2>1, <2>2, <2>3, RewrittenRow DEF RowsAreRewritten, TypeOK
    <2> QED BY <1>0, <2>1, <2>4 DEF LifeMoves, RowMoves
  <1>3. CASE ProducerEnqueues(e) /\ row' = [row EXCEPT ![e] = Queued(e, prod[e].sub)]
    <2>1. row[e].status = "absent"
      BY <1>3 DEF ProducerEnqueues, LifeInv, ClaimInv, RowIsInserted
    <2>2. row[e].attempts = 0 /\ row[e].payload = e
      BY <2>1 DEF LifeInv, AbsentIsNew
    <2>3. /\ Queued(e, prod[e].sub).status = "pending" /\ ~Queued(e, prod[e].sub).held
          /\ Queued(e, prod[e].sub).attempts = 0 /\ Queued(e, prod[e].sub).payload = e
      BY DEF Queued, NoRow
    <2>4. row'[e] = Queued(e, prod[e].sub) /\ \A j \in Events \ {e} : row'[j] = row[j]
      BY <1>0, <1>3 DEF TypeOK
    <2>5. RowAppears(e) /\ \A j \in Events \ {e} : KeptRow(j)
      BY <2>1, <2>2, <2>3, <2>4 DEF RowAppears, KeptRow
    <2> QED BY <1>0, <2>5 DEF LifeMoves, RowMoves
  <1> QED BY <1>1, <1>2, <1>3 DEF Produce, ProducerLists, ProducerFinds, ProducerEnqueues

\* A worker leaves the rows alone until it marks; what it sends was claimed.
LEMMA GoesMoves ==
    ASSUME LifeInv, NEW p \in Procs, Goes(p)
    PROVE  LifeMoves
  <1>0. TypeInv /\ TypeOK /\ ClaimInv
    BY DEF LifeInv, ClaimInv, TypeInv
  <1>1. \A i \in Events : KeptRow(i)
    BY <1>0, GoesIs DEF KeptRow
  <1>2. CASE took' = took
    BY <1>1, <1>2 DEF LifeMoves, RowMoves
  <1>3. CASE Post(p) /\ took' # took
    <2> DEFINE i == task[p].id
    <2>1. took' = took \cup {i} /\ task[p] \in Delivery /\ task[p] # Idle
      BY <1>0, <1>3, PostIs, Busy DEF TypeOK
    <2>2. /\ i \in Events /\ task[p].claim \in Nat /\ row[i].attempts \in Nat
          /\ task[p].claim >= 1
          /\ row[i].status = "deleted" \/ task[p].claim <= row[i].attempts
      BY <1>0, <2>1 DEF ClaimInv, ClaimIsSeen, Delivery, TypeOK, Row
    <2>3. row[i].attempts > 0 \/ row[i].status = "deleted"
      BY <2>2
    <2> HIDE DEF i
    <2> QED BY <1>1, <2>1, <2>2, <2>3 DEF LifeMoves
  <1>4. Post(p) \/ took' = took
    BY DEF Goes, Prepare, Preflight, Answer, PreflightThrows, Crash, ghosts
  <1> QED BY <1>2, <1>3, <1>4

\* An outcome reaches the row of its own claim only, and says "sent" of an accepted one.
LEMMA MarkMoves ==
    ASSUME LifeInv, NEW p \in Procs, Mark(p)
    PROVE  LifeMoves
  <1>0. TypeInv /\ TypeOK /\ ClaimInv
    BY DEF LifeInv, ClaimInv, TypeInv
  <1>1. UNCHANGED took
    BY <1>0, MarkIs DEF ghosts
  <1>2. CASE row' = row
    BY <1>1, <1>2 DEF LifeMoves, RowMoves, KeptRow
  <1>3. CASE Holds(task[p]) /\ row' = [row EXCEPT ![task[p].id] = Outcome(task[p])]
    <2> DEFINE i == task[p].id
               o == Outcome(task[p])
    <2>1. /\ task[p] \in Delivery /\ task[p].pc = "mark" /\ task[p].result # "none"
          /\ i \in Events
      BY <1>0, MarkIs DEF Delivery
    <2>2. row[i].status = "pending" /\ row[i].held /\ row[i].attempts = task[p].claim
      BY <1>3 DEF Holds
    <2>3. row'[i] = o /\ \A j \in Events \ {i} : row'[j] = row[j]
      BY <1>0, <1>3, <2>1 DEF TypeOK
    <2>4. /\ ~o.held /\ o.attempts = row[i].attempts /\ o.payload = row[i].payload
          /\ Retries(task[p]) => o.status = row[i].status
          /\ ~Retries(task[p]) => /\ o.status \in EndedStatus
                                  /\ o.status = "sent" => task[p].result = "sent"
      BY <1>0, <2>1, OutcomeRow DEF TypeOK, EndedStatus
    <2>5. Retries(task[p]) => row[i].attempts < MaxAttempts
      BY <2>2 DEF Retries
    <2>6. task[p].result = "sent" => i \in took
      BY <2>1 DEF LifeInv, RecordInv, BeliefIsTrue
    <2> HIDE DEF i, o
    <2>7. RowIsSettled(i) /\ \A j \in Events \ {i} : KeptRow(j)
      BY <2>2, <2>3, <2>4, <2>5, <2>6 DEF RowIsSettled, KeptRow
    <2> QED BY <1>1, <2>1, <2>7 DEF LifeMoves, RowMoves, i
  <1> QED BY <1>0, <1>2, <1>3, MarkIs

\* A claim is counted.
LEMMA ClaimMoves ==
    ASSUME LifeInv, NEW p \in Procs, NEW i \in Events, Claim(p, i)
    PROVE  LifeMoves
  <1>0. TypeOK /\ UNCHANGED took
    BY DEF LifeInv, ClaimInv, TypeInv, Claim, ghosts
  <1>1. row[i] \in Row /\ row[i].status = "pending"
    BY <1>0 DEF TypeOK, Claim, Claimable
  <1>2. row'[i] = Claimed(row[i]) /\ \A j \in Events \ {i} : row'[j] = row[j]
    BY <1>0 DEF Claim, TypeOK
  <1>3. RowIsClaimed(i) /\ \A j \in Events \ {i} : KeptRow(j)
    BY <1>1, <1>2, ClaimedRow DEF RowIsClaimed, KeptRow
  <1> QED BY <1>0, <1>3 DEF LifeMoves, RowMoves

\* The user removes all rows, the retention ended ones, and time none.
LEMMA RestMoves ==
    ASSUME LifeInv, Rest \/ \E e \in Events : NextAttemptNears(e)
    PROVE  LifeMoves
  <1>0. TypeOK /\ UNCHANGED took
    BY DEF LifeInv, ClaimInv, TypeInv, Rest, Register, Unsubscribe, Invalidate, DeleteHistory,
           LifeEnds, NextAttemptNears, ghosts
  <1>1. CASE \E e \in Events : NextAttemptNears(e)
    BY <1>0, <1>1, NextAttemptIs DEF LifeMoves, RowMoves
  <1>2. CASE Register \/ \E g \in cleanups : Invalidate(g)
    BY <1>0, <1>2 DEF Register, Invalidate, LifeMoves, RowMoves, KeptRow
  <1>3. CASE Unsubscribe
    <2>1. RowsAreForgotten
      BY <1>0, <1>3, DeletedRowIs
         DEF Unsubscribe, RowsAreForgotten, KeptRow, RemovedRow, TypeOK, LifeInv, AbsentIsNew
    <2> QED BY <1>0, <2>1 DEF LifeMoves, RowMoves
  <1>4. ASSUME NEW i \in Events, DeleteHistory(i)
        PROVE  LifeMoves
    <2>1. row'[i] = DeletedRow(i) /\ \A j \in Events \ {i} : row'[j] = row[j]
      BY <1>0, <1>4 DEF DeleteHistory, TypeOK
    <2>2. RowIsForgotten(i) /\ \A j \in Events \ {i} : KeptRow(j)
      BY <1>0, <1>4, <2>1, DeletedRowIs
         DEF DeleteHistory, RowIsForgotten, RemovedRow, EndedStatus, KeptRow, TypeOK
    <2> QED BY <1>0, <2>2 DEF LifeMoves, RowMoves
  <1>5. ASSUME NEW i \in Events, LifeEnds(i)
        PROVE  LifeMoves
    <2>1. row[i] \in Row /\ row'[i] = [row[i] EXCEPT !.life = "over"]
      BY <1>0, <1>5 DEF LifeEnds, TypeOK
    <2>2. KeptRow(i)
      BY <2>1 DEF KeptRow, Row
    <2>3. \A j \in Events \ {i} : row'[j] = row[j]
      BY <1>0, <1>5 DEF LifeEnds, TypeOK
    <2> QED BY <1>0, <2>2, <2>3 DEF LifeMoves, RowMoves, KeptRow
  <1> QED BY <1>1, <1>2, <1>3, <1>4, <1>5 DEF Rest

\* Every step is one of these moves.
LEMMA StepMoves ==
    ASSUME LifeInv, [Next]_vars
    PROVE  LifeMoves
  <1>1. CASE UNCHANGED vars
    BY <1>1 DEF vars, ghosts, LifeMoves, RowMoves, KeptRow
  <1> QED BY <1>1, Steps, ProduceMoves, GoesMoves, MarkMoves, ClaimMoves, RestMoves

\* No move makes a row absent, or changes one that is.
LEMMA AbsentKept ==
    ASSUME AbsentIsNew, LifeMoves
    PROVE  AbsentIsNew'
  <1>1. \A i \in Events : row'[i].status = "absent" => KeptRow(i)
    BY DEF LifeMoves, RowMoves, KeptRow, RemovedRow, RowAppears, RowIsClaimed, RowIsSettled,
           RowIsForgotten, RowsAreForgotten, RowsAreRewritten, EndedStatus
  <1> QED BY <1>1 DEF AbsentIsNew, KeptRow

\* the state of NotificationLifecycle, as PushDelivery maps its own to it
Phase == [i \in Events |-> IF row[i].status # "pending" THEN row[i].status
                           ELSE IF row[i].held THEN "held" ELSE "waiting"]

Claims == [i \in Events |-> row[i].attempts]

Payload == [i \in Events |-> row[i].payload]

\* A row that is kept is kept in the abstract state.
LEMMA KeptIsKept ==
    ASSUME NEW i \in Events, KeptRow(i)
    PROVE  Phase'[i] = Phase[i] /\ Claims'[i] = Claims[i] /\ Payload'[i] = Payload[i]
  BY DEF KeptRow, Phase, Claims, Payload

\* A step on one row is a step on one notification.
LEMMA OneMoves ==
    ASSUME NEW i \in Events, \A j \in Events \ {i} : KeptRow(j)
    PROVE  /\ Phase' = [Phase EXCEPT ![i] = Phase'[i]]
           /\ Claims' = [Claims EXCEPT ![i] = row'[i].attempts]
           /\ row'[i].payload = row[i].payload => Payload' = Payload
           /\ row'[i].attempts = row[i].attempts => Claims' = Claims
  <1>1. \A j \in Events \ {i} :
           Phase'[j] = Phase[j] /\ Claims'[j] = Claims[j] /\ Payload'[j] = Payload[j]
    BY KeptIsKept
  <1>2. Phase' = [Phase EXCEPT ![i] = Phase'[i]]
    <2>1. Phase = [j \in Events |-> Phase[j]] /\ Phase' = [j \in Events |-> Phase'[j]]
      BY DEF Phase
    <2> QED BY <1>1, <2>1
  <1>3. Claims' = [Claims EXCEPT ![i] = row'[i].attempts]
    BY <1>1 DEF Claims
  <1>4. row'[i].payload = row[i].payload => Payload' = Payload
    BY <1>1 DEF Payload
  <1>5. row'[i].attempts = row[i].attempts => Claims' = Claims
    BY <1>1 DEF Claims
  <1> QED BY <1>2, <1>3, <1>4, <1>5

\* Rows that all are kept are a stutter.
LEMMA AllKept ==
    ASSUME \A i \in Events : KeptRow(i)
    PROVE  UNCHANGED <<Phase, Claims, Payload>>
  <1>1. \A i \in Events :
           Phase'[i] = Phase[i] /\ Claims'[i] = Claims[i] /\ Payload'[i] = Payload[i]
    BY KeptIsKept
  <1> QED BY <1>1 DEF Phase, Claims, Payload

\* The moves on one row are the actions of NotificationLifecycle on one notification.
LEMMA OneIsAbstract ==
    ASSUME NEW i \in Events, UNCHANGED took, \A j \in Events \ {i} : KeptRow(j),
           RowAppears(i) \/ RowIsClaimed(i) \/ RowIsSettled(i) \/ RowIsForgotten(i)
    PROVE  Notification!Next
  <1>1. /\ Phase' = [Phase EXCEPT ![i] = Phase'[i]]
        /\ Claims' = [Claims EXCEPT ![i] = row'[i].attempts]
        /\ row'[i].payload = row[i].payload => Payload' = Payload
        /\ row'[i].attempts = row[i].attempts => Claims' = Claims
    BY OneMoves
  <1>2. /\ Phase[i] = IF row[i].status # "pending" THEN row[i].status
                      ELSE IF row[i].held THEN "held" ELSE "waiting"
        /\ Phase'[i] = IF row'[i].status # "pending" THEN row'[i].status
                       ELSE IF row'[i].held THEN "held" ELSE "waiting"
        /\ Claims[i] = row[i].attempts
    BY DEF Phase, Claims
  <1>3. CASE RowAppears(i)
    <2>1. Phase[i] = "absent" /\ Phase'[i] = "waiting" /\ UNCHANGED <<Claims, Payload>>
      BY <1>1, <1>2, <1>3 DEF RowAppears
    <2>2. Notification!Enqueue(i)
      BY <1>1, <2>1 DEF Notification!Enqueue, Phase, Claims, Payload
    <2> QED BY <2>2 DEF Notification!Next
  <1>4. CASE RowIsClaimed(i)
    <2>1. /\ Phase[i] \in {"waiting", "held"} /\ Phase'[i] = "held" /\ UNCHANGED Payload
          /\ row'[i].attempts = Claims[i] + 1
      BY <1>1, <1>2, <1>4 DEF RowIsClaimed
    <2>2. Claims' = [Claims EXCEPT ![i] = @ + 1]
      BY <1>1, <2>1
    <2>3. Notification!Claim(i)
      BY <1>1, <2>1, <2>2 DEF Notification!Claim, Phase, Claims, Payload
    <2> QED BY <2>3 DEF Notification!Next
  <1>5. CASE RowIsSettled(i)
    <2>1. Phase[i] = "held" /\ UNCHANGED <<Claims, Payload>>
      BY <1>1, <1>2, <1>5 DEF RowIsSettled
    <2>2. CASE row'[i].status = "pending"
      <3>1. Phase'[i] = "waiting" /\ Claims[i] < MaxAttempts
        BY <1>2, <1>5, <2>2 DEF RowIsSettled, EndedStatus
      <3>2. Notification!GiveBack(i)
        BY <1>1, <2>1, <3>1 DEF Notification!GiveBack, Phase, Claims, Payload
      <3> QED BY <3>2 DEF Notification!Next
    <2>3. CASE row'[i].status # "pending"
      <3>1. /\ Phase'[i] \in Notification!Ended
            /\ Phase'[i] = "sent" => i \in took
        BY <1>2, <1>5, <2>3 DEF RowIsSettled, EndedStatus, Notification!Ended
      <3>2. PICK s \in Notification!Ended : s = Phase'[i]
        BY <3>1
      <3>3. Notification!End(i, s)
        BY <1>1, <2>1, <3>1, <3>2 DEF Notification!End, Phase, Claims, Payload
      <3> QED BY <3>3 DEF Notification!Next
    <2> QED BY <2>2, <2>3
  <1>6. CASE RowIsForgotten(i)
    <2>1. /\ Phase[i] \in Notification!Ended /\ Phase'[i] = "deleted" /\ UNCHANGED Payload
          /\ row'[i].attempts = 0
      BY <1>1, <1>2, <1>6 DEF RowIsForgotten, RemovedRow, EndedStatus, Notification!Ended
    <2>2. Notification!Forget(i)
      BY <1>1, <2>1 DEF Notification!Forget, Phase, Claims, Payload
    <2> QED BY <2>2 DEF Notification!Next
  <1> QED BY <1>3, <1>4, <1>5, <1>6

\* The moves on several rows, and an acceptance, are actions of NotificationLifecycle too.
LEMMA LifeIsAbstract ==
    ASSUME LifeMoves
    PROVE  [Notification!Next]_<<Phase, Claims, Payload, took>>
  <1>1. CASE UNCHANGED took /\ \A i \in Events : KeptRow(i)
    BY <1>1, AllKept
  <1>2. CASE \E i \in Events : /\ UNCHANGED took
                               /\ RowAppears(i) \/ RowIsClaimed(i) \/ RowIsSettled(i) \/ RowIsForgotten(i)
                               /\ \A j \in Events \ {i} : KeptRow(j)
    BY <1>2, OneIsAbstract
  <1>3. CASE UNCHANGED took /\ RowsAreForgotten
    <2>1. \A i \in Events :
             /\ row'[i].attempts = 0 /\ row'[i].payload = row[i].payload
             /\ row[i].status = "absent" => row'[i].status = "absent"
             /\ row[i].status # "absent" => row'[i].status = "deleted"
      BY <1>3 DEF RowsAreForgotten, KeptRow, RemovedRow
    <2>2. Phase' = [i \in Events |-> IF Phase[i] = "absent" THEN "absent" ELSE "deleted"]
      BY <2>1 DEF Phase
    <2>3. Claims' = [i \in Events |-> 0] /\ Payload' = Payload
      BY <2>1 DEF Claims, Payload
    <2>4. Notification!ForgetAll
      BY <1>3, <2>2, <2>3 DEF Notification!ForgetAll, Phase, Claims, Payload
    <2> QED BY <2>4 DEF Notification!Next
  <1>4. ASSUME NEW S \in SUBSET Events, NEW e \in Events, UNCHANGED took, RowsAreRewritten(S, e)
        PROVE  Notification!Next
    <2>1. Phase' = Phase /\ Claims' = Claims
      BY <1>4 DEF RowsAreRewritten, Phase, Claims
    <2>2. Payload' = [i \in Events |-> IF i \in S THEN e ELSE Payload[i]]
      BY <1>4 DEF RowsAreRewritten, Payload
    <2>3. \A i \in S : Phase[i] = "waiting" /\ Claims[i] = 0
      BY <1>4 DEF RowsAreRewritten, Phase, Claims
    <2>4. Notification!Coalesce(S, e)
      BY <1>4, <2>1, <2>2, <2>3 DEF Notification!Coalesce, Phase, Claims, Payload
    <2> QED BY <2>4 DEF Notification!Next
  <1>5. ASSUME NEW i \in Events, took' = took \cup {i}, \A j \in Events : KeptRow(j),
               row[i].attempts > 0 \/ row[i].status = "deleted"
        PROVE  Notification!Next
    <2>1. UNCHANGED <<Phase, Claims, Payload>>
      BY <1>5, AllKept
    <2>2. Claims[i] > 0 \/ Phase[i] = "deleted"
      BY <1>5 DEF Claims, Phase
    <2>3. Notification!Accept(i)
      BY <1>5, <2>1, <2>2 DEF Notification!Accept, Phase, Claims, Payload
    <2> QED BY <2>3 DEF Notification!Next
  <1> QED BY <1>1, <1>2, <1>3, <1>4, <1>5 DEF LifeMoves, RowMoves

\* The queue, with every interleaving of its producers and workers, every fault and
\* whatever the user does, implements NotificationLifecycle: a payload is replaced only
\* before the first claim, a notification waits again only while an attempt is left, and it
\* ends once, as "sent" only if the push service accepted it.
THEOREM QueueImplementsLifecycle == Spec => ImplementsNotificationLifecycle
  <1>1. Init => Notification!Init /\ AbsentIsNew
    BY DEF Init, NoRow, Notification!Init, AbsentIsNew
  <1>2. ClaimInv /\ RecordInv /\ AbsentIsNew /\ [Next]_vars => AbsentIsNew'
    BY StepMoves, AbsentKept DEF LifeInv
  <1>3. ClaimInv /\ RecordInv /\ AbsentIsNew /\ [Next]_vars
          => [Notification!Next]_<<Phase, Claims, Payload, took>>
    BY StepMoves, LifeIsAbstract DEF LifeInv
  <1> QED BY <1>1, <1>2, <1>3, ClaimInvariance, RecordInvariance, PTL
          DEF Spec, ImplementsNotificationLifecycle, Notification!Spec, Phase, Claims, Payload
=============================================================================
