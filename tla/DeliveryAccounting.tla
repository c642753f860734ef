------------------------- MODULE DeliveryAccounting -------------------------
(***************************************************************************)
(* What holds whatever call fails: the counts of a notification never run  *)
(* ahead of the requests made for it, a failed row has used them up, and a *)
(* delivered row names a request that was accepted.  From this and what    *)
(* DeliveryRows says of notifications that are over, every step of the     *)
(* pipeline is one of WeakPromise.                                         *)
(***************************************************************************)
EXTENDS DeliveryRows, DeliveryRefinement, FiniteSetTheorems

(***************************************************************************)
(* Messages that wait.                                                     *)
(***************************************************************************)

LEMMA LPushBacked ==
    ASSUME TypeOK, ListsBacked, NEW m \in Message, Backed(m), LPush(m), attempts' = attempts
    PROVE  ListsBacked'
<1> SUFFICES ASSUME NEW p \in Priority, NEW i \in DOMAIN lists'[p]
             PROVE  Backed(lists'[p][i])
  BY DEF ListsBacked, Backed
<1>1. lists[p] \in Seq(Message)
  BY DEF TypeOK, QueueTypeOK
<1>2. lists'[p] = IF p = queueKey(m) THEN Append(lists[p], m) ELSE lists[p]
  BY DEF TypeOK, QueueTypeOK, LPush
<1>3. CASE i \in DOMAIN lists[p]
  <2>1. lists'[p][i] = lists[p][i]
    BY <1>1, <1>2, <1>3
  <2> QED
    BY <1>3, <2>1 DEF ListsBacked
<1>4. CASE i \notin DOMAIN lists[p]
  <2>1. lists'[p][i] = m
    BY <1>1, <1>2, <1>4
  <2> QED
    BY <2>1
<1> QED
  BY <1>3, <1>4

LEMMA TailElement ==
    ASSUME NEW S, NEW s \in Seq(S), s # <<>>, NEW i \in DOMAIN Tail(s)
    PROVE  i + 1 \in DOMAIN s /\ Tail(s)[i] = s[i + 1]
<1>1. Tail(s) \in Seq(S) /\ Len(s) \in Nat /\ Len(Tail(s)) = Len(s) - 1
  OBVIOUS
<1>2. i \in 1 .. Len(s) - 1
  BY <1>1
<1> QED
  BY <1>1, <1>2

LEMMA RPopBacked ==
    ASSUME TypeOK, ListsBacked, NEW p \in Priority, Poppable(p), RPop(p), attempts' = attempts
    PROVE  ListsBacked' /\ Backed(Head(lists[p]))
<1>1. /\ lists[p] \in Seq(Message)
      /\ lists[p] # <<>>
      /\ lists' = [lists EXCEPT ![p] = Tail(@)]
  BY DEF TypeOK, QueueTypeOK, Poppable, RPop
<1>2. Backed(Head(lists[p]))
  <2>1. 1 \in DOMAIN lists[p] /\ Head(lists[p]) = lists[p][1]
    BY <1>1
  <2> QED
    BY <2>1 DEF ListsBacked
<1>3. ASSUME NEW q \in Priority, NEW i \in DOMAIN lists'[q]
      PROVE  Backed(lists'[q][i])
  <2>1. CASE q # p
    BY <1>1, <1>3, <2>1 DEF ListsBacked, TypeOK, QueueTypeOK
  <2>2. CASE q = p
    <3>1. lists'[q] = Tail(lists[p])
      BY <1>1, <2>2 DEF TypeOK, QueueTypeOK
    <3>2. i + 1 \in DOMAIN lists[p] /\ lists'[q][i] = lists[p][i + 1]
      BY <1>1, <1>3, <3>1, TailElement
    <3>3. Backed(lists[p][i + 1])
      BY <3>2 DEF ListsBacked
    <3> QED
      BY <3>2, <3>3
  <2> QED
    BY <2>1, <2>2
<1> QED
  BY <1>2, <1>3 DEF ListsBacked, Backed

(* What is backed stays backed while attempts grow.                        *)
LEMMA BackedMonotone ==
    ASSUME TypeOK, NEW m \in Message, Backed(m),
           \A id \in Ids : attempts'[id] \in Nat /\ attempts[id] <= attempts'[id]
    PROVE  Backed(m)'
<1>1. m.id \in Ids /\ m.retry \in Nat /\ attempts[m.id] \in Nat
  BY DEF Message, TypeOK, WorkerTypeOK
<1> QED
  BY <1>1 DEF Backed

(***************************************************************************)
(* The steps of the requests and of the scheduler leave the workers and    *)
(* the counts alone.                                                       *)
(***************************************************************************)

LEMMA AccountingElsewhere ==
    ASSUME TypeOK, AttemptsAccounted, UNCHANGED <<workerVars, retryCount>>, ListsBacked',
           \A m \in retryQueue' \cup batch' : Backed(m)
    PROVE  AttemptsAccounted'
<1>1. \A m : Backed(m)' <=> Backed(m)
  BY DEF Backed, workerVars
<1>2. \A w \in Workers : WorkerBacked(w)'
  BY <1>1 DEF AttemptsAccounted, WorkerBacked, workerVars, Exhausted
<1>3. \A id \in Ids : Counting(id)' = Counting(id)
  BY DEF Counting, workerVars
<1>4. CountsBacked'
  BY <1>3 DEF AttemptsAccounted, CountsBacked, workerVars
<1> QED
  BY <1>1, <1>2, <1>4 DEF AttemptsAccounted

LEMMA AccountingQuiet ==
    ASSUME TypeOK, AttemptsAccounted, UNCHANGED <<workerVars, retryCount, lists>>,
           retryQueue' \cup batch' \subseteq retryQueue \cup batch
    PROVE  AttemptsAccounted'
<1>1. ListsBacked'
  BY DEF AttemptsAccounted, ListsBacked, Backed, workerVars
<1> QED
  BY <1>1, AccountingElsewhere DEF AttemptsAccounted

LEMMA ApiAccounting ==
    ASSUME TypeOK, AttemptsAccounted, Api
    PROVE  AttemptsAccounted'
<1>0. UNCHANGED <<workerVars, schedulerVars, retryQueue>>
  BY DEF Api, ServiceStep, Create, CreateBatch, Store, Enqueue, Cancel, queueVars
<1>1. ASSUME NEW r \in Requests, NEW S \in SUBSET Fresh, Store(r, S)
      PROVE  AttemptsAccounted'
  BY <1>0, <1>1, AccountingQuiet DEF Store, InsertRows, queueVars, schedulerVars, pipeVars
<1>2. ASSUME NEW r \in Requests, NEW id \in Ids, Enqueue(r, id)
      PROVE  AttemptsAccounted'
  <2> DEFINE m == [id |-> id, retry |-> 0, span |-> 0]
  <2>1. m \in Message /\ Backed(m)
    BY DEF Message, Backed, TypeOK, WorkerTypeOK
  <2>2. CASE LPush(m)
    <3>1. ListsBacked'
      BY <1>0, <2>1, <2>2, LPushBacked DEF AttemptsAccounted, workerVars
    <3> QED
      BY <1>0, <1>2, <3>1, AccountingElsewhere
      DEF Enqueue, tableVars, schedulerVars, pipeVars, AttemptsAccounted
  <2>3. CASE UNCHANGED lists
    BY <1>0, <1>2, <2>3, AccountingQuiet DEF Enqueue, tableVars, schedulerVars, pipeVars
  <2> QED
    BY <1>2, <2>2, <2>3 DEF Enqueue
<1>3. ASSUME NEW id \in Ids, Cancel(id)
      PROVE  AttemptsAccounted'
  BY <1>0, <1>3, AccountingQuiet DEF Cancel, CancelRow, queueVars, schedulerVars, pipeVars
<1> QED
  BY <1>1, <1>2, <1>3 DEF Api, ServiceStep, Create, CreateBatch, Fresh

(* The workers about to count are finitely many: a row counts no more      *)
(* retries than there were attempts.                                       *)
LEMMA CountingFinite ==
    ASSUME NEW id \in Ids
    PROVE  IsFiniteSet(Counting(id)) /\ Cardinality(Counting(id)) \in Nat
<1>1. IsFiniteSet(Counting(id))
  BY WorkerAssumption, FS_Subset DEF Counting
<1> QED
  BY <1>1, FS_CardinalityType

LEMMA CountCovered ==
    ASSUME TypeOK, AttemptsAccounted, NEW id \in Ids
    PROVE  retryCount[id] <= attempts[id]
BY CountingFinite DEF AttemptsAccounted, CountsBacked, TypeOK, TableTypeOK, WorkerTypeOK

LEMMA TickAccounting ==
    ASSUME TypeOK, AttemptsAccounted, Tick
    PROVE  AttemptsAccounted'
<1>0. UNCHANGED workerVars
  BY DEF Tick
<1>a. \A id \in Ids : retryCount[id] <= attempts[id]
  BY CountCovered
<1>1. ASSUME NEW S \in SUBSET DueScheduled, FetchScheduled(S)
      PROVE  AttemptsAccounted'
  <2>1. \A m \in batch' : Backed(m)
    BY <1>1, <1>a DEF FetchScheduled, DueScheduled, Backed, TypeOK, TableTypeOK
  <2>2. ListsBacked' /\ UNCHANGED <<retryQueue, retryCount>>
    BY <1>0, <1>1
    DEF FetchScheduled, queueVars, tableVars, workerVars, AttemptsAccounted, ListsBacked, Backed
  <2> QED
    BY <1>0, <2>1, <2>2, AccountingElsewhere DEF AttemptsAccounted
<1>2. ASSUME NEW m \in pipe, PushScheduled(m) \/ RequeueRetry(m)
      PROVE  AttemptsAccounted'
  <2>1. m \in Message /\ Backed(m) /\ LPush(m)
    BY <1>2 DEF PushScheduled, RequeueRetry, AttemptsAccounted, TypeOK, SchedulerTypeOK
  <2>2. ListsBacked'
    BY <1>0, <2>1, LPushBacked DEF AttemptsAccounted, workerVars
  <2>3. UNCHANGED retryCount /\ retryQueue' \cup batch' \subseteq retryQueue \cup batch
    BY <1>2 DEF PushScheduled, RequeueRetry, Executed, Resent, GivenUp, tableVars
  <2> QED
    BY <1>0, <2>2, <2>3, AccountingElsewhere DEF AttemptsAccounted
<1>3. CASE MarkScheduledQueued \/ PipelineBreaks
  BY <1>0, <1>3, AccountingQuiet
  DEF MarkScheduledQueued, PipelineBreaks, Resent, GivenUp, BulkUpdateStatus, tableVars,
      queueVars
<1>4. ASSUME NEW S \in SUBSET retryQueue, FetchRetries(S)
      PROVE  AttemptsAccounted'
  BY <1>0, <1>4, AccountingQuiet DEF FetchRetries, tableVars, queueVars
<1>5. CASE ArchiveMove \/ \E S \in SUBSET Archivable : ArchiveSelect(S)
  BY <1>0, <1>5, AccountingQuiet
  DEF ArchiveSelect, ArchiveMove, Archive, queueVars, tableVars, pipeVars
<1> QED
  BY <1>1, <1>2, <1>3, <1>4, <1>5 DEF Tick, SchedulerStep

(***************************************************************************)
(* The steps of a worker.                                                  *)
(***************************************************************************)

AttemptsGrow ==
    \A id \in Ids : attempts[id] <= attempts'[id] /\ accepted[id] \subseteq accepted'[id]

OthersRest(w) ==
    \A v \in Workers \ {w} : wpc'[v] = wpc[v] /\ wmsg'[v] = wmsg[v]

LEMMA OneWorkerMoves ==
    ASSUME TypeOK, TypeOK', AttemptsAccounted, NEW w \in Workers, OthersRest(w), AttemptsGrow,
           UNCHANGED batch, ListsBacked', \A m \in retryQueue' : Backed(m)',
           WorkerBacked(w)', CountsBacked'
    PROVE  AttemptsAccounted'
<1>1. \A m \in batch : Backed(m)'
  BY BackedMonotone DEF AttemptsAccounted, TypeOK, SchedulerTypeOK, WorkerTypeOK, AttemptsGrow
<1>2. ASSUME NEW v \in Workers \ {w}
      PROVE  WorkerBacked(v)'
  <2>1. wpc'[v] = wpc[v] /\ wmsg'[v] = wmsg[v] /\ WorkerBacked(v)
    BY DEF OthersRest, AttemptsAccounted
  <2>2. CASE wpc[v] = "pop"
    BY <2>1, <2>2 DEF WorkerBacked
  <2>3. CASE wpc[v] # "pop"
    <3>1. wmsg[v] \in Message /\ wmsg[v].id \in Ids /\ wmsg[v].retry \in Nat
      BY <2>3 DEF TypeOK, WorkerTypeOK, Message
    <3>2. /\ attempts[wmsg[v].id] \in Nat /\ attempts'[wmsg[v].id] \in Nat
          /\ attempts[wmsg[v].id] <= attempts'[wmsg[v].id]
          /\ accepted[wmsg[v].id] \subseteq accepted'[wmsg[v].id]
      BY <3>1 DEF TypeOK, WorkerTypeOK, AttemptsGrow
    <3> QED
      BY <2>1, <3>1, <3>2 DEF WorkerBacked, Backed, Exhausted
  <2> QED
    BY <2>2, <2>3
<1> QED
  BY <1>1, <1>2 DEF AttemptsAccounted

LEMMA ListsBackedLater ==
    ASSUME TypeOK, TypeOK', ListsBacked, UNCHANGED lists, AttemptsGrow
    PROVE  ListsBacked'
<1> SUFFICES ASSUME NEW p \in Priority, NEW i \in DOMAIN lists[p]
             PROVE  Backed(lists[p][i])'
  BY DEF ListsBacked, Backed
<1>1. lists[p][i] \in Message
  BY DEF TypeOK, QueueTypeOK
<1> QED
  BY <1>1, BackedMonotone DEF ListsBacked, TypeOK, WorkerTypeOK, AttemptsGrow

LEMMA CountsSteady ==
    ASSUME TypeOK, TypeOK', CountsBacked, NEW w \in Workers, OthersRest(w), AttemptsGrow,
           wpc[w] # "increment", wpc'[w] # "increment", UNCHANGED retryCount
    PROVE  CountsBacked'
<1> SUFFICES ASSUME NEW id \in Ids
             PROVE  retryCount'[id] + Cardinality(Counting(id)') <= attempts'[id]
  BY DEF CountsBacked
<1>1. Counting(id)' = Counting(id)
  BY DEF Counting, OthersRest
<1> QED
  BY <1>1, CountingFinite
  DEF CountsBacked, AttemptsGrow, TypeOK, TableTypeOK, WorkerTypeOK

(* Steps that neither make a request nor count one.                        *)
LEMMA QuietWorkAccounting ==
    ASSUME TypeOK, TypeOK', AttemptsAccounted, NEW w \in Workers, OthersRest(w),
           UNCHANGED <<attempts, accepted, batch, retryCount>>,
           wpc[w] # "increment", wpc'[w] # "increment",
           ListsBacked', \A m \in retryQueue' : Backed(m), WorkerBacked(w)'
    PROVE  AttemptsAccounted'
<1>1. AttemptsGrow
  BY DEF AttemptsGrow, TypeOK, WorkerTypeOK
<1>2. CountsBacked'
  BY <1>1, CountsSteady DEF AttemptsAccounted
<1>3. \A m \in retryQueue' : Backed(m)'
  BY DEF Backed
<1> QED
  BY <1>1, <1>2, <1>3, OneWorkerMoves

LEMMA OneMore ==
    ASSUME NEW S, IsFiniteSet(S), NEW w, NEW T, T = S \/ T = S \cup {w}
    PROVE  IsFiniteSet(T) /\ Cardinality(T) <= Cardinality(S) + 1
<1>1. Cardinality(S) \in Nat
  BY FS_CardinalityType
<1>2. IsFiniteSet(S \cup {w})
  BY FS_AddElement
<1>3. Cardinality(S \cup {w}) = IF w \in S THEN Cardinality(S) ELSE Cardinality(S) + 1
  BY FS_AddElement
<1> QED
  BY <1>1, <1>2, <1>3

LEMMA DeliverAccounting ==
    ASSUME TypeOK, TypeOK', AttemptsAccounted, NEW w \in Workers, Deliver(w), UNCHANGED batch
    PROVE  AttemptsAccounted'
<1> DEFINE m == wmsg[w]
           n == attempts[m.id] + 1
<1>1. /\ wpc[w] = "post"
      /\ m \in Message /\ m.id \in Ids /\ m.retry \in Nat
      /\ attempts[m.id] \in Nat
      /\ Backed(m)
  BY DEF Deliver, TypeOK, WorkerTypeOK, Message, AttemptsAccounted, WorkerBacked
<1>a. PICK span \in Nat \ {NoProviderID}, pc \in {"delivered", "failed", "increment"} :
        Delivering(w, span, pc)
  BY DeliverShape
<1>2. /\ attempts' = [attempts EXCEPT ![m.id] = n]
      /\ wmsg' = [wmsg EXCEPT ![w] = [m EXCEPT !.span = span]]
      /\ wpc'[w] = pc
      /\ wpc'[w] = "delivered" => accepted' = [accepted EXCEPT ![m.id] = @ \cup {span}]
      /\ wpc'[w] # "delivered" => UNCHANGED accepted
      /\ wpc'[w] \in {"delivered", "failed", "increment"}
      /\ wpc'[w] = "failed" => Exhausted(m)
      /\ UNCHANGED <<tableVars, queueVars>>
  BY <1>1, <1>a DEF Deliver, Delivering, TypeOK, WorkerTypeOK
<1>3. OthersRest(w)
  BY <1>a DEF Delivering, OthersRest, TypeOK, WorkerTypeOK
<1>4. AttemptsGrow
  BY <1>1, <1>2 DEF AttemptsGrow, TypeOK, WorkerTypeOK
<1>5. wmsg'[w].id = m.id /\ wmsg'[w].retry = m.retry /\ wmsg'[w].span = span
  BY <1>1, <1>2 DEF TypeOK, WorkerTypeOK, Message
<1>6. WorkerBacked(w)'
  <2>1. attempts'[m.id] = n
    BY <1>1, <1>2 DEF TypeOK, WorkerTypeOK
  <2>2. m.retry < n
    BY <1>1 DEF Backed
  <2>3. wpc'[w] = "delivered" => span \in accepted'[m.id]
    BY <1>1, <1>2 DEF TypeOK, WorkerTypeOK
  <2> QED
    BY <1>1, <1>2, <1>5, <2>1, <2>2, <2>3 DEF WorkerBacked, Backed, Exhausted
<1>7. ListsBacked' /\ \A o \in retryQueue' : Backed(o)'
  BY <1>2, <1>4, ListsBackedLater, BackedMonotone
  DEF AttemptsAccounted, queueVars, TypeOK, QueueTypeOK, WorkerTypeOK, AttemptsGrow
<1>8. CountsBacked'
  <2> SUFFICES ASSUME NEW id \in Ids
               PROVE  retryCount'[id] + Cardinality(Counting(id)') <= attempts'[id]
    BY DEF CountsBacked
  <2>1. retryCount'[id] + Cardinality(Counting(id)) <= attempts[id]
    BY <1>2 DEF AttemptsAccounted, CountsBacked, tableVars
  <2>2. retryCount'[id] \in Nat /\ attempts[id] \in Nat
    BY DEF TypeOK, TableTypeOK, WorkerTypeOK
  <2>3. CASE id = m.id
    <3>1. attempts'[id] = attempts[id] + 1
      BY <1>1, <1>2, <2>3 DEF TypeOK, WorkerTypeOK
    <3>2. Counting(id)' = Counting(id) \/ Counting(id)' = Counting(id) \cup {w}
      BY <1>1, <1>3, <1>5 DEF Counting, OthersRest
    <3>3. /\ IsFiniteSet(Counting(id)')
          /\ Cardinality(Counting(id)') <= Cardinality(Counting(id)) + 1
      <4>1. IsFiniteSet(Counting(id))
        BY CountingFinite
      <4> QED
        BY <3>2, <4>1, OneMore
    <3> QED
      BY <2>1, <2>2, <3>1, <3>3, CountingFinite, FS_CardinalityType
  <2>4. CASE id # m.id
    <3>1. attempts'[id] = attempts[id]
      BY <1>1, <1>2, <2>4 DEF TypeOK, WorkerTypeOK
    <3>2. Counting(id)' = Counting(id)
      BY <1>1, <1>3, <1>5, <2>4 DEF Counting, OthersRest
    <3> QED
      BY <2>1, <3>1, <3>2
  <2> QED
    BY <2>3, <2>4
<1> QED
  BY <1>3, <1>4, <1>6, <1>7, <1>8, OneWorkerMoves

LEMMA CountRetryAccounting ==
    ASSUME TypeOK, TypeOK', AttemptsAccounted, NEW w \in Workers, CountRetry(w), UNCHANGED batch
    PROVE  AttemptsAccounted'
<1> DEFINE m == wmsg[w]
<1>1. /\ wpc[w] = "increment"
      /\ m \in Message /\ m.id \in Ids /\ m.retry \in Nat
      /\ attempts[m.id] \in Nat
      /\ m.retry < attempts[m.id]
  BY DEF CountRetry, TypeOK, WorkerTypeOK, Message, AttemptsAccounted, WorkerBacked
<1>2. /\ wmsg' = [wmsg EXCEPT ![w] = [m EXCEPT !.retry = m.retry + 1]]
      /\ wpc' = [wpc EXCEPT ![w] = "requeue"]
      /\ IncrementRetry(m.id) \/ UNCHANGED tableVars
      /\ UNCHANGED <<queueVars, attempts, accepted>>
  BY DEF CountRetry, Goto
<1>3. wpc'[w] = "requeue" /\ wmsg'[w].id = m.id /\ wmsg'[w].retry = m.retry + 1
  BY <1>1, <1>2 DEF TypeOK, WorkerTypeOK, Message
<1>4. OthersRest(w) /\ AttemptsGrow
  BY <1>2 DEF OthersRest, AttemptsGrow, TypeOK, WorkerTypeOK
<1>5. WorkerBacked(w)'
  <2>1. m.retry + 1 <= attempts'[m.id]
    BY <1>1, <1>2
  <2> QED
    BY <1>3, <2>1 DEF WorkerBacked, Backed
<1>6. ListsBacked' /\ \A o \in retryQueue' : Backed(o)'
  BY <1>2 DEF AttemptsAccounted, ListsBacked, Backed, queueVars
<1>7. CountsBacked'
  <2> SUFFICES ASSUME NEW id \in Ids
               PROVE  retryCount'[id] + Cardinality(Counting(id)') <= attempts'[id]
    BY DEF CountsBacked
  <2>1. retryCount[id] + Cardinality(Counting(id)) <= attempts'[id]
    BY <1>2 DEF AttemptsAccounted, CountsBacked
  <2>2. retryCount[id] \in Nat /\ attempts'[id] \in Nat
    BY DEF TypeOK, TableTypeOK, WorkerTypeOK
  <2>3. CASE id = m.id
    <3>1. w \in Counting(id) /\ Counting(id)' = Counting(id) \ {w}
      BY <1>1, <1>2, <1>3, <1>4, <2>3 DEF Counting, OthersRest
    <3>2. Cardinality(Counting(id)') = Cardinality(Counting(id)) - 1
      BY <3>1, CountingFinite, FS_RemoveElement
    <3>3. retryCount'[id] \in {retryCount[id], retryCount[id] + 1}
      BY <1>1, <1>2, <2>3 DEF IncrementRetry, tableVars, TypeOK, TableTypeOK
    <3> QED
      BY <2>1, <2>2, <3>2, <3>3, CountingFinite
  <2>4. CASE id # m.id
    <3>1. retryCount'[id] = retryCount[id]
      BY <1>1, <1>2, <2>4 DEF IncrementRetry, tableVars, TypeOK, TableTypeOK
    <3>2. Counting(id)' = Counting(id)
      BY <1>1, <1>3, <1>4, <2>4 DEF Counting, OthersRest
    <3> QED
      BY <2>1, <3>1, <3>2
  <2> QED
    BY <2>3, <2>4
<1> QED
  BY <1>4, <1>5, <1>6, <1>7, OneWorkerMoves

LEMMA WorkAccounting ==
    ASSUME TypeOK, TypeOK', AttemptsAccounted, NEW w \in Workers, Work(w)
    PROVE  AttemptsAccounted'
<1>0. UNCHANGED batch /\ WorkerBacked(w)
  BY DEF Work, schedulerVars, pipeVars, AttemptsAccounted
<1>a. wpc[w] # "pop" => wmsg[w] \in Message
  BY DEF TypeOK, WorkerTypeOK
<1>b. ASSUME UNCHANGED <<lists, attempts>>
      PROVE  ListsBacked'
  BY <1>b DEF AttemptsAccounted, ListsBacked, Backed
<1>1. CASE Pop(w)
  <2> PICK p \in Priority :
        /\ Poppable(p)
        /\ RPop(p)
        /\ \/ /\ Works
              /\ wmsg' = [wmsg EXCEPT ![w] = Head(lists[p])]
              /\ Goto(w, "processing")
           \/ Fails("brpop") /\ UNCHANGED <<wpc, wmsg>>
    BY <1>1 DEF Pop
  <2>1. UNCHANGED <<retryQueue, retryCount, attempts, accepted>>
    BY <1>1 DEF Pop, tableVars
  <2>2. ListsBacked' /\ Backed(Head(lists[p]))
    BY <2>1, RPopBacked DEF AttemptsAccounted
  <2>3. /\ OthersRest(w)
        /\ wpc[w] = "pop"
        /\ \/ wpc'[w] = "pop"
           \/ wpc'[w] = "processing" /\ wmsg'[w] = Head(lists[p])
    BY <1>1 DEF Pop, OthersRest, Goto, TypeOK, WorkerTypeOK
  <2>4. WorkerBacked(w)'
    BY <2>1, <2>2, <2>3 DEF WorkerBacked, Backed
  <2> QED
    BY <1>0, <2>1, <2>2, <2>3, <2>4, QuietWorkAccounting DEF AttemptsAccounted
<1>2. CASE MarkProcessing(w) \/ MarkDelivered(w) \/ MarkFailed(w)
  <2>1. /\ UNCHANGED <<retryCount, wmsg, queueVars, attempts, accepted>>
        /\ wpc[w] \in {"processing", "delivered", "failed"}
        /\ \E pc \in {"post", "announceDelivered", "announceFailed"} :
              wpc' = [wpc EXCEPT ![w] = pc]
    BY <1>2 DEF MarkProcessing, MarkDelivered, MarkFailed, TryUpdate, Goto, UpdateStatus, tableVars
  <2>2. OthersRest(w) /\ wpc'[w] \in {"post", "announceDelivered", "announceFailed"}
    BY <2>1 DEF OthersRest, TypeOK, WorkerTypeOK
  <2>3. WorkerBacked(w)'
    BY <1>0, <2>1, <2>2 DEF WorkerBacked, Backed
  <2> QED
    BY <1>0, <1>b, <2>1, <2>2, <2>3, QuietWorkAccounting DEF AttemptsAccounted, queueVars
<1>3. CASE AnnounceDelivered(w) \/ AnnounceFailed(w)
  <2>1. /\ UNCHANGED <<retryCount, queueVars, attempts, accepted>>
        /\ wpc[w] \in {"announceDelivered", "announceFailed"}
        /\ Done(w)
    BY <1>3 DEF AnnounceDelivered, AnnounceFailed, Announce, tableVars
  <2>2. OthersRest(w) /\ wpc'[w] = "pop"
    BY <2>1 DEF Done, Goto, OthersRest, TypeOK, WorkerTypeOK
  <2> QED
    BY <1>0, <1>b, <2>1, <2>2, QuietWorkAccounting
    DEF AttemptsAccounted, queueVars, WorkerBacked
<1>4. CASE MarkQueued(w)
  <2>1. /\ UNCHANGED <<retryCount, queueVars, attempts, accepted>>
        /\ wpc[w] = "requeue"
        /\ \/ Goto(w, "zadd") /\ UNCHANGED wmsg
           \/ Done(w)
    BY <1>4 DEF MarkQueued, UpdateStatus, tableVars
  <2>2. OthersRest(w) /\ \/ wpc'[w] = "zadd" /\ UNCHANGED wmsg
                         \/ wpc'[w] = "pop"
    BY <2>1 DEF Done, Goto, OthersRest, TypeOK, WorkerTypeOK
  <2>3. WorkerBacked(w)'
    BY <1>0, <2>1, <2>2 DEF WorkerBacked, Backed
  <2> QED
    BY <1>0, <1>b, <2>1, <2>2, <2>3, QuietWorkAccounting DEF AttemptsAccounted, queueVars
<1>5. CASE ScheduleRetry(w)
  <2>1. /\ UNCHANGED <<lists, retryCount, attempts, accepted>>
        /\ wpc[w] = "zadd"
        /\ retryQueue' \subseteq retryQueue \cup {wmsg[w]}
        /\ Done(w) \/ UNCHANGED <<wpc, wmsg>>
    BY <1>5 DEF ScheduleRetry, tableVars
  <2>2. OthersRest(w) /\ \/ wpc'[w] = "zadd" /\ UNCHANGED wmsg
                         \/ wpc'[w] = "pop"
    BY <2>1 DEF Done, Goto, OthersRest, TypeOK, WorkerTypeOK
  <2>3. \A m \in retryQueue' : Backed(m)
    BY <1>0, <2>1 DEF WorkerBacked, AttemptsAccounted
  <2>4. WorkerBacked(w)'
    BY <1>0, <2>1, <2>2 DEF WorkerBacked, Backed
  <2> QED
    BY <1>0, <1>b, <2>1, <2>2, <2>3, <2>4, QuietWorkAccounting
<1> QED
  BY <1>0, <1>1, <1>2, <1>3, <1>4, <1>5, DeliverAccounting, CountRetryAccounting
  DEF Work, WorkerStep

LEMMA CrashAccounting ==
    ASSUME TypeOK, TypeOK', AttemptsAccounted, Crash
    PROVE  AttemptsAccounted'
<1>1. /\ UNCHANGED <<lists, retryQueue, retryCount, attempts, accepted>>
      /\ \A w \in Workers : wpc'[w] = "pop"
      /\ batch' = {}
  BY DEF Crash, queueVars, tableVars
<1>2. ListsBacked' /\ \A m \in retryQueue' \cup batch' : Backed(m)'
  BY <1>1 DEF AttemptsAccounted, ListsBacked, Backed
<1>3. \A w \in Workers : WorkerBacked(w)'
  BY <1>1 DEF WorkerBacked
<1>4. CountsBacked'
  <2> SUFFICES ASSUME NEW id \in Ids
               PROVE  retryCount'[id] + Cardinality(Counting(id)') <= attempts'[id]
    BY DEF CountsBacked
  <2>1. Counting(id)' = {}
    BY <1>1 DEF Counting
  <2>2. Cardinality(Counting(id)') = 0
    BY <2>1, FS_EmptySet
  <2>3. retryCount[id] + Cardinality(Counting(id)) <= attempts[id]
    BY DEF AttemptsAccounted, CountsBacked
  <2> QED
    BY <1>1, <2>2, <2>3, CountingFinite DEF TypeOK, TableTypeOK, WorkerTypeOK
<1> QED
  BY <1>2, <1>3, <1>4 DEF AttemptsAccounted

LEMMA InitAccounting == Init => AttemptsAccounted
<1> SUFFICES ASSUME Init
             PROVE  AttemptsAccounted
  OBVIOUS
<1>1. ASSUME NEW id \in Ids
      PROVE  retryCount[id] + Cardinality(Counting(id)) <= attempts[id]
  <2>1. Counting(id) = {}
    BY DEF Init, WorkerInit, Counting
  <2> QED
    BY <2>1, FS_EmptySet DEF Init, WorkerInit, TableInit
<1> QED
  BY <1>1 DEF Init, WorkerInit, QueueInit, SchedulerInit, AttemptsAccounted, ListsBacked,
              WorkerBacked, CountsBacked

LEMMA NextAccounting ==
    ASSUME TypeOK, AttemptsAccounted, [Next]_vars
    PROVE  AttemptsAccounted'
<1>1. TypeOK'
  BY NextType
<1>2. CASE UNCHANGED vars
  BY <1>2, AccountingQuiet DEF vars, tableVars, queueVars, schedulerVars, pipeVars
<1> QED
  BY <1>1, <1>2, ApiAccounting, TickAccounting, WorkAccounting, CrashAccounting DEF Next

(***************************************************************************)
(* What the statuses of the rows say.                                      *)
(***************************************************************************)

Outcomes == ReceiptIsGenuine /\ FailedOnlyWhenExhausted

(* A row keeps its outcome or loses it; only two actions give it one.      *)
LEMMA NoNewOutcome ==
    ASSUME TypeOK, TypeOK', Outcomes, AttemptsGrow,
           \A id \in Ids : status'[id] \in {"delivered", "failed"} =>
               status'[id] = status[id] /\ providerMsgID'[id] = providerMsgID[id]
    PROVE  Outcomes'
<1>1. ASSUME NEW id \in Ids, status'[id] = "delivered"
      PROVE  providerMsgID'[id] \in accepted'[id]
  BY <1>1 DEF Outcomes, ReceiptIsGenuine, AttemptsGrow
<1>2. ASSUME NEW id \in Ids, status'[id] = "failed"
      PROVE  attempts'[id] > MaxRetries
  <2>1. attempts[id] > MaxRetries /\ attempts[id] <= attempts'[id]
    BY <1>2 DEF Outcomes, FailedOnlyWhenExhausted, AttemptsGrow
  <2>2. attempts[id] \in Nat /\ attempts'[id] \in Nat /\ MaxRetries \in Nat
    BY DomainAssumption DEF TypeOK, WorkerTypeOK
  <2> QED
    BY <2>1, <2>2
<1> QED
  BY <1>1, <1>2 DEF Outcomes, ReceiptIsGenuine, FailedOnlyWhenExhausted

LEMMA SameAttempts ==
    ASSUME TypeOK, UNCHANGED <<attempts, accepted>>
    PROVE  AttemptsGrow
BY DEF AttemptsGrow, TypeOK, WorkerTypeOK

LEMMA ApiOutcomes ==
    ASSUME TypeOK, TypeOK', Outcomes, Api
    PROVE  Outcomes'
<1>1. AttemptsGrow
  BY SameAttempts DEF Api, workerVars
<1>2. ASSUME NEW id \in Ids, status'[id] \in {"delivered", "failed"}
      PROVE  status'[id] = status[id] /\ providerMsgID'[id] = providerMsgID[id]
  <2>1. ASSUME NEW r \in Requests, NEW S, Store(r, S)
        PROVE  status'[id] = status[id] /\ providerMsgID'[id] = providerMsgID[id]
    BY <1>2, <2>1 DEF Store, InsertRows, InitialStatus
  <2>2. ASSUME NEW r \in Requests, NEW o \in Ids, Enqueue(r, o)
        PROVE  status'[id] = status[id] /\ providerMsgID'[id] = providerMsgID[id]
    BY <2>2 DEF Enqueue, tableVars
  <2>3. ASSUME NEW o \in Ids, Cancel(o)
        PROVE  status'[id] = status[id] /\ providerMsgID'[id] = providerMsgID[id]
    BY <1>2, <2>3 DEF Cancel, CancelRow, TypeOK, TableTypeOK
  <2> QED
    BY <2>1, <2>2, <2>3 DEF Api, ServiceStep, Create, CreateBatch
<1> QED
  BY <1>1, <1>2, NoNewOutcome

LEMMA TickOutcomes ==
    ASSUME TypeOK, TypeOK', Outcomes, Tick
    PROVE  Outcomes'
<1>1. AttemptsGrow
  BY SameAttempts DEF Tick, workerVars
<1>2. ASSUME NEW id \in Ids, status'[id] \in {"delivered", "failed"}
      PROVE  status'[id] = status[id] /\ providerMsgID'[id] = providerMsgID[id]
  BY <1>2
  DEF Tick, SchedulerStep, FetchScheduled, PushScheduled, MarkScheduledQueued, FetchRetries,
      RequeueRetry, PipelineBreaks, ArchiveSelect, ArchiveMove, Archive, BulkUpdateStatus,
      tableVars
<1> QED
  BY <1>1, <1>2, NoNewOutcome

LEMMA WorkOutcomes ==
    ASSUME TypeOK, TypeOK', AttemptsAccounted, Outcomes, NEW w \in Workers, Work(w)
    PROVE  Outcomes'
<1>a. WorkerBacked(w)
  BY DEF AttemptsAccounted
<1>b. wpc[w] # "pop" => wmsg[w] \in Message /\ wmsg[w].id \in Ids /\ wmsg[w].retry \in Nat
  BY DEF TypeOK, WorkerTypeOK, Message
<1>1. CASE Deliver(w)
  <2>1. AttemptsGrow
    BY <1>1, <1>b, DeliverShape DEF Deliver, Delivering, AttemptsGrow, TypeOK, WorkerTypeOK
  <2> QED
    BY <1>1, <2>1, NoNewOutcome DEF Deliver, tableVars
<1>2. CASE MarkDelivered(w)
  <2>1. /\ wpc[w] = "delivered"
        /\ UNCHANGED <<attempts, accepted>>
        /\ UpdateStatus(wmsg[w].id, "delivered", wmsg[w].span) \/ UNCHANGED tableVars
    BY <1>2 DEF MarkDelivered, TryUpdate
  <2>2. wmsg[w].span \in accepted[wmsg[w].id]
    BY <1>a, <2>1 DEF WorkerBacked
  <2>3. CASE UNCHANGED tableVars
    BY <2>1, <2>3, SameAttempts, NoNewOutcome DEF tableVars
  <2>4. CASE UpdateStatus(wmsg[w].id, "delivered", wmsg[w].span)
    <3>1. ASSUME NEW id \in Ids
          PROVE  \/ /\ status'[id] = status[id]
                    /\ providerMsgID'[id] = providerMsgID[id]
                 \/ /\ id = wmsg[w].id
                    /\ status'[id] = "delivered"
                    /\ providerMsgID'[id] = wmsg[w].span
      BY <2>4 DEF UpdateStatus, TypeOK, TableTypeOK
    <3> QED
      BY <2>1, <2>2, <3>1 DEF Outcomes, ReceiptIsGenuine, FailedOnlyWhenExhausted
  <2> QED
    BY <2>1, <2>3, <2>4
<1>3. CASE MarkFailed(w)
  <2>1. /\ wpc[w] = "failed"
        /\ UNCHANGED <<attempts, accepted>>
        /\ UpdateStatus(wmsg[w].id, "failed", NoProviderID) \/ UNCHANGED tableVars
    BY <1>3 DEF MarkFailed, TryUpdate
  <2>2. attempts[wmsg[w].id] > MaxRetries
    <3>1. wmsg[w].retry < attempts[wmsg[w].id] /\ wmsg[w].retry >= MaxRetries
      BY <1>a, <2>1 DEF WorkerBacked, Exhausted
    <3>2. attempts[wmsg[w].id] \in Nat /\ MaxRetries \in Nat
      BY <1>b, <2>1, DomainAssumption DEF TypeOK, WorkerTypeOK
    <3> QED
      BY <1>b, <2>1, <3>1, <3>2
  <2>3. CASE UNCHANGED tableVars
    BY <2>1, <2>3, SameAttempts, NoNewOutcome DEF tableVars
  <2>4. CASE UpdateStatus(wmsg[w].id, "failed", NoProviderID)
    <3>1. ASSUME NEW id \in Ids
          PROVE  \/ /\ status'[id] = status[id]
                    /\ providerMsgID'[id] = providerMsgID[id]
                 \/ id = wmsg[w].id /\ status'[id] = "failed"
      BY <2>4 DEF UpdateStatus, TypeOK, TableTypeOK
    <3> QED
      BY <2>1, <2>2, <3>1 DEF Outcomes, ReceiptIsGenuine, FailedOnlyWhenExhausted
  <2> QED
    BY <2>1, <2>3, <2>4
<1>4. ASSUME NEW s \in {"processing", "queued"},
             UpdateStatus(wmsg[w].id, s, NoProviderID) \/ UNCHANGED <<status, providerMsgID>>,
             UNCHANGED <<attempts, accepted>>
      PROVE  Outcomes'
  <2>1. ASSUME NEW id \in Ids, status'[id] \in {"delivered", "failed"}
        PROVE  status'[id] = status[id] /\ providerMsgID'[id] = providerMsgID[id]
    BY <1>4, <2>1 DEF UpdateStatus, TypeOK, TableTypeOK
  <2> QED
    BY <1>4, <2>1, SameAttempts, NoNewOutcome
<1>5. CASE MarkProcessing(w)
  BY <1>4, <1>5 DEF MarkProcessing, TryUpdate, tableVars
<1>6. CASE MarkQueued(w)
  BY <1>4, <1>6 DEF MarkQueued, tableVars
<1>7. CASE \/ Pop(w) \/ AnnounceDelivered(w) \/ AnnounceFailed(w)
           \/ CountRetry(w) \/ ScheduleRetry(w)
  <2>1. UNCHANGED <<status, providerMsgID, attempts, accepted>>
    BY <1>7 DEF Pop, AnnounceDelivered, AnnounceFailed, Announce, CountRetry, IncrementRetry,
                ScheduleRetry, tableVars
  <2> QED
    BY <1>4, <2>1
<1> QED
  BY <1>1, <1>2, <1>3, <1>5, <1>6, <1>7 DEF Work, WorkerStep

LEMMA NextOutcomes ==
    ASSUME TypeOK, AttemptsAccounted, Outcomes, [Next]_vars
    PROVE  Outcomes'
<1>1. TypeOK'
  BY NextType
<1>2. CASE Crash \/ UNCHANGED vars
  <2>1. UNCHANGED <<status, providerMsgID, attempts, accepted>>
    BY <1>2 DEF Crash, vars, tableVars, workerVars
  <2> QED
    BY <1>1, <2>1, SameAttempts, NoNewOutcome
<1> QED
  BY <1>1, <1>2, ApiOutcomes, TickOutcomes, WorkOutcomes DEF Next

(***************************************************************************)
(* The theorems.                                                           *)
(***************************************************************************)

LEMMA Accounting == Spec => [](TypeOK /\ AttemptsAccounted /\ Outcomes)
<1>1. Init => TypeOK /\ AttemptsAccounted /\ Outcomes
  <2>1. Init => Outcomes
    BY DEF Init, TableInit, Outcomes, ReceiptIsGenuine, FailedOnlyWhenExhausted, NoStatus
  <2> QED
    BY <2>1, InitType, InitAccounting
<1>2. TypeOK /\ AttemptsAccounted /\ Outcomes /\ [Next]_vars
      => (TypeOK /\ AttemptsAccounted /\ Outcomes)'
  BY NextType, NextAccounting, NextOutcomes
<1> QED
  BY <1>1, <1>2, PTL DEF Spec

(* Whatever call fails, however often the process is restarted and however *)
(* many copies of a message there are: each retry a message counts has been*)
(* an attempt, and no attempt is counted twice on its row.                 *)
THEOREM AttemptsAreAccounted == Spec => []AttemptsAccounted
BY Accounting, PTL

(* The retry_count a client reads is at most the number of requests made.  *)
THEOREM RetryCountIsHonest == Spec => []RetryCountHonest
<1>1. TypeOK /\ AttemptsAccounted => RetryCountHonest
  BY CountCovered DEF RetryCountHonest
<1> QED
  BY <1>1, Accounting, PTL

(* The provider_msg_id of a row marked delivered is what the provider      *)
(* answered an acceptance of this notification with.                       *)
THEOREM ReceiptsAreGenuine == Spec => []ReceiptIsGenuine
<1>1. Outcomes => ReceiptIsGenuine
  BY DEF Outcomes
<1> QED
  BY <1>1, Accounting, PTL

(* A row is marked failed only when the first attempt and MaxRetries       *)
(* retries have been made.                                                 *)
THEOREM FailureIsExhaustion == Spec => []FailedOnlyWhenExhausted
<1>1. Outcomes => FailedOnlyWhenExhausted
  BY DEF Outcomes
<1> QED
  BY <1>1, Accounting, PTL

(***************************************************************************)
(* The weak promise.                                                       *)
(***************************************************************************)

(* An outcome that is about to be announced was reached.                   *)
AnnouncementsBacked ==
    \A w \in Workers :
        /\ wpc[w] = "announceDelivered" => accepted[wmsg[w].id] # {}
        /\ wpc[w] = "announceFailed" => attempts[wmsg[w].id] >= MaxRetries + 1

(* What a step of a worker does to what the outside has seen of a          *)
(* notification.                                                           *)
SameRecord(id) == UNCHANGED <<attempts[id], accepted[id], events[id]>>

TriedBy(w, id) ==
    /\ Holds(w, id)'
    /\ attempts'[id] = attempts[id] + 1
    /\ accepted[id] \subseteq accepted'[id]
    /\ events'[id] = events[id]

ToldBy(w, id) ==
    /\ Holds(w, id)
    /\ UNCHANGED <<attempts[id], accepted[id]>>
    /\ \/ wpc[w] = "announceDelivered" /\ events'[id] = events[id] \cup {"delivered"}
       \/ wpc[w] = "announceFailed" /\ events'[id] = events[id] \cup {"failed"}

LEMMA WorkRecords ==
    ASSUME TypeOK, NEW w \in Workers, Work(w), NEW id \in Ids
    PROVE  SameRecord(id) \/ TriedBy(w, id) \/ ToldBy(w, id)
<1>b. wpc[w] # "pop" => wmsg[w] \in Message /\ wmsg[w].id \in Ids
  BY DEF TypeOK, WorkerTypeOK, Message
<1>1. CASE Deliver(w)
  <2>1. CASE wmsg[w].id = id
    <3>0. wmsg[w] \in Message
      BY <1>1, <1>b DEF Deliver
    <3>1. PICK span \in Nat \ {NoProviderID}, pc \in {"delivered", "failed", "increment"} :
            Delivering(w, span, pc)
      BY <1>1, DeliverShape
    <3>2. wpc'[w] # "pop" /\ wmsg'[w].id = id
      BY <2>1, <3>0, <3>1 DEF Delivering, TypeOK, WorkerTypeOK, Message
    <3>3. /\ attempts'[id] = attempts[id] + 1
          /\ accepted[id] \subseteq accepted'[id]
          /\ events'[id] = events[id]
      BY <1>1, <2>1, <3>1 DEF Deliver, Delivering, TypeOK, WorkerTypeOK
    <3> QED
      BY <3>1, <3>2, <3>3 DEF TriedBy, Holds
  <2>2. CASE wmsg[w].id # id
    BY <1>1, <2>2, DeliverShape DEF Deliver, Delivering, SameRecord, TypeOK, WorkerTypeOK
  <2> QED
    BY <2>1, <2>2
<1>2. CASE AnnounceDelivered(w) \/ AnnounceFailed(w)
  BY <1>2, <1>b
  DEF AnnounceDelivered, AnnounceFailed, Announce, SameRecord, ToldBy, Holds, TypeOK, WorkerTypeOK
<1>3. CASE \/ Pop(w) \/ MarkProcessing(w) \/ MarkDelivered(w) \/ MarkFailed(w)
           \/ CountRetry(w) \/ MarkQueued(w) \/ ScheduleRetry(w)
  BY <1>3
  DEF Pop, MarkProcessing, MarkDelivered, MarkFailed, TryUpdate, CountRetry, MarkQueued,
      ScheduleRetry, SameRecord
<1> QED
  BY <1>1, <1>2, <1>3 DEF Work, WorkerStep

LEMMA OthersRecords ==
    ASSUME [Next]_vars, \A w \in Workers : ~Work(w), NEW id \in Ids
    PROVE  SameRecord(id)
BY DEF Next, Api, Tick, Crash, vars, workerVars, SameRecord

LEMMA NextAnnouncements ==
    ASSUME TypeOK, AttemptsAccounted, AnnouncementsBacked, [Next]_vars
    PROVE  AnnouncementsBacked'
<1>0. TypeOK'
  BY NextType
<1>1. ASSUME NEW id \in Ids
      PROVE  attempts[id] <= attempts'[id] /\ accepted[id] \subseteq accepted'[id]
  <2>1. attempts[id] \in Nat
    BY DEF TypeOK, WorkerTypeOK
  <2> QED
    BY <1>1, <2>1, WorkRecords, OthersRecords DEF SameRecord, TriedBy, ToldBy
<1>2. ASSUME NEW v \in Workers, UNCHANGED <<wpc[v], wmsg[v]>>
      PROVE  /\ wpc'[v] = "announceDelivered" => accepted'[wmsg'[v].id] # {}
             /\ wpc'[v] = "announceFailed" => attempts'[wmsg'[v].id] >= MaxRetries + 1
  <2>1. CASE wpc[v] \notin {"announceDelivered", "announceFailed"}
    BY <1>2, <2>1
  <2>2. CASE wpc[v] \in {"announceDelivered", "announceFailed"}
    <3>1. wmsg[v].id \in Ids
      BY <2>2 DEF TypeOK, WorkerTypeOK, Message
    <3>2. attempts[wmsg[v].id] \in Nat /\ attempts'[wmsg[v].id] \in Nat /\ MaxRetries \in Nat
      BY <1>0, <3>1, DomainAssumption DEF TypeOK, WorkerTypeOK
    <3>3. wpc[v] = "announceDelivered" => accepted[wmsg[v].id] # {}
      BY DEF AnnouncementsBacked
    <3>4. wpc[v] = "announceFailed" => attempts[wmsg[v].id] >= MaxRetries + 1
      BY DEF AnnouncementsBacked
    <3>5. attempts[wmsg[v].id] <= attempts'[wmsg[v].id] /\ accepted[wmsg[v].id] \subseteq accepted'[wmsg[v].id]
      BY <1>1, <3>1
    <3> QED
      BY <1>2, <3>2, <3>3, <3>4, <3>5
  <2> QED
    BY <2>1, <2>2
<1>3. ASSUME NEW w \in Workers, Work(w)
      PROVE  AnnouncementsBacked'
  <2>1. OthersRest(w)
    BY <1>3
    DEF Work, WorkerStep, Pop, MarkProcessing, Deliver, MarkDelivered, AnnounceDelivered,
        MarkFailed, AnnounceFailed, CountRetry, MarkQueued, ScheduleRetry, TryUpdate,
        Announce, Goto, Done, OthersRest, TypeOK, WorkerTypeOK
  <2>2. CASE MarkDelivered(w)
    <3>1. /\ wpc[w] = "delivered" /\ wpc'[w] = "announceDelivered"
          /\ UNCHANGED <<wmsg, accepted>>
      BY <2>2 DEF MarkDelivered, TryUpdate, Goto, TypeOK, WorkerTypeOK
    <3>2. accepted'[wmsg'[w].id] # {}
      BY <3>1 DEF AttemptsAccounted, WorkerBacked
    <3> QED
      BY <1>2, <2>1, <3>1, <3>2 DEF OthersRest, AnnouncementsBacked
  <2>3. CASE MarkFailed(w)
    <3>1. /\ wpc[w] = "failed" /\ wpc'[w] = "announceFailed"
          /\ UNCHANGED <<wmsg, attempts>>
      BY <2>3 DEF MarkFailed, TryUpdate, Goto, TypeOK, WorkerTypeOK
    <3>2. wmsg[w].retry < attempts[wmsg[w].id] /\ wmsg[w].retry >= MaxRetries
      BY <3>1 DEF AttemptsAccounted, WorkerBacked, Exhausted
    <3>3. attempts[wmsg[w].id] \in Nat /\ MaxRetries \in Nat /\ wmsg[w].retry \in Nat
      BY <3>1, DomainAssumption DEF TypeOK, WorkerTypeOK, Message
    <3>4. attempts'[wmsg'[w].id] >= MaxRetries + 1
      BY <3>1, <3>2, <3>3
    <3> QED
      BY <1>2, <2>1, <3>1, <3>4 DEF OthersRest, AnnouncementsBacked
  <2>4. CASE ~MarkDelivered(w) /\ ~MarkFailed(w)
    <3>1. wpc'[w] \notin {"announceDelivered", "announceFailed"}
      BY <1>3, <2>4
      DEF Work, WorkerStep, Pop, MarkProcessing, Deliver, AnnounceDelivered, AnnounceFailed,
          CountRetry, MarkQueued, ScheduleRetry, TryUpdate, Announce, Goto, Done, TypeOK,
          WorkerTypeOK
    <3> QED
      BY <1>2, <2>1, <3>1 DEF OthersRest, AnnouncementsBacked
  <2> QED
    BY <2>2, <2>3, <2>4
<1>4. CASE Crash
  BY <1>4 DEF Crash, AnnouncementsBacked
<1>5. CASE UNCHANGED <<wpc, wmsg>>
  BY <1>2, <1>5 DEF AnnouncementsBacked
<1> QED
  BY <1>3, <1>4, <1>5 DEF Next, Api, Tick, vars, workerVars


(***************************************************************************)
(* A notification without a row has no message, and rows stay.             *)
(***************************************************************************)

FreshIsIdle == \A id \in Fresh : ~HasCopy(id) /\ ~MayBeResent(id)

LEMMA RowsStay ==
    ASSUME [Next]_vars
    PROVE  Fresh' \subseteq Fresh
<1>1. CASE Api
  BY <1>1
  DEF Api, ServiceStep, Create, CreateBatch, Store, Enqueue, Cancel, InsertRows, CancelRow,
      tableVars, Fresh
<1>2. ASSUME NEW w \in Workers, Work(w)
      PROVE  UNCHANGED <<table, archive>>
  BY <1>2
  DEF Work, WorkerStep, Pop, MarkProcessing, Deliver, MarkDelivered, AnnounceDelivered,
      MarkFailed, AnnounceFailed, Announce, CountRetry, MarkQueued, ScheduleRetry, TryUpdate,
      UpdateStatus, IncrementRetry, tableVars
<1>3. CASE Tick
  BY <1>3
  DEF Tick, SchedulerStep, FetchScheduled, PushScheduled, MarkScheduledQueued, FetchRetries,
      RequeueRetry, PipelineBreaks, ArchiveSelect, ArchiveMove, BulkUpdateStatus, Archive,
      tableVars, Fresh
<1>4. CASE Crash \/ UNCHANGED vars
  BY <1>4 DEF Crash, vars, tableVars, Fresh
<1> QED
  BY <1>1, <1>2, <1>3, <1>4 DEF Next, Fresh

LEMMA NextFreshIsIdle ==
    ASSUME TypeOK, Sourced, FreshIsIdle, [Next]_vars
    PROVE  FreshIsIdle'
<1> SUFFICES ASSUME NEW id \in Fresh'
             PROVE  ~HasCopy(id)' /\ ~MayBeResent(id)'
  BY DEF FreshIsIdle
<1>1. id \in Fresh /\ id \in Ids
  BY RowsStay DEF Fresh
<1>2. Idle(id)
  BY <1>1 DEF Idle, ToBeFetched, FreshIsIdle, Fresh
<1>3. ~Inserted(id)
  BY DEF Inserted, Store, InsertRows, Fresh
<1> QED
  BY <1>1, <1>2, <1>3, NextStaysIdle DEF StaysIdle, Idle

(***************************************************************************)
(* The refinement.                                                         *)
(***************************************************************************)

LEMMA WeakTypes == TypeOK => Weak!PromiseTypeOK
<1> SUFFICES ASSUME TypeOK
             PROVE  Weak!PromiseTypeOK
  OBVIOUS
<1>1. \A id \in Ids : WeakStageOf(id) \in {"new", "open", "closed"}
  BY DEF WeakStageOf
<1>2. /\ attempts \in [Ids -> Nat]
      /\ events \in [Ids -> SUBSET {"delivered", "failed"}]
  BY DEF TypeOK, WorkerTypeOK
<1> QED
  BY <1>1, <1>2 DEF Weak!PromiseTypeOK, Weak!Stages, Weak!Outcomes

LEMMA WeakInit == Init => Weak!Init
<1> SUFFICES ASSUME Init
             PROVE  Weak!Init
  OBVIOUS
<1>1. \A id \in Ids :
        WeakStageOf(id) = "new" /\ attempts[id] = 0 /\ accepted[id] = {} /\ events[id] = {}
  BY DEF Init, TableInit, WorkerInit, WeakStageOf, Fresh
<1> QED
  BY <1>1 DEF Weak!Init, Init, WorkerInit

LEMMA WeakStages ==
    ASSUME TypeOK, Sourced, FreshIsIdle, [Next]_vars, NEW id \in Ids
    PROVE  /\ Idle(id) /\ StaysIdle(id) => WeakStageOf(id)' = WeakStageOf(id)
           /\ Idle(id) /\ ~StaysIdle(id) => WeakStageOf(id) = "new"
           /\ ~Idle(id) => WeakStageOf(id) = "open" /\ WeakStageOf(id)' # "new"
           /\ HasCopy(id)' => WeakStageOf(id)' = "open"
<1>1. ASSUME Idle(id), StaysIdle(id)
      PROVE  WeakStageOf(id)' = WeakStageOf(id)
  <2>1. ~HasCopy(id) /\ ~ToBeFetched(id) /\ ~MayBeResent(id)
    BY <1>1 DEF Idle
  <2>2. ~HasCopy(id)' /\ ~ToBeFetched(id)' /\ ~MayBeResent(id)'
    BY <1>1 DEF StaysIdle, Idle
  <2>3. id \in Fresh' <=> id \in Fresh
    BY <1>1 DEF StaysIdle, RowStays
  <2> QED
    BY <2>1, <2>2, <2>3 DEF WeakStageOf
<1>2. ASSUME Idle(id), ~StaysIdle(id)
      PROVE  WeakStageOf(id) = "new"
  <2>1. id \in Fresh
    BY <1>2, NextStaysIdle DEF Inserted
  <2> QED
    BY <2>1 DEF WeakStageOf
<1>3. ASSUME ~Idle(id)
      PROVE  WeakStageOf(id) = "open" /\ WeakStageOf(id)' # "new"
  <2>1. /\ id \notin Fresh /\ id \notin Fresh'
        /\ HasCopy(id) \/ ToBeFetched(id) \/ MayBeResent(id)
    BY <1>3, RowsStay DEF Idle, FreshIsIdle, ToBeFetched, Fresh
  <2> QED
    BY <2>1 DEF WeakStageOf
<1>4. ASSUME HasCopy(id)'
      PROVE  WeakStageOf(id)' = "open"
  <2>1. id \notin Fresh'
    BY <1>4, NextFreshIsIdle DEF FreshIsIdle
  <2> QED
    BY <1>4, <2>1 DEF WeakStageOf
<1> QED
  BY <1>1, <1>2, <1>3, <1>4

LEMMA RecordedSteps ==
    ASSUME TypeOK, Sourced, FreshIsIdle, [Next]_vars, NEW id \in Ids, SameRecord(id),
           Idle(id) => WeakStageOf(id)' = WeakStageOf(id) \/ WeakStageOf(id) = "new"
    PROVE  Weak!WeakStep(id)
<1> USE DEF Weak!Move, Weak!NoTry, Weak!Silent
<1>1. CASE WeakStageOf(id)' = WeakStageOf(id)
  BY <1>1 DEF Weak!WeakStep, Weak!Stay, SameRecord
<1>2. CASE WeakStageOf(id) = "new" /\ WeakStageOf(id)' = "open"
  BY <1>2 DEF Weak!WeakStep, Weak!Accept, SameRecord
<1>3. CASE WeakStageOf(id) # "closed" /\ WeakStageOf(id)' = "closed"
  BY <1>3 DEF Weak!WeakStep, Weak!Lose, SameRecord
<1>4. WeakStageOf(id)' \in {"new", "open", "closed"}
  BY DEF WeakStageOf
<1> QED
  BY <1>1, <1>2, <1>3, <1>4, WeakStages

LEMMA WeakSteps ==
    ASSUME TypeOK, Sourced, FreshIsIdle, AnnouncementsBacked, [Next]_vars, NEW id \in Ids
    PROVE  Weak!WeakStep(id)
<1> USE DEF Weak!Move, Weak!NoTry, Weak!Silent
<1>1. CASE \A w \in Workers : ~Work(w)
  <2>1. SameRecord(id)
    BY <1>1, OthersRecords
  <2> QED
    BY <2>1, RecordedSteps, WeakStages
<1>2. ASSUME NEW w \in Workers, Work(w)
      PROVE  Weak!WeakStep(id)
  <2>1. CASE Idle(id)
    <3>1. StaysIdle(id)
      BY <1>2, <2>1, WorkStaysIdle
    <3>2. SameRecord(id)
      BY <3>1 DEF StaysIdle, SameRecord
    <3> QED
      BY <2>1, <3>1, <3>2, RecordedSteps, WeakStages
  <2>2. CASE ~Idle(id) /\ SameRecord(id)
    BY <2>2, RecordedSteps
  <2>3. CASE ~Idle(id) /\ TriedBy(w, id)
    <3>1. HasCopy(id)'
      BY <2>3 DEF TriedBy, HasCopy, WithWorker
    <3>2. WeakStageOf(id) = "open" /\ WeakStageOf(id)' = "open"
      BY <2>3, <3>1, WeakStages
    <3> QED
      BY <2>3, <3>2 DEF TriedBy, Weak!WeakStep, Weak!TryCopy
  <2>4. CASE ~Idle(id) /\ ToldBy(w, id)
    <3>1. WeakStageOf(id) = "open" /\ WeakStageOf(id)' \in {"open", "closed"}
      BY <2>4, WeakStages DEF WeakStageOf
    <3>2. \/ accepted[id] # {} /\ events'[id] = events[id] \cup {"delivered"}
          \/ attempts[id] >= MaxRetries + 1 /\ events'[id] = events[id] \cup {"failed"}
      BY <2>4 DEF ToldBy, Holds, AnnouncementsBacked
    <3> QED
      BY <2>4, <3>1, <3>2 DEF ToldBy, Weak!WeakStep, Weak!AnnounceCopy
  <2> QED
    BY <1>2, <2>1, <2>2, <2>3, <2>4, WorkRecords
<1> QED
  BY <1>1, <1>2

LEMMA WeakNextStep ==
    ASSUME TypeOK, Sourced, FreshIsIdle, AnnouncementsBacked, [Next]_vars
    PROVE  Weak!WeakNext
<1>0. TypeOK'
  BY NextType
<1>1. Weak!PromiseTypeOK'
  BY <1>0, WeakTypes, PTL
<1> QED
  BY <1>1, WeakSteps DEF Weak!WeakNext

(* What the weak promise rests on.                                         *)
WeakBasis == TypeOK /\ Sourced /\ AttemptsAccounted /\ FreshIsIdle /\ AnnouncementsBacked

LEMMA InitWeakBasis == Init => WeakBasis
<1> SUFFICES ASSUME Init
             PROVE  WeakBasis
  OBVIOUS
<1>1. Sourced /\ AnnouncementsBacked
  BY DEF Init, TableInit, SchedulerInit, WorkerInit, Sourced, AnnouncementsBacked, Fresh
<1>2. FreshIsIdle
  BY DEF Init, QueueInit, ServiceInit, WorkerInit, SchedulerInit, FreshIsIdle, HasCopy,
         WithRequest, Listed, Slots, AwaitingRetry, WithWorker, Holds, WithScheduler,
         MayBeResent
<1> QED
  BY <1>1, <1>2, InitType, InitAccounting DEF WeakBasis

LEMMA NextWeakBasis ==
    ASSUME WeakBasis, [Next]_vars
    PROVE  WeakBasis'
BY NextType, NextSourced, NextAccounting, NextFreshIsIdle, NextAnnouncements DEF WeakBasis

(* Whatever calls fail, however often the process is killed, and for       *)
(* scheduled notifications too: every step keeps the weak promise.  An     *)
(* outcome the provider's answers do not back is never announced, and a    *)
(* notification that has no message, under way or still to be answered     *)
(* for, and is not pending is over for good.                               *)
THEOREM PipelineKeepsWeakPromise == Spec => KeepsWeakPromise
<1>1. Spec => []WeakBasis
  BY InitWeakBasis, NextWeakBasis, PTL DEF Spec
<1>2. WeakBasis /\ [Next]_vars => [Weak!WeakNext]_Weak!promiseVars
  BY WeakNextStep DEF WeakBasis
<1> QED
  BY <1>1, <1>2, WeakInit, PTL DEF Spec, KeepsWeakPromise, Weak!WeakSpec

=============================================================================
