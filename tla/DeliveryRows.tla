----------------------------- MODULE DeliveryRows ----------------------------
(***************************************************************************)
(* Type correctness of DeliverySystem, for any notifications, workers,     *)
(* requests, limits and failing calls, and what no step does to a row.  A  *)
(* row of the archive is final: no statement of a worker, of the scheduler *)
(* or of a request reaches it.  A cancelled notification without a message *)
(* under way is left alone: a message only comes from another message or   *)
(* from a row, and a row only becomes one when it is new or pending.       *)
(***************************************************************************)
EXTENDS DeliverySystem, TLAPS

(***************************************************************************)
(* Types of the statements and queue operations.                           *)
(***************************************************************************)

LEMMA UpdateStatusType ==
    ASSUME TableTypeOK, NEW id \in Ids, NEW s \in Status, NEW n \in Nat,
           UpdateStatus(id, s, n)
    PROVE  TableTypeOK'
BY DEF TableTypeOK, UpdateStatus

LEMMA TableUnchangedType ==
    ASSUME TableTypeOK, UNCHANGED tableVars
    PROVE  TableTypeOK'
BY DEF TableTypeOK, tableVars

LEMMA LPushLists ==
    ASSUME QueueTypeOK, NEW m \in Message, LPush(m)
    PROVE  lists' \in [Priority -> Seq(Message)]
<1>1. queueKey(m) \in Priority
  BY DomainAssumption DEF queueKey, Message
<1>2. Append(lists[queueKey(m)], m) \in Seq(Message)
  BY <1>1 DEF QueueTypeOK
<1> QED
  BY <1>1, <1>2 DEF QueueTypeOK, LPush

LEMMA LPushType ==
    ASSUME QueueTypeOK, NEW m \in Message, LPush(m), UNCHANGED retryQueue
    PROVE  QueueTypeOK'
BY LPushLists DEF QueueTypeOK

LEMMA QueueUnchangedType ==
    ASSUME QueueTypeOK, UNCHANGED queueVars
    PROVE  QueueTypeOK'
BY DEF QueueTypeOK, queueVars

LEMMA RPopType ==
    ASSUME QueueTypeOK, NEW p \in Priority, Poppable(p), RPop(p), UNCHANGED retryQueue
    PROVE  QueueTypeOK' /\ Head(lists[p]) \in Message
BY DEF QueueTypeOK, Poppable, RPop

LEMMA WorkerUnchangedType ==
    ASSUME WorkerTypeOK, UNCHANGED workerVars
    PROVE  WorkerTypeOK'
BY DEF WorkerTypeOK, workerVars

LEMMA SchedulerUnchangedType ==
    ASSUME SchedulerTypeOK, UNCHANGED schedulerVars
    PROVE  SchedulerTypeOK'
BY DEF SchedulerTypeOK, schedulerVars, pipeVars

LEMMA ApiType ==
    ASSUME TypeOK, Api
    PROVE  TypeOK'
<1> USE DEF TypeOK
<1>0. WorkerTypeOK' /\ SchedulerTypeOK'
  BY WorkerUnchangedType, SchedulerUnchangedType DEF Api
<1>1. ASSUME NEW r \in Requests, NEW S \in SUBSET Fresh, Store(r, S)
      PROVE  TypeOK'
  <2>1. S \subseteq Ids
    BY DEF Fresh
  <2>2. TableTypeOK'
    BY <1>1, <2>1 DEF Store, InsertRows, TableTypeOK, InitialStatus, Status
  <2>3. ServiceTypeOK'
    BY <1>1, <2>1 DEF Store, ServiceTypeOK, serviceVars
  <2>4. faultsLeft' \in Nat
    BY <1>1 DEF Store, Works, Fails
  <2> QED
    BY <1>0, <1>1, <2>2, <2>3, <2>4, QueueUnchangedType DEF Store
<1>2. ASSUME NEW r \in Requests, NEW id \in Ids, Enqueue(r, id)
      PROVE  TypeOK'
  <2> DEFINE m == [id |-> id, retry |-> 0, span |-> 0]
  <2>1. m \in Message
    BY DEF Message
  <2>2. QueueTypeOK'
    BY <1>2, <2>1, LPushType, QueueUnchangedType DEF Enqueue, queueVars
  <2>3. ServiceTypeOK'
    BY <1>2 DEF Enqueue, ServiceTypeOK
  <2>4. faultsLeft' \in Nat
    BY <1>2 DEF Enqueue, Works, Fails
  <2> QED
    BY <1>0, <1>2, <2>2, <2>3, <2>4, TableUnchangedType DEF Enqueue
<1>3. ASSUME NEW id \in Ids, Cancel(id)
      PROVE  TypeOK'
  <2>1. TableTypeOK'
    BY <1>3 DEF Cancel, CancelRow, TableTypeOK, Status
  <2> QED
    BY <1>0, <1>3, <2>1, QueueUnchangedType DEF Cancel, ServiceTypeOK, serviceVars
<1> QED
  BY <1>1, <1>2, <1>3 DEF Api, ServiceStep, Create, CreateBatch, Fresh

LEMMA TryUpdateType ==
    ASSUME TypeOK, NEW w \in Workers, wmsg[w] \in Message,
           NEW s \in Status, NEW n \in Nat, NEW pc \in WorkerPCs, TryUpdate(w, s, n, pc)
    PROVE  TableTypeOK' /\ WorkerTypeOK' /\ QueueTypeOK' /\ faultsLeft' \in Nat
<1> USE DEF TypeOK
<1>1. TableTypeOK'
  BY UpdateStatusType, TableUnchangedType DEF TryUpdate, Message
<1>2. WorkerTypeOK'
  BY DEF TryUpdate, Goto, WorkerTypeOK
<1>3. faultsLeft' \in Nat
  BY DEF TryUpdate, Works, Fails
<1> QED
  BY <1>1, <1>2, <1>3, QueueUnchangedType DEF TryUpdate

(* What deliver leaves behind: after an acceptance the message id it was   *)
(* answered with, and otherwise handleFailure's choice.                    *)
Delivering(w, span, pc) ==
    /\ wmsg' = [wmsg EXCEPT ![w].span = span]
    /\ wpc' = [wpc EXCEPT ![w] = pc]
    /\ IF pc = "delivered"
       THEN accepted' = [accepted EXCEPT ![wmsg[w].id] = @ \cup {span}]
       ELSE UNCHANGED accepted
    /\ pc = "failed" => Exhausted(wmsg[w])
    /\ pc = "increment" => ~Exhausted(wmsg[w])

LEMMA DeliverShape ==
    ASSUME TypeOK, NEW w \in Workers, Deliver(w)
    PROVE  \E span \in Nat \ {NoProviderID}, pc \in {"delivered", "failed", "increment"} :
               Delivering(w, span, pc)
<1> DEFINE n == attempts[wmsg[w].id] + 1
<1>1. n \in Nat /\ n > 0
  BY DEF Deliver, TypeOK, WorkerTypeOK, Message
<1>2. MessageID(n) \in Nat \ {NoProviderID} /\ EmptyID \in Nat \ {NoProviderID}
  BY <1>1 DEF MessageID, EmptyID, NoProviderID
<1>3. n \in Nat \ {NoProviderID}
  BY <1>1 DEF NoProviderID
<1> HIDE DEF n
<1>4. ASSUME NEW msgID \in {MessageID(n), EmptyID},
             accepted' = [accepted EXCEPT ![wmsg[w].id] = @ \cup {msgID}],
             wmsg' = [wmsg EXCEPT ![w].span = msgID], Goto(w, "delivered")
      PROVE  Delivering(w, msgID, "delivered") /\ msgID \in Nat \ {NoProviderID}
  BY <1>2, <1>4 DEF Delivering, Goto
<1>5. ASSUME Goto(w, IF Exhausted(wmsg[w]) THEN "failed" ELSE "increment"),
             wmsg' = [wmsg EXCEPT ![w].span = n], UNCHANGED accepted
      PROVE  \E pc \in {"failed", "increment"} : Delivering(w, n, pc)
  <2>1. CASE Exhausted(wmsg[w])
    BY <1>5, <2>1 DEF Delivering, Goto
  <2>2. CASE ~Exhausted(wmsg[w])
    BY <1>5, <2>2 DEF Delivering, Goto
  <2> QED
    BY <2>1, <2>2
<1>6. \/ \E msgID \in {MessageID(n), EmptyID} :
            /\ accepted' = [accepted EXCEPT ![wmsg[w].id] = @ \cup {msgID}]
            /\ wmsg' = [wmsg EXCEPT ![w].span = msgID]
            /\ Goto(w, "delivered")
      \/ /\ Goto(w, IF Exhausted(wmsg[w]) THEN "failed" ELSE "increment")
         /\ wmsg' = [wmsg EXCEPT ![w].span = n]
         /\ UNCHANGED accepted
  BY DEF Deliver, n
<1>7. CASE \E msgID \in {MessageID(n), EmptyID} :
             /\ accepted' = [accepted EXCEPT ![wmsg[w].id] = @ \cup {msgID}]
             /\ wmsg' = [wmsg EXCEPT ![w].span = msgID]
             /\ Goto(w, "delivered")
  BY <1>4, <1>7
<1> QED
  BY <1>3, <1>5, <1>6, <1>7

LEMMA WorkType ==
    ASSUME TypeOK, NEW w \in Workers, Work(w)
    PROVE  TypeOK'
<1> USE DEF TypeOK
<1>0. ServiceTypeOK' /\ SchedulerTypeOK'
  BY SchedulerUnchangedType DEF Work, ServiceTypeOK, serviceVars
<1>a. wpc[w] # "pop" => wmsg[w] \in Message
  BY DEF WorkerTypeOK
<1>1. CASE Pop(w)
  <2> PICK p \in Priority :
        /\ Poppable(p)
        /\ RPop(p)
        /\ \/ /\ Works
              /\ wmsg' = [wmsg EXCEPT ![w] = Head(lists[p])]
              /\ Goto(w, "processing")
           \/ Fails("brpop") /\ UNCHANGED <<wpc, wmsg>>
    BY <1>1 DEF Pop
  <2>1. QueueTypeOK' /\ Head(lists[p]) \in Message
    BY <1>1, RPopType DEF Pop
  <2>2. WorkerTypeOK'
    BY <1>1, <2>1 DEF Pop, WorkerTypeOK, Goto, WorkerPCs
  <2>3. faultsLeft' \in Nat
    BY DEF Works, Fails
  <2> QED
    BY <1>0, <1>1, <2>1, <2>2, <2>3, TableUnchangedType DEF Pop
<1>2. CASE MarkProcessing(w)
  BY <1>0, <1>a, <1>2, TryUpdateType DEF MarkProcessing, Status, NoProviderID, WorkerPCs
<1>3. CASE Deliver(w)
  <2>1. wmsg[w] \in Message
    BY <1>3, <1>a DEF Deliver
  <2>2. attempts[wmsg[w].id] + 1 \in Nat
    BY <2>1 DEF WorkerTypeOK, Message
  <2>3. PICK span \in Nat \ {NoProviderID}, pc \in {"delivered", "failed", "increment"} :
          Delivering(w, span, pc)
    BY <1>3, DeliverShape
  <2>4. [wmsg[w] EXCEPT !.span = span] \in Message
    BY <2>1 DEF Message
  <2>5. wmsg' \in [Workers -> Message \cup {NoMsg}] /\ wmsg'[w] \in Message
    BY <2>3, <2>4 DEF Delivering, WorkerTypeOK
  <2>6. accepted' \in [Ids -> SUBSET Nat]
    BY <2>3 DEF Delivering, WorkerTypeOK
  <2>7. WorkerTypeOK'
    BY <1>3, <2>2, <2>3, <2>5, <2>6 DEF Deliver, Delivering, WorkerTypeOK, WorkerPCs
  <2>8. faultsLeft' \in Nat
    BY <1>3 DEF Deliver, Works, Fails
  <2> QED
    BY <1>0, <1>3, <2>7, <2>8, TableUnchangedType, QueueUnchangedType DEF Deliver
<1>4. CASE MarkDelivered(w)
  <2>1. wmsg[w].span \in Nat
    BY <1>4, <1>a DEF MarkDelivered, Message
  <2> QED
    BY <1>0, <1>a, <1>4, <2>1, TryUpdateType DEF MarkDelivered, Status, WorkerPCs
<1>5. CASE AnnounceDelivered(w) \/ AnnounceFailed(w)
  <2>1. WorkerTypeOK'
    BY <1>5, <1>a DEF AnnounceDelivered, AnnounceFailed, Announce, Done, Goto, WorkerTypeOK,
                      WorkerPCs, Message
  <2> QED
    BY <1>0, <1>5, <2>1, TableUnchangedType, QueueUnchangedType
    DEF AnnounceDelivered, AnnounceFailed, Announce
<1>6. CASE MarkFailed(w)
  BY <1>0, <1>a, <1>6, TryUpdateType DEF MarkFailed, Status, NoProviderID, WorkerPCs
<1>7. CASE CountRetry(w)
  <2>1. wmsg[w] \in Message
    BY <1>7, <1>a DEF CountRetry
  <2>2. [wmsg[w] EXCEPT !.retry = wmsg[w].retry + 1] \in Message
    BY <2>1 DEF Message
  <2>3. WorkerTypeOK'
    BY <1>7, <2>2 DEF CountRetry, WorkerTypeOK, Goto, WorkerPCs
  <2>4. TableTypeOK'
    BY <1>7 DEF CountRetry, IncrementRetry, TableTypeOK, tableVars
  <2>5. faultsLeft' \in Nat
    BY <1>7 DEF CountRetry, Works, Fails
  <2> QED
    BY <1>0, <1>7, <2>3, <2>4, <2>5, QueueUnchangedType DEF CountRetry
<1>8. CASE MarkQueued(w)
  <2>1. wmsg[w] \in Message /\ wmsg[w].id \in Ids
    BY <1>8, <1>a DEF MarkQueued, Message
  <2>2. TableTypeOK'
    BY <1>8, <2>1, UpdateStatusType, TableUnchangedType DEF MarkQueued, Status, NoProviderID
  <2>3. WorkerTypeOK'
    BY <1>8, <2>1 DEF MarkQueued, Done, Goto, WorkerTypeOK, WorkerPCs
  <2>4. faultsLeft' \in Nat
    BY <1>8 DEF MarkQueued, Works, Fails
  <2> QED
    BY <1>0, <1>8, <2>2, <2>3, <2>4, QueueUnchangedType DEF MarkQueued
<1>9. CASE ScheduleRetry(w)
  <2>1. QueueTypeOK'
    BY <1>9, <1>a DEF ScheduleRetry, QueueTypeOK
  <2>2. WorkerTypeOK'
    BY <1>9 DEF ScheduleRetry, Done, Goto, WorkerTypeOK, WorkerPCs
  <2>3. faultsLeft' \in Nat
    BY <1>9 DEF ScheduleRetry, Works, Fails
  <2> QED
    BY <1>0, <1>9, <2>1, <2>2, <2>3, TableUnchangedType DEF ScheduleRetry
<1> QED
  BY <1>1, <1>2, <1>3, <1>4, <1>5, <1>6, <1>7, <1>8, <1>9 DEF Work, WorkerStep

LEMMA TickType ==
    ASSUME TypeOK, Tick
    PROVE  TypeOK'
<1> USE DEF TypeOK
<1>0. ServiceTypeOK' /\ WorkerTypeOK'
  BY WorkerUnchangedType DEF Tick, ServiceTypeOK, serviceVars
<1>1. ASSUME NEW S \in SUBSET DueScheduled, FetchScheduled(S)
      PROVE  TypeOK'
  <2>1. S \subseteq Ids
    BY DEF DueScheduled, TableTypeOK
  <2>2. SchedulerTypeOK'
    BY <1>1, <2>1 DEF FetchScheduled, SchedulerTypeOK, SchedulerPCs, Message, TableTypeOK
  <2> QED
    BY <1>0, <1>1, <2>2, TableUnchangedType, QueueUnchangedType DEF FetchScheduled
<1>2. ASSUME NEW m \in pipe, PushScheduled(m)
      PROVE  TypeOK'
  <2>1. m \in Message
    BY DEF SchedulerTypeOK
  <2>2. SchedulerTypeOK'
    BY <1>2 DEF PushScheduled, Executed, Resent, GivenUp, SchedulerTypeOK, SchedulerPCs
  <2>3. faultsLeft' \in Nat
    BY <1>2 DEF PushScheduled, Executed, Resent, GivenUp, Works, Fails
  <2> QED
    BY <1>0, <1>2, <2>1, <2>2, <2>3, TableUnchangedType, LPushType DEF PushScheduled
<1>3. CASE MarkScheduledQueued
  <2>1. TableTypeOK'
    BY <1>3 DEF MarkScheduledQueued, BulkUpdateStatus, TableTypeOK, tableVars, Status
  <2>2. SchedulerTypeOK' /\ faultsLeft' \in Nat
    BY <1>3 DEF MarkScheduledQueued, SchedulerTypeOK, SchedulerPCs, Works, Fails
  <2> QED
    BY <1>0, <1>3, <2>1, <2>2, QueueUnchangedType DEF MarkScheduledQueued
<1>4. ASSUME NEW S \in SUBSET retryQueue, FetchRetries(S)
      PROVE  TypeOK'
  <2>1. SchedulerTypeOK'
    BY <1>4 DEF FetchRetries, SchedulerTypeOK, SchedulerPCs, QueueTypeOK
  <2> QED
    BY <1>0, <1>4, <2>1, TableUnchangedType, QueueUnchangedType DEF FetchRetries
<1>5. ASSUME NEW m \in pipe, RequeueRetry(m)
      PROVE  TypeOK'
  <2>1. m \in Message
    BY DEF SchedulerTypeOK
  <2>2. /\ retryQueue' \in SUBSET Message
        /\ SchedulerTypeOK'
        /\ faultsLeft' \in Nat
    BY <1>5
    DEF RequeueRetry, Executed, Resent, GivenUp, QueueTypeOK, SchedulerTypeOK, SchedulerPCs,
        Works, Fails
  <2>3. QueueTypeOK'
    BY <1>5, <2>1, <2>2, LPushLists DEF RequeueRetry, QueueTypeOK
  <2> QED
    BY <1>0, <1>5, <2>2, <2>3, TableUnchangedType DEF RequeueRetry
<1>6. CASE PipelineBreaks
  <2>1. SchedulerTypeOK' /\ faultsLeft' \in Nat
    BY <1>6 DEF PipelineBreaks, Resent, GivenUp, SchedulerTypeOK, SchedulerPCs, Fails
  <2> QED
    BY <1>0, <1>6, <2>1, TableUnchangedType, QueueUnchangedType DEF PipelineBreaks
<1>7. ASSUME NEW S \in SUBSET Archivable, ArchiveSelect(S)
      PROVE  TypeOK'
  <2>1. SchedulerTypeOK'
    BY <1>7 DEF ArchiveSelect, Archivable, TableTypeOK, SchedulerTypeOK, SchedulerPCs, pipeVars
  <2> QED
    BY <1>0, <1>7, <2>1, TableUnchangedType, QueueUnchangedType DEF ArchiveSelect
<1>8. CASE ArchiveMove
  <2>1. TableTypeOK' /\ SchedulerTypeOK'
    BY <1>8
    DEF ArchiveMove, Archive, TableTypeOK, SchedulerTypeOK, SchedulerPCs, pipeVars
  <2> QED
    BY <1>0, <1>8, <2>1, QueueUnchangedType DEF ArchiveMove
<1> QED
  BY <1>1, <1>2, <1>3, <1>4, <1>5, <1>6, <1>7, <1>8 DEF Tick, SchedulerStep

LEMMA InitType == Init => TypeOK
BY DomainAssumption
DEF Init, TypeOK, TableInit, TableTypeOK, NoProviderID, QueueInit, QueueTypeOK, ServiceInit,
    ServiceTypeOK, WorkerInit, WorkerTypeOK, WorkerPCs, SchedulerInit, SchedulerTypeOK,
    SchedulerPCs

LEMMA NextType ==
    ASSUME TypeOK, [Next]_vars
    PROVE  TypeOK'
<1>1. CASE Crash
  BY <1>1, TableUnchangedType, QueueUnchangedType
  DEF Crash, Fails, TypeOK, ServiceTypeOK, WorkerTypeOK, WorkerPCs, SchedulerTypeOK, SchedulerPCs
<1>2. CASE UNCHANGED vars
  BY <1>2, TableUnchangedType, QueueUnchangedType, WorkerUnchangedType, SchedulerUnchangedType
  DEF vars, TypeOK, ServiceTypeOK, serviceVars
<1> QED
  BY <1>1, <1>2, ApiType, WorkType, TickType DEF Next

(* Every variable keeps its type: in particular a worker that is not in    *)
(* BRPOP always holds a message, and no list, retry set or pipeline ever   *)
(* holds anything else.                                                    *)
THEOREM TypeCorrect == Spec => []TypeOK
BY InitType, NextType, PTL DEF Spec

(***************************************************************************)
(* The archive.                                                            *)
(***************************************************************************)

(* An id has a row in at most one of the two tables.                       *)
ArchiveSettled == archive \cap table = {}

(* What a statement may do to the tables: rows come and change outside the *)
(* archive, and rows move into it as they are.                             *)
KeepsArchive ==
    \/ /\ archive' = archive
       /\ table' \cap archive = {}
       /\ \A id \in archive :
             /\ status'[id] = status[id]
             /\ retryCount'[id] = retryCount[id]
             /\ providerMsgID'[id] = providerMsgID[id]
    \/ \E S \in SUBSET Ids : Archive(S)

LEMMA UnchangedKeeps ==
    ASSUME ArchiveSettled, UNCHANGED tableVars
    PROVE  KeepsArchive
BY DEF ArchiveSettled, KeepsArchive, tableVars

LEMMA UpdateStatusKeeps ==
    ASSUME TypeOK, ArchiveSettled, NEW id, NEW s, NEW msgID, UpdateStatus(id, s, msgID)
    PROVE  KeepsArchive
BY DEF TypeOK, TableTypeOK, ArchiveSettled, UpdateStatus, KeepsArchive

LEMMA IncrementRetryKeeps ==
    ASSUME TypeOK, ArchiveSettled, NEW id, IncrementRetry(id)
    PROVE  KeepsArchive
BY DEF TypeOK, TableTypeOK, ArchiveSettled, IncrementRetry, KeepsArchive

LEMMA ApiKeeps ==
    ASSUME TypeOK, ArchiveSettled, Api
    PROVE  KeepsArchive
<1>1. ASSUME NEW r \in Requests, NEW S \in SUBSET Fresh, Store(r, S)
      PROVE  KeepsArchive
  BY <1>1 DEF TypeOK, TableTypeOK, ArchiveSettled, Store, InsertRows, Fresh, KeepsArchive
<1>2. ASSUME NEW r \in Requests, NEW id \in Ids, Enqueue(r, id)
      PROVE  KeepsArchive
  BY <1>2, UnchangedKeeps DEF Enqueue, tableVars
<1>3. ASSUME NEW id \in Ids, Cancel(id)
      PROVE  KeepsArchive
  BY <1>3
  DEF TypeOK, TableTypeOK, ArchiveSettled, Cancel, CancelRow, Cancellable, KeepsArchive
<1> QED
  BY <1>1, <1>2, <1>3 DEF Api, ServiceStep, Create, CreateBatch, Fresh

LEMMA WorkKeeps ==
    ASSUME TypeOK, ArchiveSettled, NEW w \in Workers, Work(w)
    PROVE  KeepsArchive
<1>1. CASE UNCHANGED tableVars
  BY <1>1, UnchangedKeeps
<1>2. ASSUME NEW s, NEW msgID, NEW next, TryUpdate(w, s, msgID, next)
      PROVE  KeepsArchive
  BY <1>2, UnchangedKeeps, UpdateStatusKeeps DEF TryUpdate
<1>3. CASE CountRetry(w)
  BY <1>3, UnchangedKeeps, IncrementRetryKeeps DEF CountRetry
<1>4. CASE MarkQueued(w)
  BY <1>4, UnchangedKeeps, UpdateStatusKeeps DEF MarkQueued
<1>5. CASE MarkProcessing(w) \/ MarkDelivered(w) \/ MarkFailed(w)
  BY <1>2, <1>5 DEF MarkProcessing, MarkDelivered, MarkFailed
<1>6. CASE Pop(w) \/ Deliver(w) \/ AnnounceDelivered(w) \/ AnnounceFailed(w) \/ ScheduleRetry(w)
  BY <1>1, <1>6
  DEF Pop, Deliver, AnnounceDelivered, AnnounceFailed, Announce, ScheduleRetry, tableVars
<1> QED
  BY <1>3, <1>4, <1>5, <1>6 DEF Work, WorkerStep

LEMMA TickKeeps ==
    ASSUME TypeOK, ArchiveSettled, Tick
    PROVE  KeepsArchive
<1>1. CASE MarkScheduledQueued
  <2>1. CASE BulkUpdateStatus(sids, "queued")
    BY <2>1 DEF TypeOK, TableTypeOK, ArchiveSettled, BulkUpdateStatus, KeepsArchive
  <2> QED
    BY <1>1, <2>1, UnchangedKeeps DEF MarkScheduledQueued
<1>2. CASE ArchiveMove
  BY <1>2 DEF ArchiveMove, KeepsArchive, TypeOK, SchedulerTypeOK
<1>3. ASSUME \/ \E S \in SUBSET DueScheduled : FetchScheduled(S)
             \/ \E m \in pipe : PushScheduled(m)
             \/ \E S \in SUBSET retryQueue : FetchRetries(S)
             \/ \E m \in pipe : RequeueRetry(m)
             \/ PipelineBreaks
             \/ \E S \in SUBSET Archivable : ArchiveSelect(S)
      PROVE  KeepsArchive
  BY <1>3, UnchangedKeeps
  DEF FetchScheduled, PushScheduled, FetchRetries, RequeueRetry, PipelineBreaks,
      ArchiveSelect, tableVars
<1> QED
  BY <1>1, <1>2, <1>3 DEF Tick, SchedulerStep

(* Every step of the system keeps the archive.                             *)
LEMMA NextKeeps ==
    ASSUME TypeOK, ArchiveSettled, [Next]_vars
    PROVE  KeepsArchive
<1>1. CASE Crash
  BY <1>1, UnchangedKeeps DEF Crash
<1>2. CASE UNCHANGED vars
  BY <1>2, UnchangedKeeps DEF vars
<1> QED
  BY <1>1, <1>2, ApiKeeps, WorkKeeps, TickKeeps DEF Next

LEMMA KeepingSettles ==
    ASSUME ArchiveSettled, KeepsArchive
    PROVE  ArchiveSettled'
<1>1. CASE \E S \in SUBSET Ids : Archive(S)
  BY <1>1 DEF ArchiveSettled, Archive
<1> QED
  BY <1>1 DEF ArchiveSettled, KeepsArchive

LEMMA Settled == Spec => [](TypeOK /\ ArchiveSettled)
<1>1. Init => ArchiveSettled
  BY DEF Init, TableInit, ArchiveSettled
<1>2. TypeOK /\ ArchiveSettled /\ [Next]_vars => ArchiveSettled'
  BY NextKeeps, KeepingSettles
<1> QED
  BY <1>1, <1>2, TypeCorrect, PTL DEF Spec

(* A row of the archive never changes and never comes back to the table,   *)
(* although workers and the bulk UPDATE do not look at what they overwrite *)
(* and the archive statement moves rows that have changed since its SELECT.*)
THEOREM ArchiveNeverChanges == Spec => ArchiveIsImmutable
<1> DEFINE Same(id) ==
      /\ id \in archive' \ table'
      /\ status'[id] = status[id]
      /\ retryCount'[id] = retryCount[id]
      /\ providerMsgID'[id] = providerMsgID[id]
<1>1. ASSUME TypeOK, ArchiveSettled, [Next]_vars, NEW id \in archive
      PROVE  Same(id)
  <2>1. KeepsArchive
    BY <1>1, NextKeeps
  <2>2. CASE \E S \in SUBSET Ids : Archive(S)
    BY <1>1, <2>2 DEF ArchiveSettled, Archive
  <2> QED
    BY <1>1, <2>1, <2>2 DEF KeepsArchive, ArchiveSettled
<1>2. TypeOK /\ ArchiveSettled /\ [Next]_vars => [\A id \in archive : Same(id)]_vars
  BY <1>1
<1> QED
  BY <1>2, Settled, PTL DEF Spec, ArchiveIsImmutable

(***************************************************************************)
(* Where messages come from.                                               *)
(***************************************************************************)

(* An id without a row has no status, and the messages in the scheduler's  *)
(* pipeline are those of the ids it fetched, or come from the retry set,   *)
(* where those it still has to push are unless the pipeline was sent again.*)
Sourced ==
    /\ \A id \in Fresh : status[id] = NoStatus
    /\ spc = "push" => \A m \in batch : m.id \in sids
    /\ spc # "push" /\ "resend" \notin Faults => pipe \subseteq retryQueue

(***************************************************************************)
(* Sourced is an invariant.                                                *)
(***************************************************************************)

(* No statement gives an id without a row a status.                        *)
LEMMA RowsHaveStatus ==
    ASSUME TypeOK, \A id \in Fresh : status[id] = NoStatus,
           \/ UNCHANGED tableVars
           \/ \E S \in SUBSET Fresh : InsertRows(S)
           \/ \E id \in Ids : \E s, n : UpdateStatus(id, s, n)
           \/ \E id \in Ids : IncrementRetry(id) \/ CancelRow(id)
           \/ \E S \in SUBSET Ids : \E s : BulkUpdateStatus(S, s)
           \/ \E S \in SUBSET Ids : Archive(S)
    PROVE  \A id \in Fresh' : status'[id] = NoStatus
<1> USE DEF TypeOK, TableTypeOK, Fresh
<1>1. CASE UNCHANGED tableVars
  BY <1>1 DEF tableVars
<1>2. CASE \E S \in SUBSET Fresh : InsertRows(S)
  BY <1>2 DEF InsertRows
<1>3. CASE \E id \in Ids : \E s, n : UpdateStatus(id, s, n)
  BY <1>3 DEF UpdateStatus
<1>4. CASE \E id \in Ids : IncrementRetry(id) \/ CancelRow(id)
  BY <1>4 DEF IncrementRetry, CancelRow, Cancellable
<1>5. CASE \E S \in SUBSET Ids : \E s : BulkUpdateStatus(S, s)
  BY <1>5 DEF BulkUpdateStatus
<1>6. CASE \E S \in SUBSET Ids : Archive(S)
  BY <1>6 DEF Archive
<1> QED
  BY <1>1, <1>2, <1>3, <1>4, <1>5, <1>6

LEMMA ApiSourced ==
    ASSUME TypeOK, Sourced, Api
    PROVE  Sourced'
<1>1. UNCHANGED <<schedulerVars, retryQueue>>
  BY DEF Api, ServiceStep, Create, CreateBatch, Store, Enqueue, Cancel, queueVars
<1>2. \/ UNCHANGED tableVars
      \/ \E S \in SUBSET Fresh : InsertRows(S)
      \/ \E id \in Ids : CancelRow(id)
  BY DEF Api, ServiceStep, Create, CreateBatch, Store, Enqueue, Cancel
<1>3. \A id \in Fresh' : status'[id] = NoStatus
  BY <1>2, RowsHaveStatus DEF Sourced
<1> QED
  BY <1>1, <1>3 DEF Sourced, schedulerVars, pipeVars

LEMMA WorkSourced ==
    ASSUME TypeOK, Sourced, NEW w \in Workers, Work(w)
    PROVE  Sourced'
<1>1. UNCHANGED schedulerVars /\ retryQueue \subseteq retryQueue'
  BY DEF Work, WorkerStep, Pop, MarkProcessing, Deliver, MarkDelivered, AnnounceDelivered,
         MarkFailed, AnnounceFailed, CountRetry, MarkQueued, ScheduleRetry, TryUpdate,
         Announce, queueVars
<1>2. wpc[w] # "pop" => wmsg[w].id \in Ids
  BY DEF TypeOK, WorkerTypeOK, Message
<1>3. \/ UNCHANGED tableVars
      \/ \E id \in Ids : \E s, n : UpdateStatus(id, s, n)
      \/ \E id \in Ids : IncrementRetry(id)
  BY <1>2
  DEF Work, WorkerStep, Pop, MarkProcessing, Deliver, MarkDelivered, AnnounceDelivered,
      MarkFailed, AnnounceFailed, CountRetry, MarkQueued, ScheduleRetry, TryUpdate, Announce
<1>4. \A id \in Fresh' : status'[id] = NoStatus
  BY <1>3, RowsHaveStatus DEF Sourced
<1> QED
  BY <1>1, <1>4 DEF Sourced, schedulerVars, pipeVars

LEMMA TickSourced ==
    ASSUME TypeOK, Sourced, Tick
    PROVE  Sourced'
<1>1. \/ UNCHANGED tableVars
      \/ \E S \in SUBSET Ids : \E s : BulkUpdateStatus(S, s)
      \/ \E S \in SUBSET Ids : Archive(S)
  BY DEF Tick, SchedulerStep, FetchScheduled, PushScheduled, MarkScheduledQueued,
         FetchRetries, RequeueRetry, PipelineBreaks, ArchiveSelect, ArchiveMove, TypeOK,
         SchedulerTypeOK
<1>2. \A id \in Fresh' : status'[id] = NoStatus
  BY <1>1, RowsHaveStatus DEF Sourced
<1>3. ASSUME NEW S \in SUBSET DueScheduled, FetchScheduled(S)
      PROVE  Sourced'
  BY <1>2, <1>3 DEF FetchScheduled, Sourced
<1>4. ASSUME NEW m \in pipe, PushScheduled(m)
      PROVE  Sourced'
  BY <1>2, <1>4 DEF PushScheduled, Executed, Resent, GivenUp, Fails, Sourced
<1>5. CASE MarkScheduledQueued
  BY <1>2, <1>5 DEF MarkScheduledQueued, Sourced, queueVars
<1>6. ASSUME NEW S \in SUBSET retryQueue, FetchRetries(S)
      PROVE  Sourced'
  BY <1>2, <1>6 DEF FetchRetries, Sourced, queueVars
<1>7. ASSUME NEW m \in pipe, RequeueRetry(m)
      PROVE  Sourced'
  BY <1>2, <1>7 DEF RequeueRetry, Executed, Resent, GivenUp, Fails, Sourced
<1>8. CASE PipelineBreaks
  BY <1>2, <1>8 DEF PipelineBreaks, Resent, GivenUp, Fails, Sourced, queueVars
<1>9. ASSUME ArchiveMove \/ \E S \in SUBSET Archivable : ArchiveSelect(S)
      PROVE  Sourced'
  BY <1>2, <1>9 DEF ArchiveMove, ArchiveSelect, Sourced, pipeVars, queueVars
<1> QED
  BY <1>3, <1>4, <1>5, <1>6, <1>7, <1>8, <1>9 DEF Tick, SchedulerStep

LEMMA NextSourced ==
    ASSUME TypeOK, Sourced, [Next]_vars
    PROVE  Sourced'
<1>1. CASE Crash
  <2>1. \A id \in Fresh' : status'[id] = NoStatus
    BY <1>1, RowsHaveStatus DEF Crash, Sourced
  <2> QED
    BY <1>1, <2>1 DEF Crash, Sourced
<1>2. CASE UNCHANGED vars
  BY <1>2 DEF vars, tableVars, queueVars, schedulerVars, pipeVars, Sourced, Fresh
<1> QED
  BY <1>1, <1>2, ApiSourced, WorkSourced, TickSourced DEF Next

LEMMA AlwaysSourced == Spec => [](TypeOK /\ Sourced)
<1>1. Init => Sourced
  BY DEF Init, TableInit, SchedulerInit, Sourced, Fresh
<1>2. TypeOK /\ Sourced /\ [Next]_vars => Sourced'
  BY NextSourced
<1> QED
  BY <1>1, <1>2, TypeCorrect, PTL DEF Spec

(***************************************************************************)
(* What has no message and is not pending gets neither, unless it is new.  *)
(***************************************************************************)

Idle(id) == ~HasCopy(id) /\ ~MayBeResent(id) /\ ~ToBeFetched(id)

(* A row that is left alone, cancelled or moved to the archive.            *)
RowStays(id) ==
    /\ id \in Fresh <=> id \in Fresh'
    /\ id \in table' => id \in table
    /\ status'[id] \in {status[id], "cancelled"}

Inserted(id) == \E r \in Requests, S \in SUBSET Fresh : id \in S /\ Store(r, S)

StaysIdle(id) ==
    /\ Idle(id)'
    /\ UNCHANGED <<attempts[id], accepted[id], events[id]>>
    /\ RowStays(id)

LEMMA RowStaysUnfetched ==
    ASSUME NEW id \in Ids, Idle(id), RowStays(id)
    PROVE  ~ToBeFetched(id)'
BY DEF Idle, RowStays, ToBeFetched

LEMMA TableUnchangedStays ==
    ASSUME NEW id \in Ids, Idle(id), UNCHANGED tableVars
    PROVE  RowStays(id)
BY DEF Idle, RowStays, tableVars, Fresh

(* Pushing the message of another notification.                            *)
LEMMA PushElsewhere ==
    ASSUME TypeOK, NEW id \in Ids, ~Listed(id), NEW m \in Message, m.id # id, LPush(m)
    PROVE  ~Listed(id)'
<1> SUFFICES ASSUME NEW p \in Priority, NEW i \in DOMAIN lists'[p]
             PROVE  lists'[p][i].id # id
  BY DEF Listed, Slots
<1>1. lists[p] \in Seq(Message)
  BY DEF TypeOK, QueueTypeOK
<1>2. lists'[p] = IF p = queueKey(m) THEN Append(lists[p], m) ELSE lists[p]
  BY DEF TypeOK, QueueTypeOK, LPush
<1>3. CASE i \in DOMAIN lists[p]
  <2>1. lists'[p][i] = lists[p][i]
    BY <1>1, <1>2, <1>3
  <2> QED
    BY <1>3, <2>1 DEF Listed, Slots
<1>4. CASE i \notin DOMAIN lists[p]
  BY <1>1, <1>2, <1>4
<1> QED
  BY <1>3, <1>4

(* Popping a list in which the notification has no message.                *)
LEMMA PopElsewhere ==
    ASSUME TypeOK, NEW id \in Ids, ~Listed(id), NEW p \in Priority, Poppable(p), RPop(p)
    PROVE  ~Listed(id)' /\ Head(lists[p]).id # id
<1>1. lists[p] \in Seq(Message) /\ lists[p] # <<>>
  BY DEF TypeOK, QueueTypeOK, Poppable
<1>2. 1 \in DOMAIN lists[p] /\ Head(lists[p]) = lists[p][1]
  BY <1>1
<1>3. Head(lists[p]).id # id
  BY <1>2 DEF Listed, Slots
<1>4. ASSUME NEW q \in Priority, NEW i \in DOMAIN lists'[q]
      PROVE  lists'[q][i].id # id
  <2>1. CASE q # p
    BY <1>4, <2>1 DEF RPop, Listed, Slots, TypeOK, QueueTypeOK
  <2>2. CASE q = p
    <3>1. lists'[q] = Tail(lists[p])
      BY <2>2 DEF RPop, TypeOK, QueueTypeOK
    <3>2. Len(lists[p]) \in Nat /\ i \in 1 .. Len(lists[p]) - 1
      BY <1>1, <1>4, <3>1
    <3>3. i + 1 \in DOMAIN lists[p] /\ lists'[q][i] = lists[p][i + 1]
      BY <1>1, <3>1, <3>2
    <3> QED
      BY <3>3 DEF Listed, Slots
  <2> QED
    BY <2>1, <2>2
<1> QED
  BY <1>3, <1>4 DEF Listed, Slots

LEMMA ApiStaysIdle ==
    ASSUME TypeOK, Api, NEW id \in Ids, Idle(id), ~Inserted(id)
    PROVE  StaysIdle(id)
<1>1. /\ ~WithRequest(id) /\ ~Listed(id)
      /\ \A r \in Requests : id \notin sending[r]
      /\ \A m \in batch : m.id # id
  BY DEF Idle, HasCopy, MayBeResent
<1>2. UNCHANGED <<attempts, accepted, events, retryQueue, wpc, wmsg, sids, batch>>
  BY DEF Api, ServiceStep, Create, CreateBatch, Store, Enqueue, Cancel, queueVars,
         workerVars, schedulerVars, pipeVars
<1>3. ASSUME ~WithRequest(id)', \A r \in Requests : id \notin sending'[r], ~Listed(id)',
             RowStays(id)
      PROVE  StaysIdle(id)
  <2>1. ~HasCopy(id)'
    BY <1>2, <1>3 DEF Idle, HasCopy, AwaitingRetry, WithWorker, Holds, WithScheduler
  <2>2. ~MayBeResent(id)'
    BY <1>1, <1>2, <1>3 DEF MayBeResent
  <2> QED
    BY <1>2, <1>3, <2>1, <2>2, RowStaysUnfetched DEF Idle, StaysIdle, RowStays
<1>4. ASSUME NEW r \in Requests, NEW S \in SUBSET Fresh, Store(r, S)
      PROVE  StaysIdle(id)
  <2>0. id \notin S
    BY <1>4 DEF Inserted
  <2>1. ~WithRequest(id)' /\ \A q \in Requests : id \notin sending'[q]
    BY <1>1, <1>4, <2>0 DEF Store, WithRequest, TypeOK, ServiceTypeOK, serviceVars
  <2>2. ~Listed(id)'
    BY <1>1, <1>4 DEF Store, Listed, Slots, queueVars
  <2>3. RowStays(id)
    BY <1>4, <2>0 DEF Store, InsertRows, RowStays, Fresh
  <2> QED
    BY <1>3, <2>1, <2>2, <2>3
<1>5. ASSUME NEW r \in Requests, NEW other \in Ids, Enqueue(r, other)
      PROVE  StaysIdle(id)
  <2> DEFINE m == [id |-> other, retry |-> 0, span |-> 0]
  <2>1. other # id /\ m \in Message
    BY <1>1, <1>5 DEF Enqueue, WithRequest, Message
  <2>2. ~Listed(id)'
    <3>1. CASE LPush(m)
      BY <1>1, <2>1, <3>1, PushElsewhere
    <3>2. CASE UNCHANGED lists
      BY <1>1, <3>2 DEF Listed, Slots
    <3> QED
      BY <1>5, <3>1, <3>2 DEF Enqueue
  <2>3. ~WithRequest(id)' /\ \A q \in Requests : id \notin sending'[q]
    BY <1>1, <1>5 DEF Enqueue, WithRequest, TypeOK, ServiceTypeOK
  <2>4. RowStays(id)
    BY <1>5, TableUnchangedStays DEF Enqueue
  <2> QED
    BY <1>3, <2>2, <2>3, <2>4
<1>6. ASSUME NEW other \in Ids, Cancel(other)
      PROVE  StaysIdle(id)
  <2>1. RowStays(id)
    BY <1>1, <1>6 DEF Cancel, CancelRow, Cancellable, RowStays, Fresh, TypeOK, TableTypeOK
  <2>2. ~WithRequest(id)' /\ ~Listed(id)' /\ \A q \in Requests : id \notin sending'[q]
    BY <1>1, <1>6 DEF Cancel, WithRequest, Listed, Slots, queueVars, serviceVars
  <2> QED
    BY <1>3, <2>1, <2>2
<1> QED
  BY <1>4, <1>5, <1>6 DEF Api, ServiceStep, Create, CreateBatch, Fresh

LEMMA WorkStaysIdle ==
    ASSUME TypeOK, NEW w \in Workers, Work(w), NEW id \in Ids, Idle(id)
    PROVE  StaysIdle(id)
<1>1. /\ ~Listed(id) /\ ~AwaitingRetry(id)
      /\ \A v \in Workers : wpc[v] # "pop" => wmsg[v].id # id
  BY DEF Idle, HasCopy, WithWorker, Holds
<1>2. UNCHANGED <<toEnqueue, sending, sids, batch>>
  BY DEF Work, serviceVars, schedulerVars, pipeVars
<1>3. ASSUME ~Listed(id)', ~AwaitingRetry(id)', wpc'[w] = "pop" \/ wmsg'[w].id # id,
             \A v \in Workers \ {w} : wpc'[v] = wpc[v] /\ wmsg'[v] = wmsg[v],
             RowStays(id), UNCHANGED <<attempts[id], accepted[id], events[id]>>
      PROVE  StaysIdle(id)
  <2>1. ~WithWorker(id)'
    BY <1>1, <1>3 DEF WithWorker, Holds
  <2>2. ~HasCopy(id)'
    BY <1>2, <1>3, <2>1 DEF Idle, HasCopy, WithRequest, WithScheduler
  <2>3. ~MayBeResent(id)'
    BY <1>2 DEF Idle, MayBeResent
  <2> QED
    BY <1>3, <2>2, <2>3, RowStaysUnfetched DEF Idle, StaysIdle, RowStays
<1>4. CASE Pop(w)
  <2>1. PICK p \in Priority :
          /\ Poppable(p) /\ RPop(p)
          /\ \/ Works /\ wmsg' = [wmsg EXCEPT ![w] = Head(lists[p])] /\ Goto(w, "processing")
             \/ Fails("brpop") /\ UNCHANGED <<wpc, wmsg>>
    BY <1>4 DEF Pop
  <2>2. ~Listed(id)' /\ Head(lists[p]).id # id
    BY <1>1, <2>1, PopElsewhere
  <2>3. UNCHANGED <<retryQueue, attempts, accepted, events>> /\ RowStays(id)
    BY <1>4, TableUnchangedStays DEF Pop
  <2> QED
    BY <1>1, <1>3, <1>4, <2>1, <2>2, <2>3
    DEF Pop, Goto, AwaitingRetry, TypeOK, WorkerTypeOK
<1>5. CASE wpc[w] # "pop"
  <2>1. wmsg[w] \in Message /\ wmsg[w].id \in Ids /\ wmsg[w].id # id
    BY <1>1, <1>5 DEF TypeOK, WorkerTypeOK, Message
  <2>2. UNCHANGED lists
    BY <1>5
    DEF Work, WorkerStep, Pop, MarkProcessing, Deliver, MarkDelivered, AnnounceDelivered,
        MarkFailed, AnnounceFailed, CountRetry, MarkQueued, ScheduleRetry, TryUpdate,
        Announce, queueVars
  <2>3. ~Listed(id)'
    BY <1>1, <2>2 DEF Listed, Slots
  <2>4. retryQueue' \subseteq retryQueue \cup {wmsg[w]}
    BY <1>5
    DEF Work, WorkerStep, Pop, MarkProcessing, Deliver, MarkDelivered, AnnounceDelivered,
        MarkFailed, AnnounceFailed, CountRetry, MarkQueued, ScheduleRetry, TryUpdate,
        Announce, queueVars
  <2>5. ~AwaitingRetry(id)'
    BY <1>1, <2>1, <2>4 DEF AwaitingRetry
  <2>6. \/ UNCHANGED tableVars
        \/ \E s, n : UpdateStatus(wmsg[w].id, s, n)
        \/ IncrementRetry(wmsg[w].id)
    BY <1>5
    DEF Work, WorkerStep, Pop, MarkProcessing, Deliver, MarkDelivered, AnnounceDelivered,
        MarkFailed, AnnounceFailed, CountRetry, MarkQueued, ScheduleRetry, TryUpdate, Announce
  <2>7. RowStays(id)
    BY <1>1, <2>1, <2>6, TableUnchangedStays
    DEF UpdateStatus, IncrementRetry, RowStays, Fresh, TypeOK, TableTypeOK
  <2>8. UNCHANGED <<attempts[id], accepted[id], events[id]>>
    BY <1>5, <2>1
    DEF Work, WorkerStep, Pop, MarkProcessing, Deliver, MarkDelivered, AnnounceDelivered,
        MarkFailed, AnnounceFailed, CountRetry, MarkQueued, ScheduleRetry, TryUpdate,
        Announce, TypeOK, WorkerTypeOK
  <2>9. \A v \in Workers \ {w} : wpc'[v] = wpc[v] /\ wmsg'[v] = wmsg[v]
    BY <1>5
    DEF Work, WorkerStep, Pop, MarkProcessing, Deliver, MarkDelivered, AnnounceDelivered,
        MarkFailed, AnnounceFailed, CountRetry, MarkQueued, ScheduleRetry, TryUpdate,
        Announce, Goto, Done, TypeOK, WorkerTypeOK
  <2>10. wpc'[w] = "pop" \/ wmsg'[w].id # id
    <3>1. CASE Deliver(w)
      BY <2>1, <3>1 DEF Deliver, TypeOK, WorkerTypeOK, Message
    <3>2. CASE CountRetry(w)
      BY <2>1, <3>2 DEF CountRetry, TypeOK, WorkerTypeOK, Message
    <3>3. CASE MarkQueued(w) \/ ScheduleRetry(w) \/ AnnounceDelivered(w) \/ AnnounceFailed(w)
      BY <2>1, <3>3
      DEF MarkQueued, ScheduleRetry, AnnounceDelivered, AnnounceFailed, Announce, Done, Goto,
          TypeOK, WorkerTypeOK
    <3>4. CASE MarkProcessing(w) \/ MarkDelivered(w) \/ MarkFailed(w)
      BY <2>1, <3>4 DEF MarkProcessing, MarkDelivered, MarkFailed, TryUpdate
    <3> QED
      BY <1>5, <3>1, <3>2, <3>3, <3>4 DEF Work, WorkerStep, Pop
  <2> QED
    BY <1>3, <2>3, <2>5, <2>7, <2>8, <2>9, <2>10
<1> QED
  BY <1>4, <1>5
  DEF Work, WorkerStep, MarkProcessing, Deliver, MarkDelivered, AnnounceDelivered,
      MarkFailed, AnnounceFailed, Announce, CountRetry, MarkQueued, ScheduleRetry

LEMMA TickStaysIdle ==
    ASSUME TypeOK, Sourced, Tick, NEW id \in Ids, Idle(id)
    PROVE  StaysIdle(id)
<1>1. /\ ~Listed(id) /\ ~AwaitingRetry(id) /\ id \notin sids
      /\ \A m \in batch : m.id # id
      /\ \A m \in pipe : m \in Message /\ m \in batch
  BY DEF Idle, HasCopy, MayBeResent, WithScheduler, TypeOK, SchedulerTypeOK
<1>2. UNCHANGED <<toEnqueue, sending, wpc, wmsg, attempts, accepted, events>>
  BY DEF Tick, workerVars, serviceVars
<1>3. ASSUME ~Listed(id)', retryQueue' \subseteq retryQueue, id \notin sids', RowStays(id),
             \A m \in batch' : m.id # id
      PROVE  StaysIdle(id)
  <2>1. ~AwaitingRetry(id)'
    BY <1>1, <1>3 DEF AwaitingRetry
  <2>2. ~HasCopy(id)'
    BY <1>2, <1>3, <2>1 DEF Idle, HasCopy, WithRequest, WithWorker, Holds, WithScheduler
  <2>3. ~MayBeResent(id)'
    BY <1>2, <1>3 DEF Idle, MayBeResent
  <2> QED
    BY <1>2, <1>3, <2>2, <2>3, RowStaysUnfetched DEF Idle, StaysIdle, RowStays
<1>4. ASSUME UNCHANGED lists
      PROVE  ~Listed(id)'
  BY <1>1, <1>4 DEF Listed, Slots
<1>5. ASSUME NEW S \in SUBSET DueScheduled, FetchScheduled(S)
      PROVE  StaysIdle(id)
  <2>1. id \notin S
    BY DEF Idle, ToBeFetched, DueScheduled
  <2> QED
    BY <1>3, <1>4, <1>5, <2>1, TableUnchangedStays DEF FetchScheduled, queueVars
<1>6. ASSUME NEW m \in pipe, PushScheduled(m) \/ RequeueRetry(m)
      PROVE  StaysIdle(id)
  <2>1. ~Listed(id)'
    BY <1>1, <1>6, PushElsewhere DEF PushScheduled, RequeueRetry
  <2>2. /\ retryQueue' \subseteq retryQueue /\ id \notin sids' /\ RowStays(id)
        /\ batch' \subseteq batch
    BY <1>1, <1>6, TableUnchangedStays
    DEF PushScheduled, RequeueRetry, Executed, Resent, GivenUp
  <2> QED
    BY <1>1, <1>3, <2>1, <2>2
<1>7. CASE MarkScheduledQueued
  <2>1. RowStays(id)
    BY <1>1, <1>7, TableUnchangedStays DEF MarkScheduledQueued, BulkUpdateStatus, RowStays, Fresh
  <2> QED
    BY <1>1, <1>3, <1>4, <1>7, <2>1 DEF MarkScheduledQueued, queueVars
<1>8. CASE PipelineBreaks
  BY <1>1, <1>3, <1>4, <1>8, TableUnchangedStays
  DEF PipelineBreaks, Resent, GivenUp, queueVars
<1>9. ASSUME NEW S \in SUBSET retryQueue, FetchRetries(S)
      PROVE  StaysIdle(id)
  BY <1>1, <1>3, <1>4, <1>9, TableUnchangedStays DEF FetchRetries, AwaitingRetry, queueVars
<1>10. CASE ArchiveMove
  <2>1. RowStays(id)
    BY <1>1, <1>10 DEF ArchiveMove, Archive, RowStays, Fresh
  <2> QED
    BY <1>1, <1>3, <1>4, <1>10, <2>1 DEF ArchiveMove, pipeVars, queueVars
<1>11. ASSUME NEW S \in SUBSET Archivable, ArchiveSelect(S)
      PROVE  StaysIdle(id)
  BY <1>1, <1>3, <1>4, <1>11, TableUnchangedStays DEF ArchiveSelect, pipeVars, queueVars
<1> QED
  BY <1>5, <1>6, <1>7, <1>8, <1>9, <1>10, <1>11 DEF Tick, SchedulerStep

LEMMA CrashStaysIdle ==
    ASSUME TypeOK, Crash, NEW id \in Ids, Idle(id)
    PROVE  StaysIdle(id)
<1>1. ~Listed(id)' /\ ~AwaitingRetry(id)'
  BY DEF Crash, Idle, HasCopy, queueVars, Listed, Slots, AwaitingRetry
<1>2. ~WithRequest(id)' /\ ~WithWorker(id)' /\ ~WithScheduler(id)'
  BY DEF Crash, WithRequest, WithWorker, Holds, WithScheduler
<1>3. RowStays(id)
  BY TableUnchangedStays DEF Crash
<1>4. ~MayBeResent(id)'
  BY DEF Crash, MayBeResent
<1> QED
  BY <1>1, <1>2, <1>3, <1>4, RowStaysUnfetched DEF Crash, Idle, StaysIdle, HasCopy, RowStays

LEMMA NextStaysIdle ==
    ASSUME TypeOK, Sourced, [Next]_vars, NEW id \in Ids, Idle(id), ~Inserted(id)
    PROVE  StaysIdle(id)
<1>1. CASE UNCHANGED vars
  <2>1. Idle(id)' /\ RowStays(id)
    BY <1>1, TableUnchangedStays
    DEF vars, queueVars, serviceVars, workerVars, schedulerVars, pipeVars, tableVars, Idle,
        Fresh, HasCopy, MayBeResent, WithRequest, Listed, Slots, AwaitingRetry, WithWorker, Holds, WithScheduler, ToBeFetched
  <2> QED
    BY <1>1, <2>1 DEF vars, workerVars, StaysIdle
<1> QED
  BY <1>1, ApiStaysIdle, WorkStaysIdle, TickStaysIdle, CrashStaysIdle DEF Next

(* A cancelled notification of which no message is under way, nor part of  *)
(* a command that the client may send again, stays cancelled, is not       *)
(* posted and gets no message, whatever call fails.                        *)
THEOREM CancelOfUnheldIsFinal == Spec => UnheldCancelIsFinal
<1>1. TypeOK /\ Sourced /\ [Next]_vars =>
        [\A id \in Ids :
            status[id] = "cancelled" /\ ~HasCopy(id) /\ ~MayBeResent(id)
            => /\ status'[id] = "cancelled"
               /\ attempts'[id] = attempts[id]
               /\ ~HasCopy(id)' /\ ~MayBeResent(id)']_vars
  <2> SUFFICES ASSUME TypeOK, Sourced, Next, NEW id \in Ids,
                      status[id] = "cancelled", ~HasCopy(id), ~MayBeResent(id)
               PROVE  /\ status'[id] = "cancelled"
                      /\ attempts'[id] = attempts[id]
                      /\ ~HasCopy(id)' /\ ~MayBeResent(id)'
    OBVIOUS
  <2>1. Idle(id) /\ ~Inserted(id)
    BY DEF Idle, ToBeFetched, Inserted, Sourced, NoStatus
  <2> QED
    BY <2>1, NextStaysIdle DEF StaysIdle, Idle, RowStays
<1> QED
  BY <1>1, AlwaysSourced, PTL DEF Spec, UnheldCancelIsFinal

=============================================================================
