--------------------------- MODULE DeliveryWorker ---------------------------
(***************************************************************************)
(* internal/queue/worker.go: the worker pool.  Each worker runs            *)
(*                                                                         *)
(*   BRPOP -> (rate limiter) -> UPDATE processing -> POST to the provider  *)
(*     success: UPDATE delivered -> Notify                                 *)
(*     failure, retries left:  UPDATE retry_count -> UPDATE queued -> ZADD *)
(*     failure, none left:     UPDATE failed -> Notify                     *)
(*                                                                         *)
(* and goes back to BRPOP.  A step is one call to Postgres, Redis, the     *)
(* provider or the notifier; anything may happen between two steps.  An    *)
(* error of an UPDATE is logged and ignored, except that of UPDATE queued, *)
(* which ends the handling of the message.                                 *)
(***************************************************************************)
EXTENDS NotificationTable, RedisQueues

CONSTANT Workers  (* WORKER_CONCURRENCY goroutines                         *)

ASSUME WorkerAssumption == IsFiniteSet(Workers)

VARIABLES
    wpc,       (* the call each worker makes next                          *)
    wmsg,      (* the message it holds                                     *)
    attempts,  (* provider: the requests made for each notification        *)
    accepted,  (* the message ids its acceptances were answered with       *)
    events     (* the terminal statuses the notifier was told              *)

workerVars == <<wpc, wmsg, attempts, accepted, events>>

WorkerPCs ==
    {"pop", "processing", "post", "delivered", "announceDelivered",
     "increment", "requeue", "zadd", "failed", "announceFailed"}

WorkerTypeOK ==
    /\ wpc \in [Workers -> WorkerPCs]
    /\ wmsg \in [Workers -> Message \cup {NoMsg}]
    /\ \A w \in Workers : wpc[w] # "pop" => wmsg[w] \in Message
    /\ attempts \in [Ids -> Nat]
    /\ accepted \in [Ids -> SUBSET Nat]
    /\ events \in [Ids -> SUBSET {"delivered", "failed"}]

WorkerInit ==
    /\ wpc = [w \in Workers |-> "pop"]
    /\ wmsg = [w \in Workers |-> NoMsg]
    /\ attempts = [id \in Ids |-> 0]
    /\ accepted = [id \in Ids |-> {}]
    /\ events = [id \in Ids |-> {}]

Goto(w, pc) == wpc' = [wpc EXCEPT ![w] = pc]

(* process returns: the worker drops its message and goes back to BRPOP.   *)
Done(w) == Goto(w, "pop") /\ wmsg' = [wmsg EXCEPT ![w] = NoMsg]

(* Faulty: a BRPOP that fails does not end the iteration.                  *)
PopWithoutContinue(w) ==
    /\ wpc[w] = "pop"
    /\ \E p \in Priority :
        /\ Poppable(p)
        /\ RPop(p)
        /\ \/ Works /\ wmsg' = [wmsg EXCEPT ![w] = Head(lists[p])]
           \/ Fails("brpop") /\ UNCHANGED wmsg
    /\ Goto(w, "processing")
    /\ UNCHANGED <<retryQueue, tableVars, attempts, accepted, events>>

(* BRPOP; when its reply is lost the message is gone and the loop goes on. *)
(* limiter.Wait then only delays: its context has no deadline, and its     *)
(* burst, WORKER_RATE_LIMIT_PER_SEC, is taken to be positive.              *)
Pop(w) ==
    /\ wpc[w] = "pop"
    /\ \E p \in Priority :
        /\ Poppable(p)
        /\ RPop(p)
        /\ \/ /\ Works
              /\ wmsg' = [wmsg EXCEPT ![w] = Head(lists[p])]
              /\ Goto(w, "processing")
           \/ Fails("brpop") /\ UNCHANGED <<wpc, wmsg>>
    /\ UNCHANGED <<retryQueue, tableVars, attempts, accepted, events>>

(* An UPDATE whose error is only logged: the worker goes on either way.    *)
TryUpdate(w, s, msgID, next) ==
    /\ \/ Works /\ UpdateStatus(wmsg[w].id, s, msgID)
       \/ Fails("status") /\ UNCHANGED tableVars
    /\ Goto(w, next)
    /\ UNCHANGED <<wmsg, queueVars, attempts, accepted, events>>

MarkProcessing(w) ==
    wpc[w] = "processing" /\ TryUpdate(w, "processing", NoProviderID, "post")

(* Faulty: the first attempt counts as a retry.                            *)
ExhaustedOneShort(m) == m.retry + 1 >= MaxRetries

(* Faulty: one retry too many.                                             *)
ExhaustedOneMore(m) == m.retry > MaxRetries

(* What handleFailure looks at first, on the count the message carries.    *)
Exhausted(m) == m.retry >= MaxRetries

(* Faulty: an answer is an acceptance whatever its status code is.         *)
DeliverAnyAnswer(w) ==
    LET m == wmsg[w]
        n == attempts[m.id] + 1
    IN
    /\ wpc[w] = "post"
    /\ attempts' = [attempts EXCEPT ![m.id] = n]
    /\ wmsg' = [wmsg EXCEPT ![w].span = n]
    /\ Goto(w, "delivered")
    /\ UNCHANGED <<accepted, tableVars, queueVars, events, faultsLeft>>

(* deliver, and handleFailure's choice.  A 200 or 202 with a JSON body is  *)
(* an acceptance, whether or not the body names a messageId.  Anything     *)
(* else, or nothing in time, is a failure; whether the provider accepted   *)
(* such a request all the same nobody in the process learns.               *)
(* After an acceptance the worker marshals no message any more: span then  *)
(* is the message id deliver returned.                                     *)
Deliver(w) ==
    LET m == wmsg[w]
        n == attempts[m.id] + 1
    IN
    /\ wpc[w] = "post"
    /\ attempts' = [attempts EXCEPT ![m.id] = n]
    /\ \/ \E msgID \in {MessageID(n), EmptyID} :
             /\ IF msgID = EmptyID THEN Fails("answer") ELSE Works
             /\ accepted' = [accepted EXCEPT ![m.id] = @ \cup {msgID}]
             /\ wmsg' = [wmsg EXCEPT ![w].span = msgID]
             /\ Goto(w, "delivered")
       \/ /\ Works
          /\ Goto(w, IF Exhausted(m) THEN "failed" ELSE "increment")
          /\ wmsg' = [wmsg EXCEPT ![w].span = n]
          /\ UNCHANGED accepted
    /\ UNCHANGED <<tableVars, queueVars, events>>

MarkDelivered(w) ==
    wpc[w] = "delivered" /\ TryUpdate(w, "delivered", wmsg[w].span, "announceDelivered")

MarkFailed(w) ==
    wpc[w] = "failed" /\ TryUpdate(w, "failed", NoProviderID, "announceFailed")

(* Faulty: Notify waits for room in a channel that nobody empties.         *)
AnnounceBlocks(w, pc, s) == FALSE

(* notifier.Notify, whatever became of the UPDATE before it.               *)
Announce(w, pc, s) ==
    /\ wpc[w] = pc
    /\ events' = [events EXCEPT ![wmsg[w].id] = @ \cup {s}]
    /\ Done(w)
    /\ UNCHANGED <<tableVars, queueVars, attempts, accepted, faultsLeft>>

AnnounceDelivered(w) == Announce(w, "announceDelivered", "delivered")

(* Faulty: handleFailure does not return after the last attempt.           *)
AnnounceAndRetry(w) ==
    /\ wpc[w] = "announceFailed"
    /\ events' = [events EXCEPT ![wmsg[w].id] = @ \cup {"failed"}]
    /\ Goto(w, "increment")
    /\ UNCHANGED <<wmsg, tableVars, queueVars, attempts, accepted, faultsLeft>>

AnnounceFailed(w) == Announce(w, "announceFailed", "failed")

(* Faulty: the message counts a retry that was not made.                   *)
CountTwice(w) ==
    /\ wpc[w] = "increment"
    /\ IncrementRetry(wmsg[w].id)
    /\ wmsg' = [wmsg EXCEPT ![w].retry = @ + 2]
    /\ Goto(w, "requeue")
    /\ UNCHANGED <<queueVars, attempts, accepted, events, faultsLeft>>

(* IncrementRetry on the row, then n.RetryCount++ on the message.          *)
CountRetry(w) ==
    /\ wpc[w] = "increment"
    /\ \/ Works /\ IncrementRetry(wmsg[w].id)
       \/ Fails("status") /\ UNCHANGED tableVars
    /\ wmsg' = [wmsg EXCEPT ![w].retry = @ + 1]
    /\ Goto(w, "requeue")
    /\ UNCHANGED <<queueVars, attempts, accepted, events>>

(* Faulty: handleFailure returns unless the UPDATE failed.                 *)
MarkQueuedInverted(w) ==
    /\ wpc[w] = "requeue"
    /\ UpdateStatus(wmsg[w].id, "queued", NoProviderID)
    /\ Done(w)
    /\ UNCHANGED <<queueVars, attempts, accepted, events, faultsLeft>>

(* UPDATE queued: on an error handleFailure returns, and the message with  *)
(* it, whether or not the row was changed.                                 *)
MarkQueued(w) ==
    /\ wpc[w] = "requeue"
    /\ \/ /\ Works
          /\ UpdateStatus(wmsg[w].id, "queued", NoProviderID)
          /\ Goto(w, "zadd")
          /\ UNCHANGED wmsg
       \/ /\ Fails("status")
          /\ \/ UpdateStatus(wmsg[w].id, "queued", NoProviderID)
             \/ UNCHANGED tableVars
          /\ Done(w)
    /\ UNCHANGED <<queueVars, attempts, accepted, events>>

(* ZADD notifications:retry; its error is logged.  When it is sent again,  *)
(* the scheduler may have taken the member away in between.                *)
ScheduleRetry(w) ==
    /\ wpc[w] = "zadd"
    /\ \/ Works /\ retryQueue' = retryQueue \cup {wmsg[w]} /\ Done(w)
       \/ Fails("resend") /\ retryQueue' = retryQueue \cup {wmsg[w]} /\ UNCHANGED <<wpc, wmsg>>
       \/ Fails("zadd") /\ UNCHANGED retryQueue /\ Done(w)
    /\ UNCHANGED <<lists, tableVars, attempts, accepted, events>>

WorkerStep(w) ==
    \/ Pop(w)
    \/ MarkProcessing(w)
    \/ Deliver(w)
    \/ MarkDelivered(w)
    \/ AnnounceDelivered(w)
    \/ MarkFailed(w)
    \/ AnnounceFailed(w)
    \/ CountRetry(w)
    \/ MarkQueued(w)
    \/ ScheduleRetry(w)

=============================================================================
