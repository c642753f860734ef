--------------------------- MODULE DeliverySystem ---------------------------
(***************************************************************************)
(* The process of cmd/api: the request handlers, the worker pool and the   *)
(* scheduler, over one database, one Redis and one provider.               *)
(***************************************************************************)
EXTENDS NotificationService, DeliveryWorker, DeliveryScheduler

vars == <<tableVars, queueVars, serviceVars, workerVars, schedulerVars, faultsLeft>>

TypeOK ==
    /\ TableTypeOK
    /\ QueueTypeOK
    /\ ServiceTypeOK
    /\ WorkerTypeOK
    /\ SchedulerTypeOK
    /\ faultsLeft \in Nat

Init ==
    /\ TableInit
    /\ QueueInit
    /\ ServiceInit
    /\ WorkerInit
    /\ SchedulerInit
    /\ faultsLeft = MaxFaults

(* The process is killed and started again.  Postgres, Redis and what the  *)
(* provider and the subscribers have seen survive; goroutines do not.      *)
(* Commands already sent to Redis are executed: a pipeline is cut short    *)
(* only where a pipeline can break.  A statement under way is rolled back. *)
Crash ==
    /\ Fails("crash")
    /\ pipe # {} => "pipeline" \in Faults
    /\ wpc' = [w \in Workers |-> "pop"]
    /\ wmsg' = [w \in Workers |-> NoMsg]
    /\ spc' = "wait"
    /\ batch' = {}
    /\ pipe' = {}
    /\ sids' = {}
    /\ moving' = {}
    /\ toEnqueue' = [r \in Requests |-> {}]
    /\ sending' = [r \in Requests |-> {}]
    /\ UNCHANGED <<tableVars, queueVars, attempts, accepted, events>>

Api == ServiceStep /\ UNCHANGED <<workerVars, schedulerVars>>

Work(w) == WorkerStep(w) /\ UNCHANGED <<serviceVars, schedulerVars>>

Tick == SchedulerStep /\ UNCHANGED <<serviceVars, workerVars>>

Next ==
    \/ Api
    \/ \E w \in Workers : Work(w)
    \/ Tick
    \/ Crash

Spec == Init /\ [][Next]_vars

(***************************************************************************)
(* Where the message of a notification is.                                 *)
(***************************************************************************)

(* The positions of a list that hold a message of a notification.          *)
Slots(id, p) == {i \in DOMAIN lists[p] : lists[p][i].id = id}

WithRequest(id) == \E r \in Requests : id \in toEnqueue[r]

Listed(id) == \E p \in Priority : Slots(id, p) # {}

AwaitingRetry(id) == \E m \in retryQueue : m.id = id

(* Busy workers whose attempt is not yet decided, or decided and not yet   *)
(* announced.                                                              *)
Holds(w, id) == wpc[w] # "pop" /\ wmsg[w].id = id

WithWorker(id) == \E w \in Workers : Holds(w, id)

(* Fetched by the scheduler and not yet marked queued.                     *)
WithScheduler(id) == id \in sids

HasCopy(id) ==
    \/ WithRequest(id)
    \/ Listed(id)
    \/ AwaitingRetry(id)
    \/ WithWorker(id)
    \/ WithScheduler(id)

(* Part of a command or pipeline that is under way: should the connection  *)
(* break, the Redis client sends its message again, also one that has      *)
(* already been taken by a worker.                                         *)
MayBeResent(id) ==
    \/ \E r \in Requests : id \in sending[r]
    \/ \E m \in batch : m.id = id

(* A pending row with a scheduled_at is going to be fetched: something is  *)
(* left to do for it although no message of it is under way.               *)
ToBeFetched(id) == id \in table \cap Scheduled /\ status[id] = "pending"

(***************************************************************************)
(* What holds whatever call fails.                                         *)
(***************************************************************************)

(* The provider_msg_id of a row marked delivered is what the provider      *)
(* answered an acceptance of that notification with, in the table and in   *)
(* the archive, although every later UPDATE of the status may overwrite    *)
(* both: never NULL, never the id of a request that was not accepted, and  *)
(* empty only when an acceptance named no message id.                      *)
ReceiptIsGenuine ==
    \A id \in Ids : status[id] = "delivered" => providerMsgID[id] \in accepted[id]

(* A row is only marked failed when the first attempt and MaxRetries       *)
(* retries have been made, also when copies of the message are about, or   *)
(* the count it started from was read back from the row.                   *)
FailedOnlyWhenExhausted ==
    \A id \in Ids : status[id] = "failed" => attempts[id] > MaxRetries

(* The retry_count of a row never runs ahead of the attempts made: each    *)
(* increment has an attempt of its own, however many workers hold copies.  *)
RetryCountHonest == \A id \in Ids : retryCount[id] <= attempts[id]

(* Why the three hold.  Wherever a message waits, the retries it counts    *)
(* have all been attempts: a worker only adds one between an attempt and   *)
(* the next message, and no matter how many copies of a message there are, *)
(* each attempt is counted on the row at most once, by the worker that     *)
(* made it.                                                                *)
Backed(m) == m.retry <= attempts[m.id]

ListsBacked == \A p \in Priority : \A i \in DOMAIN lists[p] : Backed(lists[p][i])

WorkerBacked(w) ==
    /\ wpc[w] # "pop" => Backed(wmsg[w])
    /\ wpc[w] \in {"increment", "failed"} => wmsg[w].retry < attempts[wmsg[w].id]
    /\ wpc[w] = "failed" => Exhausted(wmsg[w])
    /\ wpc[w] = "delivered" => wmsg[w].span \in accepted[wmsg[w].id]

(* The workers about to count an attempt on the row of a notification.     *)
Counting(id) == {w \in Workers : wpc[w] = "increment" /\ wmsg[w].id = id}

CountsBacked == \A id \in Ids : retryCount[id] + Cardinality(Counting(id)) <= attempts[id]

AttemptsAccounted ==
    /\ ListsBacked
    /\ \A m \in retryQueue \cup batch : Backed(m)
    /\ \A w \in Workers : WorkerBacked(w)
    /\ CountsBacked

(* When no copy of its message is under way and none may be sent again, a  *)
(* cancelled notification is neither revived nor posted: nothing but the   *)
(* scheduler's SELECT makes a message from a row, and it skips rows that   *)
(* are not pending.                                                        *)
UnheldCancelIsFinal ==
    [][\A id \in Ids :
          status[id] = "cancelled" /\ ~HasCopy(id) /\ ~MayBeResent(id)
          => /\ status'[id] = "cancelled"
             /\ attempts'[id] = attempts[id]
             /\ ~HasCopy(id)' /\ ~MayBeResent(id)']_vars

(* A row of the archive never changes and never comes back, although       *)
(* workers and the bulk UPDATE do not look at the status they overwrite    *)
(* and may have fetched the row before it was moved.                       *)
ArchiveIsImmutable ==
    [][\A id \in archive :
          /\ id \in archive' \ table'
          /\ status'[id] = status[id]
          /\ retryCount'[id] = retryCount[id]
          /\ providerMsgID'[id] = providerMsgID[id]]_vars

(***************************************************************************)
(* What holds for notifications without a scheduled_at while no pipeline   *)
(* of the scheduler is cut short and no command is sent twice.             *)
(***************************************************************************)

OneRequest(id) ==
    \A r1, r2 \in Requests : id \in toEnqueue[r1] /\ id \in toEnqueue[r2] => r1 = r2

OneSlot(id) ==
    \A p, q \in Priority : \A i \in Slots(id, p), j \in Slots(id, q) : p = q /\ i = j

OneRetry(id) == \A m1, m2 \in retryQueue : m1.id = id /\ m2.id = id => m1 = m2

OneWorker(id) == \A w1, w2 \in Workers : Holds(w1, id) /\ Holds(w2, id) => w1 = w2

OnePlace(id) ==
    /\ WithRequest(id) => ~Listed(id) /\ ~AwaitingRetry(id) /\ ~WithWorker(id)
    /\ Listed(id) => ~AwaitingRetry(id) /\ ~WithWorker(id)
    /\ AwaitingRetry(id) => ~WithWorker(id)

OneCopy(id) ==
    /\ OneRequest(id)
    /\ OneSlot(id)
    /\ OneRetry(id)
    /\ OneWorker(id)
    /\ OnePlace(id)

(* At most one copy of its message exists: yet to be pushed by a request,  *)
(* in one slot of one list, in the retry set, or with one worker.          *)
SingleCopy == \A id \in Immediate : OneCopy(id)

(* An outcome is announced when the message is gone for good: subscribers  *)
(* never see a second event, let alone the opposite one.                   *)
OutcomeIsUnique ==
    \A id \in Immediate :
        events[id] # {} => ~HasCopy(id) /\ events[id] # {"delivered", "failed"}

(* The provider gets at most MaxRetries + 1 requests for a notification.   *)
AttemptsBounded == \A id \in Immediate : attempts[id] <= MaxRetries + 1

(* Why these hold.  The copy that there is counts every attempt made: a    *)
(* message that waits has made as many retries as there were attempts,     *)
(* none of them accepted, and a worker is where the answers of the         *)
(* provider have brought it.                                               *)
Untried(id) == attempts[id] = 0 /\ accepted[id] = {}

Ready(m) ==
    /\ m.retry = attempts[m.id]
    /\ m.retry <= MaxRetries
    /\ accepted[m.id] = {}

InStep(w) ==
    LET id == wmsg[w].id
    IN
    /\ wpc[w] \in {"processing", "post", "requeue", "zadd"} => Ready(wmsg[w])
    /\ wpc[w] = "increment" =>
          /\ wmsg[w].retry + 1 = attempts[id]
          /\ wmsg[w].retry < MaxRetries
          /\ accepted[id] = {}
    /\ wpc[w] \in {"failed", "announceFailed"} =>
          attempts[id] = MaxRetries + 1 /\ accepted[id] = {}
    /\ wpc[w] \in {"delivered", "announceDelivered"} => accepted[id] # {}

OnTrack(id) ==
    /\ OneCopy(id)
    /\ ~WithScheduler(id)
    /\ id \in Fresh => ~HasCopy(id) /\ Untried(id) /\ events[id] = {}
    /\ WithRequest(id) => Untried(id)
    /\ \A p \in Priority : \A i \in Slots(id, p) : Ready(lists[p][i])
    /\ \A m \in retryQueue : m.id = id => Ready(m)
    /\ \A w \in Workers : Holds(w, id) => InStep(w)
    /\ attempts[id] <= MaxRetries + 1
    /\ events[id] # {} => ~HasCopy(id)
    /\ events[id] # {"delivered", "failed"}

(* As long as it is tried, the one copy of the message of a notification   *)
(* counts exactly the attempts made; when an outcome is announced, no copy *)
(* is left.                                                                *)
EveryCopyOnTrack == \A id \in Immediate : OnTrack(id)

(* A row marked delivered or failed keeps that status.                     *)
OutcomeIsFinal ==
    [][\A id \in Immediate :
          status[id] \in {"delivered", "failed"} => status'[id] = status[id]]_vars

(* Unless an UPDATE fails, the row shows what was announced, except when   *)
(* it was cancelled and archived while its message was under way; whatever *)
(* status it was archived with, it never shows the opposite outcome.       *)
AnnouncedIsStored ==
    \A id \in Immediate, s \in {"delivered", "failed"} :
        s \in events[id] =>
            \/ status[id] = s
            \/ id \in archive /\ status[id] \notin {"delivered", "failed"}

(***************************************************************************)
(* Progress.  Every goroutine keeps running, and time passes: a scheduled  *)
(* notification or a retry that waits is due at some tick.                 *)
(***************************************************************************)
Fairness ==
    /\ \A r \in Requests : WF_vars(Api /\ \E id \in Ids : Enqueue(r, id))
    /\ \A w \in Workers : WF_vars(Work(w))
    /\ WF_vars(Tick)
    /\ \A id \in Ids :
          /\ SF_vars(Tick /\ spc = "wait" /\ id \in sids')
          /\ SF_vars(Tick /\ spc = "retries" /\ \E m \in pipe' : m.id = id)

LiveSpec == Spec /\ Fairness

(* Without failing calls, every notification that is not scheduled ends    *)
(* delivered, failed or cancelled; when its row was archived under the     *)
(* hands of a worker, it is at least announced.                            *)
EventuallyCompleted ==
    \A id \in Immediate :
        id \in table ~> status[id] \in Completed \/ (id \in archive /\ events[id] # {})

(* ... because a row that says so is always being worked on: it is queued  *)
(* or processing only while a copy of its message is under way.            *)
NothingStranded ==
    \A id \in Immediate :
        id \in table /\ status[id] \in {"queued", "processing"} => HasCopy(id)

(* Likewise every scheduled one is posted at least once, or cancelled.      *)
EventuallyAttempted ==
    \A id \in Scheduled : id \in table ~> attempts[id] > 0 \/ status[id] = "cancelled"

(* No message circulates forever: from some point on no copy is left.      *)
EventuallyDrained == \A id \in Ids : id \in table ~> []~HasCopy(id)

(***************************************************************************)
(* What the documentation says and the code does not do.                   *)
(***************************************************************************)

(* DELETE cancels a notification: a cancelled row stays cancelled.         *)
CancelledIsFinal ==
    [][\A id \in Ids : status[id] = "cancelled" => status'[id] = "cancelled"]_vars

(* delivered ends the status flow, for scheduled notifications as well.    *)
DeliveredIsFinal ==
    [][\A id \in Ids : status[id] = "delivered" => status'[id] = "delivered"]_vars

=============================================================================
