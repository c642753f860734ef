-------------------------- MODULE DeliveryScheduler -------------------------
(***************************************************************************)
(* internal/queue/scheduler.go: the one goroutine that moves due scheduled *)
(* notifications and due retries to the lists, and completed rows to the   *)
(* archive.  A tick is processScheduled, then processRetries.              *)
(*                                                                         *)
(* A redis Pipeline is not a transaction: its commands are executed one by *)
(* one between those of other clients, and when the connection breaks a    *)
(* prefix of them has been executed, perhaps all.  The Redis client then   *)
(* sends the whole pipeline again, or gives up.  batch holds the messages  *)
(* of the pipeline, pipe those whose commands are still to be executed.    *)
(* The two commands of one retry message are one step unless the break     *)
(* falls between them: only the scheduler reads the sorted set.            *)
(***************************************************************************)
EXTENDS NotificationTable, RedisQueues

CONSTANTS
    SchedulerBatchSize,  (* schedulerBatchSize                             *)
    ArchiveBatchSize     (* ARCHIVE_BATCH_SIZE                             *)

ASSUME SchedulerAssumption ==
    SchedulerBatchSize \in Nat \ {0} /\ ArchiveBatchSize \in Nat

VARIABLES
    spc,    (* what the scheduler does next                                *)
    batch,  (* the messages of the pipeline under way                      *)
    pipe,   (* those of them it still has to push                          *)
    sids,   (* the ids processScheduled fetched                            *)
    moving  (* the ids the archive statement selected                      *)

pipeVars == <<batch, pipe, sids>>

schedulerVars == <<spc, pipeVars, moving>>

SchedulerPCs == {"wait", "push", "bulk", "retries", "requeue", "archive"}

SchedulerTypeOK ==
    /\ spc \in SchedulerPCs
    /\ batch \in SUBSET Message
    /\ pipe \in SUBSET batch
    /\ sids \in SUBSET Ids
    /\ moving \in SUBSET Ids

SchedulerInit ==
    /\ spc = "wait"
    /\ batch = {}
    /\ pipe = {}
    /\ sids = {}
    /\ moving = {}

(* Faulty: the rows are marked queued and no message is pushed.            *)
FetchWithoutPush(S) ==
    /\ spc = "wait"
    /\ S \subseteq DueScheduled
    /\ sids' = S
    /\ spc' = "bulk"
    /\ UNCHANGED <<batch, pipe, moving, tableVars, queueVars, faultsLeft>>

(* SELECT ... status = 'pending' ... LIMIT: the messages carry the         *)
(* retry_count of their rows and no trace carrier.  A failed SELECT is as  *)
(* good as an empty one.                                                   *)
FetchScheduled(S) ==
    /\ spc = "wait"
    /\ S \subseteq DueScheduled
    /\ Cardinality(S) <= SchedulerBatchSize
    /\ batch' = {[id |-> id, retry |-> retryCount[id], span |-> 0] : id \in S}
    /\ pipe' = batch'
    /\ sids' = S
    /\ spc' = IF S = {} THEN "retries" ELSE "push"
    /\ UNCHANGED <<moving, tableVars, queueVars, faultsLeft>>

(* ORDER BY priority: the enum's order, high first.                        *)
FirstOfPipe(m) ==
    m \in pipe /\ \A o \in pipe : Rank(queueKey(m)) <= Rank(queueKey(o))

(* The pipeline goes on behind m, and ends when every reply is there.      *)
Executed(m, next) ==
    /\ Works
    /\ pipe' = pipe \ {m}
    /\ batch' = IF pipe' = {} THEN {} ELSE batch
    /\ spc' = IF pipe' = {} THEN next ELSE spc
    /\ UNCHANGED sids

(* The connection breaks and the client sends the whole pipeline again.    *)
Resent ==
    /\ Fails("resend")
    /\ pipe' = batch
    /\ UNCHANGED <<spc, batch, sids>>

(* The connection breaks and the client reports the error.                 *)
GivenUp(next) ==
    /\ Fails("pipeline")
    /\ batch' = {}
    /\ pipe' = {}
    /\ sids' = {}
    /\ spc' = next

(* One LPUSH of the pipeline.  An error of the pipeline, even one that     *)
(* comes after all its commands, ends processScheduled.                    *)
PushScheduled(m) ==
    /\ spc = "push"
    /\ FirstOfPipe(m)
    /\ LPush(m)
    /\ Executed(m, "bulk") \/ Resent \/ GivenUp("retries")
    /\ UNCHANGED <<tableVars, retryQueue, moving>>

(* UPDATE ... SET status = 'queued' WHERE id IN the fetched ids.           *)
MarkScheduledQueued ==
    /\ spc = "bulk"
    /\ \/ Works /\ BulkUpdateStatus(sids, "queued")
       \/ Fails("bulk") /\ UNCHANGED tableVars
    /\ sids' = {}
    /\ spc' = "retries"
    /\ UNCHANGED <<batch, pipe, moving, queueVars>>

(* ZRANGE ... BYSCORE LIMIT: any members may be due by now.                *)
FetchRetries(S) ==
    /\ spc = "retries"
    /\ S \subseteq retryQueue
    /\ Cardinality(S) <= SchedulerBatchSize
    /\ batch' = S
    /\ pipe' = S
    /\ spc' = IF S = {} THEN "wait" ELSE "requeue"
    /\ UNCHANGED <<sids, moving, tableVars, queueVars, faultsLeft>>

(* Faulty: the ZREM is missing.                                            *)
RequeueWithoutRem(m) ==
    /\ spc = "requeue"
    /\ m \in pipe
    /\ LPush(m)
    /\ Executed(m, "wait")
    /\ UNCHANGED <<tableVars, retryQueue, moving>>

(* LPUSH and ZREM of one member.  A break of the pipeline after the LPUSH  *)
(* leaves the member in the sorted set, and in a pipeline that is sent     *)
(* again the LPUSH is executed whether or not the member is still there.   *)
RequeueRetry(m) ==
    /\ spc = "requeue"
    /\ m \in pipe
    /\ LPush(m)
    /\ \/ Executed(m, "wait") /\ retryQueue' = retryQueue \ {m}
       \/ Resent /\ (retryQueue' = retryQueue \ {m} \/ UNCHANGED retryQueue)
       \/ GivenUp("wait") /\ UNCHANGED retryQueue
    /\ UNCHANGED <<tableVars, moving>>

(* The connection breaks before the next command is executed.              *)
PipelineBreaks ==
    /\ pipe # {}
    /\ Resent \/ GivenUp(IF spc = "push" THEN "retries" ELSE "wait")
    /\ UNCHANGED <<tableVars, queueVars, moving>>

(* The archive tick.  Its one statement selects completed rows and moves   *)
(* them; workers and requests may get between the two.  A statement that   *)
(* fails moves nothing.                                                    *)
ArchiveSelect(S) ==
    /\ spc = "wait"
    /\ S \subseteq Archivable
    /\ S # {}
    /\ Cardinality(S) <= ArchiveBatchSize
    /\ moving' = S
    /\ spc' = "archive"
    /\ UNCHANGED <<pipeVars, tableVars, queueVars, faultsLeft>>

ArchiveMove ==
    /\ spc = "archive"
    /\ Archive(moving)
    /\ moving' = {}
    /\ spc' = "wait"
    /\ UNCHANGED <<pipeVars, queueVars, faultsLeft>>

SchedulerStep ==
    \/ \E S \in SUBSET DueScheduled : FetchScheduled(S)
    \/ \E m \in pipe : PushScheduled(m)
    \/ MarkScheduledQueued
    \/ \E S \in SUBSET retryQueue : FetchRetries(S)
    \/ \E m \in pipe : RequeueRetry(m)
    \/ PipelineBreaks
    \/ \E S \in SUBSET Archivable : ArchiveSelect(S)
    \/ ArchiveMove

=============================================================================
