------------------------- MODULE NotificationDomain -------------------------
(***************************************************************************)
(* The vocabulary of internal/domain: what a notification is, the statuses *)
(* and priorities it can have, and the message that stands for it in Redis.*)
(*                                                                         *)
(* The identity of a notification fixes the columns that no code ever      *)
(* changes after the INSERT: its priority and whether it has a             *)
(* scheduled_at.  Recipient, channel and content are data no decision of   *)
(* the delivery pipeline depends on.                                       *)
(*                                                                         *)
(* The environment may make a call fail.  Faults names the call sites that *)
(* may fail in a model, MaxFaults bounds how often that happens.           *)
(***************************************************************************)
EXTENDS Naturals, Sequences, FiniteSets

CONSTANTS
    Ids,         (* the notifications that may ever be created             *)
    Scheduled,   (* those whose request carries a scheduled_at             *)
    PriorityOf,  (* the priority each of them is created with              *)
    MaxRetries,  (* WORKER_MAX_RETRIES                                     *)
    Faults,      (* the call sites that may fail                           *)
    MaxFaults,   (* how many calls may fail in one behaviour               *)
    NoMsg        (* what a worker holds between two messages               *)

VARIABLE faultsLeft

Priority == {"high", "normal", "low"}

Status == {"pending", "queued", "processing", "delivered", "failed", "cancelled"}

(* The statuses Archive selects: nothing is left to do for such a row.     *)
Completed == {"delivered", "failed", "cancelled"}

(* A status column before the row exists.                                  *)
NoStatus == "none"

(* provider_msg_id: NULL, the empty string of an acceptance whose body     *)
(* names no messageId, and the id that names the n-th request made for a   *)
(* notification.                                                           *)
NoProviderID == 0

EmptyID == 1

MessageID(n) == n + 1

(* A queueMessage.  The payload is a snapshot of the notification, of      *)
(* which the pipeline uses the id and RetryCount.  The trace carrier names *)
(* the processing attempt that marshalled it, which makes two messages of  *)
(* different attempts different members of the retry set: span is the      *)
(* ordinal of that attempt among the attempts for this notification, and 0 *)
(* when no attempt preceded the message.                                   *)
Message == [id : Ids, retry : Nat, span : Nat]

Immediate == Ids \ Scheduled

(* The call sites that may fail: the INSERT of a request, its LPUSHes, a   *)
(* worker's BRPOP, its UPDATEs, its ZADD, the scheduler's pipelines, its   *)
(* bulk UPDATE, and the process.  "resend": the reply of a command or a    *)
(* pipeline is lost, and the Redis client sends all of it again; "answer": *)
(* the provider accepts a request and names no message id.                 *)
FaultSites ==
    {"insert", "enqueue", "resend", "brpop", "status", "answer", "zadd", "pipeline", "bulk",
     "crash"}

ASSUME DomainAssumption ==
    /\ Scheduled \subseteq Ids
    /\ PriorityOf \in [Ids -> Priority]
    /\ MaxRetries \in Nat
    /\ Faults \subseteq FaultSites
    /\ MaxFaults \in Nat
    /\ NoMsg \notin Message

Works == UNCHANGED faultsLeft

Fails(site) ==
    /\ site \in Faults
    /\ faultsLeft > 0
    /\ faultsLeft' = faultsLeft - 1

=============================================================================
