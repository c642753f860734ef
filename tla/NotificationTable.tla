------------------------- MODULE NotificationTable --------------------------
(***************************************************************************)
(* internal/repository/postgres/notification.go: the notifications table   *)
(* and its archive.  Every operator below is one statement, or, for the    *)
(* archive, one of its two halves.  updated_at and the immutable columns   *)
(* are left out.                                                           *)
(***************************************************************************)
EXTENDS NotificationDomain

VARIABLES
    table,         (* the ids with a row in notifications                  *)
    archive,       (* the ids with a row in notifications_archive          *)
    status,        (* the status column of a row, wherever the row is      *)
    retryCount,    (* the retry_count column                               *)
    providerMsgID  (* the provider_msg_id column                           *)

tableVars == <<table, archive, status, retryCount, providerMsgID>>

TableTypeOK ==
    /\ table \in SUBSET Ids
    /\ archive \in SUBSET Ids
    /\ status \in [Ids -> Status \cup {NoStatus}]
    /\ retryCount \in [Ids -> Nat]
    /\ providerMsgID \in [Ids -> Nat]

TableInit ==
    /\ table = {}
    /\ archive = {}
    /\ status = [id \in Ids |-> NoStatus]
    /\ retryCount = [id \in Ids |-> 0]
    /\ providerMsgID = [id \in Ids |-> NoProviderID]

(* uuid.NewString: an id no row has had.                                   *)
Fresh == Ids \ (table \cup archive)

(* The status the service gives a notification before it is stored.        *)
InitialStatus(id) == IF id \in Scheduled THEN "pending" ELSE "queued"

(* Create inserts one row, CreateBatch all its rows in one transaction.    *)
InsertRows(S) ==
    /\ table' = table \cup S
    /\ status' = [id \in Ids |-> IF id \in S THEN InitialStatus(id) ELSE status[id]]
    /\ UNCHANGED <<archive, retryCount, providerMsgID>>

(* Faulty: the UPDATE also reaches rows that have been archived.           *)
UpdateStatusAnywhere(id, s, msgID) ==
    /\ status' = [status EXCEPT ![id] = s]
    /\ providerMsgID' = [providerMsgID EXCEPT ![id] = msgID]
    /\ UNCHANGED <<table, archive, retryCount>>

(* Faulty: the UPDATE only finds rows that are queued.                     *)
UpdateStatusIfQueued(id, s, msgID) ==
    LET found == id \in table /\ status[id] = "queued"
    IN
    /\ status' = IF found THEN [status EXCEPT ![id] = s] ELSE status
    /\ providerMsgID' = IF found THEN [providerMsgID EXCEPT ![id] = msgID] ELSE providerMsgID
    /\ UNCHANGED <<table, archive, retryCount>>

(* WHERE id = $4 and nothing else: whatever the status was, it is replaced,*)
(* and provider_msg_id with it.  An archived row is not found.             *)
UpdateStatus(id, s, msgID) ==
    /\ status' = IF id \in table THEN [status EXCEPT ![id] = s] ELSE status
    /\ providerMsgID' =
         IF id \in table THEN [providerMsgID EXCEPT ![id] = msgID] ELSE providerMsgID
    /\ UNCHANGED <<table, archive, retryCount>>

IncrementRetry(id) ==
    /\ retryCount' = IF id \in table THEN [retryCount EXCEPT ![id] = @ + 1] ELSE retryCount
    /\ UNCHANGED <<table, archive, status, providerMsgID>>

Cancellable(id) == id \in table /\ status[id] \in {"pending", "queued"}

CancelRow(id) ==
    /\ Cancellable(id)
    /\ status' = [status EXCEPT ![id] = "cancelled"]
    /\ UNCHANGED <<table, archive, retryCount, providerMsgID>>

(* Faulty: the SELECT also returns rows that were cancelled.               *)
DueOrCancelled == {id \in table \cap Scheduled : status[id] \in {"pending", "cancelled"}}

(* Faulty: the SELECT returns whatever waits, with a scheduled_at or not.  *)
DueByStatusOnly == {id \in table : status[id] \in {"pending", "queued"}}

(* The rows GetDueScheduled may return.  Time is abstracted: any of them   *)
(* may have reached its scheduled_at.                                      *)
DueScheduled == {id \in table \cap Scheduled : status[id] = "pending"}

(* WHERE id IN (?): no condition on the status the row has by now.         *)
BulkUpdateStatus(S, s) ==
    /\ status' = [id \in Ids |-> IF id \in S \cap table THEN s ELSE status[id]]
    /\ UNCHANGED <<table, archive, retryCount, providerMsgID>>

(* The rows the SELECT of the archive statement may return.  Age is        *)
(* abstracted: any completed row may be older than the threshold.          *)
Archivable == {id \in table : status[id] \in Completed}

(* Its DELETE and INSERT for the rows it selected.  Under READ COMMITTED   *)
(* the DELETE only compares the id again: a row that was updated in the    *)
(* meantime is moved as it is now.                                         *)
Archive(S) ==
    /\ table' = table \ S
    /\ archive' = archive \cup (S \cap table)
    /\ UNCHANGED <<status, retryCount, providerMsgID>>

=============================================================================
