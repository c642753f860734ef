--------------------------- MODULE IdempotencyKeys --------------------------
(***************************************************************************)
(* Idempotency keys: the handlers and the service that create              *)
(* notifications, from the lookup of the key to the INSERT, over the two   *)
(* tables, both of which have a unique index on idempotency_key (the       *)
(* archive is LIKE notifications INCLUDING ALL).                           *)
(*                                                                         *)
(* Create looks its key up and then inserts, in two statements; CreateBatch*)
(* does not look keys up, its transaction inserts all its rows or none.    *)
(* What happens to a row between its INSERT and its completion is the      *)
(* subject of DeliverySystem; here a row completes at some point.          *)
(***************************************************************************)
EXTENDS NotificationTable

CONSTANTS
    Keys,              (* the idempotency keys clients use                 *)
    NoKey,             (* idempotency_key NULL                             *)
    Requests,          (* the HTTP handlers that may run at the same time  *)
    MaxBatch,          (* the most notifications of a batch                *)
    ArchiveBatchSize   (* ARCHIVE_BATCH_SIZE                               *)

ASSUME KeyAssumption ==
    /\ NoKey \notin Keys
    /\ MaxBatch \in Nat \ {0}
    /\ ArchiveBatchSize \in Nat \ {0}

VARIABLES
    keyOf,     (* the idempotency_key column                               *)
    old,       (* the rows created before now() - ARCHIVE_AFTER            *)
    rpc,       (* the statement each request executes next                 *)
    rkey,      (* the key it was sent                                      *)
    conflicts  (* the keys for which a Create was answered with an error   *)

keyVars == <<tableVars, keyOf, old, rpc, rkey, conflicts, faultsLeft>>

KeyTypeOK ==
    /\ TableTypeOK
    /\ keyOf \in [Ids -> Keys \cup {NoKey}]
    /\ old \in SUBSET Ids
    /\ rpc \in [Requests -> {"idle", "lookup", "insert"}]
    /\ rkey \in [Requests -> Keys \cup {NoKey}]
    /\ conflicts \in SUBSET Keys

KeyInit ==
    /\ TableInit
    /\ keyOf = [id \in Ids |-> NoKey]
    /\ old = {}
    /\ rpc = [r \in Requests |-> "idle"]
    /\ rkey = [r \in Requests |-> NoKey]
    /\ conflicts = {}
    /\ faultsLeft = MaxFaults

(* Faulty: NULL is a key like any other.                                   *)
WithKeyOrNull(rows, k) == {id \in rows : keyOf[id] = k}

(* The rows of a table with a key.  NULLs never conflict.                  *)
WithKey(rows, k) == {id \in rows : k # NoKey /\ keyOf[id] = k}

(* Faulty: the new keys are only compared with those of the stored rows.   *)
UniqueAmongStored(rows, S, k) == \A a \in S : WithKey(rows, k[a]) = {}

(* No two of the new keys are the same, and none is in the index of rows.  *)
UniqueIn(rows, S, k) ==
    /\ \A a, b \in S : k[a] = k[b] /\ k[a] # NoKey => a = b
    /\ \A a \in S : WithKey(rows, k[a]) = {}

Answered(r) ==
    /\ rpc' = [rpc EXCEPT ![r] = "idle"]
    /\ rkey' = [rkey EXCEPT ![r] = NoKey]

BeginCreate(r, k) ==
    /\ rpc[r] = "idle"
    /\ rpc' = [rpc EXCEPT ![r] = IF k = NoKey THEN "insert" ELSE "lookup"]
    /\ rkey' = [rkey EXCEPT ![r] = k]
    /\ UNCHANGED <<tableVars, keyOf, old, conflicts, faultsLeft>>

(* GetByIdempotencyKey: the row found in notifications is the answer.      *)
Lookup(r) ==
    /\ rpc[r] = "lookup"
    /\ IF WithKey(table, rkey[r]) # {}
       THEN Answered(r)
       ELSE rpc' = [rpc EXCEPT ![r] = "insert"] /\ UNCHANGED rkey
    /\ UNCHANGED <<tableVars, keyOf, old, conflicts, faultsLeft>>

Insert(r, id) ==
    /\ rpc[r] = "insert"
    /\ id \in Fresh
    /\ WithKey(table, rkey[r]) = {}
    /\ InsertRows({id})
    /\ keyOf' = [keyOf EXCEPT ![id] = rkey[r]]
    /\ Answered(r)
    /\ UNCHANGED <<old, conflicts, faultsLeft>>

(* The unique index refuses the INSERT.  Its error is none of the domain's:*)
(* the handler answers 500.                                                *)
InsertRefused(r) ==
    /\ rpc[r] = "insert"
    /\ WithKey(table, rkey[r]) # {}
    /\ conflicts' = conflicts \cup {rkey[r]}
    /\ Answered(r)
    /\ UNCHANGED <<tableVars, keyOf, old, faultsLeft>>

(* One transaction; when a key is taken or repeated nothing is inserted.   *)
InsertBatch(S, k) ==
    /\ S \subseteq Fresh
    /\ Cardinality(S) <= MaxBatch
    /\ UniqueIn(table, S, k)
    /\ InsertRows(S)
    /\ keyOf' = [id \in Ids |-> IF id \in S THEN k[id] ELSE keyOf[id]]
    /\ UNCHANGED <<old, rpc, rkey, conflicts, faultsLeft>>

(* A worker delivers the notification, gives it up, or a client cancels it.*)
Complete(id) ==
    /\ id \in table \ Archivable
    /\ UpdateStatus(id, "delivered", NoProviderID)
    /\ UNCHANGED <<keyOf, old, rpc, rkey, conflicts, faultsLeft>>

(* created_at falls behind the threshold of the archive.                   *)
Age(id) ==
    /\ id \in table \ old
    /\ old' = old \cup {id}
    /\ UNCHANGED <<tableVars, keyOf, rpc, rkey, conflicts, faultsLeft>>

(* What the archive statement may select: LIMIT rows in no order, or all.  *)
ToArchive ==
    LET eligible == Archivable \cap old
    IN  {S \in SUBSET eligible :
            \/ S = eligible /\ Cardinality(S) <= ArchiveBatchSize
            \/ Cardinality(S) = ArchiveBatchSize}

(* DELETE and INSERT are one statement: when a key is in the archive       *)
(* already, the INSERT fails, the error is logged and no row is moved.     *)
ArchiveRows(S) ==
    /\ S # {}
    /\ IF UniqueIn(archive, S, keyOf) THEN Archive(S) ELSE UNCHANGED tableVars
    /\ UNCHANGED <<keyOf, old, rpc, rkey, conflicts, faultsLeft>>

ArchiveTick == \E S \in ToArchive : ArchiveRows(S)

KeyNext ==
    \/ \E r \in Requests, k \in Keys \cup {NoKey} : BeginCreate(r, k)
    \/ \E r \in Requests : Lookup(r)
    \/ \E r \in Requests, id \in Fresh : Insert(r, id)
    \/ \E r \in Requests : InsertRefused(r)
    \/ \E S \in SUBSET Fresh \ {{}} : \E k \in [S -> Keys \cup {NoKey}] : InsertBatch(S, k)
    \/ \E id \in Ids : Complete(id)
    \/ \E id \in Ids : Age(id)
    \/ ArchiveTick

KeySpec == KeyInit /\ [][KeyNext]_keyVars

(* However often clients send a key, and whatever the archive moves in     *)
(* between, no more than two notifications have it: the first one archived *)
(* and one that took the key again.                                        *)
AtMostTwoPerKey == \A k \in Keys : Cardinality(WithKey(table \cup archive, k)) <= 2

(***************************************************************************)
(* What the documentation says and the code does not do.                   *)
(***************************************************************************)

(* A key that has been used is answered with the existing record, never    *)
(* with an error.                                                          *)
UsedKeyIsNoError == conflicts = {}

(* The scheduler keeps ticking.                                            *)
LiveKeySpec == KeySpec /\ WF_keyVars(ArchiveTick)

(* Completed rows that are old enough are moved to the archive: at least   *)
(* those that have no key which could be in the archive already.           *)
EventuallyArchived ==
    \A id \in Ids :
        id \in Archivable \cap old /\ keyOf[id] = NoKey ~> id \in archive

=============================================================================
