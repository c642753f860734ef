------------------------- MODULE NotificationService ------------------------
(***************************************************************************)
(* internal/service/notification.go with the publisher of                  *)
(* internal/queue/redis.go: the requests that create and cancel            *)
(* notifications.  A request inserts its rows, then pushes the messages of *)
(* those that are not scheduled, one LPUSH after the other.                *)
(*                                                                         *)
(* A request that validation or the template rejects changes nothing and   *)
(* is not modelled here; nor are idempotency keys.                         *)
(***************************************************************************)
EXTENDS NotificationTable, RedisQueues

CONSTANTS
    Requests,  (* the HTTP handlers that may run at the same time          *)
    MaxBatch   (* the most notifications of a batch                        *)

ASSUME ServiceAssumption == MaxBatch \in Nat \ {0}

VARIABLES
    toEnqueue,  (* the stored notifications a request has yet to push      *)
    sending     (* all those of the command or pipeline that pushes them   *)

serviceVars == <<toEnqueue, sending>>

ServiceTypeOK ==
    /\ toEnqueue \in [Requests -> SUBSET Ids]
    /\ sending \in [Requests -> SUBSET Ids]

ServiceInit ==
    /\ toEnqueue = [r \in Requests |-> {}]
    /\ sending = [r \in Requests |-> {}]

(* An INSERT that fails ends the request; its rows may be there all the    *)
(* same when only the answer of the commit was lost.                       *)
Store(r, S) ==
    /\ toEnqueue[r] = {}
    /\ S \subseteq Fresh
    /\ InsertRows(S)
    /\ \/ /\ Works
          /\ toEnqueue' = [toEnqueue EXCEPT ![r] = S \ Scheduled]
          /\ sending' = [sending EXCEPT ![r] = S \ Scheduled]
       \/ Fails("insert") /\ UNCHANGED serviceVars
    /\ UNCHANGED queueVars

Create(r, id) == Store(r, {id})

CreateBatch(r, S) ==
    /\ S # {}
    /\ Cardinality(S) <= MaxBatch
    /\ Store(r, S)

(* One LPUSH of Enqueue or of EnqueueBatch's pipeline.  An error is logged *)
(* and the request answered: what is left of the pipeline is not pushed.   *)
(* When the connection breaks with the reply, the Redis client sends the   *)
(* whole command or pipeline again.                                        *)
Enqueue(r, id) ==
    LET m == [id |-> id, retry |-> 0, span |-> 0]
    IN
    /\ id \in toEnqueue[r]
    /\ \/ /\ Works
          /\ LPush(m)
          /\ toEnqueue' = [toEnqueue EXCEPT ![r] = @ \ {id}]
          /\ sending' = IF toEnqueue'[r] = {} THEN [sending EXCEPT ![r] = {}] ELSE sending
       \/ /\ Fails("resend")
          /\ LPush(m)
          /\ toEnqueue' = [toEnqueue EXCEPT ![r] = sending[r]]
          /\ UNCHANGED sending
       \/ /\ Fails("enqueue")
          /\ LPush(m) \/ UNCHANGED lists
          /\ toEnqueue' = [toEnqueue EXCEPT ![r] = {}]
          /\ sending' = [sending EXCEPT ![r] = {}]
    /\ UNCHANGED <<retryQueue, tableVars>>

(* The UPDATE repeats the condition, so the SELECT before it only decides  *)
(* which error a client gets.                                              *)
Cancel(id) ==
    /\ CancelRow(id)
    /\ UNCHANGED <<serviceVars, queueVars, faultsLeft>>

ServiceStep ==
    \/ \E r \in Requests, id \in Fresh : Create(r, id)
    \/ \E r \in Requests, S \in SUBSET Fresh : CreateBatch(r, S)
    \/ \E r \in Requests, id \in Ids : Enqueue(r, id)
    \/ \E id \in Ids : Cancel(id)

=============================================================================
