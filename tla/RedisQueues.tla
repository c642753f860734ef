---------------------------- MODULE RedisQueues -----------------------------
(***************************************************************************)
(* The Redis side of internal/queue: one list per priority, consumed with  *)
(* BRPOP, and the sorted set of messages that wait for a retry.  LPUSH     *)
(* adds at one end of a list and BRPOP takes from the other: a list is a   *)
(* FIFO queue, here with its oldest message first.                         *)
(***************************************************************************)
EXTENDS NotificationDomain

VARIABLES
    lists,      (* notifications:high, notifications:normal, notifications:low *)
    retryQueue  (* the members of notifications:retry                          *)

queueVars == <<lists, retryQueue>>

QueueTypeOK ==
    /\ lists \in [Priority -> Seq(Message)]
    /\ retryQueue \in SUBSET Message

QueueInit ==
    /\ lists = [p \in Priority |-> <<>>]
    /\ retryQueue = {}

(* The order in which BRPOP looks at its keys.                             *)
priorityQueues == <<"high", "normal", "low">>

Rank(p) == CHOOSE i \in DOMAIN priorityQueues : priorityQueues[i] = p

queueKey(m) == PriorityOf[m.id]

LPush(m) == lists' = [lists EXCEPT ![queueKey(m)] = Append(@, m)]

(* The list a BRPOP over all keys pops now: the first that is not empty.   *)
Poppable(p) ==
    /\ lists[p] # <<>>
    /\ \A q \in Priority : Rank(q) < Rank(p) => lists[q] = <<>>

RPop(p) == lists' = [lists EXCEPT ![p] = Tail(@)]

=============================================================================
