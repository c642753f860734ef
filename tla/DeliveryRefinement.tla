------------------------- MODULE DeliveryRefinement -------------------------
(***************************************************************************)
(* DeliverySystem implements NotificationPromise for the notifications     *)
(* without a scheduled_at, while no pipeline of the scheduler is cut short *)
(* and no command is sent twice.                                           *)
(***************************************************************************)
EXTENDS DeliverySystem

(* A notification is open while a message of it is under way, and closed   *)
(* once it has a row and no message.                                       *)
StageOf(id) ==
    IF id \in Fresh THEN "new" ELSE IF HasCopy(id) THEN "open" ELSE "closed"

Promise == INSTANCE NotificationPromise WITH
    Notifications <- Immediate,
    MaxTries <- MaxRetries + 1,
    MayLose <- Faults # {},
    stage <- [id \in Immediate |-> StageOf(id)],
    tries <- [id \in Immediate |-> attempts[id]],
    acked <- [id \in Immediate |-> accepted[id] # {}],
    outcome <- [id \in Immediate |-> events[id]]

(* Every step of the handlers, the workers, the scheduler and a crash is a *)
(* step of the promise or changes nothing it speaks of.                    *)
ImplementsPromise == Promise!Spec

(* Without failing calls nothing is lost, and every notification accepted  *)
(* is announced, a cancelled one included.                                 *)
KeepsPromise == Promise!LiveSpec

(***************************************************************************)
(* Every notification, under every fault.                                  *)
(***************************************************************************)

(* A notification is open, too, while its row is going to be fetched or    *)
(* its message may be sent again.                                          *)
WeakStageOf(id) ==
    IF id \in Fresh THEN "new"
    ELSE IF HasCopy(id) \/ ToBeFetched(id) \/ MayBeResent(id) THEN "open"
    ELSE "closed"

Weak == INSTANCE WeakPromise WITH
    Notifications <- Ids,
    MaxTries <- MaxRetries + 1,
    MayLose <- TRUE,
    stage <- [id \in Ids |-> WeakStageOf(id)],
    tries <- attempts,
    acked <- [id \in Ids |-> accepted[id] # {}],
    outcome <- events

(* Whatever call fails, every step is one of the weak promise: no outcome  *)
(* is announced that the provider's answers do not back, and what has no   *)
(* message, under way or still to be answered for, and is not pending is   *)
(* never tried or announced again.                                         *)
KeepsWeakPromise == Weak!WeakSpec

=============================================================================
