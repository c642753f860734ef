----------------------------- MODULE WeakPromise ----------------------------
(***************************************************************************)
(* What is left of NotificationPromise whatever calls fail, for scheduled  *)
(* notifications as well: copies of a message may be tried and announced   *)
(* besides each other, but an announcement is never made up, and once      *)
(* nothing is left to be done for a notification it is over for good.      *)
(***************************************************************************)
EXTENDS NotificationPromise

TryCopy(n) ==
    /\ Move(n, "open", "open")
    /\ tries'[n] = tries[n] + 1
    /\ acked[n] => acked'[n]
    /\ Silent(n)

(* delivered only after an acknowledgement, failed only after MaxTries     *)
(* tries; other copies may go on.                                          *)
AnnounceCopy(n) ==
    /\ stage[n] = "open"
    /\ stage'[n] \in {"open", "closed"}
    /\ \/ acked[n] /\ outcome'[n] = outcome[n] \cup {"delivered"}
       \/ tries[n] >= MaxTries /\ outcome'[n] = outcome[n] \cup {"failed"}
    /\ NoTry(n)

WeakStep(n) == Stay(n) \/ Accept(n) \/ TryCopy(n) \/ AnnounceCopy(n) \/ Lose(n)

WeakNext ==
    /\ PromiseTypeOK'
    /\ \A n \in Notifications : WeakStep(n)

WeakSpec == Init /\ [][WeakNext]_promiseVars

=============================================================================
