------------------------ MODULE NotificationPromise -------------------------
(***************************************************************************)
(* What the service promises for each notification, without queues,        *)
(* workers and rows: it is accepted, tried a bounded number of times until *)
(* the provider acknowledges a try, and announced once, with the outcome   *)
(* those tries had.  Many notifications may move in one step.              *)
(*                                                                         *)
(* MayLose says whether a notification may also end without an outcome,    *)
(* which the delivery pipeline does not exclude when calls fail.           *)
(***************************************************************************)
EXTENDS Naturals

CONSTANTS
    Notifications,
    MaxTries,       (* a number                                            *)
    MayLose         (* a Boolean                                           *)

VARIABLES
    stage,    (* how far a notification has come                           *)
    tries,    (* the requests made to the provider for it                  *)
    acked,    (* whether the provider acknowledged one of them             *)
    outcome   (* what subscribers were told                                *)

promiseVars == <<stage, tries, acked, outcome>>

Stages == {"new", "open", "closed"}

Outcomes == {"delivered", "failed"}

PromiseTypeOK ==
    /\ stage \in [Notifications -> Stages]
    /\ tries \in [Notifications -> Nat]
    /\ acked \in [Notifications -> BOOLEAN]
    /\ outcome \in [Notifications -> SUBSET Outcomes]

Init ==
    /\ stage = [n \in Notifications |-> "new"]
    /\ tries = [n \in Notifications |-> 0]
    /\ acked = [n \in Notifications |-> FALSE]
    /\ outcome = [n \in Notifications |-> {}]

Move(n, from, to) == stage[n] = from /\ stage'[n] = to

NoTry(n) == tries'[n] = tries[n] /\ acked'[n] = acked[n]

Silent(n) == outcome'[n] = outcome[n]

Stay(n) == stage'[n] = stage[n] /\ NoTry(n) /\ Silent(n)

Accept(n) == Move(n, "new", "open") /\ NoTry(n) /\ Silent(n)

(* A request to the provider, unless one has been acknowledged or the      *)
(* tries are used up.                                                      *)
Try(n) ==
    /\ Move(n, "open", "open")
    /\ ~acked[n]
    /\ tries[n] < MaxTries
    /\ tries'[n] = tries[n] + 1
    /\ Silent(n)

(* delivered when a try was acknowledged, failed when none of MaxTries was.*)
Announce(n) ==
    /\ Move(n, "open", "closed")
    /\ acked[n] \/ tries[n] = MaxTries
    /\ outcome'[n] = {IF acked[n] THEN "delivered" ELSE "failed"}
    /\ NoTry(n)

Lose(n) ==
    /\ MayLose
    /\ stage[n] # "closed"
    /\ stage'[n] = "closed"
    /\ NoTry(n)
    /\ Silent(n)

Step(n) == Stay(n) \/ Accept(n) \/ Try(n) \/ Announce(n) \/ Lose(n)

Next ==
    /\ PromiseTypeOK'
    /\ \A n \in Notifications : Step(n)

Spec == Init /\ [][Next]_promiseVars

(* The promise proper: what was accepted is announced, or lost.            *)
Kept == \A n \in Notifications : stage[n] = "open" ~> stage[n] = "closed"

LiveSpec == Spec /\ Kept

=============================================================================
