----------------------------- MODULE MCDelivery -----------------------------
(***************************************************************************)
(* Small instances of DeliverySystem for TLC: one notification that is     *)
(* pushed by its request and one that is scheduled, of different           *)
(* priorities.                                                             *)
(***************************************************************************)
EXTENDS DeliveryRefinement, TLC

CONSTANTS now, later, w1, w2, r1

MCIds == {now, later}
MCScheduled == {later}
MCPriorityOf == now :> "normal" @@ later :> "high"
MCWorkers == {w1, w2}
MCRequests == {r1}

(* Two notifications of one priority that are both pushed at once.         *)
MCImmediateOnly == {}
MCOnePriority == now :> "low" @@ later :> "low"

(* Workers are interchangeable: only the safety runs use it.               *)
MCWorkerSymmetry == Permutations(MCWorkers)

MCAllFaults == FaultSites
MCNoDuplicates == FaultSites \ {"pipeline", "resend", "status"}
MCNoFaults == {}

=============================================================================
