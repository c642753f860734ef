------------------------------- MODULE MCKeys -------------------------------
(***************************************************************************)
(* Small instances of IdempotencyKeys for TLC.                             *)
(***************************************************************************)
EXTENDS IdempotencyKeys, TLC

CONSTANTS n1, n2, n3, n4, k1, r1, r2

MCIds == {n1, n2, n3, n4}
MCTwoIds == {n1, n2}
MCThreeIds == {n1, n2, n3}
MCScheduled == {}
MCPriorityOf == [id \in Ids |-> "normal"]
MCKeys == {k1}
MCRequests == {r1, r2}
MCFaults == {}

(* Notifications and requests are interchangeable.                         *)
MCSymmetry == Permutations(MCIds) \cup Permutations(MCRequests)

=============================================================================
