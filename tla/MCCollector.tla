---------------------------- MODULE MCCollector -----------------------------
(***************************************************************************)
(* A small instance of Collector for TLC.                                  *)
(***************************************************************************)
EXTENDS Collector, TLC

CONSTANTS w1, w2

MCWorkers == {w1, w2}
MCSymmetry == Permutations(MCWorkers)

=============================================================================
