---------------------------- MODULE MCLifecycle -----------------------------
(***************************************************************************)
(* The instances of MCDelivery with orderly stops.                         *)
(***************************************************************************)
EXTENDS MCDelivery, Lifecycle

MCOneWorker == {w1}

=============================================================================
