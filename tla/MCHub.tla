-------------------------------- MODULE MCHub -------------------------------
(***************************************************************************)
(* Small instances of Hub for TLC: two connections, channels of one slot   *)
(* and three events, so that every channel fills up while Run has an event *)
(* in its hands.                                                           *)
(***************************************************************************)
EXTENDS Hub, TLC

CONSTANTS c1, c2

MCClients == {c1, c2}

=============================================================================
