----------------------------- MODULE MCNetwork ------------------------------
(***************************************************************************)
(* Instance of Network for TLC: one call of a peer, and one of a client.   *)
(***************************************************************************)
EXTENDS Network

CONSTANTS p1, c1
=============================================================================
