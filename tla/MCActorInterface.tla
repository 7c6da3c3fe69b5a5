-------------------------- MODULE MCActorInterface --------------------------
(***************************************************************************)
(* Small sets of clients for ActorInterface.                               *)
(***************************************************************************)
EXTENDS ActorInterface

CONSTANTS c1, c2

TwoClients == {c1, c2}
WaitingPools == {TRUE}
=============================================================================
