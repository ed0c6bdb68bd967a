------------------------------ MODULE MCHubTurn ------------------------------
(***************************************************************************)
(* HubTurn for TLC: two turns a client asks for on the thread.             *)
(***************************************************************************)
EXTENDS HubTurn

CONSTANTS t1, t2
=============================================================================
