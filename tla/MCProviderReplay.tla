--------------------------- MODULE MCProviderReplay ---------------------------
(***************************************************************************)
(* ProviderReplay for TLC.  The bounds come from the configurations.       *)
(***************************************************************************)
EXTENDS ProviderReplay
=============================================================================
