----------------------------- MODULE MCChatResume -----------------------------
(* Instances of ChatResume: one chat, and two dispatches of the scheduler that *)
(* may overlap, an old one that was cancelled and a new one.                   *)
EXTENDS ChatResume
CONSTANTS a1, a2
=============================================================================
