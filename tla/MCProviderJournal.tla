-------------------------- MODULE MCProviderJournal --------------------------
(***************************************************************************)
(* Instances of ProviderJournal for TLC.  Event 2 is a text delta, 3 ends  *)
(* the turn of the first thread; the last belongs to another thread.       *)
(***************************************************************************)
EXTENDS ProviderJournal

CONSTANTS t1, t2

McThreadOf == [e \in Events |-> IF e = Last THEN t2 ELSE t1]
McJournaled == Events \ {2}
McTerminal == {3}
=============================================================================
