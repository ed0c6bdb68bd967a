--------------------------- MODULE MCChatDispatch ---------------------------
(***************************************************************************)
(* ChatDispatch for TLC.  r1 is a message, r2 reuses its id (as a retry,   *)
(* or with another content), r3 is another message.                        *)
(***************************************************************************)
EXTENDS ChatDispatch

CONSTANTS r1, r2, r3, d1, d2, t1, t2, p1, p2, i1

\* r2 retries r1; r3 is another message on the thread, naming its instance.
RetryDispatch == [r \in Requests |-> IF r = r3 THEN d2 ELSE d1]
OneThread == [r \in Requests |-> t1]
RetryPrint == [r \in Requests |-> IF r = r3 THEN p2 ELSE p1]
InferredInstance == [r \in Requests |-> IF r = r3 THEN i1 ELSE NoInst]
OneInstance == [r \in Requests |-> i1]

\* r2 reuses r1's id with another content.
RivalPrint == [r \in Requests |-> IF r = r1 THEN p1 ELSE p2]
=============================================================================
