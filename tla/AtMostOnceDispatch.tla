------------------------- MODULE AtMostOnceDispatch -------------------------
(***************************************************************************)
(* What the chat outbox promises a client about one message id, whatever   *)
(* happens to the backend: the message is given to a provider at most once,*)
(* only while its outcome is open, and an outcome once known stays known   *)
(* unless the user withdraws the message.                                  *)
(***************************************************************************)
EXTENDS FiniteSets

CONSTANTS Dispatches, Turns

VARIABLES
    outcome,  \* "none" | "open" | "known" | "unknown" | "withdrawn"
    given     \* the provider turns a message has been given to

\* Outcomes and turns are of their types.
TypeOK ==
    /\ outcome \in [Dispatches -> {"none", "open", "known", "unknown", "withdrawn"}]
    /\ given \in [Dispatches -> SUBSET Turns]

Init ==
    /\ outcome = [d \in Dispatches |-> "none"]
    /\ given = [d \in Dispatches |-> {}]

Set(D, to) == [d \in Dispatches |-> IF d \in D THEN to ELSE outcome[d]]

All(D, from) == \A d \in D : outcome[d] \in from

Record(d) ==
    /\ outcome[d] = "none"
    /\ outcome' = Set({d}, "open")
    /\ UNCHANGED given

Give(d, t) ==
    /\ outcome[d] = "open"
    /\ given[d] = {}
    /\ \A e \in Dispatches : t \notin given[e]
    /\ given' = [given EXCEPT ![d] = {t}]
    /\ UNCHANGED outcome

\* The outcome becomes known, also belatedly.
Learn(D) ==
    /\ All(D, {"open", "unknown"})
    /\ outcome' = Set(D, "known")
    /\ UNCHANGED given

\* A restart loses track of everything still open.
LoseTrack(D) ==
    /\ All(D, {"open"})
    /\ outcome' = Set(D, "unknown")
    /\ UNCHANGED given

Withdraw(D) ==
    /\ All(D, {"open", "known", "unknown", "withdrawn"})
    /\ outcome' = Set(D, "withdrawn")
    /\ UNCHANGED given

Next ==
    \/ \E d \in Dispatches : Record(d) \/ \E t \in Turns : Give(d, t)
    \/ \E D \in SUBSET Dispatches : Learn(D) \/ LoseTrack(D) \/ Withdraw(D)

Spec == Init /\ [][Next]_<<outcome, given>>
=============================================================================
