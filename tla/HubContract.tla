----------------------------- MODULE HubContract -----------------------------
(***************************************************************************)
(* What the provider hub promises whoever finalizes a turn in its          *)
(* afterTurn hook (the turn's last checkpoint is taken there) and whoever  *)
(* waits for the thread's token, which is released when the admission is   *)
(* cleared: the hook runs once for every admitted turn, when that turn can *)
(* act no more, and has ended before the thread's next turn is admitted.   *)
(* It does not promise that an interrupt which overran its budget has      *)
(* settled: `late` tells which are still in flight, and only an admitted   *)
(* turn can add one.                                                       *)
(***************************************************************************)

CONSTANT Turns

VARIABLES
  stage,   \* turn -> "new", "refused", "admitted", "finalizing" or "gone"
  acting,  \* turns that may still act, themselves or through the hub
  late     \* turns with an interrupt in flight that overran its budget

Init ==
  /\ stage = [t \in Turns |-> "new"]
  /\ acting = {} /\ late = {}

To(t, s) == stage' = [stage EXCEPT ![t] = s]

Free == \A t \in Turns : stage[t] \notin {"admitted", "finalizing"}

Admit(t) ==
  /\ Free /\ stage[t] = "new"
  /\ To(t, "admitted")
  /\ acting' = acting \cup {t}
  /\ UNCHANGED late

Refuse(t) ==
  /\ Free /\ stage[t] = "new"
  /\ To(t, "refused")
  /\ UNCHANGED <<acting, late>>

Admitted == {t \in Turns : stage[t] = "admitted"}

\* Calls to the adapter begin, overrun and end, but nothing begins or overruns
\* for any but the admitted turn.
Act ==
  /\ acting' \subseteq acting \cup Admitted
  /\ late' \subseteq late \cup Admitted
  /\ UNCHANGED stage

Finalize(t) ==
  /\ stage[t] = "admitted" /\ t \notin acting
  /\ To(t, "finalizing")
  /\ UNCHANGED <<acting, late>>

Clear(t) ==
  /\ stage[t] = "finalizing"
  /\ To(t, "gone")
  /\ UNCHANGED <<acting, late>>

Next ==
  \/ \E t \in Turns : Admit(t) \/ Refuse(t) \/ Finalize(t) \/ Clear(t)
  \/ Act

Spec == Init /\ [][Next]_<<stage, acting, late>>
=============================================================================
