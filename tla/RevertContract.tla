---------------------------- MODULE RevertContract ----------------------------
(***************************************************************************)
(* What the revert saga promises the user.  A revert, once it is journaled,*)
(* takes its thread from the turn it was at to the turn that was asked for,*)
(* whatever is called twice, fails or dies on the way; or it is given up   *)
(* with the turns as they were.  Until it is over no turn advances in its  *)
(* workspace.  The provider may remember other turns than the database only*)
(* in between, and the cut of the database makes them agree again.  The one*)
(* way out is a journal row that cannot be read: its thread is quarantined.*)
(***************************************************************************)
EXTENDS Naturals

CONSTANTS Threads, Cwd

VARIABLES
  turns,    \* thread -> turns of the conversation the user sees
  pending,  \* thread -> the set of its journaled reverts: one or none
  apart,    \* threads whose provider remembers other turns than the database
  lost      \* quarantined threads

Init ==
  /\ turns \in [Threads -> Nat]
  /\ pending = [t \in Threads |-> {}]
  /\ apart = {} /\ lost = {}

\* A turn settles.
Advance(t) ==
  /\ \A u \in Threads : Cwd[u] = Cwd[t] => pending[u] = {} /\ u \notin lost
  /\ turns' = [turns EXCEPT ![t] = @ + 1]
  /\ UNCHANGED <<pending, apart, lost>>

Accept(t) ==
  /\ pending[t] = {} /\ t \notin lost
  /\ \E n \in 0..turns[t] : pending' = [pending EXCEPT ![t] = {[from |-> turns[t], to |-> n]}]
  /\ UNCHANGED <<turns, apart, lost>>

\* The provider forgets turns, or loses its session and will be told the
\* database's.
Forget(t) ==
  /\ \E op \in pending[t] : turns[t] = op.from
  /\ apart' \in {apart \cup {t}, apart \ {t}}
  /\ UNCHANGED <<turns, pending, lost>>

Cut(t) ==
  /\ \E op \in pending[t] : turns[t] = op.from /\ turns' = [turns EXCEPT ![t] = op.to]
  /\ apart' = apart \ {t}
  /\ UNCHANGED <<pending, lost>>

\* The revert is over: it is done, or it was not begun.
End(t) ==
  /\ t \notin apart
  /\ \E op \in pending[t] : turns[t] \in {op.from, op.to}
  /\ pending' = [pending EXCEPT ![t] = {}]
  /\ UNCHANGED <<turns, apart, lost>>

\* Rows of these threads cannot be read after a restart.
Lose(S) ==
  /\ \A t \in S : pending[t] # {}
  /\ pending' = [t \in Threads |-> IF t \in S THEN {} ELSE pending[t]]
  /\ apart' = apart \ S
  /\ lost' = lost \cup S
  /\ UNCHANGED turns

Resolve(t) ==
  /\ t \in lost /\ lost' = lost \ {t}
  /\ UNCHANGED <<turns, pending, apart>>

Next ==
  \/ \E t \in Threads :
       Advance(t) \/ Accept(t) \/ Forget(t) \/ Cut(t) \/ End(t) \/ Resolve(t)
  \/ \E S \in SUBSET Threads : Lose(S)

Spec == Init /\ [][Next]_<<turns, pending, apart, lost>>
=============================================================================
