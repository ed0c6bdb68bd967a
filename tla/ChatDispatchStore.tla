------------------------- MODULE ChatDispatchStore -------------------------
(***************************************************************************)
(* The durable outbox of chat messages: table chat_dispatches and the      *)
(* transactions of class ChatDispatchStore                                 *)
(* (apps/backend/src/services/chat-dispatch-store.ts).                     *)
(*                                                                         *)
(* Every SQLite transaction is a pure operator on the row it reads, so     *)
(* that the modules composing the store use each one atomically.  Op(row)  *)
(* is the row afterwards; where the method can throw, CanOp(row) is its    *)
(* condition for not throwing.  A missing row is the row whose status is   *)
(* "absent".  Timestamps, error texts and the copy of the status kept in   *)
(* the message's metadata (written in the same transaction) are left out.  *)
(***************************************************************************)
EXTENDS Naturals, FiniteSets

CONSTANTS
    Threads,     \* conversation threads
    Dispatches,  \* client-chosen dispatch ids (= message ids)
    Prints,      \* request fingerprints
    Instances,   \* provider instances
    Turns,       \* provider turn ids
    NoInst,      \* provider_instance_id IS NULL
    NoTurn       \* provider_turn_id IS NULL

ASSUME StoreAssumption ==
    /\ IsFiniteSet(Dispatches)
    /\ Threads # {} /\ Prints # {}
    /\ NoTurn \notin Turns
    /\ NoInst \notin Instances

Open == {"pending", "accepted"}
Settled == {"completed", "failed"}
Statuses == Open \cup Settled \cup {"uncertain", "reverted"}

Row == [status : Statuses \cup {"absent"},
        thread : Threads,
        print : Prints,
        inst : Instances \cup {NoInst},
        turn : Turns \cup {NoTurn},
        recovered : BOOLEAN,          \* recovery_completed_at IS NOT NULL
        seq : Nat]                    \* position in created_at order

AbsentRow ==
    [status |-> "absent", thread |-> CHOOSE t \in Threads : TRUE,
     print |-> CHOOSE p \in Prints : TRUE, inst |-> NoInst, turn |-> NoTurn,
     recovered |-> FALSE, seq |-> 0]

Present(row) == row.status # "absent"

\* created_at of the next row: rows are never deleted and the clock moves on.
NextSeq(rows) == Cardinality({d \in DOMAIN rows : Present(rows[d])}) + 1

\* INSERT of reserveTransaction.
Inserted(rows, t, print, inst) ==
    [status |-> "pending", thread |-> t, print |-> print, inst |-> inst,
     turn |-> NoTurn, recovered |-> FALSE, seq |-> NextSeq(rows)]

\* Deliberately wrong variants, here and below, stand right before the
\* definition they vary; no specification uses them.  This one forgets the
\* fingerprint.
SameThread(row, t, print) == row.thread = t

SameRequest(row, t, print) == row.thread = t /\ row.print = print

InstanceMatches(row, inst) == row.inst \in {NoInst, inst}

\* provider_instance_id = COALESCE(provider_instance_id, inst).
WithInstance(row, inst) ==
    IF row.inst = NoInst THEN [row EXCEPT !.inst = inst] ELSE row

BoundAlready(row, turn) ==
    row.turn = turn /\ row.status \in Open \cup Settled

CanBind(row, turn, inst) ==
    /\ Present(row)
    /\ InstanceMatches(row, inst)
    /\ BoundAlready(row, turn) \/ (row.status = "pending" /\ row.turn = NoTurn)

BindProviderTurn(row, turn, inst) ==
    IF BoundAlready(row, turn) THEN row
    ELSE [WithInstance(row, inst) EXCEPT !.turn = turn]

CanAccept(row, turn, inst) ==
    /\ row.turn \in {NoTurn, turn}
    /\ InstanceMatches(row, inst)
    /\ \/ row.status = "pending"
       \/ row.status \in {"accepted"} \cup Settled /\ row.turn = turn

MarkAccepted(row, turn, inst) ==
    IF row.status = "pending"
    THEN [WithInstance(row, inst) EXCEPT
            !.status = "accepted", !.turn = turn, !.recovered = FALSE]
    ELSE row

MarkFailed(row) ==
    IF row.status \in Open \cup {"uncertain"}
    THEN [row EXCEPT !.status = "failed", !.recovered = FALSE]
    ELSE row

CanComplete(row, turn, inst) ==
    /\ row.turn \in {NoTurn, turn}
    /\ InstanceMatches(row, inst)
    /\ \/ row.status \in Open
       \/ row.status \in Settled \cup {"uncertain", "reverted"} /\ row.turn = turn

MarkCompleted(row, turn, inst) ==
    IF row.status \in Open \cup {"uncertain"}
    THEN [WithInstance(row, inst) EXCEPT
            !.status = "completed", !.turn = turn, !.recovered = FALSE]
    ELSE row

\* getByProviderTurn: the rows a terminal event of that turn addresses.
ByProviderTurn(rows, t, inst, turn) ==
    {d \in DOMAIN rows : /\ Present(rows[d])
                         /\ rows[d].thread = t
                         /\ rows[d].inst = inst
                         /\ rows[d].turn = turn}

\* A terminal event of a turn, by its outcome.
SettleByProviderTurn(rows, t, inst, turn, outcome) ==
    LET found == ByProviderTurn(rows, t, inst, turn)
    IN [d \in DOMAIN rows |->
          IF d \notin found THEN rows[d]
          ELSE IF outcome = "completed" THEN MarkCompleted(rows[d], turn, inst)
          ELSE MarkFailed(rows[d])]

OpenOf(rows, t) ==
    {d \in DOMAIN rows : rows[d].status \in Open /\ rows[d].thread = t}

\* getActiveForThread: the newest row still open, if any.
ActiveForThread(rows, t) ==
    {d \in OpenOf(rows, t) :
        \A e \in OpenOf(rows, t) : rows[e].seq <= rows[d].seq}

\* markIncompleteUncertain of recoverTransaction.
Recovered(rows) ==
    [d \in DOMAIN rows |->
        IF rows[d].status \in Open
        THEN [rows[d] EXCEPT !.status = "uncertain", !.recovered = FALSE]
        ELSE rows[d]]

Unrecovered(rows) ==
    {d \in DOMAIN rows : rows[d].status = "uncertain" /\ ~rows[d].recovered}

\* listIncompleteRecovery hands them over oldest first.
NextUnrecovered(rows) ==
    {d \in Unrecovered(rows) :
        \A e \in Unrecovered(rows) : rows[d].seq <= rows[e].seq}

CompleteRecovery(row) == [row EXCEPT !.recovered = TRUE]

\* A thread revert removes the messages after a boundary and marks their
\* dispatches (threads/statements.ts).
Reverted(rows, t, boundary) ==
    [d \in DOMAIN rows |->
        IF Present(rows[d]) /\ rows[d].thread = t /\ rows[d].seq > boundary
        THEN [rows[d] EXCEPT !.status = "reverted", !.recovered = FALSE]
        ELSE rows[d]]

(***************************************************************************)
(* existingDispatchResponse (services/chat/dispatch-lifecycle.ts): what a  *)
(* retry of a recorded dispatch is answered.                               *)
(***************************************************************************)
Reply(kind, turn) == [kind |-> kind, turn |-> turn]

ExistingResponse(row) ==
    CASE row.status \in Open /\ row.turn # NoTurn -> Reply("streaming", row.turn)
      [] row.status = "completed" /\ row.turn # NoTurn -> Reply("completed", row.turn)
      [] row.status = "pending" -> Reply("dispatch_in_progress", NoTurn)
      [] row.status = "uncertain" -> Reply("dispatch_outcome_unknown", NoTurn)
      [] row.status = "reverted" -> Reply("dispatch_reverted", NoTurn)
      [] OTHER -> Reply("dispatch_failed", NoTurn)
=============================================================================
