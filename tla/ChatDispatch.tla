---------------------------- MODULE ChatDispatch ----------------------------
(***************************************************************************)
(* Admission of chat messages: dispatchChatTurn                            *)
(* (apps/backend/src/services/chat/dispatch.ts) over the durable outbox    *)
(* ChatDispatchStore, the in-flight admissions, the per-thread turn token  *)
(* of ThreadTurnCoordinator, the hub's turn admission as this component    *)
(* sees it, the user's Stop, thread revert, the taint and restart of the   *)
(* backend, and the recovery that startup runs before HTTP opens.          *)
(*                                                                         *)
(* The backend is one JavaScript thread, so an action is one stretch of    *)
(* code between two awaits.  Each SQLite transaction of a stretch is       *)
(* durable on its own, and a crash can tear the stretch between two of     *)
(* them: the actions CrashIn... are those torn prefixes.                   *)
(*                                                                         *)
(* A turn is named by the request that launched it: ProviderHub.startTurn  *)
(* draws a fresh id at every call and a request makes at most one.         *)
(***************************************************************************)
EXTENDS ChatDispatchStore

CONSTANTS
    Requests,    \* HTTP requests to send a message, retries included
    dispatchOf,  \* the dispatch id a request carries
    threadOf,    \* its thread
    printOf,     \* its fingerprint
    instOf,      \* the instance it names, or NoInst
    hubInstOf,   \* the instance the hub resolves for it
    NoReq,       \* no request
    AutoSave,    \* setting auto_save_conversations
    MaxCrashes,  \* bound on crashes
    MaxStops     \* bound on the user's Stop requests

ASSUME RequestAssumption ==
    /\ Turns = Requests
    /\ NoReq \notin Requests
    /\ dispatchOf \in [Requests -> Dispatches]
    /\ threadOf \in [Requests -> Threads]
    /\ printOf \in [Requests -> Prints]
    /\ hubInstOf \in [Requests -> Instances]
    /\ instOf \in [Requests -> Instances \cup {NoInst}]
    /\ AutoSave \in BOOLEAN
    /\ MaxCrashes \in Nat /\ MaxStops \in Nat

\* resolveHubInstanceId honours an instance the request names.
ASSUME InstanceAssumption ==
    \A r \in Requests : instOf[r] \in {NoInst, hubInstOf[r]}

VARIABLES
    rows,        \* durable: the outbox
    gen,         \* durable: provider generation of a thread
    bindings,    \* durable: <<thread, instance>> with a session binding
    terminal,    \* the terminal event of a turn: where it has got to
    pc,          \* progress of a request
    reply,       \* what it was answered
    leader,      \* the in-flight admission a coalesced retry waits for
    inflight,    \* in-flight admission per thread and dispatch id
    token,       \* holder of the thread's turn token
    maintenance, \* threads under maintenance
    hub,         \* the hub's turn admission of a thread
    turn,        \* what became of a turn
    dispatching, \* turns whose hub dispatch promise is unsettled
    session,     \* generation of the native session a turn ran in, or 0
    stop,        \* the Stop request of a thread
    tainted,
    phase,       \* "replaying" | "recovering" | "serving"
    crashes, stops

durable == <<rows, gen, bindings>>
admission == <<pc, reply, leader, inflight>>
turns == <<terminal, hub, turn, dispatching, session>>
backend == <<tainted, phase, crashes>>
stopping == <<stop, stops>>
vars == <<durable, admission, token, maintenance, turns, stopping, backend>>

NoReply == Reply("none", NoTurn)
Error(code) == Reply(code, NoTurn)
IdleStop == [at |-> "idle", turn |-> NoReq]
Ended == {"completed", "failed"}

Init ==
    /\ rows = [d \in Dispatches |-> AbsentRow]
    /\ gen = [t \in Threads |-> 1]
    /\ bindings = {}
    /\ terminal = [r \in Requests |-> "none"]
    /\ pc = [r \in Requests |-> "new"]
    /\ reply = [r \in Requests |-> NoReply]
    /\ leader = [r \in Requests |-> NoReq]
    /\ inflight = [k \in Threads \X Dispatches |-> NoReq]
    /\ token = [t \in Threads |-> NoReq]
    /\ maintenance = {}
    /\ hub = [t \in Threads |-> NoReq]
    /\ turn = [r \in Requests |-> "none"]
    /\ dispatching = {}
    /\ session = [r \in Requests |-> 0]
    /\ stop = [t \in Threads |-> IdleStop]
    /\ tainted = FALSE
    /\ phase = "serving"
    /\ crashes = 0
    /\ stops = 0

-----------------------------------------------------------------------------
(* Answers.                                                                *)

Serving == phase = "serving"

\* The admission gate lets a new request in until the backend is tainted.
Admitting == Serving /\ ~tainted

Answered(r, answer) ==
    /\ pc' = [pc EXCEPT ![r] = "answered"]
    /\ reply' = [reply EXCEPT ![r] = answer]

KeyOf(r) == <<threadOf[r], dispatchOf[r]>>

\* The admission settles: its entry goes unless a newer one replaced it.
WithoutInflight(r) ==
    [inflight EXCEPT ![KeyOf(r)] = IF @ = r THEN NoReq ELSE @]

WithoutToken(r) ==
    [token EXCEPT ![threadOf[r]] = IF @ = r THEN NoReq ELSE @]

\* findInFlightAdmission.
InFlight(r) == inflight[KeyOf(r)]

\* Wrong variants: a failed, or an uncertain, dispatch may be sent again.
RecordedUnlessFailed(r) ==
    AutoSave /\ rows[dispatchOf[r]].status \notin {"absent", "failed"}

RecordedUnlessUncertain(r) ==
    AutoSave /\ rows[dispatchOf[r]].status \notin {"absent", "uncertain"}

\* existingDurableChatDispatch finds a row.
Recorded(r) == AutoSave /\ Present(rows[dispatchOf[r]])

(***************************************************************************)
(* A request whose id is already known is not dispatched: it waits for the *)
(* in-flight admission, or is answered from the durable row; under the     *)
(* same id with another content or thread it is a conflict.                *)
(***************************************************************************)
Known(r) == InFlight(r) # NoReq \/ Recorded(r)

AnswerKnown(r) ==
    \/ /\ InFlight(r) # NoReq
       /\ printOf[InFlight(r)] = printOf[r]
       /\ pc' = [pc EXCEPT ![r] = "joined"]
       /\ leader' = [leader EXCEPT ![r] = InFlight(r)]
       /\ UNCHANGED reply
    \/ /\ InFlight(r) # NoReq
       /\ printOf[InFlight(r)] # printOf[r]
       /\ Answered(r, Error("dispatch_id_conflict"))
       /\ UNCHANGED leader
    \/ /\ InFlight(r) = NoReq
       /\ Recorded(r)
       /\ LET row == rows[dispatchOf[r]]
          IN Answered(r, IF SameRequest(row, threadOf[r], printOf[r])
                         THEN ExistingResponse(row)
                         ELSE Error("dispatch_id_conflict"))
       /\ UNCHANGED leader

-----------------------------------------------------------------------------
(* One request through dispatchChatTurn.                                   *)

\* Preparation and the workspace lease are behind it: first look for a twin.
Arrive(r) ==
    /\ Admitting
    /\ pc[r] = "new"
    /\ \/ Known(r) /\ AnswerKnown(r)
       \/ /\ ~Known(r)
          /\ pc' = [pc EXCEPT ![r] = "preparing"]
          /\ UNCHANGED <<reply, leader>>
    /\ UNCHANGED <<durable, inflight, token, maintenance, turns, stopping, backend>>

\* A send hook, the instruction, or an assertion before the row refuses it.
RefuseEarly(r) ==
    /\ Serving
    /\ pc[r] = "preparing"
    /\ Answered(r, Error("error"))
    /\ UNCHANGED <<durable, leader, inflight, token, maintenance, turns, stopping,
                   backend>>

\* Wrong variant: only a successful admission is reported to its retries.
ReplaySuccess(r) ==
    /\ Serving
    /\ pc[r] = "joined"
    /\ reply[leader[r]].kind = "streaming"
    /\ Answered(r, reply[leader[r]])
    /\ UNCHANGED <<durable, leader, inflight, token, maintenance, turns, stopping,
                   backend>>

\* The coalesced retry is answered with the outcome of the original.
Replay(r) ==
    /\ Serving
    /\ pc[r] = "joined"
    /\ pc[leader[r]] = "answered"
    /\ Answered(r, reply[leader[r]])
    /\ UNCHANGED <<durable, leader, inflight, token, maintenance, turns, stopping,
                   backend>>

Busy(t) == token[t] # NoReq \/ t \in maintenance

\* Wrong variant: the loser does not look for its own twin.
ReserveBusyPlain(r) ==
    /\ Serving
    /\ pc[r] = "preparing"
    /\ Busy(threadOf[r])
    /\ Answered(r, Error("turn_active"))
    /\ UNCHANGED <<durable, leader, inflight, token, maintenance, turns, stopping,
                   backend>>

\* The thread is busy: perhaps with this very request.
ReserveBusy(r) ==
    /\ Serving
    /\ pc[r] = "preparing"
    /\ Busy(threadOf[r])
    /\ \/ Known(r) /\ AnswerKnown(r)
       \/ /\ ~Known(r)
          /\ Answered(r, Error("turn_active"))
          /\ UNCHANGED leader
    /\ UNCHANGED <<durable, inflight, token, maintenance, turns, stopping, backend>>

\* Token taken, but the id was recorded meanwhile: the token goes back.
ReserveExisting(r) ==
    /\ Serving
    /\ pc[r] = "preparing"
    /\ ~Busy(threadOf[r])
    /\ Recorded(r)
    /\ LET row == rows[dispatchOf[r]]
       IN Answered(r, IF SameRequest(row, threadOf[r], printOf[r])
                      THEN ExistingResponse(row)
                      ELSE Error("dispatch_id_conflict"))
    /\ inflight' = [inflight EXCEPT ![KeyOf(r)] = NoReq]
    /\ UNCHANGED <<durable, leader, token, maintenance, turns, stopping, backend>>

\* Token, in-flight entry and (with auto-save) the durable row, in one stretch.
Reserve(r) ==
    /\ Serving
    /\ pc[r] = "preparing"
    /\ ~Busy(threadOf[r])
    /\ ~Recorded(r)
    /\ token' = [token EXCEPT ![threadOf[r]] = r]
    /\ inflight' = [inflight EXCEPT ![KeyOf(r)] = r]
    /\ rows' = IF AutoSave
               THEN [rows EXCEPT ![dispatchOf[r]] =
                        Inserted(rows, threadOf[r], printOf[r], instOf[r])]
               ELSE rows
    /\ pc' = [pc EXCEPT ![r] = "admitting"]
    /\ UNCHANGED <<gen, bindings, reply, leader, maintenance, turns, stopping, backend>>

\* Wrong variant: the rejection is not recorded.
RejectedSilently(r) == rows

\* markRejectedDispatchMessage.
Rejected(r) ==
    IF AutoSave THEN [rows EXCEPT ![dispatchOf[r]] = MarkFailed(@)] ELSE rows

\* Handoff, compaction, the orchestrator, or startTurn's own checks refuse.
Refuse(r) ==
    /\ Serving
    /\ pc[r] = "admitting"
    /\ rows' = Rejected(r)
    /\ token' = WithoutToken(r)
    /\ inflight' = WithoutInflight(r)
    /\ Answered(r, Error("error"))
    /\ UNCHANGED <<gen, bindings, leader, maintenance, turns, stopping, backend>>

Bindable(r) == AutoSave => CanBind(rows[dispatchOf[r]], r, hubInstOf[r])

Bound(r) ==
    [rows EXCEPT ![dispatchOf[r]] = BindProviderTurn(@, r, hubInstOf[r])]

Accepted(r) ==
    [rows EXCEPT ![dispatchOf[r]] =
        MarkAccepted(BindProviderTurn(@, r, hubInstOf[r]), r, hubInstOf[r])]

\* startTurn registers the hub turn, onAccepted binds the row before the
\* adapter is called, and the row is accepted before the next await.
Launch(r) ==
    /\ Serving
    /\ pc[r] = "admitting"
    /\ hub[threadOf[r]] = NoReq
    /\ Bindable(r)
    /\ rows' = IF AutoSave THEN Accepted(r) ELSE rows
    /\ hub' = [hub EXCEPT ![threadOf[r]] = r]
    /\ turn' = [turn EXCEPT ![r] = "running"]
    /\ dispatching' = dispatching \cup {r}
    /\ pc' = [pc EXCEPT ![r] = "attaching"]
    /\ UNCHANGED <<gen, bindings, reply, leader, inflight, token, maintenance,
                   terminal, session, stopping, backend>>

\* The row was settled under the admission: binding throws and taints.
LaunchUnbindable(r) ==
    /\ Serving
    /\ pc[r] = "admitting"
    /\ hub[threadOf[r]] = NoReq
    /\ ~Bindable(r)
    /\ tainted' = TRUE
    /\ rows' = Rejected(r)
    /\ token' = WithoutToken(r)
    /\ inflight' = WithoutInflight(r)
    /\ Answered(r, Error("error"))
    /\ UNCHANGED <<gen, bindings, leader, maintenance, turns, stopping, phase, crashes>>

\* Wrong variant: the admission releases the token it has handed over.
AttachedReleases(r) ==
    /\ Serving
    /\ pc[r] = "attaching"
    /\ inflight' = WithoutInflight(r)
    /\ token' = WithoutToken(r)
    /\ Answered(r, Reply("streaming", r))
    /\ UNCHANGED <<durable, leader, maintenance, turns, stopping, backend>>

\* The remote owner is attached, or there is none: the client has its turn.
Attached(r) ==
    /\ Serving
    /\ pc[r] = "attaching"
    /\ inflight' = WithoutInflight(r)
    /\ Answered(r, Reply("streaming", r))
    /\ UNCHANGED <<durable, leader, token, maintenance, turns, stopping, backend>>

\* The remote owner was revoked meanwhile: its turn is interrupted elsewhere.
AttachFails(r) ==
    /\ Serving
    /\ pc[r] = "attaching"
    /\ inflight' = WithoutInflight(r)
    /\ Answered(r, Error("error"))
    /\ UNCHANGED <<durable, leader, token, maintenance, turns, stopping, backend>>
-----------------------------------------------------------------------------
(* The hub's turn, and its terminal event through the journal.             *)

Emitted(r, outcome) ==
    /\ turn' = [turn EXCEPT ![r] = outcome]
    /\ terminal' = [terminal EXCEPT ![r] = "queued"]

\* dispatchTurn has a native session: it belongs to the thread's generation.
SessionReady(r) ==
    /\ Serving
    /\ turn[r] = "running" /\ r \in dispatching /\ session[r] = 0
    /\ session' = [session EXCEPT ![r] = gen[threadOf[r]]]
    /\ bindings' = bindings \cup {<<threadOf[r], hubInstOf[r]>>}
    /\ UNCHANGED <<rows, gen, admission, token, maintenance, terminal, hub, turn,
                   dispatching, stopping, backend>>

\* The adapter ends the turn, or the watchdog or an interrupt does.
TurnEnds(r) ==
    /\ Serving
    /\ turn[r] = "running"
    /\ \E outcome \in Ended : Emitted(r, outcome)
    /\ UNCHANGED <<durable, admission, token, maintenance, hub, dispatching, session,
                   stopping, backend>>

DispatchReturns(r) ==
    /\ Serving
    /\ r \in dispatching
    /\ dispatching' = dispatching \ {r}
    /\ UNCHANGED <<durable, admission, token, maintenance, terminal, hub, turn,
                   session, stopping, backend>>

\* The hub aborts the turn unless it ended or is being interrupted, and the
\* completion handler marks the row.
DispatchRejects(r) ==
    /\ Serving
    /\ r \in dispatching
    /\ dispatching' = dispatching \ {r}
    /\ \/ turn[r] = "running" /\ Emitted(r, "failed")
       \/ UNCHANGED <<turn, terminal>>
    /\ rows' = Rejected(r)
    /\ UNCHANGED <<gen, bindings, admission, token, maintenance, hub, session,
                   stopping, backend>>

\* Wrong variant: only a completed turn is cleared.
TurnClearedOnSuccess(r) ==
    /\ Serving
    /\ hub[threadOf[r]] = r
    /\ turn[r] = "completed"
    /\ r \notin dispatching
    /\ hub' = [hub EXCEPT ![threadOf[r]] = NoReq]
    /\ token' = WithoutToken(r)
    /\ UNCHANGED <<durable, admission, maintenance, terminal, turn, dispatching,
                   session, stopping, backend>>

\* clearTurnAdmission: ended and the dispatch promise quiesced.
TurnCleared(r) ==
    /\ Serving
    /\ hub[threadOf[r]] = r
    /\ turn[r] \in Ended
    /\ r \notin dispatching
    /\ hub' = [hub EXCEPT ![threadOf[r]] = NoReq]
    /\ token' = WithoutToken(r)
    /\ UNCHANGED <<durable, admission, maintenance, terminal, turn, dispatching,
                   session, stopping, backend>>

\* Wrong variant: the row is sought under the instance the client named.
ProjectedAsAsked(r) ==
    SettleByProviderTurn(rows, threadOf[r], instOf[r], r, turn[r])

\* ingestChatDispatchLifecycle.
Projected(r) ==
    SettleByProviderTurn(rows, threadOf[r], hubInstOf[r], r, turn[r])

\* Journal row, projection and receipt: one stretch of processEvent.
DeliverTerminal(r) ==
    /\ Serving
    /\ terminal[r] = "queued"
    /\ terminal' = [terminal EXCEPT ![r] = "receipted"]
    /\ rows' = Projected(r)
    /\ UNCHANGED <<gen, bindings, admission, token, maintenance, hub, turn,
                   dispatching, session, stopping, backend>>

-----------------------------------------------------------------------------
(* The user's Stop (services/chat/sessions.ts).                            *)

\* A Stop that finds no hub turn first recovers the provider session.
StopArrives(t) ==
    /\ Admitting
    /\ stop[t] = IdleStop
    /\ stops < MaxStops
    /\ stops' = stops + 1
    /\ stop' = [stop EXCEPT ![t] =
                  [at |-> IF hub[t] = NoReq THEN "recovering" ELSE "interrupting",
                   turn |-> hub[t]]]
    /\ UNCHANGED <<durable, admission, token, maintenance, turns, backend>>

\* Then it looks again, and without a turn signals the adapter itself.
StopRecovered(t) ==
    /\ Serving
    /\ stop[t].at = "recovering"
    /\ stop' = [stop EXCEPT ![t] =
                  [at |-> IF hub[t] = NoReq THEN "signalling" ELSE "interrupting",
                   turn |-> hub[t]]]
    /\ UNCHANGED <<durable, admission, token, maintenance, turns, stops, backend>>

\* markActiveDispatchInterrupted: whichever dispatch is the newest open one.
StopFinishes(t) ==
    /\ Serving
    /\ \/ stop[t].at = "signalling"
       \/ stop[t].at = "interrupting" /\ hub[t] # stop[t].turn
    /\ rows' = [d \in Dispatches |-> IF d \in ActiveForThread(rows, t)
                                     THEN MarkFailed(rows[d]) ELSE rows[d]]
    /\ stop' = [stop EXCEPT ![t] = IdleStop]
    /\ UNCHANGED <<gen, bindings, admission, token, maintenance, turns, stops, backend>>

\* The interrupt or the session recovery failed: the rows are left alone.
StopFails(t) ==
    /\ Serving
    /\ stop[t] # IdleStop
    /\ stop' = [stop EXCEPT ![t] = IdleStop]
    /\ UNCHANGED <<durable, admission, token, maintenance, turns, stops, backend>>

-----------------------------------------------------------------------------
(* Thread revert, under withCheckpointMaintenance.                         *)

BeginRevert(t) ==
    /\ Admitting
    /\ ~Busy(t)
    /\ hub[t] = NoReq
    /\ maintenance' = maintenance \cup {t}
    /\ UNCHANGED <<durable, admission, token, turns, stopping, backend>>

\* It reverts what follows a boundary, or fails and leaves the rows alone.
EndRevert(t) ==
    /\ Serving
    /\ t \in maintenance
    /\ maintenance' = maintenance \ {t}
    /\ \E boundary \in 0 .. Cardinality(Dispatches) :
          rows' = Reverted(rows, t, boundary)
    /\ UNCHANGED <<gen, bindings, admission, token, turns, stopping, backend>>

-----------------------------------------------------------------------------
(* Crash, restart and the recovery before HTTP opens.                      *)

\* What every restart loses.  Clients of unanswered requests see them lost.
Restarted ==
    /\ pc' = [r \in Requests |->
                IF pc[r] \in {"new", "answered"} THEN pc[r] ELSE "lost"]
    /\ inflight' = [k \in DOMAIN inflight |-> NoReq]
    /\ token' = [t \in Threads |-> NoReq]
    /\ maintenance' = {}
    /\ hub' = [t \in Threads |-> NoReq]
    /\ dispatching' = {}
    /\ stop' = [t \in Threads |-> IdleStop]
    /\ tainted' = FALSE
    /\ phase' = "replaying"
    /\ UNCHANGED <<reply, leader, session, stops>>

Killed(state) == [r \in Requests |-> IF state[r] = "running" THEN "dead" ELSE state[r]]

Moved(from, to) == [r \in Requests |-> IF terminal[r] = from THEN to ELSE terminal[r]]

Crashed ==
    /\ crashes < MaxCrashes
    /\ crashes' = crashes + 1
    /\ Restarted

Crash ==
    /\ Crashed
    /\ turn' = Killed(turn)
    /\ terminal' = Moved("queued", "none")
    /\ UNCHANGED durable

\* Torn launch: the row is bound and not yet accepted.
CrashLaunching(r) ==
    /\ Crashed
    /\ Serving
    /\ pc[r] = "admitting" /\ hub[threadOf[r]] = NoReq /\ Bindable(r)
    /\ rows' = IF AutoSave THEN Bound(r) ELSE rows
    /\ turn' = [Killed(turn) EXCEPT ![r] = "dead"]
    /\ terminal' = Moved("queued", "none")
    /\ UNCHANGED <<gen, bindings>>

\* Torn delivery: journaled, perhaps projected, not receipted.
CrashDelivering(r) ==
    /\ Crashed
    /\ Serving
    /\ AutoSave
    /\ terminal[r] = "queued"
    /\ rows' \in {rows, Projected(r)}
    /\ turn' = Killed(turn)
    /\ terminal' = [Moved("queued", "none") EXCEPT ![r] = "journaled"]
    /\ UNCHANGED <<gen, bindings>>

\* A tainted backend drains: what the journal has not taken goes to the
\* spool, and the next start journals it before replaying.
EmergencyRestart ==
    /\ tainted
    /\ Restarted
    /\ turn' = Killed(turn)
    /\ terminal' = Moved("queued", "journaled")
    /\ UNCHANGED <<durable, crashes>>

ReplayTerminal(r) ==
    /\ phase = "replaying"
    /\ terminal[r] = "journaled"
    /\ rows' = Projected(r)
    /\ terminal' = [terminal EXCEPT ![r] = "receipted"]
    /\ UNCHANGED <<gen, bindings, admission, token, maintenance, hub, turn,
                   dispatching, session, stopping, backend>>

\* A journal row that cannot be projected is left for the next start.
RecoverPending ==
    /\ phase = "replaying"
    /\ rows' = Recovered(rows)
    /\ phase' = "recovering"
    /\ UNCHANGED <<gen, bindings, admission, token, maintenance, turns, stopping,
                   tainted, crashes>>

Rotated(t) == [gen EXCEPT ![t] = @ + 1]

\* A row without an instance takes the thread's newest binding of its kind:
\* kinds are not modelled, so with a binding on the thread it may or may not.
Rotates(d) ==
    LET t == rows[d].thread
        bound == {i \in Instances : <<t, i>> \in bindings}
    IN IF rows[d].inst # NoInst THEN {rows[d].inst \in bound}
       ELSE {FALSE, bound # {}}

RecoverOne(d) ==
    /\ phase = "recovering"
    /\ d \in NextUnrecovered(rows)
    /\ \E rotates \in Rotates(d) :
          gen' = IF rotates THEN Rotated(rows[d].thread) ELSE gen
    /\ rows' = [rows EXCEPT ![d] = CompleteRecovery(@)]
    /\ UNCHANGED <<bindings, admission, token, maintenance, turns, stopping, backend>>

\* Wrong variant: marked recovered first, torn before the rotation.
CrashRecoveringSwapped(d) ==
    /\ Crashed
    /\ phase = "recovering"
    /\ d \in NextUnrecovered(rows)
    /\ rows' = [rows EXCEPT ![d] = CompleteRecovery(@)]
    /\ UNCHANGED <<gen, bindings, turn, terminal>>

\* Torn recovery: rotated, not yet marked recovered.
CrashRecovering(d) ==
    /\ Crashed
    /\ phase = "recovering"
    /\ d \in NextUnrecovered(rows)
    /\ TRUE \in Rotates(d)
    /\ gen' = Rotated(rows[d].thread)
    /\ UNCHANGED <<rows, bindings, turn, terminal>>

OpenHttp ==
    /\ phase = "recovering"
    /\ Unrecovered(rows) = {}
    /\ phase' = "serving"
    /\ UNCHANGED <<durable, admission, token, maintenance, turns, stopping, tainted,
                   crashes>>

-----------------------------------------------------------------------------
Admission(r) ==
    \/ RefuseEarly(r) \/ Replay(r)
    \/ ReserveBusy(r) \/ ReserveExisting(r) \/ Reserve(r)
    \/ Refuse(r) \/ Launch(r) \/ LaunchUnbindable(r)
    \/ Attached(r) \/ AttachFails(r)

DispatchSettles(r) == DispatchReturns(r) \/ DispatchRejects(r)

Stopping(t) == StopRecovered(t) \/ StopFinishes(t) \/ StopFails(t)

Recovery == RecoverPending \/ OpenHttp \/ \E d \in Dispatches : RecoverOne(d)

Next ==
    \/ \E r \in Requests :
          \/ Arrive(r) \/ Admission(r)
          \/ SessionReady(r) \/ TurnEnds(r) \/ DispatchSettles(r) \/ TurnCleared(r)
          \/ DeliverTerminal(r) \/ ReplayTerminal(r)
          \/ CrashLaunching(r) \/ CrashDelivering(r)
    \/ \E t \in Threads :
          StopArrives(t) \/ Stopping(t) \/ BeginRevert(t) \/ EndRevert(t)
    \/ \E d \in Dispatches : CrashRecovering(d)
    \/ Crash \/ EmergencyRestart \/ Recovery

Spec == Init /\ [][Next]_vars

\* The event loop runs every continuation; each turn has a watchdog; the
\* shell restarts a tainted backend.  That a dispatch promise settles and a
\* turn ends also rests on the adapter honouring its interrupt.
Fairness ==
    /\ \A r \in Requests :
          /\ WF_vars(Admission(r))
          /\ WF_vars(TurnEnds(r)) /\ WF_vars(DispatchSettles(r))
          /\ WF_vars(TurnCleared(r)) /\ WF_vars(DeliverTerminal(r))
    /\ \A t \in Threads : WF_vars(Stopping(t)) /\ WF_vars(EndRevert(t))
    /\ WF_vars(EmergencyRestart) /\ WF_vars(Recovery)

FairSpec == Spec /\ Fairness

-----------------------------------------------------------------------------
(* Properties.                                                             *)

Replies ==
    [kind : {"none", "streaming", "completed", "dispatch_in_progress",
             "dispatch_outcome_unknown", "dispatch_reverted", "dispatch_failed",
             "dispatch_id_conflict", "turn_active", "error"},
     turn : Requests \cup {NoTurn}]

\* Every variable of the admission, the hub's turns and the outbox has its
\* type, and a request is only ever answered with one of the listed replies.
TypeOK ==
    /\ rows \in [Dispatches -> Row]
    /\ gen \in [Threads -> Nat \ {0}]
    /\ bindings \subseteq Threads \X Instances
    /\ terminal \in [Requests -> {"none", "queued", "journaled", "receipted"}]
    /\ pc \in [Requests -> {"new", "preparing", "joined", "admitting",
                            "attaching", "answered", "lost"}]
    /\ reply \in [Requests -> Replies]
    /\ leader \in [Requests -> Requests \cup {NoReq}]
    /\ inflight \in [Threads \X Dispatches -> Requests \cup {NoReq}]
    /\ token \in [Threads -> Requests \cup {NoReq}]
    /\ maintenance \subseteq Threads
    /\ hub \in [Threads -> Requests \cup {NoReq}]
    /\ turn \in [Requests -> Ended \cup {"none", "running", "dead"}]
    /\ dispatching \subseteq Requests
    /\ session \in [Requests -> Nat]
    /\ stop \in [Threads ->
                   [at : {"idle", "recovering", "signalling", "interrupting"},
                    turn : Requests \cup {NoReq}]]
    /\ tainted \in BOOLEAN
    /\ phase \in {"replaying", "recovering", "serving"}
    /\ crashes \in Nat /\ stops \in Nat

Launched(r) == turn[r] # "none"

\* A dispatch id is given to the provider at most once, whatever retries,
\* stops, reverts, crashes and recoveries happen in between.
AtMostOneTurnPerDispatch ==
    \A r, s \in Requests :
        Launched(r) /\ Launched(s) /\ dispatchOf[r] = dispatchOf[s] => r = s

\* The durable row names the turn before the provider can have seen it, for
\* good: this is what lets a crash at any point leave no unrecorded turn.
WriteAhead ==
    \A r \in Requests : Launched(r) => rows[dispatchOf[r]].turn = r

\* While a turn is in the hub its thread's token is held for it, and nobody
\* maintains the thread: the token moves from the admission to the hub
\* without a gap and comes back exactly once.
TurnHoldsToken ==
    \A t \in Threads :
        hub[t] # NoReq => token[t] = hub[t] /\ t \notin maintenance

\* A token is always someone's: an admission in progress or a hub turn.
NoLeakedToken ==
    \A t \in Threads :
        token[t] # NoReq => pc[token[t]] = "admitting" \/ hub[t] = token[t]

\* A client is only ever told of a turn that was launched for its own
\* message: same thread, same id, same content.  With AtMostOneTurnPerDispatch
\* a message and its retries that are told a turn are told the same one.
AnswerIsOwn ==
    \A r \in Requests :
        LET s == reply[r].turn
        IN s # NoTurn => Launched(s) /\ KeyOf(s) = KeyOf(r) /\ printOf[s] = printOf[r]

\* While the backend serves, an unsettled row has someone who will settle
\* it: its admission, its running turn, or a terminal event on its way.
NoStrandedDispatch ==
    Admitting =>
        \A d \in Dispatches : rows[d].status \in Open =>
            \E r \in Requests :
                /\ dispatchOf[r] = d
                /\ \/ pc[r] = "admitting" /\ rows[d].status = "pending"
                   \/ /\ rows[d].turn = r /\ rows[d].status = "accepted"
                      /\ turn[r] = "running" \/ terminal[r] = "queued"

\* When HTTP opens after a crash, the native session of every turn of
\* unknown outcome belongs to an older generation of its thread, so that no
\* new message continues inside it.
RecoveryRotates ==
    Serving =>
        \A d \in Dispatches : rows[d].status = "uncertain" =>
            /\ rows[d].recovered
            /\ rows[d].turn # NoTurn => session[rows[d].turn] < gen[rows[d].thread]

\* A retry that is told the thread is busy is never told so because of the
\* very message it retries (comment of inFlightAdmissions in dispatch.ts).
Rival(r) ==
    LET holder == token[threadOf[r]]
    IN holder = NoReq \/ dispatchOf[holder] # dispatchOf[r]
                      \/ printOf[holder] # printOf[r]

RetryNeverTurnActive ==
    [][\A r \in Requests :
          pc[r] # "answered" /\ reply'[r].kind = "turn_active" => Rival(r)]_vars

\* Stop marks a dispatch "interrupted by the user"
\* (dispatch-lifecycle.ts:289): its provider turn exists and has ended.
StopInterruptsWhatItFails ==
    [][\A t \in Threads : stop[t] # IdleStop /\ stop'[t] = IdleStop /\ Serving
          /\ phase' = "serving" =>
          \A d \in Dispatches :
              rows[d].status \in Open /\ rows'[d].status = "failed" =>
                  rows[d].turn # NoTurn /\ turn[rows[d].turn] \in Ended]_vars

\* The outbox keeps the promise of AtMostOnceDispatch: the turns really
\* launched for an id, and what its row says of the outcome.
OutcomeOf(row) ==
    CASE row.status = "absent" -> "none"
      [] row.status \in Open -> "open"
      [] row.status \in Settled -> "known"
      [] row.status = "uncertain" -> "unknown"
      [] row.status = "reverted" -> "withdrawn"

Promise == INSTANCE AtMostOnceDispatch WITH
    outcome <- [d \in Dispatches |-> OutcomeOf(rows[d])],
    given <- [d \in Dispatches |-> {r \in Requests : Launched(r) /\ dispatchOf[r] = d}]

KeepsPromise == Promise!Spec

\* Every request that was let in is answered, or lost to a restart.
EveryRequestAnswered ==
    \A r \in Requests :
        pc[r] \notin {"new", "answered", "lost"} ~> pc[r] \in {"answered", "lost"}

\* Every recorded message reaches an outcome.
EveryDispatchSettles ==
    \A d \in Dispatches : rows[d].status \in Open ~> rows[d].status \notin Open

\* A message comes to an end for whoever waits for it: a client for its answer,
\* and the chat for its outcome.
EveryMessageSettles == EveryRequestAnswered /\ EveryDispatchSettles

\* A thread does not stay busy for ever.
ThreadFreed == \A t \in Threads : Busy(t) ~> ~Busy(t)
=============================================================================
