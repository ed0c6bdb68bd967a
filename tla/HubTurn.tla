------------------------------- MODULE HubTurn -------------------------------
(***************************************************************************)
(* provider/runtime/ProviderHub.ts: the turns the hub admits on one thread *)
(* and dispatches to one adapter, from startTurn to clearTurnAdmission.    *)
(*                                                                         *)
(* An admitted turn fences its thread.  Its end may come from the adapter's*)
(* terminal event, from a rejected or stateless dispatch, from an interrupt*)
(* (Stop, idle watchdog, absolute deadline, teardown) or from the finalizer*)
(* of a quarantined backend: whoever claims the settlement first runs the  *)
(* afterTurn hook and clears the admission.  Each of these is a fibre with *)
(* a program counter per turn; a step is a stretch between two awaits.     *)
(* The adapter is the environment: it may announce, end or lose a turn     *)
(* whenever one may still run in it, and any call to it may fail or hang   *)
(* past its budget.  A call past its budget is still in flight: nothing    *)
(* cancels it, and it may take effect on whatever then runs in the adapter.*)
(***************************************************************************)
EXTENDS Naturals

CONSTANTS
  Turns,     \* the turns clients ask for, on one thread
  None,      \* no admission
  MaxAsks    \* bound: open approval or input requests of a turn

ASSUME HubTurnAssumption == None \notin Turns /\ MaxAsks \in Nat \ {0}

VARIABLES
  current,     \* turnsByThread.get(threadId): the admitted turn, or None
  phase,       \* the admission's phase; "new" before it, "gone" after it
  cancelled,   \* turns with cancelRequested
  entered,     \* turns with adapterDispatchStarted
  observed,    \* turns whose terminalObserved is resolved
  pending,     \* turns with a pendingTerminalEvent
  claimed,     \* turns with settlementStarted
  idle,        \* turns with an idle check armed (timeoutHandle)
  deadline,    \* turns with the absolute deadline armed (deadlineHandle)
  asked,       \* turn -> number of its pendingRequestIds
  dispatch,    \* dispatchTurn; "done" is dispatchQuiesced
  interrupt,   \* the body of interruptAdmission
  hardStop,    \* the adapter.stopSession an interrupt falls back to
  finalizer,   \* continueQuarantinedAdmissionSettlement
  finish,      \* finishClaimedTurnAdmission
  hooks,       \* turn -> times its afterTurn hook was entered
  quarantined, \* whether the adapter is in quarantinedAdapters
  upkeep,      \* withThreadMaintenance or withThreadTeardown of the thread
  running,     \* turns that may still run in the adapter
  revived,     \* history: turns announced by the adapter while interrupted
  calls,       \* turns whose adapter.interruptTurn has not settled
  hit          \* history: turns that ran when another's late interrupt settled

flags  == <<cancelled, entered, observed, pending, claimed>>
timers == <<idle, deadline, asked>>
fibres == <<dispatch, interrupt, hardStop, finalizer, finish, hooks>>
others == <<quarantined, upkeep, running, revived, calls, hit>>
vars   == <<current, phase, flags, timers, fibres, others>>

Phases == {"new", "pending", "active", "interrupting", "gone"}

Init ==
  /\ current = None
  /\ phase = [t \in Turns |-> "new"]
  /\ cancelled = {} /\ entered = {} /\ observed = {} /\ pending = {} /\ claimed = {}
  /\ idle = {} /\ deadline = {}
  /\ asked = [t \in Turns |-> 0]
  /\ dispatch = [t \in Turns |-> "none"]
  /\ interrupt = [t \in Turns |-> "none"]
  /\ hardStop = [t \in Turns |-> "none"]
  /\ finalizer = [t \in Turns |-> "none"]
  /\ finish = [t \in Turns |-> "none"]
  /\ hooks = [t \in Turns |-> 0]
  /\ quarantined = FALSE /\ upkeep = "none"
  /\ running = {} /\ revived = {} /\ calls = {} /\ hit = {}

Goto(pc, t, s) == pc' = [pc EXCEPT ![t] = s]

-----------------------------------------------------------------------------
(* Settlement                                                               *)

\* Wrong: the second contender finalizes as well.
ClaimAgain(t) ==
  /\ claimed' = claimed \cup {t}
  /\ idle' = idle \ {t} /\ deadline' = deadline \ {t}
  /\ Goto(finish, t, "draining")

\* claimTurnSettlement: only the first contender finishes the turn, and both
\* watchdogs are disarmed.
Claim(t) ==
  /\ claimed' = claimed \cup {t}
  /\ idle' = idle \ {t} /\ deadline' = deadline \ {t}
  /\ IF t \in claimed THEN UNCHANGED finish ELSE Goto(finish, t, "draining")

\* finishClaimedTurnAdmission: await dispatchQuiesced, then the afterTurn hook.
RunHook(t) ==
  /\ finish[t] = "draining" /\ dispatch[t] = "done"
  /\ Goto(finish, t, "hook")
  /\ hooks' = [hooks EXCEPT ![t] = @ + 1]
  /\ UNCHANGED <<current, phase, flags, timers, dispatch, interrupt, hardStop,
                 finalizer, others>>

\* The hook returned or threw: clearTurnAdmission, then `settled` is settled.
\* The open requests go with the admission.
ClearTurnAdmission(t) ==
  /\ finish[t] = "hook"
  /\ Goto(finish, t, "over")
  /\ current' = IF current = t THEN None ELSE current
  /\ Goto(phase, t, "gone")
  /\ idle' = idle \ {t} /\ deadline' = deadline \ {t}
  /\ asked' = [asked EXCEPT ![t] = 0]
  /\ UNCHANGED <<flags, dispatch, interrupt, hardStop, finalizer, hooks, others>>

-----------------------------------------------------------------------------
(* startTurn and dispatchTurn                                               *)

\* startTurn, and dispatchTurn up to its first await: an adapter that manages
\* its own lifecycle is active from here on.
StartTurn(t) ==
  /\ phase[t] = "new" /\ current = None
  /\ upkeep = "none" /\ ~quarantined
  /\ current' = t
  /\ \E p \in {"pending", "active"} : Goto(phase, t, p)
  /\ idle' = idle \cup {t} /\ deadline' = deadline \cup {t}
  /\ Goto(dispatch, t, "preflight")
  /\ UNCHANGED <<flags, asked, interrupt, hardStop, finalizer, finish, hooks, others>>

\* onAccepted throws: the admission is gone before anyone saw it.
RefuseTurn(t) ==
  /\ phase[t] = "new" /\ current = None
  /\ upkeep = "none" /\ ~quarantined
  /\ Goto(phase, t, "gone")
  /\ Goto(dispatch, t, "refused")
  /\ UNCHANGED <<current, flags, timers, interrupt, hardStop, finalizer, finish, hooks, others>>

\* The preflight is through and nobody cancelled: adapter.sendTurn is entered.
SendTurn(t) ==
  /\ dispatch[t] = "preflight" /\ t \notin cancelled
  /\ Goto(dispatch, t, "sending")
  /\ entered' = entered \cup {t} /\ running' = running \cup {t}
  /\ UNCHANGED <<current, phase, cancelled, observed, pending, claimed, timers, interrupt,
                 hardStop, finalizer, finish, hooks, quarantined, upkeep, revived, calls, hit>>

\* dispatch.then(...), after the dispatch returned: a turn still pending has
\* no lifecycle of its own and completes here.
Returned(t, p) ==
  IF current = t /\ p = "pending" THEN Claim(t) ELSE UNCHANGED <<claimed, idle, deadline, finish>>

\* dispatch.then(...), after the dispatch was rejected.
Rejected(t) ==
  IF current = t /\ phase[t] # "interrupting" /\ t \notin claimed
    THEN Claim(t) ELSE UNCHANGED <<claimed, idle, deadline, finish>>

\* The workspace policy denies the turn: nothing reaches the adapter.
DenyTurn(t) ==
  /\ dispatch[t] = "preflight" /\ t \notin cancelled
  /\ Goto(dispatch, t, "done")
  /\ Goto(phase, t, "pending")
  /\ Returned(t, "pending")
  /\ UNCHANGED <<current, cancelled, entered, observed, pending, asked, interrupt,
                 hardStop, finalizer, hooks, others>>

\* The preflight throws, because it was cancelled or because a call failed; a
\* session operation past its deadline quarantines the adapter as well.
PreflightFails(t) ==
  /\ dispatch[t] = "preflight"
  /\ Goto(dispatch, t, "done")
  /\ Rejected(t)
  /\ UNCHANGED quarantined \/ quarantined' = TRUE
  /\ UNCHANGED <<current, phase, cancelled, entered, observed, pending, asked, interrupt,
                 hardStop, finalizer, hooks, upkeep, running, revived, calls, hit>>

\* sendTurn returns.  Only a turn with a lifecycle of its own runs on.
SendReturns(t) ==
  /\ dispatch[t] = "sending"
  /\ Goto(dispatch, t, "done")
  /\ Returned(t, phase[t])
  /\ running' \in {running \ {t}} \cup {r \in {running} : phase[t] # "pending"}
  /\ UNCHANGED <<current, phase, cancelled, entered, observed, pending, asked, interrupt,
                 hardStop, finalizer, hooks, quarantined, upkeep, revived, calls, hit>>

\* sendTurn is rejected: "no turn is running".
SendRejects(t) ==
  /\ dispatch[t] = "sending"
  /\ Goto(dispatch, t, "done")
  /\ Rejected(t)
  /\ running' = running \ {t}
  /\ UNCHANGED <<current, phase, cancelled, entered, observed, pending, asked, interrupt,
                 hardStop, finalizer, hooks, quarantined, upkeep, revived, calls, hit>>

-----------------------------------------------------------------------------
(* Events of the adapter                                                    *)

\* turn.started, correlated by its dispatch turn id.  It makes the admission
\* active whatever its phase was.
ObserveStarted(t) ==
  /\ current = t /\ t \in running
  /\ Goto(phase, t, "active")
  /\ revived' = IF phase[t] = "interrupting" THEN revived \cup {t} ELSE revived
  /\ UNCHANGED <<current, flags, timers, fibres, quarantined, upkeep, running, calls, hit>>

\* A correlated turn.completed, turn.aborted or session.exited, possibly late.
\* Only a late interrupt can make the adapter report the end of a turn that
\* runs on: it takes the turn it finds for its own.
ObserveTerminal(t) ==
  /\ current = t /\ t \in entered /\ t \notin observed
  /\ running' \in {running \ {t}} \cup {r \in {running} : t \in hit}
  /\ cancelled' = cancelled \cup {t} /\ observed' = observed \cup {t}
  /\ IF phase[t] = "interrupting"
       THEN pending' = pending \cup {t} /\ UNCHANGED <<claimed, idle, deadline, finish>>
       ELSE Claim(t) /\ UNCHANGED pending
  /\ UNCHANGED <<current, phase, entered, asked, dispatch, interrupt, hardStop,
                 finalizer, hooks, quarantined, upkeep, revived, calls, hit>>

\* The turn ends with no event the hub accepts: a session.exited without a
\* turn id is rejected as uncorrelated, and so is any event of another turn.
EndSilently(t) ==
  /\ t \in running
  /\ running' = running \ {t}
  /\ UNCHANGED <<current, phase, flags, timers, fibres, quarantined, upkeep, revived, calls, hit>>

\* observeTurnActivity, for a request to the user ...
RequestOpened(t) ==
  /\ current = t /\ t \in running /\ t \notin claimed /\ asked[t] < MaxAsks
  /\ asked' = [asked EXCEPT ![t] = @ + 1]
  /\ UNCHANGED <<current, phase, flags, idle, deadline, fibres, others>>

\* Wrong: the check that stood down meanwhile is not armed again.
RequestResolvedOnly(t) ==
  /\ current = t /\ t \notin claimed /\ asked[t] > 0
  /\ asked' = [asked EXCEPT ![t] = @ - 1]
  /\ UNCHANGED <<current, phase, flags, idle, deadline, fibres, others>>

\* ... and for its answer: the last one arms the idle check again.
RequestResolved(t) ==
  /\ current = t /\ t \notin claimed /\ asked[t] > 0
  /\ asked' = [asked EXCEPT ![t] = @ - 1]
  /\ idle' = IF asked[t] = 1 THEN idle \cup {t} ELSE idle
  /\ UNCHANGED <<current, phase, flags, deadline, fibres, others>>

-----------------------------------------------------------------------------
(* interruptAdmission                                                       *)

\* Whether a call starts the interrupt; otherwise it awaits what is under way.
Interrupts(t) == current = t /\ t \notin claimed /\ interrupt[t] = "none"

\* Up to its first await: the adapter's interruptTurn, if sendTurn was entered.
Interrupt(t) ==
  /\ cancelled' = cancelled \cup {t}
  /\ Goto(phase, t, "interrupting")
  /\ Goto(interrupt, t, IF t \in entered THEN "cancelling" ELSE "draining")
  /\ calls' = calls \cup ({t} \cap entered)

\* Stop, a revoked remote owner, or any other caller.
Stop(t) ==
  /\ Interrupts(t) /\ Interrupt(t)
  /\ UNCHANGED <<current, entered, observed, pending, claimed, timers, dispatch, hardStop,
                 finalizer, finish, hooks, quarantined, upkeep, running, revived, hit>>

\* A watchdog's timeoutTurn.
TimeoutTurn(t) ==
  IF Interrupts(t) THEN Interrupt(t) ELSE UNCHANGED <<cancelled, phase, interrupt, calls>>

\* checkTurnIdle after an idle budget without activity.  (With activity it arms
\* itself again, which changes nothing here.)
CheckTurnIdle(t) ==
  /\ t \in idle
  /\ idle' = idle \ {t}
  /\ IF asked[t] > 0 THEN UNCHANGED <<cancelled, phase, interrupt, calls>> ELSE TimeoutTurn(t)
  /\ UNCHANGED <<current, entered, observed, pending, claimed, deadline, asked, dispatch,
                 hardStop, finalizer, finish, hooks, quarantined, upkeep, running, revived, hit>>

\* Wrong: the deadline, like the idle check, stands down for an open request.
DeadlineStandsDown(t) ==
  /\ t \in deadline
  /\ deadline' = deadline \ {t}
  /\ IF asked[t] > 0 THEN UNCHANGED <<cancelled, phase, interrupt, calls>> ELSE TimeoutTurn(t)
  /\ UNCHANGED <<current, entered, observed, pending, claimed, idle, asked, dispatch,
                 hardStop, finalizer, finish, hooks, quarantined, upkeep, running, revived, hit>>

\* The absolute deadline fires whatever the turn is waiting for.
DeadlineExpires(t) ==
  /\ t \in deadline
  /\ deadline' = deadline \ {t}
  /\ TimeoutTurn(t)
  /\ UNCHANGED <<current, entered, observed, pending, claimed, idle, asked, dispatch,
                 hardStop, finalizer, finish, hooks, quarantined, upkeep, running, revived, hit>>

\* What follows interruptTurn: the terminal event is awaited unless it came.
Interrupted(t) ==
  /\ interrupt[t] = "cancelling"
  /\ Goto(interrupt, t, IF t \in pending THEN "draining" ELSE "awaiting")
  /\ UNCHANGED <<current, phase, flags, timers, dispatch, hardStop, finalizer, finish,
                 hooks, quarantined, upkeep, running, revived, hit>>

\* interruptTurn returned or threw in its budget ...
InterruptReturns(t) == Interrupted(t) /\ calls' = calls \ {t}

\* ... or ran out of it: promiseWithDeadline rejects and leaves the call alone.
InterruptExpires(t) == Interrupted(t) /\ UNCHANGED calls

\* A late interruptTurn settles.  It names no turn: one that runs by now may be
\* aborted (EndSilently) or reported as aborted (ObserveTerminal) instead.
InterruptSettlesLate(t) ==
  /\ t \in calls /\ interrupt[t] # "cancelling"
  /\ calls' = calls \ {t}
  /\ hit' = hit \cup (running \ {t})
  /\ UNCHANGED <<current, phase, flags, timers, fibres, quarantined, upkeep, running, revived>>

\* waitForTurnTerminalWithTimeout: the terminal event wins ...
TerminalSeen(t) ==
  /\ interrupt[t] = "awaiting" /\ t \in observed
  /\ Goto(interrupt, t, "draining")
  /\ UNCHANGED <<current, phase, flags, timers, dispatch, hardStop, finalizer, finish,
                 hooks, others>>

\* ... or the timeout, and the session is stopped.
TerminalTimeout(t) ==
  /\ interrupt[t] = "awaiting" /\ t \notin observed
  /\ Goto(interrupt, t, "stopping")
  /\ Goto(hardStop, t, "running")
  /\ UNCHANGED <<current, phase, flags, timers, dispatch, finalizer, finish, hooks, others>>

\* stopSession returns, in time or late: nothing runs in the session any more.
HardStopped(t) ==
  /\ hardStop[t] = "running"
  /\ Goto(hardStop, t, "stopped")
  /\ running' = {}
  /\ IF interrupt[t] = "stopping" THEN Goto(interrupt, t, "draining") ELSE UNCHANGED interrupt
  /\ UNCHANGED <<current, phase, flags, timers, dispatch, finalizer, finish, hooks,
                 quarantined, upkeep, revived, calls, hit>>

\* Wrong: the admission is finalized as if the session had stopped.
GiveUpAndFinalize(t) ==
  /\ interrupt[t] = "stopping"
  /\ hardStop[t] = "running"
  /\ hardStop' \in {hardStop, [hardStop EXCEPT ![t] = "failed"]}
  /\ quarantined' = TRUE
  /\ Goto(interrupt, t, "draining")
  /\ UNCHANGED <<current, phase, flags, timers, dispatch, finalizer, finish, hooks,
                 upkeep, running, revived, calls, hit>>

\* stopSession throws or runs out of its budget: the adapter is quarantined and
\* the caller gets its answer, but the admission stays with the finalizer.
HardStopFails(t) ==
  /\ interrupt[t] = "stopping"
  /\ hardStop[t] = "running"
  /\ hardStop' \in {hardStop, [hardStop EXCEPT ![t] = "failed"]}
  /\ quarantined' = TRUE
  /\ Goto(interrupt, t, "over")
  /\ Goto(finalizer, t, "racing")
  /\ UNCHANGED <<current, phase, flags, timers, dispatch, finish, hooks,
                 upkeep, running, revived, calls, hit>>

\* After its budget, a stopSession that throws tells nobody.
HardStopFailsLate(t) ==
  /\ hardStop[t] = "running" /\ interrupt[t] # "stopping"
  /\ Goto(hardStop, t, "failed")
  /\ UNCHANGED <<current, phase, flags, timers, dispatch, interrupt, finalizer, finish,
                 hooks, others>>

\* The quarantine finalizer waits for a terminal event or for the stop.
FinalizerWakes(t) ==
  /\ finalizer[t] = "racing"
  /\ t \in observed \/ hardStop[t] = "stopped"
  /\ Goto(finalizer, t, "draining")
  /\ UNCHANGED <<current, phase, flags, timers, dispatch, interrupt, hardStop, finish,
                 hooks, others>>

\* finalizeInterruptedAdmission, once sendTurn has settled: the terminal event
\* held back is settled, or the hub's own turn.aborted.
FinalizeInterrupted(t) ==
  /\ dispatch[t] = "done"
  /\ Claim(t)
  /\ \/ interrupt[t] = "draining" /\ Goto(interrupt, t, "over") /\ UNCHANGED finalizer
     \/ finalizer[t] = "draining" /\ Goto(finalizer, t, "over") /\ UNCHANGED interrupt
  /\ UNCHANGED <<current, phase, cancelled, entered, observed, pending, asked, dispatch,
                 hardStop, hooks, others>>

-----------------------------------------------------------------------------
(* Maintenance and teardown of the thread                                   *)

\* withThreadMaintenance: only on a thread without a turn.
BeginMaintenance ==
  /\ upkeep = "none" /\ current = None
  /\ upkeep' = "working"
  /\ UNCHANGED <<current, phase, flags, timers, fibres, quarantined, running, revived, calls, hit>>

\* withThreadTeardown bars new turns first, then interrupts the current one.
BeginTeardown ==
  /\ upkeep = "none"
  /\ upkeep' = IF current = None THEN "stopping" ELSE "interrupting"
  /\ IF current = None THEN UNCHANGED <<cancelled, phase, interrupt, calls>> ELSE TimeoutTurn(current)
  /\ UNCHANGED <<current, entered, observed, pending, claimed, timers, dispatch, hardStop,
                 finalizer, finish, hooks, quarantined, running, revived, hit>>

\* The interrupt it awaits ends; it throws when the turn settles as failed, and
\* when the hard stop failed.
TeardownInterrupted ==
  /\ upkeep = "interrupting"
  /\ \/ current = None /\ upkeep' \in {"stopping", "none"}
     \/ current # None /\ finalizer[current] # "none" /\ upkeep' = "none"
  /\ UNCHANGED <<current, phase, flags, timers, fibres, quarantined, running, revived, calls, hit>>

\* The session is stopped; a stop that fails ends the teardown, one past its
\* deadline quarantines the adapter; a quarantined adapter is passed over.
TeardownStops ==
  /\ upkeep = "stopping"
  /\ \/ ~quarantined /\ running' = {} /\ upkeep' = "working" /\ UNCHANGED quarantined
     \/ ~quarantined /\ upkeep' = "none" /\ quarantined' \in BOOLEAN /\ UNCHANGED running
     \/ quarantined /\ upkeep' = "working" /\ UNCHANGED <<quarantined, running>>
  /\ UNCHANGED <<current, phase, flags, timers, fibres, revived, calls, hit>>

\* The operation ends; `finally` gives the thread back.
EndUpkeep ==
  /\ upkeep = "working"
  /\ upkeep' = "none"
  /\ UNCHANGED <<current, phase, flags, timers, fibres, quarantined, running, revived, calls, hit>>

-----------------------------------------------------------------------------
Next ==
  \/ \E t \in Turns :
       \/ StartTurn(t) \/ RefuseTurn(t)
       \/ SendTurn(t) \/ DenyTurn(t) \/ PreflightFails(t)
       \/ SendReturns(t) \/ SendRejects(t)
       \/ ObserveStarted(t) \/ ObserveTerminal(t) \/ EndSilently(t)
       \/ RequestOpened(t) \/ RequestResolved(t)
       \/ Stop(t) \/ CheckTurnIdle(t) \/ DeadlineExpires(t)
       \/ InterruptReturns(t) \/ InterruptExpires(t) \/ InterruptSettlesLate(t)
       \/ TerminalSeen(t) \/ TerminalTimeout(t)
       \/ HardStopped(t) \/ HardStopFails(t) \/ HardStopFailsLate(t)
       \/ FinalizerWakes(t) \/ FinalizeInterrupted(t)
       \/ RunHook(t) \/ ClearTurnAdmission(t)
  \/ BeginMaintenance \/ BeginTeardown \/ TeardownInterrupted \/ TeardownStops
  \/ EndUpkeep

Spec == Init /\ [][Next]_vars

\* Timers fire; every call with a budget returns or runs out of it; the
\* preflight and the afterTurn hook settle.  sendTurn is obliged to settle only
\* once the turn no longer runs in the adapter, and an adapter need never end
\* a turn, answer a late interruptTurn or stopSession or send an event.
Fairness ==
  \A t \in Turns :
    /\ WF_vars(SendTurn(t) \/ DenyTurn(t) \/ PreflightFails(t))
    /\ WF_vars(t \notin running /\ (SendReturns(t) \/ SendRejects(t)))
    /\ WF_vars(DeadlineExpires(t))
    /\ WF_vars(InterruptReturns(t) \/ InterruptExpires(t))
    /\ WF_vars(TerminalSeen(t)) /\ WF_vars(TerminalTimeout(t))
    /\ WF_vars(HardStopFails(t))
    /\ WF_vars(FinalizerWakes(t)) /\ WF_vars(FinalizeInterrupted(t))
    /\ WF_vars(RunHook(t)) /\ WF_vars(ClearTurnAdmission(t))

FairSpec == Spec /\ Fairness

-----------------------------------------------------------------------------
TypeOK ==
  /\ current \in Turns \cup {None}
  /\ phase \in [Turns -> Phases]
  /\ cancelled \subseteq Turns /\ entered \subseteq Turns /\ observed \subseteq Turns
  /\ pending \subseteq Turns /\ claimed \subseteq Turns
  /\ idle \subseteq Turns /\ deadline \subseteq Turns
  /\ asked \in [Turns -> 0..MaxAsks]
  /\ dispatch \in [Turns -> {"none", "refused", "preflight", "sending", "done"}]
  /\ interrupt \in [Turns -> {"none", "cancelling", "awaiting", "stopping", "draining", "over"}]
  /\ hardStop \in [Turns -> {"none", "running", "stopped", "failed"}]
  /\ finalizer \in [Turns -> {"none", "racing", "draining", "over"}]
  /\ finish \in [Turns -> {"none", "draining", "hook", "over"}]
  /\ hooks \in [Turns -> Nat]
  /\ quarantined \in BOOLEAN
  /\ upkeep \in {"none", "interrupting", "stopping", "working"}
  /\ running \subseteq Turns /\ revived \subseteq Turns
  /\ calls \subseteq Turns /\ hit \subseteq Turns

\* However many contenders end a turn (terminal event, dispatch, Stop, two
\* watchdogs, teardown, quarantine finalizer), its afterTurn hook runs exactly
\* once before its admission is cleared.
SettledOnce ==
  \A t \in Turns :
    /\ hooks[t] <= 1
    /\ phase[t] = "gone" /\ dispatch[t] # "refused" => hooks[t] = 1

\* What is left of a turn without its admission: it does not run in the adapter,
\* its dispatch has settled, no interrupt is at it, and a session stop of its own
\* can hit no later turn.  A call to interruptTurn past its budget may be in
\* flight, but only behind a terminal receipt or a stopped session.
Harmless(t) ==
  /\ t \notin running
  /\ dispatch[t] \notin {"preflight", "sending"}
  /\ interrupt[t] \in {"none", "over"}
  /\ hardStop[t] = "running" => quarantined
  /\ t \in calls => t \in observed \/ hardStop[t] = "stopped"

\* "The admission/coordinator/workspace fences remain held until a terminal
\* receipt or eventual hard-stop success and dispatch quiescence prove that
\* release is safe": they do, provided the adapter announces no turn while the
\* hub is interrupting it, and no late interrupt of an earlier turn makes it
\* report the end of this one.  (Whether the release is safe then is another
\* matter: ReleaseIsSafe.)
FencesHeld == \A t \in Turns \ (revived \cup hit) : current = t \/ Harmless(t)

\* The same, whenever the adapter announces the turn.
FencesAlwaysHeld == \A t \in Turns \ hit : current = t \/ Harmless(t)

\* That the release is safe: while a turn is admitted, no call to interruptTurn
\* made for an earlier one is in flight (promiseWithDeadline, interruptAdmission).
ReleaseIsSafe ==
  \A t \in Turns : current = t => calls \ revived \subseteq {t}

\* How far the hub is with a turn, as HubContract tells it.
StageOf(t) ==
  IF dispatch[t] = "none" THEN "new"
  ELSE IF dispatch[t] = "refused" THEN "refused"
  ELSE IF finish[t] = "hook" THEN "finalizing"
  ELSE IF finish[t] = "over" THEN "gone" ELSE "admitted"

\* Turns whose interruptTurn ran out of its budget and is still in flight.
Late == {t \in calls : interrupt[t] # "cancelling"}

Contract == INSTANCE HubContract WITH
  stage  <- [t \in Turns |-> StageOf(t)],
  acting <- {t \in Turns \ (revived \cup hit) : ~Harmless(t)},
  late   <- Late \ revived

\* The afterTurn hook, which takes the turn's last checkpoint, runs once for
\* every admitted turn, when nothing of the turn is left but an interrupt that
\* overran its budget, and has ended before the next turn is admitted; nothing
\* begins for a turn without its admission.  A turn the adapter announces while
\* the hub is interrupting it, or that a late interrupt of an earlier one hit,
\* may still act.
KeepsContract == Contract!Spec

\* No admission goes unwatched: unless it is being settled or interrupted, or
\* waits for the user, its idle check is armed, and its deadline always is.
Watched ==
  \A t \in Turns :
    Interrupts(t) => t \in deadline /\ (asked[t] = 0 => t \in idle)

\* Every admitted turn is cleared, or its backend is quarantined, or a late
\* interrupt of an earlier turn had the hub settle it while it runs on.
TurnEnds ==
  \A t \in Turns : current = t ~> current # t \/ quarantined \/ t \in hit
=============================================================================
