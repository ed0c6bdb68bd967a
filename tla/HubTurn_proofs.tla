---------------------------- MODULE HubTurn_proofs ----------------------------
(***************************************************************************)
(* Theorems about HubTurn, for any set of turns: a turn is settled once,   *)
(* and leaves nothing behind that could touch the next one but an interrupt*)
(* past its budget; no admission is left without a watchdog.               *)
(***************************************************************************)
EXTENDS HubTurn, TLAPS

\* An admission from its turn's request to its clearing.
Life(t) ==
  /\ phase[t] = "new" <=> dispatch[t] = "none"
  /\ current = t <=> phase[t] \in {"pending", "active", "interrupting"}
  /\ phase[t] = "gone" <=> finish[t] = "over" \/ dispatch[t] = "refused"
  /\ finish[t] = "none" <=> t \notin claimed
  /\ finish[t] \in {"hook", "over"} => dispatch[t] = "done"
  /\ hooks[t] = IF finish[t] \in {"hook", "over"} THEN 1 ELSE 0

\* Nothing of a turn is under way before its dispatch, and nothing of it is in
\* the adapter before sendTurn.
Early(t) ==
  /\ dispatch[t] \in {"none", "refused", "preflight"} =>
       t \notin entered \cup running \cup claimed \cup observed
  /\ dispatch[t] \in {"none", "refused"} =>
       interrupt[t] = "none" /\ hardStop[t] = "none" /\ finalizer[t] = "none"
  /\ t \in running \cup calls \cup hit => t \in entered
  /\ t \in calls => interrupt[t] # "none"

\* A turn that may end is confined: it cannot run in the adapter again, unless
\* it was ended by a late interrupt of another.
Confined(t) ==
  /\ t \in pending => t \in observed
  /\ t \in observed \/ interrupt[t] # "none" => t \in cancelled
  /\ t \in claimed \cup observed => t \notin running \/ t \in hit
  /\ interrupt[t] = "draining" => t \notin running \/ t \in hit
  /\ finalizer[t] \in {"draining", "over"} => t \notin running \/ t \in hit
  /\ hardStop[t] = "stopped" => t \notin running

\* The fibres of an interrupt hand the admission on to one another.
Chained(t) ==
  /\ finalizer[t] # "none" => interrupt[t] = "over"
  /\ hardStop[t] # "none" => interrupt[t] \in {"stopping", "draining", "over"}
  /\ hardStop[t] # "none" \/ interrupt[t] \in {"cancelling", "awaiting"} => t \in entered
  /\ hardStop[t] = "running" /\ interrupt[t] # "stopping" => quarantined
  /\ t \notin revived /\ interrupt[t] # "none" => phase[t] \in {"interrupting", "gone"}
  /\ t \notin revived /\ t \in claimed =>
       interrupt[t] \in {"none", "over"} /\ finalizer[t] # "racing"

\* The hub goes on without the adapter's answer to its interrupt only behind a
\* terminal receipt or a stopped session; until then the finalizer waits.
Receipt(t) ==
  t \in calls /\ interrupt[t] \in {"draining", "over"} /\ finalizer[t] # "racing" =>
    t \in observed \/ hardStop[t] = "stopped"

TurnInv(t) == Life(t) /\ Early(t) /\ Confined(t) /\ Chained(t) /\ Receipt(t)

HubInv ==
  /\ TypeOK
  /\ \A t \in Turns : TurnInv(t)

-----------------------------------------------------------------------------
LEMMA TypeInductive ==
  TypeOK /\ [Next]_vars => TypeOK'
<1> SUFFICES ASSUME TypeOK, [Next]_vars PROVE TypeOK'
  OBVIOUS
<1>1. ASSUME NEW t \in Turns, StartTurn(t) PROVE TypeOK'
  BY <1>1, HubTurnAssumption DEF StartTurn, Goto, TypeOK, flags, timers, fibres, others, Phases
<1>2. ASSUME NEW t \in Turns, RefuseTurn(t) PROVE TypeOK'
  BY <1>2, HubTurnAssumption DEF RefuseTurn, Goto, TypeOK, flags, timers, fibres, others, Phases
<1>3. ASSUME NEW t \in Turns, SendTurn(t) PROVE TypeOK'
  BY <1>3, HubTurnAssumption DEF SendTurn, Goto, TypeOK, flags, timers, fibres, others, Phases
<1>4. ASSUME NEW t \in Turns, DenyTurn(t) PROVE TypeOK'
  BY <1>4, HubTurnAssumption DEF DenyTurn, Returned, Claim, Goto, TypeOK, flags, timers, fibres, others, Phases
<1>5. ASSUME NEW t \in Turns, PreflightFails(t) PROVE TypeOK'
  <2>1. quarantined' \in BOOLEAN
    BY <1>5, Zenon DEF PreflightFails, TypeOK
  <2>2. dispatch' = [dispatch EXCEPT ![t] = "done"]
    BY <1>5 DEF PreflightFails, Goto
  <2>3. /\ claimed' \subseteq Turns /\ idle' \subseteq Turns /\ deadline' \subseteq Turns
        /\ finish' \in [Turns -> {"none", "draining", "hook", "over"}]
    BY <1>5 DEF PreflightFails, Rejected, Claim, Goto, TypeOK
  <2> QED
    BY <1>5, <2>1, <2>2, <2>3 DEF PreflightFails, TypeOK, Phases
<1>6. ASSUME NEW t \in Turns, SendReturns(t) PROVE TypeOK'
  BY <1>6, HubTurnAssumption DEF SendReturns, Returned, Claim, Goto, TypeOK, flags, timers, fibres, others, Phases
<1>7. ASSUME NEW t \in Turns, SendRejects(t) PROVE TypeOK'
  BY <1>7, HubTurnAssumption DEF SendRejects, Rejected, Claim, Goto, TypeOK, flags, timers, fibres, others, Phases
<1>8. ASSUME NEW t \in Turns, ObserveStarted(t) PROVE TypeOK'
  BY <1>8, HubTurnAssumption DEF ObserveStarted, Goto, TypeOK, flags, timers, fibres, others, Phases
<1>9. ASSUME NEW t \in Turns, ObserveTerminal(t) PROVE TypeOK'
  BY <1>9, HubTurnAssumption DEF ObserveTerminal, Claim, Goto, TypeOK, flags, timers, fibres, others, Phases
<1>10. ASSUME NEW t \in Turns, EndSilently(t) PROVE TypeOK'
  BY <1>10, HubTurnAssumption DEF EndSilently, Goto, TypeOK, flags, timers, fibres, others, Phases
<1>11. ASSUME NEW t \in Turns, RequestOpened(t) PROVE TypeOK'
  BY <1>11, HubTurnAssumption DEF RequestOpened, Goto, TypeOK, flags, timers, fibres, others, Phases
<1>12. ASSUME NEW t \in Turns, RequestResolved(t) PROVE TypeOK'
  BY <1>12, HubTurnAssumption DEF RequestResolved, Goto, TypeOK, flags, timers, fibres, others, Phases
<1>13. ASSUME NEW t \in Turns, Stop(t) PROVE TypeOK'
  BY <1>13, HubTurnAssumption DEF Stop, Interrupts, Interrupt, Goto, TypeOK, flags, timers, fibres, others, Phases
<1>14. ASSUME NEW t \in Turns, CheckTurnIdle(t) PROVE TypeOK'
  BY <1>14, HubTurnAssumption DEF CheckTurnIdle, TimeoutTurn, Interrupts, Interrupt, Goto, TypeOK, flags, timers, fibres, others, Phases
<1>15. ASSUME NEW t \in Turns, DeadlineExpires(t) PROVE TypeOK'
  BY <1>15, HubTurnAssumption DEF DeadlineExpires, TimeoutTurn, Interrupts, Interrupt, Goto, TypeOK, flags, timers, fibres, others, Phases
<1>16. ASSUME NEW t \in Turns, InterruptReturns(t) \/ InterruptExpires(t) PROVE TypeOK'
  BY <1>16, HubTurnAssumption DEF InterruptReturns, InterruptExpires, Interrupted, Goto, TypeOK, flags, timers, fibres, others, Phases
<1>17. ASSUME NEW t \in Turns, TerminalSeen(t) PROVE TypeOK'
  BY <1>17, HubTurnAssumption DEF TerminalSeen, Goto, TypeOK, flags, timers, fibres, others, Phases
<1>18. ASSUME NEW t \in Turns, TerminalTimeout(t) PROVE TypeOK'
  BY <1>18, HubTurnAssumption DEF TerminalTimeout, Goto, TypeOK, flags, timers, fibres, others, Phases
<1>19. ASSUME NEW t \in Turns, HardStopped(t) PROVE TypeOK'
  BY <1>19, HubTurnAssumption DEF HardStopped, Goto, TypeOK, flags, timers, fibres, others, Phases
<1>20. ASSUME NEW t \in Turns, HardStopFails(t) PROVE TypeOK'
  BY <1>20, HubTurnAssumption DEF HardStopFails, Goto, TypeOK, flags, timers, fibres, others, Phases
<1>21. ASSUME NEW t \in Turns, HardStopFailsLate(t) PROVE TypeOK'
  BY <1>21, HubTurnAssumption DEF HardStopFailsLate, Goto, TypeOK, flags, timers, fibres, others, Phases
<1>22. ASSUME NEW t \in Turns, FinalizerWakes(t) PROVE TypeOK'
  BY <1>22, HubTurnAssumption DEF FinalizerWakes, Goto, TypeOK, flags, timers, fibres, others, Phases
<1>23. ASSUME NEW t \in Turns, FinalizeInterrupted(t) PROVE TypeOK'
  BY <1>23, HubTurnAssumption DEF FinalizeInterrupted, Claim, Goto, TypeOK, flags, timers, fibres, others, Phases
<1>24. ASSUME NEW t \in Turns, RunHook(t) PROVE TypeOK'
  BY <1>24, HubTurnAssumption DEF RunHook, Goto, TypeOK, flags, timers, fibres, others, Phases
<1>25. ASSUME NEW t \in Turns, ClearTurnAdmission(t) PROVE TypeOK'
  BY <1>25, HubTurnAssumption DEF ClearTurnAdmission, Goto, TypeOK, flags, timers, fibres, others, Phases
<1>26. CASE BeginMaintenance
  BY <1>26, HubTurnAssumption DEF BeginMaintenance, Goto, TypeOK, flags, timers, fibres, others, Phases
<1>27. CASE BeginTeardown
  BY <1>27, HubTurnAssumption DEF BeginTeardown, TimeoutTurn, Interrupts, Interrupt, Goto, TypeOK, flags, timers, fibres, others, Phases
<1>28. CASE TeardownInterrupted
  BY <1>28, HubTurnAssumption DEF TeardownInterrupted, Goto, TypeOK, flags, timers, fibres, others, Phases
<1>29. CASE TeardownStops
  BY <1>29, HubTurnAssumption DEF TeardownStops, Goto, TypeOK, flags, timers, fibres, others, Phases
<1>30. CASE EndUpkeep
  BY <1>30, HubTurnAssumption DEF EndUpkeep, Goto, TypeOK, flags, timers, fibres, others, Phases
<1>31. ASSUME NEW t \in Turns, InterruptSettlesLate(t) PROVE TypeOK'
  BY <1>31 DEF InterruptSettlesLate, TypeOK, flags, timers, fibres
<1>32. CASE UNCHANGED vars
  BY <1>32 DEF vars, flags, timers, fibres, others, TypeOK
<1> QED
  BY <1>1, <1>2, <1>3, <1>4, <1>5, <1>6, <1>7, <1>8, <1>9, <1>10, <1>11, <1>12, <1>13, <1>14, <1>15, <1>16, <1>17, <1>18, <1>19, <1>20, <1>21, <1>22, <1>23, <1>24, <1>25, <1>26, <1>27, <1>28, <1>29, <1>30, <1>31, <1>32, Zenon DEF Next

LEMMA TurnInductive ==
  HubInv /\ [Next]_vars => \A u \in Turns : TurnInv(u)'
<1> SUFFICES ASSUME HubInv, [Next]_vars, NEW u \in Turns PROVE TurnInv(u)'
  OBVIOUS
<1> USE HubTurnAssumption
<1> USE DEF HubInv, TurnInv, Life, Early, Confined, Chained, Receipt, TypeOK, Phases, Goto, flags, timers, fibres, others
<1>1. ASSUME NEW t \in Turns, StartTurn(t) PROVE TurnInv(u)'
  BY <1>1 DEF StartTurn
<1>2. ASSUME NEW t \in Turns, RefuseTurn(t) PROVE TurnInv(u)'
  BY <1>2 DEF RefuseTurn
<1>3. ASSUME NEW t \in Turns, SendTurn(t) PROVE TurnInv(u)'
  BY <1>3 DEF SendTurn
<1>4. ASSUME NEW t \in Turns, DenyTurn(t) PROVE TurnInv(u)'
  BY <1>4 DEF DenyTurn, Returned, Claim
<1>5. ASSUME NEW t \in Turns, PreflightFails(t) PROVE TurnInv(u)'
  BY <1>5 DEF PreflightFails, Rejected, Claim
<1>6. ASSUME NEW t \in Turns, SendReturns(t) PROVE TurnInv(u)'
  BY <1>6 DEF SendReturns, Returned, Claim
<1>7. ASSUME NEW t \in Turns, SendRejects(t) PROVE TurnInv(u)'
  BY <1>7 DEF SendRejects, Rejected, Claim
<1>8. ASSUME NEW t \in Turns, ObserveStarted(t) PROVE TurnInv(u)'
  BY <1>8 DEF ObserveStarted
<1>9. ASSUME NEW t \in Turns, ObserveTerminal(t) PROVE TurnInv(u)'
  BY <1>9 DEF ObserveTerminal, Claim
<1>10. ASSUME NEW t \in Turns, EndSilently(t) PROVE TurnInv(u)'
  BY <1>10 DEF EndSilently
<1>11. ASSUME NEW t \in Turns, RequestOpened(t) PROVE TurnInv(u)'
  BY <1>11 DEF RequestOpened
<1>12. ASSUME NEW t \in Turns, RequestResolved(t) PROVE TurnInv(u)'
  BY <1>12 DEF RequestResolved
<1>13. ASSUME NEW t \in Turns, Stop(t) PROVE TurnInv(u)'
  BY <1>13 DEF Stop, Interrupts, Interrupt
<1>14. ASSUME NEW t \in Turns, CheckTurnIdle(t) PROVE TurnInv(u)'
  BY <1>14 DEF CheckTurnIdle, TimeoutTurn, Interrupts, Interrupt
<1>15. ASSUME NEW t \in Turns, DeadlineExpires(t) PROVE TurnInv(u)'
  BY <1>15 DEF DeadlineExpires, TimeoutTurn, Interrupts, Interrupt
<1>16. ASSUME NEW t \in Turns, InterruptReturns(t) \/ InterruptExpires(t) PROVE TurnInv(u)'
  BY <1>16 DEF InterruptReturns, InterruptExpires, Interrupted
<1>17. ASSUME NEW t \in Turns, TerminalSeen(t) PROVE TurnInv(u)'
  BY <1>17 DEF TerminalSeen
<1>18. ASSUME NEW t \in Turns, TerminalTimeout(t) PROVE TurnInv(u)'
  BY <1>18 DEF TerminalTimeout
<1>19. ASSUME NEW t \in Turns, HardStopped(t) PROVE TurnInv(u)'
  BY <1>19 DEF HardStopped
<1>20. ASSUME NEW t \in Turns, HardStopFails(t) PROVE TurnInv(u)'
  BY <1>20 DEF HardStopFails
<1>21. ASSUME NEW t \in Turns, HardStopFailsLate(t) PROVE TurnInv(u)'
  BY <1>21 DEF HardStopFailsLate
<1>22. ASSUME NEW t \in Turns, FinalizerWakes(t) PROVE TurnInv(u)'
  BY <1>22 DEF FinalizerWakes
<1>23. ASSUME NEW t \in Turns, FinalizeInterrupted(t) PROVE TurnInv(u)'
  <2>1. CASE u # t
    BY <1>23, <2>1 DEF FinalizeInterrupted, Claim
  <2>2. CASE u = t
    BY <1>23, <2>2 DEF FinalizeInterrupted, Claim
  <2> QED
    BY <2>1, <2>2
<1>24. ASSUME NEW t \in Turns, RunHook(t) PROVE TurnInv(u)'
  BY <1>24 DEF RunHook
<1>25. ASSUME NEW t \in Turns, ClearTurnAdmission(t) PROVE TurnInv(u)'
  BY <1>25 DEF ClearTurnAdmission
<1>26. CASE BeginMaintenance
  BY <1>26 DEF BeginMaintenance
<1>27. CASE BeginTeardown
  BY <1>27 DEF BeginTeardown, TimeoutTurn, Interrupts, Interrupt
<1>28. CASE TeardownInterrupted
  BY <1>28 DEF TeardownInterrupted
<1>29. CASE TeardownStops
  BY <1>29 DEF TeardownStops
<1>30. CASE EndUpkeep
  BY <1>30 DEF EndUpkeep
<1>31. ASSUME NEW t \in Turns, InterruptSettlesLate(t) PROVE TurnInv(u)'
  BY <1>31 DEF InterruptSettlesLate
<1>32. CASE UNCHANGED vars
  BY <1>32 DEF vars
<1> QED
  BY <1>1, <1>2, <1>3, <1>4, <1>5, <1>6, <1>7, <1>8, <1>9, <1>10, <1>11, <1>12, <1>13, <1>14, <1>15, <1>16, <1>17, <1>18, <1>19, <1>20, <1>21, <1>22, <1>23, <1>24, <1>25, <1>26, <1>27, <1>28, <1>29, <1>30, <1>31, <1>32, Zenon DEF Next

\* From the request to the clearing and through every race of the contenders
\* the fibres of a turn stay in step with its admission.
THEOREM HubInductive == Spec => []HubInv
<1>1. Init => HubInv
  <2> SUFFICES ASSUME Init PROVE HubInv
    OBVIOUS
  <2>1. TypeOK
    <3>1. quarantined \in BOOLEAN
      BY Zenon DEF Init
    <3>2. asked \in [Turns -> 0..MaxAsks] /\ hooks \in [Turns -> Nat]
      BY HubTurnAssumption DEF Init
    <3> QED
      BY <3>1, <3>2, Zenon DEF Init, TypeOK, Phases
  <2>2. ASSUME NEW t \in Turns PROVE TurnInv(t)
    BY <2>2, HubTurnAssumption DEF Init, TurnInv, Life, Early, Confined, Chained, Receipt
  <2> QED
    BY <2>1, <2>2 DEF HubInv
<1>2. HubInv /\ [Next]_vars => HubInv'
  BY TypeInductive, TurnInductive DEF HubInv
<1> QED
  BY <1>1, <1>2, PTL DEF Spec

\* Whoever ends a turn, its afterTurn hook has run exactly once when its
\* admission is cleared (claimTurnSettlement, finishClaimedTurnAdmission).
THEOREM SettledExactlyOnce == Spec => []SettledOnce
<1>1. HubInv => SettledOnce
  <2> SUFFICES ASSUME HubInv, NEW t \in Turns
               PROVE  hooks[t] <= 1 /\ (phase[t] = "gone" /\ dispatch[t] # "refused" => hooks[t] = 1)
    BY DEF SettledOnce
  <2>1. Life(t)
    BY DEF HubInv, TurnInv
  <2> QED
    BY <2>1 DEF Life
<1> QED
  BY <1>1, HubInductive, PTL

\* A cleared turn runs nowhere, and what is left of it is at most an interrupt
\* past its budget behind a terminal receipt or a stopped session; unless it was
\* announced while being interrupted, or hit by a late interrupt of another turn
\* (interruptAdmission, promiseWithDeadline).
THEOREM TheFencesHold == Spec => []FencesHeld
<1>1. HubInv => FencesHeld
  <2> SUFFICES ASSUME HubInv, NEW t \in Turns, t \notin revived \cup hit, current # t
               PROVE  Harmless(t)
    BY DEF FencesHeld
  <2>1. TurnInv(t) /\ phase[t] \in Phases
    BY Zenon DEF HubInv, TypeOK
  <2>2. CASE dispatch[t] \in {"none", "refused"}
    BY <2>1, <2>2 DEF TurnInv, Early, Harmless
  <2>3. CASE dispatch[t] \notin {"none", "refused"}
    <3>1. finish[t] = "over" /\ t \in claimed /\ dispatch[t] = "done"
      BY <2>1, <2>3 DEF TurnInv, Life, Phases
    <3> QED
      BY <2>1, <3>1 DEF TurnInv, Early, Confined, Chained, Receipt, Harmless
  <2> QED
    BY <2>2, <2>3
<1> QED
  BY <1>1, HubInductive, PTL

\* Every admission not yet settled or interrupted has its deadline armed, and
\* its idle check too unless it waits for the user (scheduleTurnIdleCheck,
\* observeTurnActivity, checkTurnIdle).
THEOREM NeverUnwatched == Spec => []Watched
<1>1. Init => Watched
  BY HubTurnAssumption DEF Init, Watched, Interrupts
<1>2. TypeOK /\ Watched /\ [Next]_vars => Watched'
  <2> SUFFICES ASSUME TypeOK, Watched, [Next]_vars, NEW u \in Turns, Interrupts(u)'
               PROVE  (u \in deadline /\ (asked[u] = 0 => u \in idle))'
    BY DEF Watched
  <2> USE HubTurnAssumption
  <2> USE DEF TypeOK, Watched, Interrupts, Interrupt, TimeoutTurn, Goto, flags, timers, fibres, others
  <2>1. ASSUME NEW t \in Turns,
               StartTurn(t) \/ RefuseTurn(t) \/ SendTurn(t) \/ ObserveStarted(t) \/ EndSilently(t)
        PROVE  (u \in deadline /\ (asked[u] = 0 => u \in idle))'
    BY <2>1 DEF StartTurn, RefuseTurn, SendTurn, ObserveStarted, EndSilently
  <2>2. ASSUME NEW t \in Turns, DenyTurn(t) \/ PreflightFails(t) \/ SendReturns(t) \/ SendRejects(t)
        PROVE  (u \in deadline /\ (asked[u] = 0 => u \in idle))'
    BY <2>2 DEF DenyTurn, PreflightFails, SendReturns, SendRejects, Returned, Rejected, Claim
  <2>3. ASSUME NEW t \in Turns, ObserveTerminal(t) \/ FinalizeInterrupted(t)
        PROVE  (u \in deadline /\ (asked[u] = 0 => u \in idle))'
    BY <2>3 DEF ObserveTerminal, FinalizeInterrupted, Claim
  <2>4. ASSUME NEW t \in Turns, RequestOpened(t) \/ RequestResolved(t)
        PROVE  (u \in deadline /\ (asked[u] = 0 => u \in idle))'
    BY <2>4 DEF RequestOpened, RequestResolved
  <2>5. ASSUME NEW t \in Turns, Stop(t) \/ CheckTurnIdle(t) \/ DeadlineExpires(t)
        PROVE  (u \in deadline /\ (asked[u] = 0 => u \in idle))'
    BY <2>5 DEF Stop, CheckTurnIdle, DeadlineExpires
  <2>6. ASSUME NEW t \in Turns,
               \/ InterruptReturns(t) \/ InterruptExpires(t) \/ InterruptSettlesLate(t)
               \/ TerminalSeen(t) \/ TerminalTimeout(t) \/ HardStopped(t)
               \/ HardStopFails(t) \/ HardStopFailsLate(t) \/ FinalizerWakes(t)
        PROVE  (u \in deadline /\ (asked[u] = 0 => u \in idle))'
    BY <2>6 DEF InterruptReturns, InterruptExpires, Interrupted, InterruptSettlesLate, TerminalSeen, TerminalTimeout, HardStopped, HardStopFails,
                HardStopFailsLate, FinalizerWakes
  <2>7. ASSUME NEW t \in Turns, RunHook(t) \/ ClearTurnAdmission(t)
        PROVE  (u \in deadline /\ (asked[u] = 0 => u \in idle))'
    BY <2>7 DEF RunHook, ClearTurnAdmission
  <2>8. CASE BeginMaintenance \/ BeginTeardown \/ TeardownInterrupted \/ TeardownStops \/ EndUpkeep
    BY <2>8 DEF BeginMaintenance, BeginTeardown, TeardownInterrupted, TeardownStops, EndUpkeep
  <2>9. CASE UNCHANGED vars
    BY <2>9 DEF vars
  <2> QED
    BY <2>1, <2>2, <2>3, <2>4, <2>5, <2>6, <2>7, <2>8, <2>9, Zenon DEF Next
<1>3. HubInv => TypeOK
  BY DEF HubInv
<1> QED
  BY <1>1, <1>2, <1>3, HubInductive, PTL DEF Spec
-----------------------------------------------------------------------------
(* The hub keeps the contract of HubContract.  Only four actions move a     *)
(* turn from a stage to the next; of any other step the contract asks that  *)
(* nothing begins to act, and no interrupt overruns its budget, but for an  *)
(* admitted turn.                                                           *)

\* A turn the adapter revived has been dispatched.
RevivedInv == \A t \in revived : dispatch[t] # "none"

Stages == [t \in Turns |-> StageOf(t)]
Acting == {t \in Turns \ (revived \cup hit) : ~Harmless(t)}
Overdue == Late \ revived
AdmittedNow == {t \in Turns : StageOf(t) = "admitted"}

\* Only an admitted turn can act.
ActingInv == \A t \in Turns \ (revived \cup hit) : StageOf(t) # "admitted" => Harmless(t)

LEMMA OnlyAdmittedAct == HubInv => ActingInv
<1> SUFFICES ASSUME HubInv, NEW t \in Turns \ (revived \cup hit), StageOf(t) # "admitted"
             PROVE  Harmless(t)
  BY DEF ActingInv
<1>1. TurnInv(t)
  BY DEF HubInv
<1>2. CASE dispatch[t] \in {"none", "refused"}
  BY <1>1, <1>2 DEF TurnInv, Early, Harmless
<1>3. CASE dispatch[t] \notin {"none", "refused"}
  <2>1. finish[t] \in {"hook", "over"}
    BY <1>3 DEF StageOf
  <2>2. dispatch[t] = "done" /\ t \in claimed
    BY <1>1, <2>1 DEF TurnInv, Life
  <2> QED
    BY <1>1, <2>2 DEF TurnInv, Early, Confined, Chained, Receipt, Harmless
<1> QED
  BY <1>2, <1>3

\* On a thread without a turn nobody is admitted.
LEMMA ThreadIsFree ==
  ASSUME HubInv, current = None, NEW t \in Turns
  PROVE  StageOf(t) \notin {"admitted", "finalizing"}
<1>1. TurnInv(t) /\ phase[t] \in Phases /\ current # t
  BY HubTurnAssumption, Zenon DEF HubInv, TypeOK
<1>2. phase[t] \in {"new", "gone"}
  BY <1>1 DEF TurnInv, Life, Phases
<1> QED
  BY <1>1, <1>2 DEF TurnInv, Life, StageOf

\* A step that moves no turn to another stage is one the contract allows.
LEMMA StageKept ==
  ASSUME ActingInv', Overdue' \subseteq Overdue \cup AdmittedNow,
         \A t \in Turns : StageOf(t)' = StageOf(t)
  PROVE  [Contract!Next]_<<Stages, Acting, Overdue>>
<1>1. Stages' = Stages
  BY DEF Stages
<1>2. Acting' \subseteq Acting \cup {t \in Turns : Stages[t] = "admitted"}
  <2> SUFFICES ASSUME NEW t \in Turns, t \notin revived' \cup hit', ~Harmless(t)'
               PROVE  Stages[t] = "admitted"
    BY DEF Acting
  <2>1. StageOf(t)' = "admitted"
    BY DEF ActingInv
  <2> QED
    BY <2>1 DEF Stages
<1>3. Contract!Admitted = AdmittedNow
  BY DEF Contract!Admitted, AdmittedNow
<1>4. Contract!Act
  BY <1>1, <1>2, <1>3 DEF Contract!Act, AdmittedNow, Stages, Acting, Overdue
<1> QED
  BY <1>4 DEF Contract!Next

\* One turn moves to another stage.
LEMMA StagesExcept ==
  ASSUME NEW t \in Turns, NEW s,
         \A u \in Turns : StageOf(u)' = IF u = t THEN s ELSE StageOf(u)
  PROVE  Stages' = [Stages EXCEPT ![t] = s]
BY DEF Stages

\* Nothing that decides whether a turn can act, or an interrupt is overdue, is
\* touched.
LEMMA ActingKept ==
  ASSUME UNCHANGED <<running, dispatch, interrupt, hardStop, quarantined, observed, revived,
                     calls, hit>>
  PROVE  Acting' = Acting /\ Overdue' = Overdue
BY DEF Acting, Harmless, Overdue, Late

\* Only the interrupt of an admitted turn can run out of its budget.
LEMMA OverdueGrows ==
  ASSUME HubInv, [Next]_vars
  PROVE  Overdue' \subseteq Overdue \cup AdmittedNow
<1> SUFFICES ASSUME NEW u \in Turns, u \in calls', interrupt'[u] # "cancelling", u \notin revived',
                    u \notin Overdue
             PROVE  StageOf(u) = "admitted"
  <2>1. calls' \subseteq Turns
    BY TypeInductive DEF HubInv, TypeOK
  <2> QED
    BY <2>1 DEF Overdue, Late, AdmittedNow
<1> USE DEF HubInv, TypeOK, Goto, flags, timers, fibres, others
<1>1. u \notin revived
  <2>1. revived \subseteq revived'
    BY DEF Next, StartTurn, RefuseTurn, SendTurn, DenyTurn, PreflightFails, SendReturns, SendRejects,
           ObserveStarted, ObserveTerminal, EndSilently, RequestOpened, RequestResolved, Stop,
           CheckTurnIdle, DeadlineExpires, InterruptReturns, InterruptExpires, Interrupted,
           InterruptSettlesLate, TerminalSeen, TerminalTimeout, HardStopped, HardStopFails,
           HardStopFailsLate, FinalizerWakes, FinalizeInterrupted, RunHook, ClearTurnAdmission,
           BeginMaintenance, BeginTeardown, TeardownInterrupted, TeardownStops, EndUpkeep, vars
  <2> QED
    BY <2>1
<1>2. u \notin calls \/ interrupt[u] = "cancelling"
  BY <1>1 DEF Overdue, Late
<1>3. ASSUME interrupt[u] = "cancelling" PROVE StageOf(u) = "admitted"
  <2>1. TurnInv(u)
    OBVIOUS
  <2>2. u \in entered /\ u \notin claimed
    BY <1>1, <1>3, <2>1 DEF TurnInv, Chained
  <2>3. finish[u] = "none" /\ dispatch[u] \notin {"none", "refused"}
    BY <2>1, <2>2 DEF TurnInv, Life, Early
  <2> QED
    BY <2>3 DEF StageOf
<1>4. ASSUME NEW t \in Turns, Stop(t) \/ CheckTurnIdle(t) \/ DeadlineExpires(t)
      PROVE  StageOf(u) = "admitted"
  BY <1>2, <1>3, <1>4 DEF Stop, CheckTurnIdle, DeadlineExpires, TimeoutTurn, Interrupt
<1>5. CASE BeginTeardown
  BY <1>2, <1>3, <1>5 DEF BeginTeardown, TimeoutTurn, Interrupt
<1>6. CASE calls' \subseteq calls
  BY <1>2, <1>3, <1>6
<1>7. CASE /\ ~BeginTeardown
           /\ \A t \in Turns : ~(Stop(t) \/ CheckTurnIdle(t) \/ DeadlineExpires(t))
  <2>1. calls' \subseteq calls
    BY <1>7
       DEF Next, StartTurn, RefuseTurn, SendTurn, DenyTurn, PreflightFails, SendReturns, SendRejects,
           ObserveStarted, ObserveTerminal, EndSilently, RequestOpened, RequestResolved,
           InterruptReturns, InterruptExpires, Interrupted, InterruptSettlesLate, TerminalSeen,
           TerminalTimeout, HardStopped, HardStopFails, HardStopFailsLate, FinalizerWakes,
           FinalizeInterrupted, RunHook, ClearTurnAdmission, BeginMaintenance, TeardownInterrupted,
           TeardownStops, EndUpkeep, vars
  <2> QED
    BY <1>6, <2>1
<1> QED
  BY <1>4, <1>5, <1>7

LEMMA RevivedKept ==
  ASSUME HubInv, RevivedInv, [Next]_vars PROVE RevivedInv'
<1> SUFFICES ASSUME NEW u \in revived' PROVE dispatch'[u] # "none"
  BY DEF RevivedInv
<1> USE DEF HubInv, TypeOK, RevivedInv, Goto, flags, timers, fibres, others
<1>1. ASSUME NEW t \in Turns, ObserveStarted(t) PROVE dispatch'[u] # "none"
  <2>1. TurnInv(t)
    OBVIOUS
  <2>2. dispatch[t] # "none" /\ dispatch' = dispatch
    BY <1>1, <2>1, Zenon DEF ObserveStarted, TurnInv, Early
  <2>3. u \in revived \/ u = t
    BY <1>1 DEF ObserveStarted
  <2> QED
    BY <2>2, <2>3
<1>2. ASSUME NEW t \in Turns,
             \/ StartTurn(t) \/ RefuseTurn(t) \/ SendTurn(t) \/ DenyTurn(t) \/ PreflightFails(t)
             \/ SendReturns(t) \/ SendRejects(t)
      PROVE  dispatch'[u] # "none"
  <2>1. /\ revived' = revived
        /\ \E s \in {"refused", "preflight", "sending", "done"} : dispatch' = [dispatch EXCEPT ![t] = s]
    BY <1>2 DEF StartTurn, RefuseTurn, SendTurn, DenyTurn, PreflightFails, SendReturns, SendRejects
  <2> QED
    BY <2>1
<1>3. CASE /\ \A t \in Turns :
                ~ (\/ StartTurn(t) \/ RefuseTurn(t) \/ SendTurn(t) \/ DenyTurn(t) \/ PreflightFails(t)
                   \/ SendReturns(t) \/ SendRejects(t) \/ ObserveStarted(t))
  <2>1. dispatch' = dispatch /\ revived' = revived
    BY <1>3 DEF Next, ObserveTerminal, EndSilently, RequestOpened, RequestResolved, Stop,
                CheckTurnIdle, DeadlineExpires, InterruptReturns, InterruptExpires, Interrupted,
                InterruptSettlesLate, TerminalSeen, TerminalTimeout, HardStopped, HardStopFails, HardStopFailsLate, FinalizerWakes, FinalizeInterrupted,
                RunHook, ClearTurnAdmission, BeginMaintenance, BeginTeardown, TeardownInterrupted,
                TeardownStops, EndUpkeep, vars
  <2> QED
    BY <2>1
<1> QED
  BY <1>1, <1>2, <1>3

LEMMA ContractStep ==
  ASSUME HubInv, ActingInv, ActingInv', RevivedInv, [Next]_vars
  PROVE  [Contract!Next]_<<Stages, Acting, Overdue>>
<1> USE DEF Goto, flags, timers, fibres, others
<1>0. /\ dispatch \in [Turns -> {"none", "refused", "preflight", "sending", "done"}]
      /\ finish \in [Turns -> {"none", "draining", "hook", "over"}]
      /\ \A t \in Turns : TurnInv(t)
  BY DEF HubInv, TypeOK
<1>a. Overdue' \subseteq Overdue \cup AdmittedNow
  BY OverdueGrows
<1>1. ASSUME NEW t \in Turns, StartTurn(t) PROVE [Contract!Next]_<<Stages, Acting, Overdue>>
  <2>1. /\ current = None /\ dispatch' = [dispatch EXCEPT ![t] = "preflight"]
        /\ finish' = finish /\ UNCHANGED <<interrupt, revived, calls, hit>>
        /\ dispatch[t] = "none" /\ finish[t] = "none" /\ t \notin hit
    BY <1>0, <1>1 DEF StartTurn, TurnInv, Life, Early
  <2>2. Contract!Free /\ Stages[t] = "new"
    BY <2>1, ThreadIsFree DEF Contract!Free, Stages, StageOf
  <2>3. Stages' = [Stages EXCEPT ![t] = "admitted"]
    <3>1. \A u \in Turns : StageOf(u)' = IF u = t THEN "admitted" ELSE StageOf(u)
      BY <1>0, <2>1 DEF StageOf
    <3> QED
      BY <3>1, StagesExcept, Zenon
  <2>4. Acting = {}
    <3>1. \A u \in Turns \ (revived \cup hit) : Harmless(u)
      BY <2>1, ThreadIsFree, Zenon DEF ActingInv
    <3> QED
      BY <3>1 DEF Acting
  <2>5. Acting' = {t}
    <3>1. t \notin revived' \cup hit' /\ ~Harmless(t)'
      BY <1>0, <2>1 DEF RevivedInv, Harmless
    <3>2. ASSUME NEW u \in Turns \ {t}, u \notin revived' \cup hit' PROVE Harmless(u)'
      <4>1. StageOf(u)' = StageOf(u)
        BY <1>0, <2>1 DEF StageOf
      <4>2. StageOf(u)' # "admitted"
        BY <2>1, <4>1, ThreadIsFree
      <4> QED
        BY <3>2, <4>2 DEF ActingInv
    <3> QED
      BY <3>1, <3>2 DEF Acting
  <2>6. Overdue' = Overdue
    BY <2>1 DEF Overdue, Late
  <2>7. Contract!Admit(t)
    BY <2>2, <2>3, <2>4, <2>5, <2>6
       DEF Contract!Admit, Contract!To, Contract!Free, Stages, Acting, Overdue
  <2> QED
    BY <2>7 DEF Contract!Next
<1>2. ASSUME NEW t \in Turns, RefuseTurn(t) PROVE [Contract!Next]_<<Stages, Acting, Overdue>>
  <2>1. /\ current = None /\ dispatch' = [dispatch EXCEPT ![t] = "refused"]
        /\ finish' = finish /\ revived' = revived
        /\ dispatch[t] = "none"
        /\ UNCHANGED <<running, interrupt, hardStop, quarantined, observed, calls, hit>>
    BY <1>0, <1>2 DEF RefuseTurn, TurnInv, Life
  <2>2. Contract!Free /\ Stages[t] = "new"
    <3>1. StageOf(t) = "new"
      BY <2>1 DEF StageOf
    <3> QED
      BY <2>1, <3>1, ThreadIsFree DEF Contract!Free, Stages
  <2>3. Stages' = [Stages EXCEPT ![t] = "refused"]
    <3>1. \A u \in Turns : StageOf(u)' = IF u = t THEN "refused" ELSE StageOf(u)
      BY <1>0, <2>1 DEF StageOf
    <3> QED
      BY <3>1, StagesExcept, Zenon
  <2>4. \A u \in Turns : Harmless(u)' <=> Harmless(u)
    BY <1>0, <2>1 DEF Harmless
  <2>5. Acting' = Acting /\ Overdue' = Overdue
    BY <2>1, <2>4 DEF Acting, Overdue, Late
  <2>6. Contract!Refuse(t)
    BY <2>2, <2>3, <2>5 DEF Contract!Refuse, Contract!To, Contract!Free, Stages, Acting, Overdue
  <2> QED
    BY <2>6 DEF Contract!Next
<1>3. ASSUME NEW t \in Turns, RunHook(t) PROVE [Contract!Next]_<<Stages, Acting, Overdue>>
  <2>1. /\ finish[t] = "draining" /\ dispatch[t] = "done"
        /\ finish' = [finish EXCEPT ![t] = "hook"]
        /\ UNCHANGED <<running, dispatch, interrupt, hardStop, quarantined, observed, revived,
                       calls, hit>>
    BY <1>3 DEF RunHook
  <2>2. Stages[t] = "admitted"
    BY <2>1 DEF Stages, StageOf
  <2>3. Stages' = [Stages EXCEPT ![t] = "finalizing"]
    <3>1. \A u \in Turns : StageOf(u)' = IF u = t THEN "finalizing" ELSE StageOf(u)
      BY <1>0, <2>1 DEF StageOf
    <3> QED
      BY <3>1, StagesExcept, Zenon
  <2>4. t \notin Acting
    <3>1. t \in claimed
      BY <1>0, <2>1 DEF TurnInv, Life
    <3>2. t \notin revived \cup hit => Harmless(t)
      BY <1>0, <2>1, <3>1 DEF TurnInv, Early, Confined, Chained, Receipt, Harmless
    <3> QED
      BY <3>2 DEF Acting
  <2>5. Acting' = Acting /\ Overdue' = Overdue
    BY <2>1, ActingKept
  <2>6. Contract!Finalize(t)
    BY <2>2, <2>3, <2>4, <2>5 DEF Contract!Finalize, Contract!To, Stages, Acting, Overdue
  <2> QED
    BY <2>6 DEF Contract!Next
<1>4. ASSUME NEW t \in Turns, ClearTurnAdmission(t) PROVE [Contract!Next]_<<Stages, Acting, Overdue>>
  <2>1. /\ finish[t] = "hook" /\ finish' = [finish EXCEPT ![t] = "over"]
        /\ UNCHANGED <<running, dispatch, interrupt, hardStop, quarantined, observed, revived,
                       calls, hit>>
    BY <1>4 DEF ClearTurnAdmission
  <2>2. dispatch[t] = "done"
    BY <1>0, <2>1 DEF TurnInv, Life
  <2>3. Stages[t] = "finalizing"
    BY <2>1, <2>2 DEF Stages, StageOf
  <2>4. Stages' = [Stages EXCEPT ![t] = "gone"]
    <3>1. \A u \in Turns : StageOf(u)' = IF u = t THEN "gone" ELSE StageOf(u)
      BY <1>0, <2>1, <2>2 DEF StageOf
    <3> QED
      BY <3>1, StagesExcept, Zenon
  <2>5. Acting' = Acting /\ Overdue' = Overdue
    BY <2>1, ActingKept
  <2>6. Contract!Clear(t)
    BY <2>3, <2>4, <2>5 DEF Contract!Clear, Contract!To, Stages, Acting, Overdue
  <2> QED
    BY <2>6 DEF Contract!Next
<1>5. ASSUME NEW t \in Turns,
             SendTurn(t) \/ DenyTurn(t) \/ PreflightFails(t) \/ SendReturns(t) \/ SendRejects(t)
      PROVE  [Contract!Next]_<<Stages, Acting, Overdue>>
  <2>1. /\ dispatch[t] \in {"preflight", "sending"}
        /\ \E s \in {"sending", "done"} : dispatch' = [dispatch EXCEPT ![t] = s]
        /\ finish' = finish \/ (t \notin claimed /\ finish' = [finish EXCEPT ![t] = "draining"])
    BY <1>5 DEF SendTurn, DenyTurn, PreflightFails, SendReturns, SendRejects, Returned, Rejected, Claim
  <2>2. t \notin claimed => finish[t] = "none"
    BY <1>0 DEF TurnInv, Life
  <2>3. \A u \in Turns : StageOf(u)' = StageOf(u)
    BY <1>0, <2>1, <2>2 DEF StageOf
  <2> QED
    BY <1>a, <2>3, StageKept
<1>6. ASSUME NEW t \in Turns, ObserveTerminal(t) \/ FinalizeInterrupted(t)
      PROVE  [Contract!Next]_<<Stages, Acting, Overdue>>
  <2>1. /\ dispatch' = dispatch
        /\ finish' = finish \/ (t \notin claimed /\ finish' = [finish EXCEPT ![t] = "draining"])
    BY <1>6 DEF ObserveTerminal, FinalizeInterrupted, Claim
  <2>2. t \notin claimed => finish[t] = "none"
    BY <1>0 DEF TurnInv, Life
  <2>3. \A u \in Turns : StageOf(u)' = StageOf(u)
    BY <1>0, <2>1, <2>2 DEF StageOf
  <2> QED
    BY <1>a, <2>3, StageKept
<1>7. ASSUME dispatch' = dispatch, finish' = finish PROVE [Contract!Next]_<<Stages, Acting, Overdue>>
  <2>1. \A u \in Turns : StageOf(u)' = StageOf(u)
    BY <1>7 DEF StageOf
  <2> QED
    BY <1>a, <2>1, StageKept
<1>8. ASSUME NEW t \in Turns,
             \/ ObserveStarted(t) \/ EndSilently(t) \/ RequestOpened(t) \/ RequestResolved(t)
             \/ Stop(t) \/ CheckTurnIdle(t) \/ DeadlineExpires(t)
             \/ InterruptReturns(t) \/ InterruptExpires(t) \/ InterruptSettlesLate(t)
             \/ TerminalSeen(t) \/ TerminalTimeout(t) \/ HardStopped(t)
             \/ HardStopFails(t) \/ HardStopFailsLate(t) \/ FinalizerWakes(t)
      PROVE  dispatch' = dispatch /\ finish' = finish
  BY <1>8 DEF ObserveStarted, EndSilently, RequestOpened, RequestResolved, Stop, CheckTurnIdle,
              DeadlineExpires, InterruptReturns, InterruptExpires, Interrupted, InterruptSettlesLate,
              TerminalSeen, TerminalTimeout, HardStopped,
              HardStopFails, HardStopFailsLate, FinalizerWakes
<1>9. CASE BeginMaintenance \/ BeginTeardown \/ TeardownInterrupted \/ TeardownStops \/ EndUpkeep
           \/ UNCHANGED vars
  <2>1. dispatch' = dispatch /\ finish' = finish
    BY <1>9 DEF BeginMaintenance, BeginTeardown, TeardownInterrupted, TeardownStops, EndUpkeep, vars
  <2> QED
    BY <1>7, <2>1
<1> QED
  BY <1>1, <1>2, <1>3, <1>4, <1>5, <1>6, <1>7, <1>8, <1>9, Zenon DEF Next

\* The hub implements its contract (startTurn, finishClaimedTurnAdmission,
\* clearTurnAdmission): the afterTurn hook of a turn runs once, after the last
\* thing of that turn that could act (an interrupt that overran its budget
\* apart) and before the next turn's admission, unless the adapter announced it
\* while it was being interrupted or a late interrupt of another turn hit it.
THEOREM ContractKept == Spec => KeepsContract
<1>1. Init => Contract!Init /\ RevivedInv
  <2> SUFFICES ASSUME Init PROVE Contract!Init /\ RevivedInv
    OBVIOUS
  <2>1. \A t \in Turns : StageOf(t) = "new" /\ Harmless(t)
    BY DEF Init, StageOf, Harmless
  <2> QED
    BY <2>1 DEF Init, Contract!Init, RevivedInv, Late
<1>2. HubInv /\ RevivedInv /\ [Next]_vars => RevivedInv'
  BY RevivedKept
<1>3. HubInv /\ ActingInv /\ ActingInv' /\ RevivedInv /\ [Next]_vars =>
        [Contract!Next]_<<[t \in Turns |-> StageOf(t)], {t \in Turns \ (revived \cup hit) : ~Harmless(t)},
            Late \ revived>>
  BY ContractStep DEF Stages, Acting, Overdue
<1> QED
  BY <1>1, <1>2, <1>3, HubInductive, OnlyAdmittedAct, PTL DEF Spec, KeepsContract, Contract!Spec
=============================================================================
