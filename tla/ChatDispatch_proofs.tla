------------------------ MODULE ChatDispatch_proofs ------------------------
(***************************************************************************)
(* Theorems about ChatDispatch, for every set of requests, dispatch ids,   *)
(* threads and instances and any number of crashes and Stops.              *)
(***************************************************************************)
EXTENDS ChatDispatch, FiniteSetTheorems, TLAPS

-----------------------------------------------------------------------------
(* What the transactions of the outbox return.                             *)

\* The placeholder of a missing row is well typed.
LEMMA AbsentRowType == AbsentRow \in Row
BY StoreAssumption DEF AbsentRow, Row

\* Ordering a new row after the recorded ones needs only finitely many ids.
LEMMA NextSeqType ==
    ASSUME NEW f \in [Dispatches -> Row]
    PROVE  NextSeq(f) \in Nat
<1>1. DOMAIN f = Dispatches
  OBVIOUS
<1>2. {d \in Dispatches : Present(f[d])} \subseteq Dispatches
  OBVIOUS
<1>3. IsFiniteSet({d \in Dispatches : Present(f[d])})
  BY <1>2, StoreAssumption, FS_Subset
<1> QED
  BY <1>1, <1>3, FS_CardinalityType DEF NextSeq

\* A transaction on one row returns a row.
LEMMA StoreTypes ==
    ASSUME NEW row \in Row, NEW t \in Turns, NEW i \in Instances
    PROVE  /\ BindProviderTurn(row, t, i) \in Row
           /\ MarkAccepted(row, t, i) \in Row
           /\ MarkCompleted(row, t, i) \in Row
           /\ MarkFailed(row) \in Row
           /\ CompleteRecovery(row) \in Row
BY DEF Row, Statuses, Open, Settled, WithInstance, BindProviderTurn,
       MarkAccepted, MarkCompleted, MarkFailed, CompleteRecovery

\* The transactions that need neither a turn nor an instance.
LEMMA FailedType ==
    ASSUME NEW row \in Row
    PROVE  MarkFailed(row) \in Row /\ CompleteRecovery(row) \in Row
BY DEF Row, Statuses, Open, Settled, MarkFailed, CompleteRecovery

\* Why Launch accepts unconditionally: what was bound to a turn can be
\* accepted for it.
LEMMA BoundCanBeAccepted ==
    ASSUME NEW row \in Row, NEW t \in Turns, NEW i \in Instances, CanBind(row, t, i)
    PROVE  CanAccept(BindProviderTurn(row, t, i), t, i)
BY DEF Row, Open, Settled, CanBind, CanAccept, BoundAlready, BindProviderTurn,
       WithInstance, InstanceMatches

\* Why Projected completes unconditionally: a row found by its turn can be.
LEMMA FoundCanBeCompleted ==
    ASSUME NEW row \in Row, NEW t \in Turns, NEW i \in Instances,
           Present(row), row.turn = t, row.inst = i
    PROVE  CanComplete(row, t, i)
BY DEF Row, Statuses, Open, Settled, Present, CanComplete, InstanceMatches

\* A transaction on all rows returns rows.
LEMMA SettleType ==
    ASSUME NEW f \in [Dispatches -> Row], NEW th \in Threads, NEW t \in Turns,
           NEW i \in Instances, NEW outcome
    PROVE  SettleByProviderTurn(f, th, i, t, outcome) \in [Dispatches -> Row]
BY StoreTypes DEF SettleByProviderTurn

\* So does the transaction of startup recovery,
LEMMA RecoveredType ==
    ASSUME NEW f \in [Dispatches -> Row]
    PROVE  Recovered(f) \in [Dispatches -> Row]
BY DEF Recovered, Row, Statuses, Open

\* that of a revert,
LEMMA RevertedType ==
    ASSUME NEW f \in [Dispatches -> Row], NEW th, NEW boundary
    PROVE  Reverted(f, th, boundary) \in [Dispatches -> Row]
BY DEF Reverted, Row, Statuses

\* and the insertion of a new row.
LEMMA InsertedType ==
    ASSUME NEW f \in [Dispatches -> Row], NEW th \in Threads, NEW p \in Prints,
           NEW i \in Instances \cup {NoInst}
    PROVE  Inserted(f, th, p, i) \in Row
BY NextSeqType DEF Inserted, Row, Statuses, Open

\* A retry of a recorded dispatch is answered with a reply.
LEMMA ResponseType ==
    ASSUME NEW row \in Row
    PROVE  ExistingResponse(row) \in Replies
BY RequestAssumption DEF ExistingResponse, Replies, Reply, Row

-----------------------------------------------------------------------------
(* Type correctness.                                                       *)

\* The answer for a known id is a reply.
LEMMA KnownType ==
    ASSUME TypeOK, NEW r \in Requests, AnswerKnown(r)
    PROVE  /\ pc' \in [Requests -> {"new", "preparing", "joined", "admitting",
                                    "attaching", "answered", "lost"}]
           /\ reply' \in [Requests -> Replies]
           /\ leader' \in [Requests -> Requests \cup {NoReq}]
<1>1. ExistingResponse(rows[dispatchOf[r]]) \in Replies
  BY ResponseType, RequestAssumption DEF TypeOK
<1>2. Error("dispatch_id_conflict") \in Replies
  BY DEF Error, Reply, Replies
<1>3. InFlight(r) \in Requests \cup {NoReq}
  BY RequestAssumption DEF TypeOK, InFlight, KeyOf
<1>4. pc' \in [Requests -> {"new", "preparing", "joined", "admitting",
                           "attaching", "answered", "lost"}]
  BY DEF TypeOK, AnswerKnown, Answered
<1>5. reply' \in [Requests -> Replies]
  BY <1>1, <1>2 DEF TypeOK, AnswerKnown, Answered
<1>6. leader' \in [Requests -> Requests \cup {NoReq}]
  BY <1>3 DEF TypeOK, AnswerKnown, Answered
<1> QED
  BY <1>4, <1>5, <1>6

\* Losing track of the volatile state keeps the types.
LEMMA RestartedType ==
    ASSUME TypeOK, Restarted
    PROVE  /\ pc' \in [Requests -> {"new", "preparing", "joined", "admitting",
                                    "attaching", "answered", "lost"}]
           /\ reply' \in [Requests -> Replies]
           /\ leader' \in [Requests -> Requests \cup {NoReq}]
           /\ inflight' \in [Threads \X Dispatches -> Requests \cup {NoReq}]
           /\ token' \in [Threads -> Requests \cup {NoReq}]
           /\ maintenance' \subseteq Threads
           /\ hub' \in [Threads -> Requests \cup {NoReq}]
           /\ dispatching' \subseteq Requests
           /\ session' \in [Requests -> Nat]
           /\ stop' \in [Threads ->
                   [at : {"idle", "recovering", "signalling", "interrupting"},
                    turn : Requests \cup {NoReq}]]
           /\ tainted' \in BOOLEAN
           /\ phase' \in {"replaying", "recovering", "serving"}
           /\ stops' \in Nat
BY DEF TypeOK, Restarted, IdleStop

\* What a crash makes of the turns and of their terminal events.
LEMMA KilledType ==
    ASSUME TypeOK, NEW from \in {"queued"}, NEW to \in {"none", "journaled"}
    PROVE  /\ Killed(turn) \in [Requests -> Ended \cup {"none", "running", "dead"}]
           /\ Moved(from, to) \in
                [Requests -> {"none", "queued", "journaled", "receipted"}]
BY DEF TypeOK, Killed, Moved

\* Projecting a terminal event keeps the outbox well typed.
LEMMA ProjectedType ==
    ASSUME TypeOK, NEW r \in Requests
    PROVE  Projected(r) \in [Dispatches -> Row]
BY SettleType, RequestAssumption DEF TypeOK, Projected

\* So does recording a rejection, a binding or an acceptance.
LEMMA RowUpdateTypes ==
    ASSUME TypeOK, NEW r \in Requests
    PROVE  /\ Rejected(r) \in [Dispatches -> Row]
           /\ Bound(r) \in [Dispatches -> Row]
           /\ Accepted(r) \in [Dispatches -> Row]
<1>1. rows[dispatchOf[r]] \in Row /\ r \in Turns /\ hubInstOf[r] \in Instances
  BY RequestAssumption DEF TypeOK
<1>2. /\ MarkFailed(rows[dispatchOf[r]]) \in Row
      /\ BindProviderTurn(rows[dispatchOf[r]], r, hubInstOf[r]) \in Row
  BY <1>1, StoreTypes
<1>3. MarkAccepted(BindProviderTurn(rows[dispatchOf[r]], r, hubInstOf[r]),
                   r, hubInstOf[r]) \in Row
  BY <1>1, <1>2, StoreTypes
<1> QED
  BY <1>2, <1>3 DEF TypeOK, Rejected, Bound, Accepted

\* A rotated generation is again a generation.
LEMMA RotatedType ==
    ASSUME TypeOK, NEW d \in Dispatches
    PROVE  Rotated(rows[d].thread) \in [Threads -> Nat \ {0}]
<1>1. rows[d].thread \in Threads
  BY DEF TypeOK, Row
<1> QED
  BY <1>1 DEF TypeOK, Rotated

\* TypeOK alone is not inductive: a coalesced retry takes over the answer of
\* its leader, so it must have one.
JoinedHasLeader ==
    \A r \in Requests : pc[r] = "joined" => leader[r] \in Requests

\* Every variable keeps its type.
THEOREM TypeCorrect == Spec => [](TypeOK /\ JoinedHasLeader)
<1> USE RequestAssumption DEF durable, admission, turns, backend, stopping
<1>1. Init => TypeOK
  <2> SUFFICES ASSUME Init PROVE TypeOK
    OBVIOUS
  <2>1. rows \in [Dispatches -> Row]
    BY AbsentRowType DEF Init
  <2>2. reply \in [Requests -> Replies]
    BY DEF Init, NoReply, Reply, Replies
  <2>3. /\ terminal \in [Requests -> {"none", "queued", "journaled", "receipted"}]
        /\ turn \in [Requests -> Ended \cup {"none", "running", "dead"}]
        /\ gen \in [Threads -> Nat \ {0}]
        /\ inflight \in [Threads \X Dispatches -> Requests \cup {NoReq}]
    BY DEF Init
  <2> QED
    BY <2>1, <2>2, <2>3 DEF Init, TypeOK, IdleStop
<1>2. TypeOK /\ JoinedHasLeader /\ [Next]_vars => TypeOK'
  <2> SUFFICES ASSUME TypeOK, JoinedHasLeader, [Next]_vars PROVE TypeOK'
    OBVIOUS
  <2>1. ASSUME NEW r \in Requests, Arrive(r) PROVE TypeOK'
    BY <2>1, KnownType DEF TypeOK, Arrive
  <2>2. ASSUME NEW r \in Requests, RefuseEarly(r) PROVE TypeOK'
    BY <2>2 DEF TypeOK, RefuseEarly, Answered, Error, Reply, Replies
  <2>3. ASSUME NEW r \in Requests, Replay(r) PROVE TypeOK'
    BY <2>3 DEF TypeOK, JoinedHasLeader, Replay, Answered
  <2>4. ASSUME NEW r \in Requests, ReserveBusy(r) PROVE TypeOK'
    <3>1. UNCHANGED <<durable, inflight, token, maintenance, turns, stopping,
                      backend>>
      BY <2>4 DEF ReserveBusy
    <3>2. CASE AnswerKnown(r)
      BY <3>1, <3>2, KnownType DEF TypeOK
    <3>3. CASE Answered(r, Error("turn_active")) /\ UNCHANGED leader
      BY <3>1, <3>3 DEF TypeOK, Answered, Error, Reply, Replies
    <3> QED
      BY <2>4, <3>2, <3>3 DEF ReserveBusy
  <2>5. ASSUME NEW r \in Requests, ReserveExisting(r) PROVE TypeOK'
    BY <2>5, ResponseType DEF TypeOK, ReserveExisting, Answered, Error, Reply, Replies, KeyOf
  <2>6. ASSUME NEW r \in Requests, Reserve(r) PROVE TypeOK'
    BY <2>6, InsertedType DEF TypeOK, Reserve, KeyOf
  <2>7. ASSUME NEW r \in Requests, Refuse(r) PROVE TypeOK'
    BY <2>7, RowUpdateTypes DEF TypeOK, Refuse, Answered, Error, Reply, Replies, WithoutToken, WithoutInflight, KeyOf
  <2>8. ASSUME NEW r \in Requests, Launch(r) PROVE TypeOK'
    BY <2>8, RowUpdateTypes DEF TypeOK, Launch, Ended
  <2>9. ASSUME NEW r \in Requests, LaunchUnbindable(r) PROVE TypeOK'
    BY <2>9, RowUpdateTypes DEF TypeOK, LaunchUnbindable, Answered, Error, Reply, Replies, WithoutToken, WithoutInflight, KeyOf
  <2>10. ASSUME NEW r \in Requests, Attached(r) PROVE TypeOK'
    BY <2>10 DEF TypeOK, Attached, Answered, Reply, Replies, WithoutInflight, KeyOf
  <2>11. ASSUME NEW r \in Requests, AttachFails(r) PROVE TypeOK'
    BY <2>11 DEF TypeOK, AttachFails, Answered, Error, Reply, Replies, WithoutInflight, KeyOf
  <2>12. ASSUME NEW r \in Requests, SessionReady(r) PROVE TypeOK'
    BY <2>12 DEF TypeOK, SessionReady
  <2>13. ASSUME NEW r \in Requests, TurnEnds(r) PROVE TypeOK'
    BY <2>13 DEF TypeOK, TurnEnds, Emitted, Ended
  <2>14. ASSUME NEW r \in Requests, DispatchReturns(r) PROVE TypeOK'
    BY <2>14 DEF TypeOK, DispatchReturns
  <2>15. ASSUME NEW r \in Requests, DispatchRejects(r) PROVE TypeOK'
    BY <2>15, RowUpdateTypes DEF TypeOK, DispatchRejects, Emitted, Ended
  <2>16. ASSUME NEW r \in Requests, TurnCleared(r) PROVE TypeOK'
    BY <2>16 DEF TypeOK, TurnCleared, WithoutToken
  <2>17. ASSUME NEW r \in Requests, DeliverTerminal(r) PROVE TypeOK'
    BY <2>17, ProjectedType DEF TypeOK, DeliverTerminal
  <2>18. ASSUME NEW r \in Requests, ReplayTerminal(r) PROVE TypeOK'
    BY <2>18, ProjectedType DEF TypeOK, ReplayTerminal
  <2>19. ASSUME NEW r \in Requests, CrashLaunching(r) PROVE TypeOK'
    BY <2>19, RestartedType, KilledType, RowUpdateTypes DEF TypeOK, CrashLaunching, Crashed
  <2>20. ASSUME NEW r \in Requests, CrashDelivering(r) PROVE TypeOK'
    BY <2>20, RestartedType, KilledType, ProjectedType DEF TypeOK, CrashDelivering, Crashed
  <2>21. ASSUME NEW t \in Threads, StopArrives(t) PROVE TypeOK'
    BY <2>21 DEF TypeOK, StopArrives
  <2>22. ASSUME NEW t \in Threads, StopRecovered(t) PROVE TypeOK'
    BY <2>22 DEF TypeOK, StopRecovered
  <2>23. ASSUME NEW t \in Threads, StopFinishes(t) PROVE TypeOK'
    BY <2>23, FailedType DEF TypeOK, StopFinishes, IdleStop
  <2>24. ASSUME NEW t \in Threads, StopFails(t) PROVE TypeOK'
    BY <2>24 DEF TypeOK, StopFails, IdleStop
  <2>25. ASSUME NEW t \in Threads, BeginRevert(t) PROVE TypeOK'
    BY <2>25 DEF TypeOK, BeginRevert
  <2>26. ASSUME NEW t \in Threads, EndRevert(t) PROVE TypeOK'
    BY <2>26, RevertedType DEF TypeOK, EndRevert
  <2>27. ASSUME NEW d \in Dispatches, CrashRecovering(d) PROVE TypeOK'
    BY <2>27, RestartedType, KilledType, RotatedType DEF TypeOK, CrashRecovering, Crashed
  <2>28. ASSUME NEW d \in Dispatches, RecoverOne(d) PROVE TypeOK'
    BY <2>28, RotatedType, FailedType DEF TypeOK, RecoverOne
  <2>29. CASE Crash
    BY <2>29, RestartedType, KilledType DEF TypeOK, Crash, Crashed
  <2>30. CASE EmergencyRestart
    BY <2>30, RestartedType, KilledType DEF TypeOK, EmergencyRestart
  <2>31. CASE RecoverPending
    BY <2>31, RecoveredType DEF TypeOK, RecoverPending
  <2>32. CASE OpenHttp
    BY <2>32 DEF TypeOK, OpenHttp
  <2>33. CASE UNCHANGED vars
    BY <2>33 DEF TypeOK, vars
  <2> QED
    BY <2>1, <2>2, <2>3, <2>4, <2>5, <2>6, <2>7, <2>8, <2>9, <2>10, <2>11, <2>12, <2>13, <2>14, <2>15, <2>16, <2>17, <2>18, <2>19, <2>20, <2>21, <2>22, <2>23, <2>24, <2>25, <2>26, <2>27, <2>28, <2>29, <2>30, <2>31, <2>32, <2>33
       DEF Next, Admission, DispatchSettles, Stopping, Recovery
<1>3. JoinedHasLeader /\ TypeOK /\ [Next]_vars => JoinedHasLeader'
  <2> SUFFICES ASSUME JoinedHasLeader, TypeOK, [Next]_vars PROVE JoinedHasLeader'
    OBVIOUS
  <2>1. ASSUME NEW r \in Requests, AnswerKnown(r) PROVE JoinedHasLeader'
    BY <2>1 DEF JoinedHasLeader, AnswerKnown, Answered, TypeOK, InFlight, KeyOf
  <2>2. ASSUME NEW r \in Requests, NEW answer, Answered(r, answer),
               UNCHANGED leader
        PROVE  JoinedHasLeader'
    BY <2>2 DEF JoinedHasLeader, Answered, TypeOK
  <2>3. ASSUME Restarted PROVE JoinedHasLeader'
    BY <2>3 DEF JoinedHasLeader, Restarted
  <2>4. ASSUME UNCHANGED <<pc, leader>> PROVE JoinedHasLeader'
    BY <2>4 DEF JoinedHasLeader
  <2>5. ASSUME NEW r \in Requests, Arrive(r) \/ Admission(r) PROVE JoinedHasLeader'
    <3>1. CASE Arrive(r) \/ ReserveBusy(r)
      BY <2>1, <2>2, <3>1 DEF Arrive, ReserveBusy, JoinedHasLeader, TypeOK
    <3>2. CASE RefuseEarly(r) \/ Replay(r) \/ ReserveExisting(r) \/ Refuse(r)
                 \/ LaunchUnbindable(r) \/ Attached(r) \/ AttachFails(r)
      BY <2>2, <3>2 DEF RefuseEarly, Replay, ReserveExisting, Refuse,
                        LaunchUnbindable, Attached, AttachFails
    <3>3. CASE Reserve(r) \/ Launch(r)
      BY <3>3 DEF Reserve, Launch, JoinedHasLeader, TypeOK
    <3> QED
      BY <2>5, <3>1, <3>2, <3>3 DEF Admission
  <2>6. ASSUME NEW r \in Requests,
               SessionReady(r) \/ TurnEnds(r) \/ DispatchSettles(r) \/ TurnCleared(r)
                 \/ DeliverTerminal(r) \/ ReplayTerminal(r)
        PROVE  JoinedHasLeader'
    BY <2>4, <2>6 DEF SessionReady, TurnEnds, DispatchSettles, DispatchReturns,
                      DispatchRejects, TurnCleared, DeliverTerminal, ReplayTerminal
  <2>7. ASSUME NEW t \in Threads,
               StopArrives(t) \/ Stopping(t) \/ BeginRevert(t) \/ EndRevert(t)
        PROVE  JoinedHasLeader'
    BY <2>4, <2>7 DEF StopArrives, Stopping, StopRecovered, StopFinishes, StopFails,
                      BeginRevert, EndRevert
  <2>8. ASSUME \/ \E r \in Requests : CrashLaunching(r) \/ CrashDelivering(r)
               \/ \E d \in Dispatches : CrashRecovering(d)
               \/ Crash \/ EmergencyRestart
        PROVE  JoinedHasLeader'
    BY <2>3, <2>8 DEF CrashLaunching, CrashDelivering, CrashRecovering, Crash,
                      EmergencyRestart, Crashed
  <2>9. ASSUME Recovery PROVE JoinedHasLeader'
    BY <2>4, <2>9 DEF Recovery, RecoverPending, OpenHttp, RecoverOne
  <2>10. CASE UNCHANGED vars
    BY <2>4, <2>10 DEF vars
  <2> QED
    BY <2>5, <2>6, <2>7, <2>8, <2>9, <2>10 DEF Next
<1>4. Init => JoinedHasLeader
  BY DEF Init, JoinedHasLeader
<1> QED
  BY <1>1, <1>2, <1>3, <1>4, PTL DEF Spec

-----------------------------------------------------------------------------
(* The turn token.                                                         *)

\* The inductive strengthening of TurnHoldsToken and NoLeakedToken: a token
\* is held for a request of its own thread, an admission holds it while it
\* needs it, and the hub's turn is past its admission.
TokenInv ==
    /\ TurnHoldsToken
    /\ NoLeakedToken
    /\ \A t \in Threads : token[t] # NoReq =>
          threadOf[token[t]] = t /\ t \notin maintenance
    /\ \A r \in Requests : pc[r] = "admitting" => token[threadOf[r]] = r
    /\ \A t \in Threads : hub[t] # NoReq => pc[hub[t]] \in {"attaching", "answered"}

\* It depends only on the token, the hub, the maintenance and the progress of
\* requests through their admission.
LEMMA TokenFrame ==
    ASSUME TypeOK, TokenInv, UNCHANGED <<token, hub, maintenance>>,
           NEW r \in Requests, NEW to \in {"preparing", "joined", "answered"},
           pc[r] # "admitting",
           to # "answered" => pc[r] \in {"new", "preparing"},
           pc' = [pc EXCEPT ![r] = to]
    PROVE  TokenInv'
<1> USE RequestAssumption DEF TokenInv, TypeOK
<1>1. \A s \in Requests : pc'[s] = "admitting" <=> pc[s] = "admitting"
  OBVIOUS
<1>2. \A t \in Threads : hub[t] # NoReq => pc'[hub[t]] \in {"attaching", "answered"}
  OBVIOUS
<1>3. TurnHoldsToken'
  BY DEF TurnHoldsToken
<1>4. NoLeakedToken'
  BY <1>1 DEF NoLeakedToken
<1> QED
  BY <1>1, <1>2, <1>3, <1>4

\* A step that touches none of what the token invariant reads keeps it.
LEMMA TokenUnchanged ==
    ASSUME TokenInv, UNCHANGED <<token, hub, maintenance, pc>>
    PROVE  TokenInv'
BY DEF TokenInv, TurnHoldsToken, NoLeakedToken

\* The token moves from the admission to the hub's turn without a gap.
THEOREM TokenSafety == Spec => [](TurnHoldsToken /\ NoLeakedToken)
<1> USE RequestAssumption DEF durable, admission, turns, backend, stopping
<1>1. Init => TokenInv
  BY DEF Init, TokenInv, TurnHoldsToken, NoLeakedToken
<1>2. TypeOK /\ TokenInv /\ [Next]_vars => TokenInv'
  <2> SUFFICES ASSUME TypeOK, TokenInv, [Next]_vars PROVE TokenInv'
    OBVIOUS
  <2>1. ASSUME NEW r \in Requests, AnswerKnown(r), pc[r] \in {"new", "preparing"},
               UNCHANGED <<token, hub, maintenance>>
        PROVE  TokenInv'
    BY <2>1, TokenFrame DEF AnswerKnown, Answered
  <2>2. ASSUME NEW r \in Requests, Arrive(r) PROVE TokenInv'
    BY <2>1, <2>2, TokenFrame DEF Arrive
  <2>3. ASSUME NEW r \in Requests, ReserveBusy(r) PROVE TokenInv'
    BY <2>1, <2>3, TokenFrame DEF ReserveBusy, Answered
  <2>4. ASSUME NEW r \in Requests,
               RefuseEarly(r) \/ Replay(r) \/ ReserveExisting(r)
                 \/ Attached(r) \/ AttachFails(r)
        PROVE  TokenInv'
    BY <2>4, TokenFrame DEF RefuseEarly, Replay, ReserveExisting, Attached,
                            AttachFails, Answered
  <2>5. ASSUME NEW r \in Requests, Reserve(r) PROVE TokenInv'
    BY <2>5 DEF Reserve, Busy, TypeOK, TokenInv, TurnHoldsToken, NoLeakedToken
  <2>6. ASSUME NEW r \in Requests, Refuse(r) \/ LaunchUnbindable(r) PROVE TokenInv'
    <3>1. /\ pc[r] = "admitting" /\ pc' = [pc EXCEPT ![r] = "answered"]
          /\ token' = [token EXCEPT ![threadOf[r]] = IF @ = r THEN NoReq ELSE @]
          /\ UNCHANGED <<hub, maintenance>>
      BY <2>6 DEF Refuse, LaunchUnbindable, Answered, WithoutToken
    <3>2. token' = [token EXCEPT ![threadOf[r]] = NoReq] /\ threadOf[r] \in Threads
      BY <3>1 DEF TypeOK, TokenInv
    <3>3. hub[threadOf[r]] = NoReq
      BY <3>1, <3>2 DEF TypeOK, TokenInv, TurnHoldsToken
    <3>4. TurnHoldsToken' /\ NoLeakedToken'
      BY <3>1, <3>2, <3>3 DEF TypeOK, TokenInv, TurnHoldsToken, NoLeakedToken
    <3>5. \A s \in Requests : pc'[s] = "admitting" => token'[threadOf[s]] = s
      BY <3>1, <3>2 DEF TypeOK, TokenInv
    <3>6. \A t \in Threads : hub'[t] # NoReq => pc'[hub'[t]] \in {"attaching", "answered"}
      BY <3>1 DEF TypeOK, TokenInv
    <3> QED
      BY <3>1, <3>2, <3>4, <3>5, <3>6 DEF TypeOK, TokenInv
  <2>7. ASSUME NEW r \in Requests, Launch(r) PROVE TokenInv'
    BY <2>7 DEF Launch, TypeOK, TokenInv, TurnHoldsToken, NoLeakedToken
  <2>8. ASSUME NEW r \in Requests, TurnCleared(r) PROVE TokenInv'
    BY <2>8 DEF TurnCleared, WithoutToken, TypeOK, TokenInv, TurnHoldsToken,
                NoLeakedToken
  <2>9. ASSUME NEW r \in Requests,
               SessionReady(r) \/ TurnEnds(r) \/ DispatchSettles(r)
                 \/ DeliverTerminal(r) \/ ReplayTerminal(r)
        PROVE  TokenInv'
    BY <2>9, TokenUnchanged DEF SessionReady, TurnEnds, DispatchSettles,
             DispatchReturns, DispatchRejects, DeliverTerminal, ReplayTerminal
  <2>10. ASSUME NEW t \in Threads, StopArrives(t) \/ Stopping(t) PROVE TokenInv'
    BY <2>10, TokenUnchanged DEF StopArrives, Stopping, StopRecovered,
              StopFinishes, StopFails
  <2>11. ASSUME NEW t \in Threads, BeginRevert(t) \/ EndRevert(t) PROVE TokenInv'
    BY <2>11 DEF BeginRevert, EndRevert, Busy, TypeOK, TokenInv, TurnHoldsToken,
                 NoLeakedToken
  <2>12. ASSUME Restarted PROVE TokenInv'
    BY <2>12 DEF Restarted, TypeOK, TokenInv, TurnHoldsToken, NoLeakedToken
  <2>13. ASSUME \/ \E r \in Requests : CrashLaunching(r) \/ CrashDelivering(r)
                \/ \E d \in Dispatches : CrashRecovering(d)
                \/ Crash \/ EmergencyRestart
         PROVE  TokenInv'
    BY <2>12, <2>13 DEF CrashLaunching, CrashDelivering, CrashRecovering, Crash,
                        EmergencyRestart, Crashed
  <2>14. ASSUME Recovery PROVE TokenInv'
    BY <2>14, TokenUnchanged DEF Recovery, RecoverPending, OpenHttp, RecoverOne
  <2>15. CASE UNCHANGED vars
    BY <2>15, TokenUnchanged DEF vars
  <2> QED
    BY <2>2, <2>3, <2>4, <2>5, <2>6, <2>7, <2>8, <2>9, <2>10, <2>11, <2>13, <2>14,
       <2>15 DEF Next, Admission
<1> QED
  BY <1>1, <1>2, TypeCorrect, PTL DEF Spec, TokenInv

-----------------------------------------------------------------------------
(* At most one turn per dispatch id.                                       *)

\* g records the same dispatches under the same turns as f.
SameTurns(f, g) ==
    \A d \in Dispatches :
        g[d].turn = f[d].turn /\ (Present(g[d]) <=> Present(f[d]))

\* Only binding, accepting and reserving touch the turn of a row.
LEMMA RowKeepsTurn ==
    ASSUME NEW row \in Row
    PROVE  /\ MarkFailed(row).turn = row.turn
           /\ Present(MarkFailed(row)) <=> Present(row)
           /\ CompleteRecovery(row).turn = row.turn
           /\ Present(CompleteRecovery(row)) <=> Present(row)
BY DEF Row, Statuses, Open, Settled, Present, MarkFailed, CompleteRecovery

\* A terminal event settles rows, but leaves each its turn.
LEMMA SettleKeepsTurns ==
    ASSUME NEW f \in [Dispatches -> Row], NEW th \in Threads, NEW t \in Turns,
           NEW i \in Instances, NEW outcome
    PROVE  SameTurns(f, SettleByProviderTurn(f, th, i, t, outcome))
<1>1. ASSUME NEW row \in Row, row.turn = t
      PROVE  /\ MarkCompleted(row, t, i).turn = row.turn
             /\ Present(MarkCompleted(row, t, i)) <=> Present(row)
  BY <1>1 DEF Row, Statuses, Open, Settled, Present, MarkCompleted, WithInstance
<1> QED
  BY <1>1, RowKeepsTurn DEF SameTurns, SettleByProviderTurn, ByProviderTurn

\* Startup recovery keeps the turn of every row.
LEMMA RecoveredKeepsTurns ==
    ASSUME NEW f \in [Dispatches -> Row]
    PROVE  SameTurns(f, Recovered(f))
BY DEF SameTurns, Recovered, Row, Present, Open

\* So does a revert.
LEMMA RevertedKeepsTurns ==
    ASSUME NEW f \in [Dispatches -> Row], NEW th, NEW boundary
    PROVE  SameTurns(f, Reverted(f, th, boundary))
BY DEF SameTurns, Reverted, Row, Present

\* What a launch writes: the row, not bound before, now names the turn.
LEMMA BoundTurn ==
    ASSUME NEW row \in Row, NEW t \in Turns, NEW i \in Instances,
           row.turn # t, CanBind(row, t, i)
    PROVE  /\ row.turn = NoTurn /\ row.status = "pending"
           /\ BindProviderTurn(row, t, i).turn = t
           /\ BindProviderTurn(row, t, i).status = "pending"
           /\ MarkAccepted(BindProviderTurn(row, t, i), t, i).turn = t
           /\ MarkAccepted(BindProviderTurn(row, t, i), t, i).status = "accepted"
BY DEF Row, CanBind, BoundAlready, BindProviderTurn, MarkAccepted, WithInstance

Unlaunched == {"new", "preparing", "joined", "admitting"}

\* The inductive strengthening of WriteAhead: a launched turn is the one its
\* row names, a row names no other turn than one launched for it, and a
\* request that may still launch has not launched.
LaunchInv ==
    /\ WriteAhead
    /\ \A d \in Dispatches : rows[d].turn # NoTurn =>
          /\ Present(rows[d])
          /\ Launched(rows[d].turn)
          /\ dispatchOf[rows[d].turn] = d
    /\ \A r \in Requests : pc[r] \in Unlaunched => ~Launched(r)

\* Steps that launch nothing and record nothing keep it.
LEMMA LaunchFrame ==
    ASSUME TypeOK, TypeOK', LaunchInv, SameTurns(rows, rows'),
           \A r \in Requests : turn'[r] # "none" <=> turn[r] # "none",
           \A r \in Requests : pc'[r] \in Unlaunched => pc[r] \in Unlaunched
    PROVE  LaunchInv'
<1>1. \A d \in Dispatches : rows'[d].turn = rows[d].turn
  BY DEF SameTurns
<1>2. \A d \in Dispatches : Present(rows'[d]) <=> Present(rows[d])
  BY DEF SameTurns
<1>3. \A r \in Requests : dispatchOf[r] \in Dispatches
  BY RequestAssumption
<1>4. \A d \in Dispatches : rows[d].turn # NoTurn => rows[d].turn \in Requests
  BY RequestAssumption DEF TypeOK, Row
<1>5. WriteAhead'
  <2> SUFFICES ASSUME NEW r \in Requests, turn'[r] # "none"
               PROVE  rows'[dispatchOf[r]].turn = r
    BY DEF WriteAhead, Launched
  <2> QED
    BY <1>1, <1>3 DEF LaunchInv, WriteAhead, Launched
<1>6. ASSUME NEW d \in Dispatches, rows'[d].turn # NoTurn
      PROVE  Present(rows'[d]) /\ turn'[rows'[d].turn] # "none"
               /\ dispatchOf[rows'[d].turn] = d
  BY <1>1, <1>2, <1>4, <1>6 DEF LaunchInv, Launched
<1>7. ASSUME NEW r \in Requests, pc'[r] \in Unlaunched PROVE turn'[r] = "none"
  BY <1>7 DEF LaunchInv, Launched
<1> QED
  BY <1>5, <1>6, <1>7 DEF LaunchInv, Launched, Unlaunched, Present

\* The frame's condition on turns, for the ways a turn changes its state.
LEMMA LaunchedKept ==
    ASSUME TypeOK,
           \/ turn' = turn
           \/ turn' = Killed(turn)
           \/ \E r \in Requests, o \in Ended :
                 turn[r] = "running" /\ turn' = [turn EXCEPT ![r] = o]
    PROVE  \A r \in Requests : turn'[r] # "none" <=> turn[r] # "none"
BY DEF TypeOK, Killed, Ended

\* A step that leaves the rows alone changes no turn of a row.
LEMMA SameTurnsRefl == rows' = rows => SameTurns(rows, rows')
BY DEF SameTurns

\* What an admission or a completion handler marks changes no turn of a row.
LEMMA RejectedKeepsTurns ==
    ASSUME TypeOK, NEW r \in Requests, rows' = Rejected(r)
    PROVE  SameTurns(rows, rows')
BY RequestAssumption, RowKeepsTurn DEF SameTurns, Rejected, TypeOK

\* Nor does a terminal event.
LEMMA ProjectedKeepsTurns ==
    ASSUME TypeOK, NEW r \in Requests, rows' = Projected(r)
    PROVE  SameTurns(rows, rows')
BY RequestAssumption, SettleKeepsTurns DEF Projected, TypeOK

\* Launching a turn for a row that could be bound to it.
LEMMA LaunchStep ==
    ASSUME TypeOK, TypeOK', LaunchInv, NEW r \in Requests, pc[r] = "admitting",
           rows'[dispatchOf[r]].turn = r, Present(rows'[dispatchOf[r]]),
           rows[dispatchOf[r]].turn = NoTurn,
           \A d \in Dispatches : d # dispatchOf[r] => rows'[d] = rows[d],
           turn'[r] # "none",
           \A s \in Requests : s # r => (turn'[s] # "none" <=> turn[s] # "none"),
           pc'[r] \notin Unlaunched,
           \A s \in Requests : pc'[s] \in Unlaunched => pc[s] \in Unlaunched
    PROVE  LaunchInv'
<1> DEFINE d == dispatchOf[r]
<1>1. d \in Dispatches /\ \A s \in Requests : dispatchOf[s] \in Dispatches
  BY RequestAssumption
<1>2. \A s \in Requests : s # NoTurn
  BY RequestAssumption, StoreAssumption
<1>3. ASSUME NEW s \in Requests, s # r, turn'[s] # "none"
      PROVE  rows'[dispatchOf[s]].turn = s
  <2>1. rows[dispatchOf[s]].turn = s
    BY <1>3 DEF LaunchInv, WriteAhead, Launched
  <2>2. dispatchOf[s] # d
    BY <2>1, <1>2
  <2> QED
    BY <2>1, <2>2, <1>1
<1>4. WriteAhead'
  BY <1>3 DEF WriteAhead, Launched
<1>5. ASSUME NEW e \in Dispatches, rows'[e].turn # NoTurn
      PROVE  Present(rows'[e]) /\ turn'[rows'[e].turn] # "none"
               /\ dispatchOf[rows'[e].turn] = e
  <2>1. CASE e = d
    BY <2>1
  <2>2. CASE e # d
    <3>1. rows'[e] = rows[e] /\ rows[e].turn \in Requests
      BY <2>2, <1>5, RequestAssumption DEF TypeOK, Row
    <3>2. /\ Present(rows[e]) /\ turn[rows[e].turn] # "none"
          /\ dispatchOf[rows[e].turn] = e
      BY <3>1, <1>5 DEF LaunchInv, Launched
    <3> QED
      BY <3>1, <3>2, <2>2
  <2> QED
    BY <2>1, <2>2
<1>6. ASSUME NEW s \in Requests, pc'[s] \in Unlaunched PROVE turn'[s] = "none"
  BY <1>6 DEF LaunchInv, Launched
<1> QED
  BY <1>4, <1>5, <1>6 DEF LaunchInv, Launched, Present

\* With auto-save, LaunchInv is an invariant.
LEMMA LaunchInductive ==
    ASSUME AutoSave PROVE Spec => []LaunchInv
<1>1. Init => LaunchInv
  BY RequestAssumption DEF Init, LaunchInv, WriteAhead, Launched, AbsentRow, Unlaunched
<1>2. TypeOK /\ TypeOK' /\ LaunchInv /\ [Next]_vars => LaunchInv'
  <2> SUFFICES ASSUME TypeOK, TypeOK', LaunchInv, [Next]_vars PROVE LaunchInv'
    OBVIOUS
  <2>1. ASSUME SameTurns(rows, rows'), turn' = turn,
               \A r \in Requests : pc'[r] \in Unlaunched => pc[r] \in Unlaunched
        PROVE  LaunchInv'
    BY <2>1, LaunchFrame
  <2>2. ASSUME NEW r \in Requests, AnswerKnown(r),
               pc[r] \in {"new", "preparing"}, rows' = rows, turn' = turn
        PROVE  LaunchInv'
    <3>1. \A s \in Requests : pc'[s] \in Unlaunched => pc[s] \in Unlaunched
      BY <2>2 DEF AnswerKnown, Answered, TypeOK, Unlaunched
    <3> QED
      BY <2>1, <2>2, <3>1, SameTurnsRefl
  <2>3. ASSUME NEW r \in Requests, NEW answer, Answered(r, answer),
               SameTurns(rows, rows'), turn' = turn
        PROVE  LaunchInv'
    <3>1. \A s \in Requests : pc'[s] \in Unlaunched => pc[s] \in Unlaunched
      BY <2>3 DEF Answered, TypeOK, Unlaunched
    <3> QED
      BY <2>1, <2>3, <3>1
  <2>4. ASSUME NEW r \in Requests, Arrive(r) PROVE LaunchInv'
    <3>1. CASE AnswerKnown(r)
      BY <2>2, <2>4, <3>1 DEF Arrive, durable, turns
    <3>2. CASE pc' = [pc EXCEPT ![r] = "preparing"]
      <4>1. \A s \in Requests : pc'[s] \in Unlaunched => pc[s] \in Unlaunched
        BY <2>4, <3>2 DEF Arrive, TypeOK, Unlaunched
      <4> QED
        BY <2>1, <2>4, <4>1, SameTurnsRefl DEF Arrive, durable, turns
    <3> QED
      BY <2>4, <3>1, <3>2 DEF Arrive
  <2>5. ASSUME NEW r \in Requests, RefuseEarly(r) \/ Replay(r) PROVE LaunchInv'
    BY <2>3, <2>5, SameTurnsRefl DEF RefuseEarly, Replay, durable, turns
  <2>6. ASSUME NEW r \in Requests, ReserveBusy(r) PROVE LaunchInv'
    <3>1. CASE AnswerKnown(r)
      BY <2>2, <2>6, <3>1 DEF ReserveBusy, durable, turns
    <3>2. CASE Answered(r, Error("turn_active"))
      BY <2>3, <2>6, <3>2, SameTurnsRefl DEF ReserveBusy, durable, turns
    <3> QED
      BY <2>6, <3>1, <3>2 DEF ReserveBusy
  <2>7. ASSUME NEW r \in Requests, ReserveExisting(r) PROVE LaunchInv'
    BY <2>3, <2>7, SameTurnsRefl DEF ReserveExisting, durable, turns
  <2>8. ASSUME NEW r \in Requests, Reserve(r) PROVE LaunchInv'
    <3> DEFINE d == dispatchOf[r]
    <3>1. d \in Dispatches
      BY RequestAssumption
    <3>2. ~Present(rows[d]) /\ turn' = turn
      BY <2>8 DEF Reserve, Recorded, turns
    <3>3. rows[d].turn = NoTurn
      BY <3>1, <3>2 DEF LaunchInv
    <3>4. \A s \in Requests : pc'[s] \in Unlaunched => pc[s] \in Unlaunched
      BY <2>8 DEF Reserve, TypeOK, Unlaunched
    <3>5. \A e \in Dispatches : rows'[e].turn = rows[e].turn
                                 /\ (e # d => rows'[e] = rows[e])
      BY <2>8, <3>1, <3>3 DEF Reserve, TypeOK, Inserted
    <3>6. \A s \in Requests : turn[s] # "none" => rows'[dispatchOf[s]].turn = s
      BY <3>5, RequestAssumption DEF LaunchInv, WriteAhead, Launched
    <3>7. WriteAhead'
      BY <3>2, <3>6 DEF WriteAhead, Launched
    <3>8. ASSUME NEW e \in Dispatches, rows'[e].turn # NoTurn
          PROVE  Present(rows'[e]) /\ turn'[rows'[e].turn] # "none"
                   /\ dispatchOf[rows'[e].turn] = e
      <4>1. e # d /\ rows'[e] = rows[e]
        BY <3>3, <3>5, <3>8
      <4> QED
        BY <3>2, <3>8, <4>1 DEF LaunchInv, Launched
    <3>9. ASSUME NEW s \in Requests, pc'[s] \in Unlaunched PROVE turn'[s] = "none"
      BY <3>2, <3>4, <3>9 DEF LaunchInv, Launched
    <3> QED
      BY <3>7, <3>8, <3>9 DEF LaunchInv, Launched, Present
  <2>9. ASSUME NEW r \in Requests, Refuse(r) PROVE LaunchInv'
    BY <2>3, <2>9, RejectedKeepsTurns DEF Refuse, turns
  <2>10. ASSUME NEW r \in Requests, LaunchUnbindable(r) PROVE LaunchInv'
    BY <2>3, <2>10, RejectedKeepsTurns DEF LaunchUnbindable, turns
  <2>11. ASSUME NEW r \in Requests, Attached(r) \/ AttachFails(r) PROVE LaunchInv'
    BY <2>3, <2>11, SameTurnsRefl DEF Attached, AttachFails, durable, turns
  <2>12. ASSUME NEW r \in Requests, pc[r] = "admitting"
         PROVE  /\ dispatchOf[r] \in Dispatches
                /\ rows[dispatchOf[r]] \in Row
                /\ rows[dispatchOf[r]].turn # r
    <3>1. turn[r] = "none"
      BY <2>12 DEF LaunchInv, Launched, Unlaunched
    <3>2. r # NoTurn
      BY RequestAssumption, StoreAssumption
    <3> QED
      BY <3>1, <3>2, RequestAssumption DEF TypeOK, LaunchInv, Launched
  <2>13. ASSUME NEW r \in Requests, Launch(r) PROVE LaunchInv'
    <3> DEFINE d == dispatchOf[r]
    <3>1. /\ pc[r] = "admitting" /\ CanBind(rows[d], r, hubInstOf[r])
          /\ rows' = Accepted(r)
          /\ turn' = [turn EXCEPT ![r] = "running"]
          /\ pc' = [pc EXCEPT ![r] = "attaching"]
      BY <2>13 DEF Launch, Bindable
    <3>2. rows[d].turn = NoTurn /\ rows'[d].turn = r /\ rows'[d].status = "accepted"
      <4>1. hubInstOf[r] \in Instances /\ r \in Turns
        BY RequestAssumption
      <4>2. d \in Dispatches /\ rows[d] \in Row /\ rows[d].turn # r
        BY <2>12, <3>1
      <4>3. rows'[d] = MarkAccepted(BindProviderTurn(rows[d], r, hubInstOf[r]), r, hubInstOf[r])
        BY <3>1, <4>2 DEF Accepted, TypeOK
      <4> QED
        BY <3>1, <4>1, <4>2, <4>3, BoundTurn
    <3>3. \A e \in Dispatches : e # d => rows'[e] = rows[e]
      BY <3>1 DEF Accepted, TypeOK
    <3> HIDE DEF d
    <3>4. turn'[r] # "none"
             /\ \A s \in Requests : s # r => (turn'[s] # "none" <=> turn[s] # "none")
      BY <3>1 DEF TypeOK
    <3>5. pc'[r] \notin Unlaunched
             /\ \A s \in Requests : pc'[s] \in Unlaunched => pc[s] \in Unlaunched
      BY <3>1 DEF TypeOK, Unlaunched
    <3>6. Present(rows'[d])
      BY <3>2 DEF Present
    <3> QED
      BY <3>1, <3>2, <3>3, <3>4, <3>5, <3>6, LaunchStep DEF d
  <2>14. ASSUME NEW r \in Requests,
                \/ SessionReady(r) \/ TurnEnds(r) \/ DispatchSettles(r)
                \/ TurnCleared(r) \/ DeliverTerminal(r) \/ ReplayTerminal(r)
         PROVE  LaunchInv'
    <3>1. SameTurns(rows, rows')
      BY <2>14, SameTurnsRefl, RejectedKeepsTurns, ProjectedKeepsTurns
         DEF SessionReady, TurnEnds, DispatchSettles, DispatchReturns, DispatchRejects,
             TurnCleared, DeliverTerminal, ReplayTerminal, durable
    <3>2. pc' = pc
      BY <2>14 DEF SessionReady, TurnEnds, DispatchSettles, DispatchReturns,
             DispatchRejects, TurnCleared, DeliverTerminal, ReplayTerminal, admission
    <3>3. \A s \in Requests : turn'[s] # "none" <=> turn[s] # "none"
      BY <2>14 DEF SessionReady, TurnEnds, DispatchSettles, DispatchReturns, Emitted,
             DispatchRejects, TurnCleared, DeliverTerminal, ReplayTerminal, Ended, TypeOK
    <3> QED
      BY <3>1, <3>2, <3>3, LaunchFrame
  <2>15. ASSUME NEW t \in Threads,
                StopArrives(t) \/ Stopping(t) \/ BeginRevert(t) \/ EndRevert(t)
         PROVE  LaunchInv'
    <3>1. SameTurns(rows, rows')
      <4>1. CASE StopFinishes(t)
        BY <4>1, RowKeepsTurn DEF StopFinishes, SameTurns, TypeOK
      <4>2. CASE EndRevert(t)
        <5>1. PICK boundary \in 0 .. Cardinality(Dispatches) :
                 rows' = Reverted(rows, t, boundary)
          BY <4>2 DEF EndRevert
        <5>2. rows \in [Dispatches -> Row]
          BY DEF TypeOK
        <5> QED
          BY <5>1, <5>2, RevertedKeepsTurns
      <4> QED
        BY <2>15, <4>1, <4>2, SameTurnsRefl
           DEF StopArrives, Stopping, StopRecovered, StopFails, BeginRevert, durable
    <3>2. pc' = pc /\ turn' = turn
      BY <2>15 DEF StopArrives, Stopping, StopRecovered, StopFinishes, StopFails,
                   BeginRevert, EndRevert, admission, turns
    <3> QED
      BY <2>1, <3>1, <3>2
  <2>16. ASSUME Restarted
         PROVE  \A r \in Requests : pc'[r] \in Unlaunched => pc[r] \in Unlaunched
    BY <2>16 DEF Restarted, Unlaunched, TypeOK
  <2>17. ASSUME NEW r \in Requests, CrashLaunching(r) PROVE LaunchInv'
    <3> DEFINE d == dispatchOf[r]
    <3>1. /\ pc[r] = "admitting" /\ CanBind(rows[d], r, hubInstOf[r])
          /\ rows' = Bound(r) /\ Restarted
          /\ turn' = [Killed(turn) EXCEPT ![r] = "dead"]
      BY <2>17 DEF CrashLaunching, Bindable, Crashed
    <3>2. rows[d].turn = NoTurn /\ rows'[d].turn = r /\ rows'[d].status = "pending"
      <4>1. hubInstOf[r] \in Instances /\ r \in Turns
        BY RequestAssumption
      <4>2. d \in Dispatches /\ rows[d] \in Row /\ rows[d].turn # r
        BY <2>12, <3>1
      <4>3. rows'[d] = BindProviderTurn(rows[d], r, hubInstOf[r])
        BY <3>1, <4>2 DEF Bound, TypeOK
      <4> QED
        BY <3>1, <4>1, <4>2, <4>3, BoundTurn
    <3>3. \A e \in Dispatches : e # d => rows'[e] = rows[e]
      BY <3>1 DEF Bound, TypeOK
    <3> HIDE DEF d
    <3>4. turn'[r] # "none"
             /\ \A s \in Requests : s # r => (turn'[s] # "none" <=> turn[s] # "none")
      BY <3>1 DEF TypeOK, Killed
    <3>5. pc'[r] \notin Unlaunched
      BY <3>1 DEF Restarted, Unlaunched
    <3>6. Present(rows'[d])
      BY <3>2 DEF Present
    <3> QED
      BY <2>16, <3>1, <3>2, <3>3, <3>4, <3>5, <3>6, LaunchStep DEF d
  <2>18. ASSUME \/ \E r \in Requests : CrashDelivering(r)
                \/ \E d \in Dispatches : CrashRecovering(d)
                \/ Crash \/ EmergencyRestart
         PROVE  LaunchInv'
    <3>1. SameTurns(rows, rows')
      BY <2>18, SameTurnsRefl, ProjectedKeepsTurns
         DEF CrashDelivering, CrashRecovering, Crash, EmergencyRestart, durable
    <3>2. Restarted /\ turn' \in {turn, Killed(turn)}
      BY <2>18 DEF CrashDelivering, CrashRecovering, Crash, EmergencyRestart, Crashed
    <3> QED
      BY <2>16, <3>1, <3>2, LaunchedKept, LaunchFrame
  <2>19. ASSUME Recovery PROVE LaunchInv'
    <3>1. SameTurns(rows, rows')
      <4>1. CASE RecoverPending
        BY <4>1, RecoveredKeepsTurns DEF RecoverPending, TypeOK
      <4>2. ASSUME NEW d \in Dispatches, RecoverOne(d) PROVE SameTurns(rows, rows')
        BY <4>2, RowKeepsTurn DEF RecoverOne, SameTurns, TypeOK
      <4> QED
        BY <2>19, <4>1, <4>2, SameTurnsRefl DEF Recovery, OpenHttp, durable
    <3> QED
      BY <2>1, <2>19, <3>1
         DEF Recovery, RecoverPending, OpenHttp, RecoverOne, admission, turns
  <2>20. CASE UNCHANGED vars
    BY <2>1, <2>20, SameTurnsRefl DEF vars, durable, admission, turns
  <2> QED
    BY <2>4, <2>5, <2>6, <2>7, <2>8, <2>9, <2>10, <2>11, <2>13, <2>14, <2>15, <2>17,
       <2>18, <2>19, <2>20 DEF Next, Admission
<1> QED
  BY <1>1, <1>2, TypeCorrect, PTL DEF Spec

\* With auto-save, whatever retries, stops, reverts, crashes and restarts
\* happen, a launched turn is recorded in its row beforehand, and so a dispatch
\* id is given to the provider at most once.
THEOREM LaunchedOnce ==
    ASSUME AutoSave PROVE Spec => [](WriteAhead /\ AtMostOneTurnPerDispatch)
<1>1. LaunchInv => WriteAhead /\ AtMostOneTurnPerDispatch
  BY DEF LaunchInv, WriteAhead, AtMostOneTurnPerDispatch
<1> QED
  BY <1>1, LaunchInductive, PTL

-----------------------------------------------------------------------------
(* The outbox keeps the promise of AtMostOnceDispatch.                     *)

\* What a row's status says of the outcome of its dispatch.
LEMMA OutcomeValues ==
    ASSUME NEW row \in Row
    PROVE  /\ row.status = "absent" => OutcomeOf(row) = "none"
           /\ row.status \in Open => OutcomeOf(row) = "open"
           /\ row.status \in Settled => OutcomeOf(row) = "known"
           /\ row.status = "uncertain" => OutcomeOf(row) = "unknown"
           /\ row.status = "reverted" => OutcomeOf(row) = "withdrawn"
BY DEF OutcomeOf, Open, Settled

\* It says nothing else.
LEMMA OutcomeByStatus ==
    ASSUME NEW row, NEW other, row.status = other.status
    PROVE  OutcomeOf(row) = OutcomeOf(other)
BY DEF OutcomeOf

SameLaunched ==
    \A r \in Requests : turn'[r] # "none" <=> turn[r] # "none"

SameStatus(d) == rows'[d].status = rows[d].status

\* A step that launches nothing gives no message to a provider.
LEMMA GivenKept ==
    ASSUME SameLaunched
    PROVE  UNCHANGED [d \in Dispatches |->
                        {r \in Requests : Launched(r) /\ dispatchOf[r] = d}]
BY DEF SameLaunched, Launched

\* A step that changes no status and launches nothing is a stutter.
LEMMA StutterStep ==
    ASSUME SameLaunched, \A d \in Dispatches : SameStatus(d)
    PROVE  [Promise!Next]_(<<[d \in Dispatches |-> OutcomeOf(rows[d])],
               [d \in Dispatches |->
                  {r \in Requests : Launched(r) /\ dispatchOf[r] = d}]>>)
BY GivenKept, OutcomeByStatus DEF SameStatus

\* Settling open and uncertain rows is learning their outcome.
LEMMA LearnStep ==
    ASSUME TypeOK, TypeOK', SameLaunched, NEW D \in SUBSET Dispatches,
           \A d \in D : /\ rows[d].status \in Open \cup {"uncertain"}
                        /\ rows'[d].status \in Settled,
           \A d \in Dispatches \ D : SameStatus(d)
    PROVE  Promise!Next
<1>1. /\ \A d \in D : OutcomeOf(rows[d]) \in {"open", "unknown"}
      /\ \A d \in D : OutcomeOf(rows'[d]) = "known"
      /\ \A d \in Dispatches \ D : OutcomeOf(rows'[d]) = OutcomeOf(rows[d])
  <2>1. \A d \in Dispatches : rows[d] \in Row /\ rows'[d] \in Row
    BY DEF TypeOK
  <2>2. ASSUME NEW d \in D PROVE OutcomeOf(rows[d]) \in {"open", "unknown"}
    BY <2>1, OutcomeValues
  <2>3. ASSUME NEW d \in D PROVE OutcomeOf(rows'[d]) = "known"
    BY <2>1, OutcomeValues
  <2>4. ASSUME NEW d \in Dispatches \ D PROVE OutcomeOf(rows'[d]) = OutcomeOf(rows[d])
    BY OutcomeByStatus DEF SameStatus
  <2> QED
    BY <2>2, <2>3, <2>4
<1>2. Promise!Learn(D)
  BY <1>1, GivenKept DEF Promise!Learn, Promise!All, Promise!Set
<1> QED
  BY <1>2 DEF Promise!Next

\* Startup recovery loses track of what is open.
LEMMA LoseTrackStep ==
    ASSUME TypeOK, TypeOK', SameLaunched, rows' = Recovered(rows)
    PROVE  Promise!Next
<1> DEFINE D == {d \in Dispatches : rows[d].status \in Open}
<1>1. \A d \in Dispatches : rows[d] \in Row /\ rows'[d] \in Row
  BY DEF TypeOK
<1>2. ASSUME NEW d \in D
      PROVE  OutcomeOf(rows[d]) = "open" /\ OutcomeOf(rows'[d]) = "unknown"
  <2>1. rows'[d] = [rows[d] EXCEPT !.status = "uncertain", !.recovered = FALSE]
    BY DEF Recovered, TypeOK
  <2>2. rows'[d].status = "uncertain"
    BY <1>1, <2>1 DEF Row
  <2> QED
    BY <1>1, <2>2, OutcomeValues
<1>3. ASSUME NEW d \in Dispatches \ D PROVE OutcomeOf(rows'[d]) = OutcomeOf(rows[d])
  BY DEF Recovered, TypeOK
<1> HIDE DEF D
<1>4. D \in SUBSET Dispatches
  BY DEF D
<1>5. Promise!LoseTrack(D)
  BY <1>2, <1>3, <1>4, GivenKept DEF Promise!LoseTrack, Promise!All, Promise!Set
<1> QED
  BY <1>4, <1>5 DEF Promise!Next

\* A revert withdraws the messages after its boundary.
LEMMA WithdrawStep ==
    ASSUME TypeOK, TypeOK', SameLaunched, NEW th \in Threads, NEW boundary \in Nat,
           rows' = Reverted(rows, th, boundary)
    PROVE  Promise!Next
<1> DEFINE D == {d \in Dispatches : Present(rows[d]) /\ rows[d].thread = th
                                       /\ rows[d].seq > boundary}
<1>1. \A d \in Dispatches : rows[d] \in Row /\ rows'[d] \in Row
  BY DEF TypeOK
<1>2. ASSUME NEW d \in D
      PROVE  /\ OutcomeOf(rows[d]) \in {"open", "known", "unknown", "withdrawn"}
             /\ OutcomeOf(rows'[d]) = "withdrawn"
  <2>1. rows'[d] = [rows[d] EXCEPT !.status = "reverted", !.recovered = FALSE]
    BY DEF Reverted, TypeOK
  <2>2. rows'[d].status = "reverted"
    BY <1>1, <2>1 DEF Row
  <2>3. rows[d].status \in Open \cup Settled \cup {"uncertain", "reverted"}
    BY <1>1 DEF Row, Statuses, Present
  <2> QED
    BY <1>1, <2>2, <2>3, OutcomeValues
<1>3. ASSUME NEW d \in Dispatches \ D PROVE OutcomeOf(rows'[d]) = OutcomeOf(rows[d])
  BY DEF Reverted, TypeOK
<1> HIDE DEF D
<1>4. D \in SUBSET Dispatches
  BY DEF D
<1>5. Promise!Withdraw(D)
  BY <1>2, <1>3, <1>4, GivenKept DEF Promise!Withdraw, Promise!All, Promise!Set
<1> QED
  BY <1>4, <1>5 DEF Promise!Next

\* Inserting the row of a dispatch records it.
LEMMA RecordStep ==
    ASSUME TypeOK, TypeOK', SameLaunched, NEW d \in Dispatches,
           ~Present(rows[d]), rows'[d].status = "pending",
           \A e \in Dispatches : e # d => rows'[e] = rows[e]
    PROVE  Promise!Next
<1>1. OutcomeOf(rows[d]) = "none" /\ OutcomeOf(rows'[d]) = "open"
  BY OutcomeValues DEF TypeOK, Present, Open
<1>2. Promise!Record(d)
  BY <1>1, GivenKept DEF Promise!Record, Promise!Set
<1> QED
  BY <1>2 DEF Promise!Next

\* Launching the first turn of an open dispatch gives it to a provider.
LEMMA GiveStep ==
    ASSUME TypeOK, TypeOK', LaunchInv, NEW r \in Requests,
           rows[dispatchOf[r]].turn = NoTurn,
           rows[dispatchOf[r]].status \in Open,
           rows'[dispatchOf[r]].status \in Open,
           \A d \in Dispatches : d # dispatchOf[r] => rows'[d] = rows[d],
           turn[r] = "none", turn'[r] # "none",
           \A s \in Requests : s # r => (turn'[s] # "none" <=> turn[s] # "none")
    PROVE  Promise!Next
<1> DEFINE d == dispatchOf[r]
           Given(e) == {s \in Requests : turn[s] # "none" /\ dispatchOf[s] = e}
           GivenNext(e) == {s \in Requests : turn'[s] # "none" /\ dispatchOf[s] = e}
<1>1. d \in Dispatches /\ r \in Turns /\ r # NoTurn
  BY RequestAssumption, StoreAssumption
<1>2. \A e \in Dispatches : OutcomeOf(rows'[e]) = OutcomeOf(rows[e])
  BY OutcomeValues DEF TypeOK
<1>3. OutcomeOf(rows[d]) = "open"
  BY <1>1, OutcomeValues DEF TypeOK
<1>4. Given(d) = {}
  <2> SUFFICES ASSUME NEW s \in Requests, turn[s] # "none", dispatchOf[s] = d
               PROVE  FALSE
    OBVIOUS
  <2>1. rows[d].turn = s /\ s # NoTurn
    BY RequestAssumption, StoreAssumption DEF LaunchInv, WriteAhead, Launched
  <2> QED
    BY <2>1
<1>5. \A e \in Dispatches : r \notin Given(e)
  OBVIOUS
<1>6. \A e \in Dispatches : GivenNext(e) = IF e = d THEN {r} ELSE Given(e)
  BY <1>4
<1>7. [e \in Dispatches |-> GivenNext(e)]
        = [[e \in Dispatches |-> Given(e)] EXCEPT ![d] = {r}]
  BY <1>1, <1>6
<1>8. Promise!Give(d, r)
  BY <1>1, <1>2, <1>3, <1>4, <1>5, <1>7 DEF Promise!Give, Launched
<1> QED
  BY <1>1, <1>8 DEF Promise!Next

\* What the admission or the completion handler marks is learnt, if anything.
LEMMA RejectedStep ==
    ASSUME TypeOK, TypeOK', SameLaunched, NEW r \in Requests, rows' = Rejected(r)
    PROVE  Promise!Next \/ \A d \in Dispatches : SameStatus(d)
<1> DEFINE d == dispatchOf[r]
<1>1. d \in Dispatches /\ rows[d] \in Row
  BY RequestAssumption DEF TypeOK
<1>2. CASE AutoSave /\ rows[d].status \in Open \cup {"uncertain"}
  <2>1. rows'[d].status \in Settled
    BY <1>1, <1>2 DEF Rejected, MarkFailed, Settled, Row, TypeOK
  <2>2. \A e \in Dispatches \ {d} : SameStatus(e)
    BY <1>2 DEF Rejected, SameStatus, TypeOK
  <2> QED
    BY <1>1, <1>2, <2>1, <2>2, LearnStep
<1>3. CASE ~(AutoSave /\ rows[d].status \in Open \cup {"uncertain"})
  BY <1>1, <1>3 DEF Rejected, MarkFailed, SameStatus, TypeOK
<1> QED
  BY <1>2, <1>3

\* So is what a terminal event or a Stop settles: rows D, unless settled before.
LEMMA SettledStep ==
    ASSUME TypeOK, TypeOK', SameLaunched, NEW D \in SUBSET Dispatches,
           \A d \in D :
              \/ rows[d].status \in Open \cup {"uncertain"}
                   /\ rows'[d].status \in Settled
              \/ SameStatus(d),
           \A d \in Dispatches \ D : SameStatus(d)
    PROVE  Promise!Next
<1> DEFINE E == {d \in D : /\ rows[d].status \in Open \cup {"uncertain"}
                           /\ rows'[d].status \in Settled}
<1>1. E \in SUBSET Dispatches
  OBVIOUS
<1>2. \A d \in Dispatches \ E : SameStatus(d)
  OBVIOUS
<1>3. \A d \in E : /\ rows[d].status \in Open \cup {"uncertain"}
                  /\ rows'[d].status \in Settled
  OBVIOUS
<1> HIDE DEF E
<1> QED
  BY <1>1, <1>2, <1>3, LearnStep

\* A terminal event settles the rows of its turn that are not settled yet.
LEMMA ProjectedStep ==
    ASSUME TypeOK, TypeOK', SameLaunched, NEW r \in Requests, rows' = Projected(r)
    PROVE  Promise!Next
<1> DEFINE D == ByProviderTurn(rows, threadOf[r], hubInstOf[r], r)
<1>1. D \in SUBSET Dispatches
  BY DEF ByProviderTurn, TypeOK
<1>2. r \in Turns /\ hubInstOf[r] \in Instances
  BY RequestAssumption
<1>3. \A d \in Dispatches \ D : SameStatus(d)
  BY DEF Projected, SettleByProviderTurn, SameStatus, TypeOK
<1>4. ASSUME NEW d \in D
      PROVE  \/ rows[d].status \in Open \cup {"uncertain"}
                   /\ rows'[d].status \in Settled
             \/ SameStatus(d)
  <2>1. rows[d] \in Row /\ d \in DOMAIN rows
    BY <1>1 DEF TypeOK
  <2>2. rows'[d] \in {MarkCompleted(rows[d], r, hubInstOf[r]), MarkFailed(rows[d])}
    BY <2>1 DEF Projected, SettleByProviderTurn
  <2>3. CASE rows'[d] = MarkFailed(rows[d])
    BY <2>1, <2>3 DEF MarkFailed, Settled, Row, SameStatus
  <2>4. CASE rows'[d] = MarkCompleted(rows[d], r, hubInstOf[r])
    BY <2>1, <2>4 DEF MarkCompleted, WithInstance, Settled, Row, SameStatus
  <2> QED
    BY <2>2, <2>3, <2>4
<1> HIDE DEF D
<1> QED
  BY <1>1, <1>3, <1>4, SettledStep

\* With auto-save, the outbox implements the promise it makes to the client:
\* rows and launched turns move only as AtMostOnceDispatch allows.
THEOREM PromiseKept ==
    ASSUME AutoSave PROVE Spec => KeepsPromise
<1> DEFINE Abstract == <<[d \in Dispatches |-> OutcomeOf(rows[d])],
                         [d \in Dispatches |->
                            {r \in Requests : Launched(r) /\ dispatchOf[r] = d}]>>
<1>1. Init => Promise!Init
  BY OutcomeValues, AbsentRowType
     DEF Init, Promise!Init, AbsentRow, OutcomeOf, Open, Settled, Launched
<1>2. TypeOK /\ TypeOK' /\ LaunchInv /\ [Next]_vars => [Promise!Next]_Abstract
  <2> SUFFICES ASSUME TypeOK, TypeOK', LaunchInv, [Next]_vars
               PROVE  [Promise!Next]_Abstract
    OBVIOUS
  <2>1. ASSUME SameLaunched, \A d \in Dispatches : SameStatus(d)
        PROVE  [Promise!Next]_Abstract
    BY <2>1, StutterStep
  <2>2. ASSUME rows' = rows, turn' = turn PROVE [Promise!Next]_Abstract
    BY <2>1, <2>2 DEF SameLaunched, SameStatus
  <2>3. ASSUME NEW r \in Requests, rows' = Rejected(r), SameLaunched
        PROVE  [Promise!Next]_Abstract
    BY <2>1, <2>3, RejectedStep
  <2>4. ASSUME NEW r \in Requests,
               \/ Arrive(r) \/ RefuseEarly(r) \/ Replay(r) \/ ReserveBusy(r)
               \/ ReserveExisting(r) \/ Attached(r) \/ AttachFails(r)
               \/ SessionReady(r) \/ DispatchReturns(r) \/ TurnCleared(r)
        PROVE  [Promise!Next]_Abstract
    BY <2>2, <2>4 DEF Arrive, RefuseEarly, Replay, ReserveBusy, ReserveExisting,
             Attached, AttachFails, SessionReady, DispatchReturns, TurnCleared,
             durable, turns
  <2>5. ASSUME NEW r \in Requests, Reserve(r) PROVE [Promise!Next]_Abstract
    <3> DEFINE d == dispatchOf[r]
    <3>1. d \in Dispatches /\ ~Present(rows[d])
      BY <2>5, RequestAssumption DEF Reserve, Recorded
    <3>2. /\ rows'[d].status = "pending"
          /\ \A e \in Dispatches : e # d => rows'[e] = rows[e]
      BY <2>5, <3>1 DEF Reserve, Inserted, TypeOK
    <3>3. SameLaunched
      BY <2>5 DEF Reserve, turns, SameLaunched
    <3> HIDE DEF d
    <3> QED
      BY <3>1, <3>2, <3>3, RecordStep
  <2>6. ASSUME NEW r \in Requests,
               Refuse(r) \/ LaunchUnbindable(r) \/ DispatchRejects(r)
        PROVE  [Promise!Next]_Abstract
    <3>1. rows' = Rejected(r)
      BY <2>6 DEF Refuse, LaunchUnbindable, DispatchRejects
    <3>2. SameLaunched
      BY <2>6 DEF Refuse, LaunchUnbindable, DispatchRejects, Emitted, Ended, turns,
                  SameLaunched, TypeOK
    <3> QED
      BY <2>3, <3>1, <3>2
  <2>7. ASSUME NEW r \in Requests, pc[r] = "admitting",
               CanBind(rows[dispatchOf[r]], r, hubInstOf[r])
        PROVE  /\ turn[r] = "none"
               /\ r \in Turns /\ hubInstOf[r] \in Instances
               /\ dispatchOf[r] \in Dispatches
               /\ rows[dispatchOf[r]] \in Row
               /\ rows[dispatchOf[r]].turn # r
    <3>1. turn[r] = "none" /\ r # NoTurn
      BY <2>7, RequestAssumption, StoreAssumption DEF LaunchInv, Launched, Unlaunched
    <3> QED
      BY <3>1, RequestAssumption DEF TypeOK, LaunchInv, Launched
  <2>8. ASSUME NEW r \in Requests, Launch(r) PROVE [Promise!Next]_Abstract
    <3> DEFINE d == dispatchOf[r]
    <3>1. /\ pc[r] = "admitting" /\ CanBind(rows[d], r, hubInstOf[r])
          /\ rows' = Accepted(r)
          /\ turn' = [turn EXCEPT ![r] = "running"]
      BY <2>8 DEF Launch, Bindable
    <3>2. rows'[d] = MarkAccepted(BindProviderTurn(rows[d], r, hubInstOf[r]),
                                  r, hubInstOf[r])
      BY <2>7, <3>1 DEF Accepted, TypeOK
    <3>3. /\ rows[d].turn = NoTurn /\ rows[d].status \in Open
          /\ rows'[d].status \in Open
      BY <2>7, <3>1, <3>2, BoundTurn DEF Open
    <3>4. \A e \in Dispatches : e # d => rows'[e] = rows[e]
      BY <3>1 DEF Accepted, TypeOK
    <3>5. /\ turn[r] = "none" /\ turn'[r] # "none"
          /\ \A s \in Requests : s # r => (turn'[s] # "none" <=> turn[s] # "none")
      BY <2>7, <3>1 DEF TypeOK
    <3> QED
      BY <3>3, <3>4, <3>5, GiveStep
  <2>9. ASSUME NEW r \in Requests, CrashLaunching(r) PROVE [Promise!Next]_Abstract
    <3> DEFINE d == dispatchOf[r]
    <3>1. /\ pc[r] = "admitting" /\ CanBind(rows[d], r, hubInstOf[r])
          /\ rows' = Bound(r)
          /\ turn' = [Killed(turn) EXCEPT ![r] = "dead"]
      BY <2>9 DEF CrashLaunching, Bindable, Crashed
    <3>2. rows'[d] = BindProviderTurn(rows[d], r, hubInstOf[r])
      BY <2>7, <3>1 DEF Bound, TypeOK
    <3>3. /\ rows[d].turn = NoTurn /\ rows[d].status \in Open
          /\ rows'[d].status \in Open
      BY <2>7, <3>1, <3>2, BoundTurn DEF Open
    <3>4. \A e \in Dispatches : e # d => rows'[e] = rows[e]
      BY <3>1 DEF Bound, TypeOK
    <3>5. /\ turn[r] = "none" /\ turn'[r] # "none"
          /\ \A s \in Requests : s # r => (turn'[s] # "none" <=> turn[s] # "none")
      BY <2>7, <3>1 DEF TypeOK, Killed
    <3> QED
      BY <3>3, <3>4, <3>5, GiveStep
  <2>10. ASSUME NEW r \in Requests, TurnEnds(r) PROVE [Promise!Next]_Abstract
    BY <2>1, <2>10 DEF TurnEnds, Emitted, Ended, TypeOK, SameLaunched, SameStatus, durable
  <2>11. ASSUME NEW r \in Requests,
                DeliverTerminal(r) \/ ReplayTerminal(r) \/ CrashDelivering(r)
         PROVE  [Promise!Next]_Abstract
    <3>1. SameLaunched
      BY <2>11 DEF DeliverTerminal, ReplayTerminal, CrashDelivering, Killed, TypeOK,
                   SameLaunched
    <3>2. rows' \in {rows, Projected(r)}
      BY <2>11 DEF DeliverTerminal, ReplayTerminal, CrashDelivering
    <3> QED
      BY <2>1, <3>1, <3>2, ProjectedStep DEF SameStatus
  <2>12. ASSUME NEW t \in Threads,
                \/ StopArrives(t) \/ StopRecovered(t) \/ StopFails(t) \/ BeginRevert(t)
         PROVE  [Promise!Next]_Abstract
    BY <2>2, <2>12 DEF StopArrives, StopRecovered, StopFails, BeginRevert, durable, turns
  <2>13. ASSUME NEW t \in Threads, StopFinishes(t) PROVE [Promise!Next]_Abstract
    <3> DEFINE D == ActiveForThread(rows, t)
    <3>1. /\ D \in SUBSET Dispatches
          /\ \A d \in D : rows[d].status \in Open /\ rows[d] \in Row
      BY DEF ActiveForThread, OpenOf, TypeOK
    <3>2. /\ \A d \in D : rows'[d] = MarkFailed(rows[d])
          /\ \A d \in Dispatches \ D : rows'[d] = rows[d]
      BY <2>13, <3>1 DEF StopFinishes
    <3> HIDE DEF D
    <3>3. \A d \in D : rows'[d].status \in Settled
      BY <3>1, <3>2 DEF MarkFailed, Settled, Row
    <3>4. SameLaunched
      BY <2>13 DEF StopFinishes, turns, SameLaunched
    <3> QED
      BY <3>1, <3>2, <3>3, <3>4, SettledStep DEF SameStatus
  <2>14. ASSUME NEW t \in Threads, EndRevert(t) PROVE [Promise!Next]_Abstract
    <3>1. PICK boundary \in 0 .. Cardinality(Dispatches) :
             rows' = Reverted(rows, t, boundary)
      BY <2>14 DEF EndRevert
    <3>2. boundary \in Nat
      BY StoreAssumption, FS_CardinalityType
    <3>3. SameLaunched
      BY <2>14 DEF EndRevert, turns, SameLaunched
    <3> QED
      BY <3>1, <3>2, <3>3, WithdrawStep
  <2>15. ASSUME \/ \E d \in Dispatches : CrashRecovering(d)
                \/ Crash \/ EmergencyRestart
         PROVE  [Promise!Next]_Abstract
    <3>1. rows' = rows /\ turn' \in {turn, Killed(turn)}
      BY <2>15 DEF CrashRecovering, Crash, EmergencyRestart, durable
    <3> QED
      BY <2>1, <3>1, LaunchedKept DEF SameLaunched, SameStatus
  <2>16. ASSUME Recovery PROVE [Promise!Next]_Abstract
    <3>1. SameLaunched
      BY <2>16 DEF Recovery, RecoverPending, OpenHttp, RecoverOne, turns, SameLaunched
    <3>2. CASE RecoverPending
      BY <3>1, <3>2, LoseTrackStep DEF RecoverPending
    <3>3. ASSUME NEW d \in Dispatches, RecoverOne(d) PROVE [Promise!Next]_Abstract
      <4>1. \A e \in Dispatches : rows'[e] = rows[e] \/ rows'[e] = CompleteRecovery(rows[e])
        BY <3>3 DEF RecoverOne, TypeOK
      <4>2. ASSUME NEW e \in Dispatches PROVE rows'[e].status = rows[e].status
        <5>1. rows[e] \in Row
          BY DEF TypeOK
        <5>2. CompleteRecovery(rows[e]).status = rows[e].status
          BY <5>1 DEF CompleteRecovery, Row
        <5> QED
          BY <4>1, <5>2
      <4> QED
        BY <2>1, <3>1, <4>2 DEF SameStatus
    <3>4. CASE OpenHttp
      BY <2>1, <3>1, <3>4 DEF OpenHttp, SameStatus, durable
    <3> QED
      BY <2>16, <3>2, <3>3, <3>4 DEF Recovery
  <2>17. CASE UNCHANGED vars
    BY <2>2, <2>17 DEF vars, durable, turns
  <2> HIDE DEF Abstract
  <2> QED
    BY <2>4, <2>5, <2>6, <2>8, <2>9, <2>10, <2>11, <2>12, <2>13, <2>14, <2>15, <2>16,
       <2>17 DEF Next, Admission, DispatchSettles, Stopping
<1>3. Spec => []LaunchInv
  BY LaunchInductive
<1> QED
  BY <1>1, <1>2, <1>3, TypeCorrect, PTL DEF Spec, KeepsPromise, Promise!Spec
=============================================================================
