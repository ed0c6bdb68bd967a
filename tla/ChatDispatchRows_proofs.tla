---------------------- MODULE ChatDispatchRows_proofs ----------------------
(***************************************************************************)
(* Theorems about ChatDispatch that rest on what a durable row says of the *)
(* message it records: whose it is, who will settle it, and what startup   *)
(* recovery makes of it.                                                   *)
(***************************************************************************)
EXTENDS ChatDispatch_proofs

-----------------------------------------------------------------------------
(* What a step may do to the rows.                                         *)

\* The row after says of its message what the row before said; only the
\* instance of a row without a turn may still be filled in.
SameOwner(row, after) ==
    /\ after.thread = row.thread /\ after.print = row.print
    /\ after.turn = row.turn
    /\ Present(after) <=> Present(row)
    /\ row.turn # NoTurn => after.inst = row.inst

\* A row whose outcome is unknown is settled, withdrawn or left alone.
UncertainKept(row, after) ==
    after.status = "uncertain" => after = row

\* A row that is open afterwards was so before, unchanged.
NotReopened(row, after) ==
    after.status \in Open => after = row

Kept(row, after) ==
    SameOwner(row, after) /\ UncertainKept(row, after) /\ NotReopened(row, after)

AllKept(f, g) == \A d \in Dispatches : Kept(f[d], g[d])

\* Failing, completing and reverting a row keep all three.
LEMMA SettledKept ==
    ASSUME NEW row \in Row
    PROVE  /\ Kept(row, row)
           /\ Kept(row, MarkFailed(row))
           /\ Present(row) => Kept(row, [row EXCEPT !.status = "reverted",
                                                    !.recovered = FALSE])
           /\ \A i \in Instances :
                 Present(row) /\ row.turn \in Turns /\ row.inst = i
                   => Kept(row, MarkCompleted(row, row.turn, i))
BY StoreAssumption
   DEF Kept, SameOwner, UncertainKept, NotReopened, Present, Row, Statuses, Open, Settled,
       MarkFailed, MarkCompleted, WithInstance

\* Recording a rejection keeps every row.
LEMMA RejectedKept ==
    ASSUME TypeOK, NEW r \in Requests, rows' = Rejected(r)
    PROVE  AllKept(rows, rows')
BY RequestAssumption, SettledKept DEF AllKept, Rejected, TypeOK

\* So does a terminal event,
LEMMA ProjectedKept ==
    ASSUME TypeOK, NEW r \in Requests, rows' = Projected(r)
    PROVE  AllKept(rows, rows')
<1>1. hubInstOf[r] \in Instances /\ r \in Turns
  BY RequestAssumption
<1> SUFFICES ASSUME NEW d \in Dispatches PROVE Kept(rows[d], rows'[d])
  BY DEF AllKept
<1>2. rows[d] \in Row /\ d \in DOMAIN rows
  BY DEF TypeOK
<1>3. CASE d \in ByProviderTurn(rows, threadOf[r], hubInstOf[r], r)
  <2>1. Present(rows[d]) /\ rows[d].inst = hubInstOf[r] /\ rows[d].turn = r
    BY <1>3 DEF ByProviderTurn
  <2>2. rows'[d] \in {MarkCompleted(rows[d], r, hubInstOf[r]), MarkFailed(rows[d])}
    BY <1>2, <1>3 DEF Projected, SettleByProviderTurn
  <2> QED
    BY <1>1, <1>2, <2>1, <2>2, SettledKept
<1>4. CASE d \notin ByProviderTurn(rows, threadOf[r], hubInstOf[r], r)
  BY <1>2, <1>4, SettledKept DEF Projected, SettleByProviderTurn
<1> QED
  BY <1>3, <1>4

\* a Stop
LEMMA StopKept ==
    ASSUME TypeOK, NEW t \in Threads, StopFinishes(t)
    PROVE  AllKept(rows, rows')
<1> SUFFICES ASSUME NEW d \in Dispatches PROVE Kept(rows[d], rows'[d])
  BY DEF AllKept
<1>1. rows[d] \in Row
  BY DEF TypeOK
<1>2. rows'[d] \in {rows[d], MarkFailed(rows[d])}
  BY DEF StopFinishes
<1> QED
  BY <1>1, <1>2, SettledKept

\* and a revert.
LEMMA RevertKept ==
    ASSUME TypeOK, NEW t \in Threads, EndRevert(t)
    PROVE  AllKept(rows, rows')
<1> SUFFICES ASSUME NEW d \in Dispatches PROVE Kept(rows[d], rows'[d])
  BY DEF AllKept
<1>1. rows[d] \in Row
  BY DEF TypeOK
<1>2. \/ rows'[d] = rows[d]
      \/ /\ Present(rows[d])
         /\ rows'[d] = [rows[d] EXCEPT !.status = "reverted", !.recovered = FALSE]
  BY DEF EndRevert, Reverted, TypeOK
<1> QED
  BY <1>1, <1>2, SettledKept

\* Binding or accepting a row that can be bound makes it the row of the turn.
LEMMA BoundRow ==
    ASSUME NEW row \in Row, NEW t \in Turns, NEW i \in Instances,
           row.turn # t, CanBind(row, t, i),
           NEW after \in {BindProviderTurn(row, t, i),
                          MarkAccepted(BindProviderTurn(row, t, i), t, i)}
    PROVE  /\ row.turn = NoTurn /\ row.status = "pending"
           /\ after.turn = t /\ after.inst = i
           /\ after.thread = row.thread /\ after.print = row.print
           /\ after.status \in Open
<1>1. /\ row.turn = NoTurn /\ row.status = "pending" /\ row.inst \in {NoInst, i}
      /\ ~BoundAlready(row, t)
  BY DEF Row, CanBind, BoundAlready, InstanceMatches
<1> DEFINE b == BindProviderTurn(row, t, i)
<1>2. /\ b \in Row
      /\ b.turn = t /\ b.inst = i /\ b.status = "pending"
      /\ b.thread = row.thread /\ b.print = row.print
  BY <1>1 DEF Row, BindProviderTurn, WithInstance
<1> HIDE DEF b
<1> DEFINE a == MarkAccepted(b, t, i)
<1>3. /\ a.turn = t /\ a.inst = i /\ a.status = "accepted"
      /\ a.thread = row.thread /\ a.print = row.print
  BY <1>2, StoreAssumption DEF Row, MarkAccepted, WithInstance
<1> HIDE DEF a
<1>4. after \in {b, a}
  BY DEF a, b
<1> QED
  BY <1>1, <1>2, <1>3, <1>4 DEF Open

\* The steps that do more to a row than settle it: a reservation, a launch,
\* torn or not, and those of startup recovery.
Reserves == \E r \in Requests : Reserve(r)
Launches == \E r \in Requests : Launch(r) \/ CrashLaunching(r)
Recovers == RecoverPending \/ \E d \in Dispatches : RecoverOne(d)

LEMMA RowsStep ==
    ASSUME TypeOK, [Next]_vars
    PROVE  AllKept(rows, rows') \/ Reserves \/ Launches \/ Recovers
<1> USE DEF durable
<1>1. ASSUME rows' = rows PROVE AllKept(rows, rows')
  BY <1>1, SettledKept DEF AllKept, TypeOK
<1>2. ASSUME NEW r \in Requests,
             \/ Arrive(r) \/ RefuseEarly(r) \/ Replay(r) \/ ReserveBusy(r)
             \/ ReserveExisting(r) \/ Attached(r) \/ AttachFails(r) \/ SessionReady(r)
             \/ TurnEnds(r) \/ DispatchReturns(r) \/ TurnCleared(r)
      PROVE  AllKept(rows, rows')
  BY <1>1, <1>2 DEF Arrive, RefuseEarly, Replay, ReserveBusy, ReserveExisting, Attached,
     AttachFails, SessionReady, TurnEnds, DispatchReturns, TurnCleared
<1>3. ASSUME NEW r \in Requests, Refuse(r) \/ LaunchUnbindable(r) \/ DispatchRejects(r)
      PROVE  AllKept(rows, rows')
  BY <1>3, RejectedKept DEF Refuse, LaunchUnbindable, DispatchRejects
<1>4. ASSUME NEW r \in Requests,
             DeliverTerminal(r) \/ ReplayTerminal(r) \/ CrashDelivering(r)
      PROVE  AllKept(rows, rows')
  BY <1>1, <1>4, ProjectedKept DEF DeliverTerminal, ReplayTerminal, CrashDelivering
<1>5. ASSUME NEW t \in Threads,
             StopArrives(t) \/ Stopping(t) \/ BeginRevert(t) \/ EndRevert(t)
      PROVE  AllKept(rows, rows')
  BY <1>1, <1>5, StopKept, RevertKept
     DEF Stopping, StopArrives, StopRecovered, StopFails, BeginRevert
<1>6. ASSUME \/ \E d \in Dispatches : CrashRecovering(d)
             \/ Crash \/ EmergencyRestart \/ OpenHttp \/ UNCHANGED vars
      PROVE  AllKept(rows, rows')
  BY <1>1, <1>6 DEF CrashRecovering, Crash, EmergencyRestart, OpenHttp, vars
<1> QED
  BY <1>2, <1>3, <1>4, <1>5, <1>6
     DEF Next, Admission, DispatchSettles, Recovery, Reserves, Launches, Recovers

\* Startup recovery changes nothing of whose message a row records.
LEMMA RecoversOwners ==
    ASSUME TypeOK, Recovers
    PROVE  \A d \in Dispatches : SameOwner(rows[d], rows'[d])
<1>1. CASE RecoverPending
  <2> SUFFICES ASSUME NEW d \in Dispatches PROVE SameOwner(rows[d], rows'[d])
    OBVIOUS
  <2>1. rows[d] \in Row /\ d \in DOMAIN rows
    BY DEF TypeOK
  <2>2. rows'[d] = IF rows[d].status \in Open
                   THEN [rows[d] EXCEPT !.status = "uncertain", !.recovered = FALSE]
                   ELSE rows[d]
    BY <1>1, <2>1 DEF RecoverPending, Recovered
  <2> QED
    BY <2>1, <2>2 DEF SameOwner, Row, Present, Open
<1>2. ASSUME NEW d \in Dispatches, RecoverOne(d)
      PROVE  \A e \in Dispatches : SameOwner(rows[e], rows'[e])
  BY <1>2 DEF RecoverOne, CompleteRecovery, SameOwner, TypeOK, Row, Present
<1> QED
  BY <1>1, <1>2 DEF Recovers

\* No step but a launch lets a provider see a turn,
LEMMA LaunchedStep ==
    ASSUME TypeOK, [Next]_vars
    PROVE  SameLaunched \/ Launches
<1> USE DEF turns
<1>1. ASSUME \/ turn' = turn
             \/ turn' = Killed(turn)
             \/ \E r \in Requests, o \in Ended :
                   turn[r] = "running" /\ turn' = [turn EXCEPT ![r] = o]
      PROVE  SameLaunched
  BY <1>1, LaunchedKept DEF SameLaunched
<1>2. ASSUME NEW r \in Requests,
             \/ Arrive(r) \/ RefuseEarly(r) \/ Replay(r) \/ ReserveBusy(r)
             \/ ReserveExisting(r) \/ Reserve(r) \/ Refuse(r) \/ LaunchUnbindable(r)
             \/ Attached(r) \/ AttachFails(r) \/ SessionReady(r)
             \/ DispatchReturns(r) \/ TurnCleared(r) \/ DeliverTerminal(r)
             \/ ReplayTerminal(r)
      PROVE  SameLaunched
  <2>1. turn' = turn
    BY <1>2 DEF Arrive, RefuseEarly, Replay, ReserveBusy, ReserveExisting, Reserve,
       Refuse, LaunchUnbindable, Attached, AttachFails, SessionReady, DispatchReturns,
       TurnCleared, DeliverTerminal, ReplayTerminal
  <2> QED
    BY <1>1, <2>1
<1>3. ASSUME NEW r \in Requests, TurnEnds(r) \/ DispatchRejects(r)
      PROVE  SameLaunched
  BY <1>1, <1>3 DEF TurnEnds, DispatchRejects, Emitted, Ended
<1>4. ASSUME NEW t \in Threads,
             StopArrives(t) \/ Stopping(t) \/ BeginRevert(t) \/ EndRevert(t)
      PROVE  SameLaunched
  <2>1. turn' = turn
    BY <1>4 DEF Stopping, StopArrives, StopRecovered, StopFinishes, StopFails,
                BeginRevert, EndRevert
  <2> QED
    BY <1>1, <2>1
<1>5. ASSUME \/ \E r \in Requests : CrashDelivering(r)
             \/ \E d \in Dispatches : CrashRecovering(d)
             \/ Crash \/ EmergencyRestart \/ Recovery \/ UNCHANGED vars
      PROVE  SameLaunched
  <2>1. turn' = turn \/ turn' = Killed(turn)
    BY <1>5 DEF CrashDelivering, CrashRecovering, Crash, EmergencyRestart, Recovery,
                RecoverPending, OpenHttp, RecoverOne, vars
  <2> QED
    BY <1>1, <2>1
<1> QED
  BY <1>2, <1>3, <1>4, <1>5 DEF Next, Admission, DispatchSettles, Launches

\* and none but a reservation or a launch takes a request to a later stage of
\* its admission.
Stay(P) == \A r \in Requests : pc'[r] \in P => pc[r] \in P

LEMMA AdmissionStep ==
    ASSUME TypeOK, [Next]_vars
    PROVE  /\ Stay(Unlaunched)
           /\ Stay({"admitting"}) \/ Reserves
           /\ Stay({"attaching"}) \/ Launches
<1> USE DEF admission, Stay, Unlaunched
<1>1. ASSUME NEW r \in Requests, NEW answer, Answered(r, answer)
      PROVE  Stay(Unlaunched) /\ Stay({"admitting"}) /\ Stay({"attaching"})
  BY <1>1 DEF Answered, TypeOK
<1>2. ASSUME NEW r \in Requests, AnswerKnown(r), pc[r] \in {"new", "preparing"}
      PROVE  Stay(Unlaunched) /\ Stay({"admitting"}) /\ Stay({"attaching"})
  BY <1>2 DEF AnswerKnown, Answered, TypeOK
<1>3. ASSUME NEW r \in Requests, Arrive(r) \/ ReserveBusy(r)
      PROVE  Stay(Unlaunched) /\ Stay({"admitting"}) /\ Stay({"attaching"})
  <2>1. CASE AnswerKnown(r)
    BY <1>2, <1>3, <2>1 DEF Arrive, ReserveBusy
  <2>2. CASE ~AnswerKnown(r)
    BY <1>3, <2>2 DEF Arrive, ReserveBusy, Answered, TypeOK
  <2> QED
    BY <2>1, <2>2
<1>4. ASSUME NEW r \in Requests,
             \/ RefuseEarly(r) \/ Replay(r) \/ ReserveExisting(r) \/ Refuse(r)
             \/ LaunchUnbindable(r) \/ Attached(r) \/ AttachFails(r)
      PROVE  Stay(Unlaunched) /\ Stay({"admitting"}) /\ Stay({"attaching"})
  BY <1>1, <1>4 DEF RefuseEarly, Replay, ReserveExisting, Refuse, LaunchUnbindable,
     Attached, AttachFails
<1>5. ASSUME NEW r \in Requests, Reserve(r)
      PROVE  Stay(Unlaunched) /\ Stay({"attaching"})
  BY <1>5 DEF Reserve, TypeOK
<1>6. ASSUME NEW r \in Requests, Launch(r)
      PROVE  Stay(Unlaunched) /\ Stay({"admitting"})
  BY <1>6 DEF Launch, TypeOK
<1>7. ASSUME pc' = pc
      PROVE  Stay(Unlaunched) /\ Stay({"admitting"}) /\ Stay({"attaching"})
  BY <1>7
<1>8. ASSUME Restarted
      PROVE  Stay(Unlaunched) /\ Stay({"admitting"}) /\ Stay({"attaching"})
  BY <1>8 DEF Restarted, TypeOK
<1>9. ASSUME NEW r \in Requests,
             \/ SessionReady(r) \/ TurnEnds(r) \/ DispatchSettles(r) \/ TurnCleared(r)
             \/ DeliverTerminal(r) \/ ReplayTerminal(r)
      PROVE  pc' = pc
  BY <1>9 DEF SessionReady, TurnEnds, DispatchSettles, DispatchReturns, DispatchRejects,
     TurnCleared, DeliverTerminal, ReplayTerminal
<1>10. ASSUME NEW t \in Threads,
              StopArrives(t) \/ Stopping(t) \/ BeginRevert(t) \/ EndRevert(t)
       PROVE  pc' = pc
  BY <1>10 DEF Stopping, StopArrives, StopRecovered, StopFinishes, StopFails,
                BeginRevert, EndRevert
<1>11. ASSUME \/ \E r \in Requests : CrashLaunching(r) \/ CrashDelivering(r)
              \/ \E d \in Dispatches : CrashRecovering(d)
              \/ Crash \/ EmergencyRestart
       PROVE  Restarted
  BY <1>11 DEF CrashLaunching, CrashDelivering, CrashRecovering, Crash,
               EmergencyRestart, Crashed
<1>12. ASSUME Recovery \/ UNCHANGED vars PROVE pc' = pc
  BY <1>12 DEF Recovery, RecoverPending, OpenHttp, RecoverOne, vars
<1> HIDE DEF Stay, Unlaunched, admission
<1> QED
  BY <1>3, <1>4, <1>5, <1>6, <1>7, <1>8, <1>9, <1>10, <1>11, <1>12
     DEF Next, Admission, Reserves, Launches

-----------------------------------------------------------------------------
(* Whose message a row records.                                            *)

\* Row d is the row of turn s.
OwnRow(d, s) ==
    /\ Present(rows[d]) /\ Launched(s)
    /\ dispatchOf[s] = d
    /\ rows[d].thread = threadOf[s]
    /\ rows[d].print = printOf[s]
    /\ rows[d].inst = hubInstOf[s]

\* The row of request r's dispatch records its message.
Reserved(r) ==
    /\ Present(rows[dispatchOf[r]])
    /\ SameRequest(rows[dispatchOf[r]], threadOf[r], printOf[r])

\* A row that names a turn is the row of the message the turn was launched
\* for; the row an admission has reserved is its own; without auto-save there
\* are no rows; and a request is launched when its admission is through.
OwnedRows ==
    \A d \in Dispatches : rows[d].turn # NoTurn => OwnRow(d, rows[d].turn)

OwnedReservations ==
    \A r \in Requests : AutoSave /\ pc[r] = "admitting" => Reserved(r)

RowsOnlyIfSaved ==
    ~AutoSave => \A d \in Dispatches : ~Present(rows[d]) /\ rows[d].turn = NoTurn

LaunchedInOrder ==
    \A r \in Requests : /\ pc[r] \in Unlaunched => turn[r] = "none"
                        /\ pc[r] = "attaching" => turn[r] # "none"

OwnInv == OwnedRows /\ OwnedReservations /\ RowsOnlyIfSaved /\ LaunchedInOrder

\* The turn of a row is a request.
LEMMA TurnOfRow ==
    ASSUME TypeOK, NEW d \in Dispatches, rows[d].turn # NoTurn
    PROVE  rows[d].turn \in Requests
BY RequestAssumption DEF TypeOK, Row

\* A step that records nothing and launches nothing keeps it.
LEMMA OwnFrame ==
    ASSUME TypeOK, OwnInv, SameLaunched, Stay(Unlaunched), Stay({"admitting"}),
           Stay({"attaching"}),
           \A d \in Dispatches : SameOwner(rows[d], rows'[d])
    PROVE  OwnInv'
<1>1. ASSUME NEW d \in Dispatches, rows'[d].turn # NoTurn
      PROVE  OwnRow(d, rows[d].turn)'
  <2>1. rows[d].turn # NoTurn /\ OwnRow(d, rows[d].turn)
    BY <1>1 DEF SameOwner, OwnInv, OwnedRows
  <2>2. rows[d].turn \in Requests
    BY <2>1, TurnOfRow
  <2> QED
    BY <2>1, <2>2 DEF SameOwner, OwnRow, Launched, SameLaunched
<1>2. ASSUME NEW r \in Requests, AutoSave, pc'[r] = "admitting"
      PROVE  Reserved(r)'
  <2>1. dispatchOf[r] \in Dispatches /\ pc[r] = "admitting"
    BY <1>2, RequestAssumption DEF Stay
  <2> QED
    BY <1>2, <2>1 DEF OwnInv, OwnedReservations, Reserved, SameOwner, SameRequest
<1>3. ASSUME ~AutoSave, NEW d \in Dispatches
      PROVE  ~Present(rows'[d]) /\ rows'[d].turn = NoTurn
  BY <1>3 DEF OwnInv, RowsOnlyIfSaved, SameOwner
<1>4. \A r \in Requests :
          /\ pc'[r] \in Unlaunched => turn'[r] = "none"
          /\ pc'[r] = "attaching" => turn'[r] # "none"
  BY DEF OwnInv, LaunchedInOrder, SameLaunched, Stay, Launched
<1>5. OwnedRows'
  BY <1>1 DEF OwnedRows, OwnRow, Present, Launched
<1>6. OwnedReservations'
  BY <1>2 DEF OwnedReservations, Reserved, Present, SameRequest
<1>7. RowsOnlyIfSaved'
  BY <1>3 DEF RowsOnlyIfSaved, Present
<1>8. LaunchedInOrder'
  BY <1>4 DEF LaunchedInOrder
<1> QED
  BY <1>5, <1>6, <1>7, <1>8 DEF OwnInv

\* A reservation inserts the row of its own message.
LEMMA OwnReserve ==
    ASSUME TypeOK, OwnInv, NEW r \in Requests, Reserve(r)
    PROVE  OwnInv'
<1> DEFINE d == dispatchOf[r]
<1>1. d \in Dispatches /\ d \in DOMAIN rows
  BY RequestAssumption DEF TypeOK
<1>2. turn' = turn /\ pc[r] = "preparing" /\ pc' = [pc EXCEPT ![r] = "admitting"]
  BY DEF Reserve, turns
<1>3. AutoSave => ~Present(rows[d])
  BY DEF Reserve, Recorded
<1>4. rows[d].turn = NoTurn
  BY <1>1, <1>3 DEF OwnInv, OwnedRows, RowsOnlyIfSaved, OwnRow
<1>5. \A e \in Dispatches : e # d => rows'[e] = rows[e]
  BY DEF Reserve, TypeOK
<1>6. ~AutoSave => rows' = rows
  BY DEF Reserve
<1>7. AutoSave => rows'[d] = Inserted(rows, threadOf[r], printOf[r], instOf[r])
  BY <1>1 DEF Reserve, TypeOK
<1>8. AutoSave => /\ Present(rows'[d]) /\ rows'[d].turn = NoTurn
                  /\ SameRequest(rows'[d], threadOf[r], printOf[r])
  BY <1>7 DEF Inserted, Present, SameRequest
<1>9. rows'[d].turn = NoTurn
  BY <1>4, <1>6, <1>8
<1> HIDE DEF d
<1>10. \A e \in Dispatches : rows'[e].turn # NoTurn => OwnRow(e, rows[e].turn)'
  BY <1>2, <1>5, <1>9 DEF OwnInv, OwnedRows, OwnRow, Launched
<1>11. ASSUME NEW s \in Requests, AutoSave, pc'[s] = "admitting"
       PROVE  Reserved(s)'
  <2>1. CASE s = r
    BY <1>8, <1>11, <2>1 DEF d, Reserved, Present, SameRequest
  <2>2. CASE s # r
    <3>1. pc[s] = "admitting"
      BY <1>2, <1>11, <2>2 DEF TypeOK
    <3>2. dispatchOf[s] \in Dispatches /\ Present(rows[dispatchOf[s]])
      BY <1>11, <3>1, RequestAssumption DEF OwnInv, OwnedReservations, Reserved
    <3>3. rows'[dispatchOf[s]] = rows[dispatchOf[s]]
      BY <1>3, <1>5, <1>11, <3>2
    <3> QED
      BY <1>11, <3>1, <3>3 DEF OwnInv, OwnedReservations, Reserved
  <2> QED
    BY <2>1, <2>2
<1>12. \A s \in Requests :
           /\ pc'[s] \in Unlaunched => turn'[s] = "none"
           /\ pc'[s] = "attaching" => turn'[s] # "none"
  BY <1>2 DEF OwnInv, LaunchedInOrder, Launched, TypeOK, Unlaunched
<1>13. ~AutoSave => \A e \in Dispatches : ~Present(rows'[e]) /\ rows'[e].turn = NoTurn
  BY <1>6 DEF OwnInv, RowsOnlyIfSaved
<1>14. OwnedRows'
  BY <1>10 DEF OwnedRows, OwnRow, Present, Launched
<1>15. OwnedReservations'
  BY <1>11 DEF OwnedReservations, Reserved, Present, SameRequest
<1>16. RowsOnlyIfSaved'
  BY <1>13 DEF RowsOnlyIfSaved, Present
<1>17. LaunchedInOrder'
  BY <1>12 DEF LaunchedInOrder
<1> QED
  BY <1>14, <1>15, <1>16, <1>17 DEF OwnInv

\* What a launch, whole or torn, makes of the rows and of the turns.
LEMMA LaunchEffect ==
    ASSUME TypeOK, OwnInv, NEW r \in Requests, Launch(r) \/ CrashLaunching(r)
    PROVE  /\ turn[r] = "none" /\ turn'[r] # "none"
           /\ \A s \in Requests : s # r => (turn'[s] # "none" <=> turn[s] # "none")
           /\ \A e \in Dispatches : e # dispatchOf[r] => rows'[e] = rows[e]
           /\ ~AutoSave => rows' = rows
           /\ AutoSave =>
                 LET row == rows[dispatchOf[r]] after == rows'[dispatchOf[r]]
                 IN /\ Present(row)
                    /\ row.thread = threadOf[r] /\ row.print = printOf[r]
                    /\ row.turn = NoTurn /\ row.status = "pending"
                    /\ after.turn = r /\ after.inst = hubInstOf[r]
                    /\ after.thread = row.thread /\ after.print = row.print
                    /\ after.status \in Open
<1> DEFINE d == dispatchOf[r]
<1>1. d \in Dispatches /\ hubInstOf[r] \in Instances /\ r \in Turns /\ r # NoTurn
  BY RequestAssumption, StoreAssumption
<1>2. rows[d] \in Row
  BY <1>1 DEF TypeOK
<1>3. pc[r] = "admitting" /\ Bindable(r) /\ turn[r] = "none"
  BY DEF Launch, CrashLaunching, OwnInv, LaunchedInOrder, Launched, Unlaunched
<1>4. turn' = [turn EXCEPT ![r] = "running"] \/ turn' = [Killed(turn) EXCEPT ![r] = "dead"]
  BY DEF Launch, CrashLaunching
<1>5. /\ turn'[r] # "none"
      /\ \A s \in Requests : s # r => (turn'[s] # "none" <=> turn[s] # "none")
  BY <1>4 DEF Killed, TypeOK
<1>6. IF AutoSave THEN rows' \in {Accepted(r), Bound(r)} ELSE rows' = rows
  BY DEF Launch, CrashLaunching
<1>7. \A e \in Dispatches : e # d => rows'[e] = rows[e]
  BY <1>6 DEF Accepted, Bound, TypeOK
<1>8. ASSUME AutoSave
      PROVE  LET row == rows[d] after == rows'[d]
             IN /\ Present(row)
                /\ row.thread = threadOf[r] /\ row.print = printOf[r]
                /\ row.turn = NoTurn /\ row.status = "pending"
                /\ after.turn = r /\ after.inst = hubInstOf[r]
                /\ after.thread = row.thread /\ after.print = row.print
                /\ after.status \in Open
  <2>1. Present(rows[d]) /\ rows[d].thread = threadOf[r] /\ rows[d].print = printOf[r]
    BY <1>3, <1>8 DEF OwnInv, OwnedReservations, Reserved, SameRequest
  <2>2. rows[d].turn # r
    BY <1>1, <1>3 DEF OwnInv, OwnedRows, OwnRow, Launched
  <2>3. CanBind(rows[d], r, hubInstOf[r])
    BY <1>3, <1>8 DEF Bindable
  <2>4. rows'[d] \in {BindProviderTurn(rows[d], r, hubInstOf[r]),
                      MarkAccepted(BindProviderTurn(rows[d], r, hubInstOf[r]),
                                   r, hubInstOf[r])}
    BY <1>1, <1>6, <1>8 DEF Accepted, Bound, TypeOK
  <2> HIDE DEF d
  <2> QED
    BY <1>1, <1>2, <2>1, <2>2, <2>3, <2>4, BoundRow
<1> QED
  BY <1>3, <1>5, <1>6, <1>7, <1>8

\* A launch makes the row of its message name its turn.
LEMMA OwnLaunch ==
    ASSUME TypeOK, OwnInv, NEW r \in Requests, Launch(r) \/ CrashLaunching(r),
           Stay(Unlaunched)
    PROVE  OwnInv'
<1> DEFINE d == dispatchOf[r]
<1>1. d \in Dispatches /\ r # NoTurn
  BY RequestAssumption, StoreAssumption
<1>2. /\ turn[r] = "none" /\ turn'[r] # "none"
      /\ \A s \in Requests : s # r => (turn'[s] # "none" <=> turn[s] # "none")
      /\ \A e \in Dispatches : e # d => rows'[e] = rows[e]
  BY LaunchEffect
<1>3. /\ ~AutoSave => rows' = rows
      /\ AutoSave =>
            /\ rows'[d].turn = r /\ rows'[d].inst = hubInstOf[r]
            /\ rows'[d].thread = rows[d].thread /\ rows'[d].print = rows[d].print
            /\ rows[d].thread = threadOf[r] /\ rows[d].print = printOf[r]
            /\ Present(rows'[d])
  BY LaunchEffect DEF Present, Open
<1>4. pc'[r] \notin Unlaunched
  BY DEF Launch, CrashLaunching, Crashed, Restarted, TypeOK, Unlaunched
<1>5. \A s \in Requests :
          /\ pc'[s] = "admitting" => pc[s] = "admitting"
          /\ pc'[s] = "attaching" => pc[s] = "attaching" \/ s = r
  BY DEF Launch, CrashLaunching, Crashed, Restarted, TypeOK
<1> HIDE DEF d
<1>6. ASSUME NEW e \in Dispatches, rows'[e].turn # NoTurn
      PROVE  OwnRow(e, rows[e].turn)'
  <2>1. CASE e = d /\ AutoSave
    BY <1>2, <1>3, <2>1 DEF OwnRow, Launched, d
  <2>2. CASE e # d \/ ~AutoSave
    <3>1. rows'[e] = rows[e] /\ OwnRow(e, rows[e].turn) /\ rows[e].turn \in Requests
      BY <1>2, <1>3, <1>6, <2>2, TurnOfRow DEF OwnInv, OwnedRows
    <3> QED
      BY <1>2, <3>1 DEF OwnRow, Launched
  <2> QED
    BY <2>1, <2>2
<1>7. ASSUME NEW s \in Requests, AutoSave, pc'[s] = "admitting"
      PROVE  Reserved(s)'
  <2>0. dispatchOf[s] \in Dispatches /\ pc[s] = "admitting"
    BY <1>5, <1>7, RequestAssumption
  <2>1. /\ dispatchOf[s] \in Dispatches /\ Present(rows[dispatchOf[s]])
        /\ SameRequest(rows[dispatchOf[s]], threadOf[s], printOf[s])
    BY <1>7, <2>0 DEF OwnInv, OwnedReservations, Reserved
  <2>2. rows'[dispatchOf[s]].thread = rows[dispatchOf[s]].thread
          /\ rows'[dispatchOf[s]].print = rows[dispatchOf[s]].print
          /\ Present(rows'[dispatchOf[s]])
    BY <1>2, <1>3, <1>7, <2>1
  <2> QED
    BY <2>1, <2>2 DEF SameRequest, Reserved, Present
<1>8. \A s \in Requests :
          /\ pc'[s] \in Unlaunched => turn'[s] = "none"
          /\ pc'[s] = "attaching" => turn'[s] # "none"
  BY <1>2, <1>4, <1>5 DEF OwnInv, LaunchedInOrder, Launched, Stay
<1>9. ~AutoSave => \A e \in Dispatches : ~Present(rows'[e]) /\ rows'[e].turn = NoTurn
  BY <1>3 DEF OwnInv, RowsOnlyIfSaved
<1>10. OwnedRows'
  BY <1>6 DEF OwnedRows, OwnRow, Present, Launched
<1>11. OwnedReservations'
  BY <1>7 DEF OwnedReservations, Reserved, Present, SameRequest
<1>12. RowsOnlyIfSaved'
  BY <1>9 DEF RowsOnlyIfSaved, Present
<1>13. LaunchedInOrder'
  BY <1>8 DEF LaunchedInOrder
<1> QED
  BY <1>10, <1>11, <1>12, <1>13 DEF OwnInv

\* OwnInv is an invariant, with or without auto-save.
LEMMA OwnInductive == Spec => []OwnInv
<1>1. Init => OwnInv
  BY RequestAssumption
     DEF Init, OwnInv, OwnedRows, OwnedReservations, RowsOnlyIfSaved, LaunchedInOrder,
         Reserved, OwnRow, Launched, AbsentRow, Unlaunched, Present
<1>2. TypeOK /\ OwnInv /\ [Next]_vars => OwnInv'
  <2> SUFFICES ASSUME TypeOK, OwnInv, [Next]_vars PROVE OwnInv'
    OBVIOUS
  <2>1. CASE Reserves
    BY <2>1, OwnReserve DEF Reserves
  <2>2. CASE Launches
    BY <2>2, AdmissionStep, OwnLaunch DEF Launches
  <2>3. CASE ~Reserves /\ ~Launches
    <3>1. \A d \in Dispatches : SameOwner(rows[d], rows'[d])
      BY <2>3, RowsStep, RecoversOwners DEF AllKept, Kept
    <3> QED
      BY <2>3, <3>1, LaunchedStep, AdmissionStep, OwnFrame
  <2> QED
    BY <2>1, <2>2, <2>3
<1> QED
  BY <1>1, <1>2, TypeCorrect, PTL DEF Spec

-----------------------------------------------------------------------------
(* What a client is told.                                                  *)

SameMessage(s, r) == KeyOf(s) = KeyOf(r) /\ printOf[s] = printOf[r]

\* Turn s may be named to the client of r.
OwnAnswer(r, s) == s # NoTurn => Launched(s) /\ SameMessage(s, r)

\* The inductive strengthening of AnswerIsOwn: an admission in flight is found
\* under its own key, and a coalesced retry waits for an admission of its own
\* message that was not, and will not be, told that the thread is busy.
OwnInflight ==
    \A k \in Threads \X Dispatches : inflight[k] # NoReq =>
        /\ KeyOf(inflight[k]) = k
        /\ pc[inflight[k]] \in {"admitting", "attaching"}

OwnLeader ==
    \A r \in Requests : pc[r] = "joined" =>
        /\ SameMessage(leader[r], r)
        /\ pc[leader[r]] \in {"admitting", "attaching", "answered"}
        /\ reply[leader[r]].kind # "turn_active"

TurnActiveIsFinal ==
    \A r \in Requests : reply[r].kind = "turn_active" => pc[r] = "answered"

AnswerInv == AnswerIsOwn /\ OwnInflight /\ OwnLeader /\ TurnActiveIsFinal

\* Launched turns stay launched, and recorded dispatches recorded.
LEMMA LaunchedForGood ==
    ASSUME TypeOK, OwnInv, [Next]_vars
    PROVE  \A r \in Requests : turn[r] # "none" => turn'[r] # "none"
<1>1. CASE SameLaunched
  BY <1>1 DEF SameLaunched
<1>2. ASSUME NEW r \in Requests, Launch(r) \/ CrashLaunching(r)
      PROVE  \A s \in Requests : turn[s] # "none" => turn'[s] # "none"
  BY <1>2, LaunchEffect
<1> QED
  BY <1>1, <1>2, LaunchedStep DEF Launches

LEMMA RecordedForGood ==
    ASSUME TypeOK, OwnInv, [Next]_vars, NEW d \in Dispatches, Present(rows[d])
    PROVE  Present(rows'[d])
<1>1. CASE SameOwner(rows[d], rows'[d])
  BY <1>1 DEF SameOwner
<1>2. ASSUME NEW r \in Requests, Reserve(r) PROVE Present(rows'[d])
  <2>1. CASE AutoSave /\ d = dispatchOf[r]
    BY <1>2, <2>1 DEF Reserve, Recorded
  <2>2. CASE ~(AutoSave /\ d = dispatchOf[r])
    <3>1. rows'[d] = rows[d]
      BY <1>2, <2>2 DEF Reserve, TypeOK
    <3> QED
      BY <3>1
  <2> QED
    BY <2>1, <2>2
<1>3. ASSUME NEW r \in Requests, Launch(r) \/ CrashLaunching(r) PROVE Present(rows'[d])
  <2>1. /\ \A e \in Dispatches : e # dispatchOf[r] => rows'[e] = rows[e]
        /\ ~AutoSave => rows' = rows
        /\ AutoSave => rows'[dispatchOf[r]].status \in Open
    BY <1>3, LaunchEffect
  <2> QED
    BY <2>1 DEF Present, Open
<1> QED
  BY <1>1, <1>2, <1>3, RowsStep, RecoversOwners DEF Reserves, Launches, AllKept, Kept

\* What a recorded row answers a request of its own message.
LEMMA RowAnswer ==
    ASSUME TypeOK, OwnInv, NEW r \in Requests,
           SameRequest(rows[dispatchOf[r]], threadOf[r], printOf[r])
    PROVE  /\ OwnAnswer(r, ExistingResponse(rows[dispatchOf[r]]).turn)
           /\ ExistingResponse(rows[dispatchOf[r]]).kind # "turn_active"
<1> DEFINE d == dispatchOf[r]
           row == rows[d]
           answer == ExistingResponse(row)
<1>1. d \in Dispatches
  BY RequestAssumption
<1>2. answer.turn \in {NoTurn, row.turn} /\ answer.kind # "turn_active"
  BY DEF ExistingResponse, Reply
<1>3. row.turn # NoTurn => Launched(row.turn) /\ SameMessage(row.turn, r)
  BY <1>1 DEF OwnInv, OwnedRows, OwnRow, SameRequest, SameMessage, KeyOf
<1> HIDE DEF answer
<1>4. OwnAnswer(r, answer.turn) /\ answer.kind # "turn_active"
  BY <1>2, <1>3 DEF OwnAnswer
<1> QED
  BY <1>4 DEF answer

\* An answer of a step is the client's own, and keeps every answer so.
LEMMA AnsweredOwn ==
    ASSUME TypeOK, AnswerIsOwn, NEW r \in Requests, NEW answer, Answered(r, answer),
           OwnAnswer(r, answer.turn),
           \A s \in Requests : turn[s] # "none" => turn'[s] # "none",
           answer.turn \in Requests \cup {NoTurn}
    PROVE  AnswerIsOwn'
<1> SUFFICES ASSUME NEW q \in Requests, reply'[q].turn # NoTurn
             PROVE  LET s == reply'[q].turn
                    IN turn'[s] # "none" /\ KeyOf(s) = KeyOf(q) /\ printOf[s] = printOf[q]
  BY DEF AnswerIsOwn, Launched, KeyOf
<1>1. CASE q = r
  <2>1. reply'[r] = answer
    BY DEF Answered, TypeOK
  <2> QED
    BY <1>1, <2>1 DEF OwnAnswer, SameMessage, Launched
<1>2. CASE q # r
  <2>1. reply'[q] = reply[q] /\ reply[q].turn \in Requests \cup {NoTurn}
    BY <1>2 DEF Answered, TypeOK, Replies
  <2> QED
    BY <2>1 DEF AnswerIsOwn, Launched
<1> QED
  BY <1>1, <1>2

\* A request that is not in flight is answered; it leads nobody.
LEMMA AnswerOutside ==
    ASSUME TypeOK, AnswerInv, NEW r \in Requests, NEW answer, Answered(r, answer),
           AnswerIsOwn', pc[r] \in {"new", "preparing", "joined"},
           UNCHANGED leader,
           \A k \in Threads \X Dispatches : inflight'[k] \in {inflight[k], NoReq}
    PROVE  AnswerInv'
<1>1. \A s \in Requests : s # r => pc'[s] = pc[s] /\ reply'[s] = reply[s]
  BY DEF Answered, TypeOK
<1>2. pc'[r] = "answered"
  BY DEF Answered, TypeOK
<1>3. \A k \in Threads \X Dispatches : inflight[k] \in Requests \cup {NoReq}
  BY DEF TypeOK
<1>4. OwnInflight'
  BY <1>1, <1>3 DEF AnswerInv, OwnInflight, KeyOf
<1>5. ASSUME NEW s \in Requests, pc'[s] = "joined"
      PROVE  /\ KeyOf(leader[s]) = KeyOf(s) /\ printOf[leader[s]] = printOf[s]
             /\ pc'[leader[s]] \in {"admitting", "attaching", "answered"}
             /\ reply'[leader[s]].kind # "turn_active"
  <2>1. s # r /\ pc[s] = "joined"
    BY <1>1, <1>2, <1>5
  <2>2. /\ SameMessage(leader[s], s) /\ reply[leader[s]].kind # "turn_active"
        /\ pc[leader[s]] \in {"admitting", "attaching", "answered"}
    BY <2>1 DEF AnswerInv, OwnLeader
  <2>3. leader[s] \in Requests \/ leader[s] = NoReq
    BY DEF TypeOK
  <2>4. leader[s] # r
    BY <2>2
  <2>5. pc'[leader[s]] = pc[leader[s]] /\ reply'[leader[s]] = reply[leader[s]]
    BY <2>4 DEF Answered, TypeOK
  <2> QED
    BY <2>2, <2>5 DEF SameMessage
<1>6. OwnLeader'
  BY <1>5 DEF OwnLeader, SameMessage, KeyOf
<1>7. TurnActiveIsFinal'
  BY <1>1, <1>2 DEF AnswerInv, TurnActiveIsFinal
<1> QED
  BY <1>4, <1>6, <1>7 DEF AnswerInv

\* A request for a known id joins its own admission or is answered its own.
LEMMA AnswerKnownOwn ==
    ASSUME TypeOK, OwnInv, AnswerInv, NEW r \in Requests, AnswerKnown(r),
           pc[r] \in {"new", "preparing"}, inflight' = inflight,
           \A s \in Requests : turn[s] # "none" => turn'[s] # "none"
    PROVE  AnswerInv'
<1> DEFINE h == InFlight(r)
<1>1. CASE /\ h # NoReq /\ printOf[h] = printOf[r]
           /\ pc' = [pc EXCEPT ![r] = "joined"]
           /\ leader' = [leader EXCEPT ![r] = h]
           /\ UNCHANGED reply
  <2>1. /\ SameMessage(h, r) /\ h \in Requests
        /\ pc[h] \in {"admitting", "attaching"}
    <3>1. KeyOf(r) \in Threads \X Dispatches
      BY RequestAssumption DEF KeyOf
    <3>2. inflight[KeyOf(r)] = h /\ h \in Requests
      BY <1>1, <3>1 DEF InFlight, TypeOK
    <3>3. KeyOf(h) = KeyOf(r) /\ pc[h] \in {"admitting", "attaching"}
      BY <1>1, <3>1, <3>2 DEF AnswerInv, OwnInflight
    <3> QED
      BY <1>1, <3>2, <3>3 DEF SameMessage
  <2> HIDE DEF h
  <2>2. \A s \in Requests : s # r => pc'[s] = pc[s] /\ leader'[s] = leader[s]
    BY <1>1 DEF TypeOK
  <2>3. pc'[r] = "joined" /\ leader'[r] = h /\ h # r
    BY <1>1, <2>1 DEF TypeOK
  <2>4. \A k \in Threads \X Dispatches : inflight[k] \in Requests \cup {NoReq}
    BY DEF TypeOK
  <2>5. OwnInflight'
    BY <2>2, <2>4 DEF AnswerInv, OwnInflight, KeyOf
  <2>6. reply[h].kind # "turn_active"
    BY <2>1 DEF AnswerInv, TurnActiveIsFinal
  <2>7. ASSUME NEW s \in Requests, pc'[s] = "joined"
        PROVE  /\ SameMessage(leader'[s], s)
               /\ pc'[leader'[s]] \in {"admitting", "attaching", "answered"}
               /\ reply[leader'[s]].kind # "turn_active"
    <3>1. CASE s = r
      BY <2>1, <2>2, <2>3, <2>6, <3>1
    <3>2. CASE s # r
      <4>1. /\ pc[s] = "joined" /\ leader'[s] = leader[s]
        BY <2>2, <2>7, <3>2
      <4>2. /\ SameMessage(leader[s], s) /\ reply[leader[s]].kind # "turn_active"
            /\ pc[leader[s]] \in {"admitting", "attaching", "answered"}
        BY <4>1 DEF AnswerInv, OwnLeader
      <4>3. leader[s] # r
        BY <4>2
      <4>4. pc'[leader[s]] = pc[leader[s]]
        BY <1>1, <4>3 DEF TypeOK
      <4> QED
        BY <4>1, <4>2, <4>4
    <3> QED
      BY <3>1, <3>2
  <2>8. OwnLeader'
    BY <1>1, <2>7 DEF OwnLeader, SameMessage, KeyOf
  <2>9. TurnActiveIsFinal'
    BY <1>1, <2>2 DEF AnswerInv, TurnActiveIsFinal
  <2>10. AnswerIsOwn'
    <3> SUFFICES ASSUME NEW q \in Requests, reply[q].turn # NoTurn
                 PROVE  LET s == reply[q].turn
                        IN /\ turn'[s] # "none"
                           /\ KeyOf(s) = KeyOf(q) /\ printOf[s] = printOf[q]
      BY <1>1 DEF AnswerIsOwn, Launched, KeyOf
    <3>1. reply[q].turn \in Requests
      BY RequestAssumption DEF TypeOK, Replies
    <3> QED
      BY <3>1 DEF AnswerInv, AnswerIsOwn, Launched
  <2> QED
    BY <2>5, <2>8, <2>9, <2>10 DEF AnswerInv
<1>2. ASSUME NEW answer, Answered(r, answer), UNCHANGED leader,
             OwnAnswer(r, answer.turn), answer.turn \in Requests \cup {NoTurn}
      PROVE  AnswerInv'
  <2>1. AnswerIsOwn'
    BY <1>2, AnsweredOwn DEF AnswerInv
  <2> QED
    BY <1>2, <2>1, AnswerOutside
<1> DEFINE conflict == Error("dispatch_id_conflict")
           answer == IF SameRequest(rows[dispatchOf[r]], threadOf[r], printOf[r])
                     THEN ExistingResponse(rows[dispatchOf[r]]) ELSE conflict
<1>3. /\ OwnAnswer(r, conflict.turn) /\ conflict.turn \in Requests \cup {NoTurn}
  BY DEF Error, Reply, OwnAnswer
<1>4. OwnAnswer(r, answer.turn) /\ answer.turn \in Requests \cup {NoTurn}
  <2>1. CASE SameRequest(rows[dispatchOf[r]], threadOf[r], printOf[r])
    <3>1. ExistingResponse(rows[dispatchOf[r]]) \in Replies
      BY RequestAssumption, ResponseType DEF TypeOK
    <3>2. ExistingResponse(rows[dispatchOf[r]]).turn \in Requests \cup {NoTurn}
      BY <3>1 DEF Replies
    <3> QED
      BY <2>1, <3>2, RowAnswer
  <2>2. CASE ~SameRequest(rows[dispatchOf[r]], threadOf[r], printOf[r])
    BY <1>3, <2>2
  <2> QED
    BY <2>1, <2>2
<1>5. CASE Answered(r, conflict) /\ UNCHANGED leader
  BY <1>2, <1>3, <1>5
<1>6. CASE Answered(r, answer) /\ UNCHANGED leader
  <2> HIDE DEF answer
  <2> QED
    BY <1>2, <1>4, <1>6
<1> QED
  BY <1>1, <1>5, <1>6 DEF AnswerKnown

\* An admission ends: its entry goes, and its retries have an answer.
LEMMA AnswerEnds ==
    ASSUME TypeOK, AnswerInv, NEW r \in Requests, NEW answer, Answered(r, answer),
           AnswerIsOwn', pc[r] \in {"admitting", "attaching"},
           UNCHANGED leader, inflight' = WithoutInflight(r),
           answer.kind # "turn_active"
    PROVE  AnswerInv'
<1>1. /\ pc'[r] = "answered" /\ reply'[r] = answer
      /\ \A s \in Requests : s # r => pc'[s] = pc[s] /\ reply'[s] = reply[s]
  BY DEF Answered, TypeOK
<1>2. ASSUME NEW k \in Threads \X Dispatches, inflight'[k] # NoReq
      PROVE  /\ KeyOf(inflight'[k]) = k
             /\ pc'[inflight'[k]] \in {"admitting", "attaching"}
  <2>1. inflight[k] \in Requests \cup {NoReq}
    BY DEF TypeOK
  <2>2. inflight'[k] = IF k = KeyOf(r) /\ inflight[k] = r THEN NoReq ELSE inflight[k]
    BY DEF WithoutInflight, TypeOK
  <2>3. KeyOf(inflight[k]) = k /\ pc[inflight[k]] \in {"admitting", "attaching"}
    BY <1>2, <2>2 DEF AnswerInv, OwnInflight
  <2>4. inflight[k] # r /\ inflight'[k] = inflight[k] /\ inflight[k] \in Requests
    BY <1>2, <2>1, <2>2, <2>3
  <2> QED
    BY <1>1, <2>3, <2>4
<1>3. OwnInflight'
  BY <1>2 DEF OwnInflight, KeyOf
<1>4. ASSUME NEW s \in Requests, pc'[s] = "joined"
      PROVE  /\ SameMessage(leader[s], s)
             /\ pc'[leader[s]] \in {"admitting", "attaching", "answered"}
             /\ reply'[leader[s]].kind # "turn_active"
  <2>1. pc[s] = "joined"
    BY <1>1, <1>4
  <2>2. /\ SameMessage(leader[s], s) /\ reply[leader[s]].kind # "turn_active"
        /\ pc[leader[s]] \in {"admitting", "attaching", "answered"}
    BY <2>1 DEF AnswerInv, OwnLeader
  <2>3. CASE leader[s] = r
    BY <1>1, <2>2, <2>3
  <2>4. CASE leader[s] # r
    <3>1. pc'[leader[s]] = pc[leader[s]] /\ reply'[leader[s]] = reply[leader[s]]
      BY <2>4 DEF Answered, TypeOK
    <3> QED
      BY <2>2, <3>1
  <2> QED
    BY <2>3, <2>4
<1>5. OwnLeader'
  BY <1>4 DEF OwnLeader, SameMessage, KeyOf
<1>6. TurnActiveIsFinal'
  BY <1>1 DEF AnswerInv, TurnActiveIsFinal
<1> QED
  BY <1>3, <1>5, <1>6 DEF AnswerInv

\* A step that answers nobody and moves nobody out of flight.
LEMMA AnswerFrame ==
    ASSUME TypeOK, JoinedHasLeader, AnswerInv, UNCHANGED <<reply, leader>>,
           \A s \in Requests : turn[s] # "none" => turn'[s] # "none",
           \A s \in Requests :
              /\ pc[s] \in {"admitting", "attaching"} =>
                    pc'[s] \in {"admitting", "attaching"}
              /\ pc'[s] = "joined" => pc[s] = "joined"
              /\ pc[s] = "answered" => pc'[s] = "answered",
           \A k \in Threads \X Dispatches :
              inflight'[k] # NoReq =>
                 \/ inflight'[k] = inflight[k]
                 \/ /\ KeyOf(inflight'[k]) = k
                    /\ pc'[inflight'[k]] \in {"admitting", "attaching"}
    PROVE  AnswerInv'
<1>1. OwnInflight'
  <2> SUFFICES ASSUME NEW k \in Threads \X Dispatches, inflight'[k] # NoReq
               PROVE  /\ KeyOf(inflight'[k]) = k
                      /\ pc'[inflight'[k]] \in {"admitting", "attaching"}
    BY DEF OwnInflight, KeyOf
  <2>1. CASE inflight'[k] = inflight[k]
    <3>1. inflight[k] \in Requests
      BY <2>1 DEF TypeOK
    <3>2. KeyOf(inflight[k]) = k /\ pc[inflight[k]] \in {"admitting", "attaching"}
      BY <2>1 DEF AnswerInv, OwnInflight
    <3> QED
      BY <2>1, <3>1, <3>2
  <2> QED
    BY <2>1
<1>2. OwnLeader'
  <2> SUFFICES ASSUME NEW s \in Requests, pc'[s] = "joined"
               PROVE  /\ SameMessage(leader[s], s)
                      /\ pc'[leader[s]] \in {"admitting", "attaching", "answered"}
                      /\ reply[leader[s]].kind # "turn_active"
    BY DEF OwnLeader, SameMessage, KeyOf
  <2>1. leader[s] \in Requests
    BY DEF JoinedHasLeader
  <2> QED
    BY <2>1 DEF AnswerInv, OwnLeader
<1>3. TurnActiveIsFinal'
  BY DEF AnswerInv, TurnActiveIsFinal
<1>4. AnswerIsOwn'
  <2> SUFFICES ASSUME NEW q \in Requests, reply[q].turn # NoTurn
               PROVE  LET s == reply[q].turn
                      IN turn'[s] # "none" /\ KeyOf(s) = KeyOf(q) /\ printOf[s] = printOf[q]
    BY DEF AnswerIsOwn, Launched, KeyOf
  <2>1. reply[q].turn \in Requests
    BY RequestAssumption DEF TypeOK, Replies
  <2> QED
    BY <2>1 DEF AnswerInv, AnswerIsOwn, Launched
<1> QED
  BY <1>1, <1>2, <1>3, <1>4 DEF AnswerInv

\* Across a restart nobody is in flight and nobody waits.
LEMMA AnswerRestarted ==
    ASSUME TypeOK, AnswerInv, Restarted,
           \A s \in Requests : turn[s] # "none" => turn'[s] # "none"
    PROVE  AnswerInv'
<1>1. OwnInflight'
  BY DEF Restarted, TypeOK, OwnInflight
<1>2. OwnLeader'
  BY DEF Restarted, TypeOK, OwnLeader
<1>3. TurnActiveIsFinal'
  BY DEF Restarted, TypeOK, AnswerInv, TurnActiveIsFinal
<1>4. AnswerIsOwn'
  <2> SUFFICES ASSUME NEW q \in Requests, reply[q].turn # NoTurn
               PROVE  LET s == reply[q].turn
                      IN turn'[s] # "none" /\ KeyOf(s) = KeyOf(q) /\ printOf[s] = printOf[q]
    BY DEF AnswerIsOwn, Launched, KeyOf, Restarted
  <2>1. reply[q].turn \in Requests
    BY RequestAssumption DEF TypeOK, Replies
  <2> QED
    BY <2>1 DEF AnswerInv, AnswerIsOwn, Launched
<1> QED
  BY <1>1, <1>2, <1>3, <1>4 DEF AnswerInv

\* AnswerInv is an invariant, with or without auto-save.
LEMMA AnswerInductive == Spec => []AnswerInv
<1>1. Init => AnswerInv
  BY DEF Init, AnswerInv, AnswerIsOwn, OwnInflight, OwnLeader, TurnActiveIsFinal,
         NoReply, Reply
<1>2. TypeOK /\ JoinedHasLeader /\ OwnInv /\ AnswerInv /\ [Next]_vars => AnswerInv'
  <2> SUFFICES ASSUME TypeOK, JoinedHasLeader, OwnInv, AnswerInv, [Next]_vars
               PROVE  AnswerInv'
    OBVIOUS
  <2>1. \A s \in Requests : turn[s] # "none" => turn'[s] # "none"
    BY LaunchedForGood
  <2>2. ASSUME NEW r \in Requests, NEW code, Answered(r, Error(code)),
               UNCHANGED leader
        PROVE  AnswerIsOwn'
    <3>1. OwnAnswer(r, Error(code).turn) /\ Error(code).turn \in Requests \cup {NoTurn}
      BY DEF Error, Reply, OwnAnswer
    <3> QED
      BY <2>1, <2>2, <3>1, AnsweredOwn DEF AnswerInv
  <2>3. ASSUME NEW r \in Requests, Arrive(r) PROVE AnswerInv'
    <3>1. CASE AnswerKnown(r)
      BY <2>1, <2>3, <3>1, AnswerKnownOwn DEF Arrive
    <3>2. CASE ~AnswerKnown(r)
      BY <2>1, <2>3, <3>2, AnswerFrame DEF Arrive, TypeOK
    <3> QED
      BY <3>1, <3>2
  <2>4. ASSUME NEW r \in Requests, RefuseEarly(r) PROVE AnswerInv'
    BY <2>2, <2>4, AnswerOutside DEF RefuseEarly
  <2>5. ASSUME NEW r \in Requests, Replay(r) PROVE AnswerInv'
    <3> DEFINE l == leader[r]
    <3>1. /\ pc[r] = "joined" /\ pc[l] = "answered" /\ Answered(r, reply[l])
          /\ UNCHANGED <<leader, inflight>>
      BY <2>5 DEF Replay
    <3>2. l \in Requests /\ SameMessage(l, r)
      BY <3>1 DEF JoinedHasLeader, AnswerInv, OwnLeader
    <3>3. reply[l].turn \in Requests \cup {NoTurn}
      BY <3>2 DEF TypeOK, Replies
    <3>4. OwnAnswer(r, reply[l].turn)
      BY <3>2 DEF AnswerInv, AnswerIsOwn, OwnAnswer, SameMessage
    <3> HIDE DEF l
    <3>5. AnswerIsOwn'
      BY <2>1, <3>1, <3>3, <3>4, AnsweredOwn DEF AnswerInv
    <3> QED
      BY <3>1, <3>5, AnswerOutside
  <2>6. ASSUME NEW r \in Requests, ReserveBusy(r) PROVE AnswerInv'
    <3>1. CASE AnswerKnown(r)
      BY <2>1, <2>6, <3>1, AnswerKnownOwn DEF ReserveBusy
    <3>2. CASE Answered(r, Error("turn_active")) /\ UNCHANGED leader
      BY <2>2, <2>6, <3>2, AnswerOutside DEF ReserveBusy
    <3> QED
      BY <2>6, <3>1, <3>2 DEF ReserveBusy
  <2>7. ASSUME NEW r \in Requests, ReserveExisting(r) PROVE AnswerInv'
    <3>1. /\ pc[r] = "preparing" /\ UNCHANGED leader
          /\ inflight' = [inflight EXCEPT ![KeyOf(r)] = NoReq]
      BY <2>7 DEF ReserveExisting
    <3>2. \A k \in Threads \X Dispatches : inflight'[k] \in {inflight[k], NoReq}
      BY <3>1 DEF TypeOK
    <3>3. CASE SameRequest(rows[dispatchOf[r]], threadOf[r], printOf[r])
      <4> DEFINE answer == ExistingResponse(rows[dispatchOf[r]])
      <4>1. answer \in Replies /\ OwnAnswer(r, answer.turn)
        BY <3>3, RowAnswer, ResponseType, RequestAssumption DEF TypeOK
      <4>2. Answered(r, answer)
        BY <2>7, <3>3 DEF ReserveExisting
      <4> HIDE DEF answer
      <4>3. answer.turn \in Requests \cup {NoTurn}
        BY <4>1 DEF Replies
      <4>4. AnswerIsOwn'
        BY <2>1, <4>1, <4>2, <4>3, AnsweredOwn DEF AnswerInv
      <4> QED
        BY <3>1, <3>2, <4>2, <4>4, AnswerOutside
    <3>4. CASE ~SameRequest(rows[dispatchOf[r]], threadOf[r], printOf[r])
      <4>1. Answered(r, Error("dispatch_id_conflict"))
        BY <2>7, <3>4 DEF ReserveExisting
      <4> QED
        BY <2>2, <3>1, <3>2, <4>1, AnswerOutside
    <3> QED
      BY <3>3, <3>4
  <2>8. ASSUME NEW r \in Requests, Reserve(r) PROVE AnswerInv'
    <3>1. /\ pc[r] = "preparing" /\ pc' = [pc EXCEPT ![r] = "admitting"]
          /\ inflight' = [inflight EXCEPT ![KeyOf(r)] = r]
          /\ UNCHANGED <<reply, leader>>
      BY <2>8 DEF Reserve
    <3>2. pc'[r] = "admitting" /\ \A s \in Requests : s # r => pc'[s] = pc[s]
      BY <3>1 DEF TypeOK
    <3>3. \A k \in Threads \X Dispatches :
             inflight'[k] = inflight[k] \/ (k = KeyOf(r) /\ inflight'[k] = r)
      BY <3>1 DEF TypeOK
    <3> QED
      BY <2>1, <3>1, <3>2, <3>3, AnswerFrame
  <2>9. ASSUME NEW r \in Requests, Refuse(r) \/ LaunchUnbindable(r) \/ AttachFails(r)
        PROVE  AnswerInv'
    <3>1. /\ pc[r] \in {"admitting", "attaching"} /\ Answered(r, Error("error"))
          /\ UNCHANGED leader /\ inflight' = WithoutInflight(r)
      BY <2>9 DEF Refuse, LaunchUnbindable, AttachFails
    <3>2. Error("error").kind # "turn_active"
      BY DEF Error, Reply
    <3> QED
      BY <2>2, <3>1, <3>2, AnswerEnds
  <2>10. ASSUME NEW r \in Requests, Attached(r) PROVE AnswerInv'
    <3> DEFINE answer == Reply("streaming", r)
    <3>1. /\ pc[r] = "attaching" /\ Answered(r, answer)
          /\ UNCHANGED leader /\ inflight' = WithoutInflight(r)
      BY <2>10 DEF Attached
    <3>2. answer.turn = r /\ answer.kind # "turn_active"
      BY DEF Reply
    <3>3. OwnAnswer(r, r)
      BY <3>1 DEF OwnAnswer, SameMessage, OwnInv, LaunchedInOrder, Launched
    <3> HIDE DEF answer
    <3>4. AnswerIsOwn'
      BY <2>1, <3>1, <3>2, <3>3, AnsweredOwn DEF AnswerInv
    <3> QED
      BY <3>1, <3>2, <3>4, AnswerEnds
  <2>11. ASSUME NEW r \in Requests, Launch(r) PROVE AnswerInv'
    <3>1. /\ pc[r] = "admitting" /\ pc' = [pc EXCEPT ![r] = "attaching"]
          /\ UNCHANGED <<reply, leader, inflight>>
      BY <2>11 DEF Launch
    <3>2. pc'[r] = "attaching" /\ \A s \in Requests : s # r => pc'[s] = pc[s]
      BY <3>1 DEF TypeOK
    <3> QED
      BY <2>1, <3>1, <3>2, AnswerFrame
  <2>12. ASSUME UNCHANGED admission PROVE AnswerInv'
    BY <2>1, <2>12, AnswerFrame DEF admission
  <2>13. ASSUME NEW r \in Requests,
                \/ SessionReady(r) \/ TurnEnds(r) \/ DispatchSettles(r) \/ TurnCleared(r)
                \/ DeliverTerminal(r) \/ ReplayTerminal(r)
         PROVE  UNCHANGED admission
    BY <2>13 DEF SessionReady, TurnEnds, DispatchSettles, DispatchReturns,
       DispatchRejects, TurnCleared, DeliverTerminal, ReplayTerminal
  <2>14. ASSUME NEW t \in Threads,
                StopArrives(t) \/ Stopping(t) \/ BeginRevert(t) \/ EndRevert(t)
         PROVE  UNCHANGED admission
    BY <2>14 DEF Stopping, StopArrives, StopRecovered, StopFinishes, StopFails,
                 BeginRevert, EndRevert
  <2>15. ASSUME \/ \E r \in Requests : CrashLaunching(r) \/ CrashDelivering(r)
                \/ \E d \in Dispatches : CrashRecovering(d)
                \/ Crash \/ EmergencyRestart
         PROVE  Restarted
    BY <2>15 DEF CrashLaunching, CrashDelivering, CrashRecovering, Crash,
                 EmergencyRestart, Crashed
  <2>16. ASSUME Recovery \/ UNCHANGED vars PROVE UNCHANGED admission
    BY <2>16 DEF Recovery, RecoverPending, OpenHttp, RecoverOne, vars
  <2>17. ASSUME Restarted PROVE AnswerInv'
    BY <2>1, <2>17, AnswerRestarted
  <2> QED
    BY <2>3, <2>4, <2>5, <2>6, <2>7, <2>8, <2>9, <2>10, <2>11, <2>12, <2>13, <2>14,
       <2>15, <2>16, <2>17 DEF Next, Admission
<1> QED
  BY <1>1, <1>2, TypeCorrect, OwnInductive, PTL DEF Spec

\* With or without auto-save, whatever row, in-flight admission or coalesced
\* retry an answer is taken from: a client is told of no turn but one launched
\* for its own message.
THEOREM AnswersAreOwn == Spec => []AnswerIsOwn
<1>1. AnswerInv => AnswerIsOwn
  BY DEF AnswerInv
<1> QED
  BY <1>1, AnswerInductive, PTL

\* With auto-save, a message and its retries that are told a turn are told the
\* same one, however many of them, restarts in between included.
THEOREM RetriesToldTheSameTurn ==
    ASSUME AutoSave
    PROVE  Spec => [](\A r, s \in Requests :
                         /\ SameMessage(r, s)
                         /\ reply[r].turn # NoTurn /\ reply[s].turn # NoTurn
                         => reply[r].turn = reply[s].turn)
<1> DEFINE Told == \A r, s \in Requests :
                      /\ SameMessage(r, s)
                      /\ reply[r].turn # NoTurn /\ reply[s].turn # NoTurn
                      => reply[r].turn = reply[s].turn
<1>1. TypeOK /\ AnswerIsOwn /\ AtMostOneTurnPerDispatch => Told
  <2> SUFFICES ASSUME TypeOK, AnswerIsOwn, AtMostOneTurnPerDispatch,
                      NEW r \in Requests, NEW s \in Requests, SameMessage(r, s),
                      reply[r].turn # NoTurn, reply[s].turn # NoTurn
               PROVE  reply[r].turn = reply[s].turn
    OBVIOUS
  <2>1. reply[r].turn \in Requests /\ reply[s].turn \in Requests
    BY DEF TypeOK, Replies
  <2>2. dispatchOf[reply[r].turn] = dispatchOf[reply[s].turn]
    BY DEF AnswerIsOwn, SameMessage, KeyOf
  <2> QED
    BY <2>1, <2>2 DEF AnswerIsOwn, AtMostOneTurnPerDispatch
<1> HIDE DEF Told
<1>2. Spec => []Told
  BY <1>1, AnswersAreOwn, LaunchedOnce, TypeCorrect, PTL
<1> QED
  BY <1>2 DEF Told

-----------------------------------------------------------------------------
(* A retry is not told that the thread is busy with its own message.       *)

\* Whoever holds a thread's token has recorded its dispatch.
TokenRecorded ==
    \A t \in Threads : token[t] # NoReq => Present(rows[dispatchOf[token[t]]])

\* A step that hands no token to another request keeps it.
LEMMA RecordedFrame ==
    ASSUME TypeOK, OwnInv, TokenRecorded, [Next]_vars,
           \A t \in Threads : token'[t] \in {token[t], NoReq}
    PROVE  TokenRecorded'
<1> SUFFICES ASSUME NEW t \in Threads, token'[t] # NoReq
             PROVE  Present(rows'[dispatchOf[token'[t]]])
  BY DEF TokenRecorded, Present
<1>1. token'[t] = token[t] /\ token[t] \in Requests
  BY DEF TypeOK
<1>2. dispatchOf[token[t]] \in Dispatches /\ Present(rows[dispatchOf[token[t]]])
  BY <1>1, RequestAssumption DEF TokenRecorded
<1> QED
  BY <1>1, <1>2, RecordedForGood

\* Only a reservation takes a token.
LEMMA TokenStep ==
    ASSUME TypeOK, [Next]_vars
    PROVE  Reserves \/ \A t \in Threads : token'[t] \in {token[t], NoReq}
<1>1. ASSUME token' = token PROVE \A t \in Threads : token'[t] \in {token[t], NoReq}
  BY <1>1
<1>2. ASSUME NEW r \in Requests, token' = WithoutToken(r)
      PROVE  \A t \in Threads : token'[t] \in {token[t], NoReq}
  BY <1>2 DEF WithoutToken, TypeOK
<1>3. ASSUME Restarted PROVE \A t \in Threads : token'[t] \in {token[t], NoReq}
  BY <1>3 DEF Restarted
<1>4. ASSUME NEW r \in Requests,
             \/ Arrive(r) \/ RefuseEarly(r) \/ Replay(r) \/ ReserveBusy(r)
             \/ ReserveExisting(r) \/ Launch(r) \/ Attached(r) \/ AttachFails(r)
             \/ SessionReady(r) \/ TurnEnds(r) \/ DispatchSettles(r)
             \/ DeliverTerminal(r) \/ ReplayTerminal(r)
      PROVE  token' = token
  BY <1>4 DEF Arrive, RefuseEarly, Replay, ReserveBusy, ReserveExisting, Launch, Attached,
     AttachFails, SessionReady, TurnEnds, DispatchSettles, DispatchReturns,
     DispatchRejects, DeliverTerminal, ReplayTerminal
<1>5. ASSUME NEW r \in Requests, Refuse(r) \/ LaunchUnbindable(r) \/ TurnCleared(r)
      PROVE  token' = WithoutToken(r)
  BY <1>5 DEF Refuse, LaunchUnbindable, TurnCleared
<1>6. ASSUME NEW t \in Threads,
             StopArrives(t) \/ Stopping(t) \/ BeginRevert(t) \/ EndRevert(t)
      PROVE  token' = token
  BY <1>6 DEF Stopping, StopArrives, StopRecovered, StopFinishes, StopFails,
              BeginRevert, EndRevert
<1>7. ASSUME \/ \E r \in Requests : CrashLaunching(r) \/ CrashDelivering(r)
             \/ \E d \in Dispatches : CrashRecovering(d)
             \/ Crash \/ EmergencyRestart
      PROVE  Restarted
  BY <1>7 DEF CrashLaunching, CrashDelivering, CrashRecovering, Crash,
              EmergencyRestart, Crashed
<1>8. ASSUME Recovery \/ UNCHANGED vars PROVE token' = token
  BY <1>8 DEF Recovery, RecoverPending, OpenHttp, RecoverOne, vars
<1> QED
  BY <1>1, <1>2, <1>3, <1>4, <1>5, <1>6, <1>7, <1>8 DEF Next, Admission, Reserves

LEMMA RecordedInductive ==
    ASSUME AutoSave PROVE Spec => []TokenRecorded
<1>1. Init => TokenRecorded
  BY DEF Init, TokenRecorded
<1>2. TypeOK /\ OwnInv /\ TokenRecorded /\ [Next]_vars => TokenRecorded'
  <2> SUFFICES ASSUME TypeOK, OwnInv, TokenRecorded, [Next]_vars PROVE TokenRecorded'
    OBVIOUS
  <2>1. ASSUME NEW r \in Requests, Reserve(r) PROVE TokenRecorded'
    <3>1. ASSUME NEW t \in Threads, token'[t] # NoReq
          PROVE  Present(rows'[dispatchOf[token'[t]]])
      <4>1. CASE token'[t] = r
        <5>1. dispatchOf[r] \in Dispatches
          BY RequestAssumption
        <5>2. rows'[dispatchOf[r]] = Inserted(rows, threadOf[r], printOf[r], instOf[r])
          BY <2>1, <5>1 DEF Reserve, TypeOK
        <5> QED
          BY <4>1, <5>2 DEF Inserted, Present
      <4>2. CASE token'[t] # r
        <5>1. token'[t] = token[t] /\ token[t] \in Requests
          BY <2>1, <3>1, <4>2 DEF Reserve, TypeOK
        <5>2. dispatchOf[token[t]] \in Dispatches
              /\ Present(rows[dispatchOf[token[t]]])
          BY <3>1, <5>1, RequestAssumption DEF TokenRecorded
        <5> QED
          BY <5>1, <5>2, RecordedForGood
      <4> QED
        BY <4>1, <4>2
    <3> QED
      BY <3>1 DEF TokenRecorded, Present
  <2> QED
    BY <2>1, TokenStep, RecordedFrame DEF Reserves
<1> QED
  BY <1>1, <1>2, TypeCorrect, OwnInductive, PTL DEF Spec

\* Why the loser of a race for the thread is not told "busy" because of its
\* own twin: the twin's row was written with the token it took.
LEMMA BusyWithAnother ==
    ASSUME TypeOK, TokenRecorded, AutoSave, NEW r \in Requests, ~Known(r)
    PROVE  Rival(r)
<1> DEFINE t == threadOf[r]
<1>1. t \in Threads
  BY RequestAssumption
<1>2. ~Present(rows[dispatchOf[r]])
  BY DEF Known, Recorded
<1>3. CASE token[t] = NoReq
  BY <1>3 DEF Rival
<1>4. CASE token[t] # NoReq
  BY <1>1, <1>2, <1>4 DEF TokenRecorded, Rival
<1> QED
  BY <1>3, <1>4

\* With auto-save, whoever is told that the thread is busy is told so because
\* of another message, in every interleaving of a message and its retries.
THEOREM RetriesNeverTurnActive ==
    ASSUME AutoSave PROVE Spec => RetryNeverTurnActive
<1> DEFINE Fair == \A r \in Requests :
                     pc[r] # "answered" /\ reply'[r].kind = "turn_active" => Rival(r)
<1>1. TypeOK /\ JoinedHasLeader /\ OwnInv /\ AnswerInv /\ TokenRecorded /\ [Next]_vars
        => [Fair]_vars
  <2> SUFFICES ASSUME TypeOK, JoinedHasLeader, OwnInv, AnswerInv, TokenRecorded, Next,
                      NEW q \in Requests, pc[q] # "answered",
                      reply'[q].kind = "turn_active"
               PROVE  Rival(q)
    OBVIOUS
  <2>1. reply[q].kind # "turn_active"
    BY DEF AnswerInv, TurnActiveIsFinal
  <2>2. CASE UNCHANGED reply
    BY <2>1, <2>2
  <2>3. ASSUME NEW r \in Requests, NEW answer, Answered(r, answer),
               answer.kind = "turn_active" => Rival(r)
        PROVE  Rival(q)
    <3>1. q = r /\ reply'[r] = answer
      BY <2>1, <2>3 DEF Answered, TypeOK
    <3> QED
      BY <2>3, <3>1
  <2>4. ASSUME NEW r \in Requests, NEW code, code # "turn_active",
               Answered(r, Error(code))
        PROVE  Rival(q)
    BY <2>3, <2>4 DEF Error, Reply
  <2>5. ASSUME NEW r \in Requests,
               SameRequest(rows[dispatchOf[r]], threadOf[r], printOf[r]),
               Answered(r, ExistingResponse(rows[dispatchOf[r]]))
        PROVE  Rival(q)
    BY <2>3, <2>5, RowAnswer
  <2>6. ASSUME NEW r \in Requests, AnswerKnown(r) PROVE Rival(q)
    BY <2>2, <2>4, <2>5, <2>6 DEF AnswerKnown
  <2>7. ASSUME NEW r \in Requests, ReserveBusy(r) PROVE Rival(q)
    <3>1. CASE ~Known(r) /\ Answered(r, Error("turn_active"))
      BY <2>3, <3>1, BusyWithAnother
    <3> QED
      BY <2>6, <2>7, <3>1 DEF ReserveBusy
  <2>8. ASSUME NEW r \in Requests, Replay(r) PROVE Rival(q)
    <3>1. pc[r] = "joined" /\ Answered(r, reply[leader[r]])
      BY <2>8 DEF Replay
    <3>2. reply[leader[r]].kind # "turn_active"
      BY <3>1 DEF AnswerInv, OwnLeader
    <3> QED
      BY <2>3, <3>1, <3>2
  <2>9. ASSUME NEW r \in Requests,
               \/ RefuseEarly(r) \/ Refuse(r) \/ LaunchUnbindable(r) \/ AttachFails(r)
        PROVE  Rival(q)
    <3>1. Answered(r, Error("error"))
      BY <2>9 DEF RefuseEarly, Refuse, LaunchUnbindable, AttachFails
    <3> QED
      BY <2>4, <3>1
  <2>10. ASSUME NEW r \in Requests, Attached(r) PROVE Rival(q)
    BY <2>3, <2>10 DEF Attached, Reply
  <2>11. ASSUME NEW r \in Requests, ReserveExisting(r) PROVE Rival(q)
    BY <2>4, <2>5, <2>11 DEF ReserveExisting
  <2>12. ASSUME NEW r \in Requests, Arrive(r) PROVE Rival(q)
    BY <2>2, <2>6, <2>12 DEF Arrive
  <2>13. ASSUME NEW r \in Requests,
                \/ Reserve(r) \/ Launch(r) \/ SessionReady(r) \/ TurnEnds(r)
                \/ DispatchSettles(r) \/ TurnCleared(r) \/ DeliverTerminal(r)
                \/ ReplayTerminal(r)
         PROVE  UNCHANGED reply
    BY <2>13 DEF Reserve, Launch, SessionReady, TurnEnds, DispatchSettles,
       DispatchReturns, DispatchRejects, TurnCleared, DeliverTerminal, ReplayTerminal,
       admission
  <2>14. ASSUME NEW t \in Threads,
                StopArrives(t) \/ Stopping(t) \/ BeginRevert(t) \/ EndRevert(t)
         PROVE  UNCHANGED reply
    BY <2>14 DEF Stopping, StopArrives, StopRecovered, StopFinishes, StopFails,
                 BeginRevert, EndRevert, admission
  <2>15. ASSUME \/ \E r \in Requests : CrashLaunching(r) \/ CrashDelivering(r)
                \/ \E d \in Dispatches : CrashRecovering(d)
                \/ Crash \/ EmergencyRestart \/ Recovery
         PROVE  UNCHANGED reply
    BY <2>15 DEF CrashLaunching, CrashDelivering, CrashRecovering, Crash,
                 EmergencyRestart, Crashed, Restarted, Recovery, RecoverPending,
                 OpenHttp, RecoverOne, admission
  <2> QED
    BY <2>2, <2>7, <2>8, <2>9, <2>10, <2>11, <2>12, <2>13, <2>14, <2>15
       DEF Next, Admission
<1> HIDE DEF Fair
<1>2. Spec => [][Fair]_vars
  BY <1>1, TypeCorrect, OwnInductive, AnswerInductive, RecordedInductive, PTL DEF Spec
<1> QED
  BY <1>2 DEF Fair, RetryNeverTurnActive

-----------------------------------------------------------------------------
(* Who will settle an open row.                                            *)

\* The admission, the running turn or the terminal event r that settles d.
Settles(r, d) ==
    /\ dispatchOf[r] = d
    /\ \/ pc[r] = "admitting" /\ rows[d].status = "pending"
       \/ /\ rows[d].turn = r /\ rows[d].status = "accepted"
          /\ turn[r] = "running" \/ terminal[r] = "queued"

\* The inductive form of NoStrandedDispatch: it does not depend on the taint,
\* and after startup has marked what the crash left open nothing is open.
StrandInv ==
    /\ Serving => \A d \in Dispatches : rows[d].status \in Open =>
                     \E r \in Requests : Settles(r, d)
    /\ phase = "recovering" => \A d \in Dispatches : rows[d].status \notin Open

\* Whoever settled an open row still does, if the row is left as it was, the
\* admission is not over, and the turn, unless it goes on, has its terminal
\* event on its way.
LEMMA StrandFrame ==
    ASSUME StrandInv, Serving, Serving',
           \A d \in Dispatches : rows'[d].status \in Open => rows'[d] = rows[d],
           \A r \in Requests :
              /\ pc[r] = "admitting" => pc'[r] = "admitting"
              /\ turn[r] = "running" => turn'[r] = "running" \/ terminal'[r] = "queued"
              /\ terminal[r] = "queued" => terminal'[r] = "queued"
    PROVE  StrandInv'
<1> SUFFICES ASSUME NEW d \in Dispatches, rows'[d].status \in Open
             PROVE  \E r \in Requests : Settles(r, d)'
  BY DEF StrandInv, Serving, Open
<1>1. rows'[d] = rows[d]
  OBVIOUS
<1>2. PICK r \in Requests : Settles(r, d)
  BY <1>1 DEF StrandInv
<1>3. Settles(r, d)'
  BY <1>1, <1>2 DEF Settles
<1> QED
  BY <1>3

\* The admission or the completion handler of r rejects: its row is settled,
\* and nobody else needed r.
LEMMA StrandRejected ==
    ASSUME TypeOK, OwnInv, StrandInv, Serving, Serving', NEW r \in Requests,
           rows' = Rejected(r),
           \A s \in Requests : s # r =>
              /\ pc[s] = "admitting" => pc'[s] = "admitting"
              /\ turn'[s] = turn[s] /\ terminal'[s] = terminal[s]
    PROVE  StrandInv'
<1> SUFFICES ASSUME NEW d \in Dispatches, rows'[d].status \in Open
             PROVE  \E s \in Requests : Settles(s, d)'
  BY DEF StrandInv, Serving, Open
<1>1. rows'[d] = rows[d]
  BY RejectedKept DEF AllKept, Kept, NotReopened
<1>2. PICK s \in Requests : Settles(s, d)
  BY <1>1 DEF StrandInv
<1>3. s # r
  <2> SUFFICES ASSUME s = r PROVE FALSE
    OBVIOUS
  <2>1. dispatchOf[r] = d /\ rows[d] \in Row
    BY <1>2 DEF Settles, TypeOK
  <2>2. CASE AutoSave
    <3>1. rows'[d] = MarkFailed(rows[d])
      BY <2>1, <2>2 DEF Rejected, TypeOK
    <3> QED
      BY <1>1, <2>1, <3>1 DEF MarkFailed, Open, Row
  <2>3. CASE ~AutoSave
    BY <1>1, <2>3 DEF OwnInv, RowsOnlyIfSaved, Present, TypeOK, Row, Open
  <2> QED
    BY <2>2, <2>3
<1>4. Settles(s, d)'
  BY <1>1, <1>2, <1>3 DEF Settles
<1> QED
  BY <1>4

\* A terminal event settles the row of its turn.
LEMMA StrandProjected ==
    ASSUME TypeOK, OwnInv, StrandInv, Serving, Serving', NEW r \in Requests,
           rows' = Projected(r), pc' = pc, turn' = turn,
           \A s \in Requests : s # r => terminal'[s] = terminal[s]
    PROVE  StrandInv'
<1> SUFFICES ASSUME NEW d \in Dispatches, rows'[d].status \in Open
             PROVE  \E s \in Requests : Settles(s, d)'
  BY DEF StrandInv, Serving, Open
<1>1. rows'[d] = rows[d] /\ rows[d] \in Row /\ d \in DOMAIN rows
  BY ProjectedKept DEF AllKept, Kept, NotReopened, TypeOK
<1>2. PICK s \in Requests : Settles(s, d)
  BY <1>1 DEF StrandInv
<1>3. CASE pc[s] = "admitting" /\ rows[d].status = "pending"
  <2>1. Settles(s, d)'
    BY <1>1, <1>2, <1>3 DEF Settles
  <2> QED
    BY <2>1
<1>4. CASE rows[d].turn = s /\ rows[d].status = "accepted"
  <2>1. s # r
    <3> SUFFICES ASSUME rows[d].turn = r PROVE FALSE
      BY <1>4
    <3>1. r # NoTurn /\ r \in Turns /\ hubInstOf[r] \in Instances
      BY RequestAssumption, StoreAssumption
    <3>2. OwnRow(d, r)
      BY <3>1 DEF OwnInv, OwnedRows
    <3>3. d \in ByProviderTurn(rows, threadOf[r], hubInstOf[r], r)
      BY <1>1, <3>2 DEF ByProviderTurn, OwnRow
    <3>4. rows'[d] \in {MarkCompleted(rows[d], r, hubInstOf[r]), MarkFailed(rows[d])}
      BY <1>1, <3>3 DEF Projected, SettleByProviderTurn
    <3>5. rows'[d].status \in {"completed", "failed"}
      BY <1>1, <1>4, <3>4 DEF MarkCompleted, MarkFailed, WithInstance, Row, Open
    <3> QED
      BY <3>5 DEF Open
  <2>2. Settles(s, d)'
    BY <1>1, <1>2, <2>1 DEF Settles
  <2> QED
    BY <2>2
<1> QED
  BY <1>2, <1>3, <1>4 DEF Settles

\* With or without auto-save: while the backend serves, an open row has its
\* admission, its running turn or a terminal event on its way.
THEOREM NobodyStranded == Spec => []NoStrandedDispatch
<1> USE DEF durable, admission, turns, stopping, backend
<1>1. Init => StrandInv
  BY DEF Init, StrandInv, AbsentRow, Open, Serving
<1>2. TypeOK /\ OwnInv /\ StrandInv /\ [Next]_vars => StrandInv'
  <2> SUFFICES ASSUME TypeOK, OwnInv, StrandInv, [Next]_vars PROVE StrandInv'
    OBVIOUS
  <2>1. ASSUME AllKept(rows, rows'), Serving, Serving', pc' = pc, turn' = turn,
               terminal' = terminal
        PROVE  StrandInv'
    BY <2>1, StrandFrame DEF AllKept, Kept, NotReopened
  <2>2. ASSUME rows' = rows, phase' = phase, pc' = pc, turn' = turn,
               terminal' = terminal
        PROVE  StrandInv'
    BY <2>2 DEF StrandInv, Settles, Serving
  <2>3. ASSUME Serving, rows' = rows, phase' = phase, turn' = turn,
               terminal' = terminal,
               \A r \in Requests : pc[r] = "admitting" => pc'[r] = "admitting"
        PROVE  StrandInv'
    BY <2>3, StrandFrame DEF Serving
  <2>4. ASSUME NEW r \in Requests, NEW answer, Answered(r, answer), pc[r] # "admitting"
        PROVE  \A s \in Requests : pc[s] = "admitting" => pc'[s] = "admitting"
    BY <2>4 DEF Answered, TypeOK
  <2>5. ASSUME NEW r \in Requests, AnswerKnown(r), pc[r] \in {"new", "preparing"}
        PROVE  \A s \in Requests : pc[s] = "admitting" => pc'[s] = "admitting"
    BY <2>5 DEF AnswerKnown, Answered, TypeOK
  <2>6. ASSUME NEW r \in Requests, Arrive(r) \/ ReserveBusy(r) PROVE StrandInv'
    <3>1. \A s \in Requests : pc[s] = "admitting" => pc'[s] = "admitting"
      <4>1. CASE AnswerKnown(r)
        BY <2>5, <2>6, <4>1 DEF Arrive, ReserveBusy
      <4>2. CASE ~AnswerKnown(r)
        BY <2>6, <4>2 DEF Arrive, ReserveBusy, Answered, TypeOK
      <4> QED
        BY <4>1, <4>2
    <3>2. /\ Serving /\ rows' = rows /\ phase' = phase /\ turn' = turn
          /\ terminal' = terminal
      BY <2>6 DEF Arrive, ReserveBusy, Admitting
    <3> QED
      BY <2>3, <3>1, <3>2
  <2>7. ASSUME NEW r \in Requests,
               \/ RefuseEarly(r) \/ Replay(r) \/ ReserveExisting(r) \/ Attached(r)
               \/ AttachFails(r)
        PROVE  StrandInv'
    <3>1. PICK answer : Answered(r, answer)
      BY <2>7 DEF RefuseEarly, Replay, ReserveExisting, Attached, AttachFails
    <3>2. /\ Serving /\ rows' = rows /\ phase' = phase /\ turn' = turn
          /\ terminal' = terminal /\ pc[r] # "admitting"
      BY <2>7 DEF RefuseEarly, Replay, ReserveExisting, Attached, AttachFails
    <3> QED
      BY <2>3, <2>4, <3>1, <3>2
  <2>8. ASSUME NEW r \in Requests, Reserve(r) PROVE StrandInv'
    <3> DEFINE d == dispatchOf[r]
    <3>1. /\ Serving /\ Serving' /\ pc[r] = "preparing"
          /\ pc' = [pc EXCEPT ![r] = "admitting"]
          /\ turn' = turn /\ terminal' = terminal
      BY <2>8 DEF Reserve, Serving
    <3>2. d \in Dispatches
      BY RequestAssumption
    <3>3. pc'[r] = "admitting" /\ \A s \in Requests : s # r => pc'[s] = pc[s]
      BY <3>1 DEF TypeOK
    <3>4. \A e \in Dispatches : e # d \/ ~AutoSave => rows'[e] = rows[e]
      BY <2>8 DEF Reserve, TypeOK
    <3>5. AutoSave => rows'[d].status = "pending"
      BY <2>8, <3>2 DEF Reserve, TypeOK, Inserted
    <3> HIDE DEF d
    <3>6. ASSUME NEW e \in Dispatches, rows'[e].status \in Open
          PROVE  \E s \in Requests : Settles(s, e)'
      <4>1. CASE e = d /\ AutoSave
        <5>1. Settles(r, e)'
          BY <3>3, <3>5, <4>1 DEF Settles, d
        <5> QED
          BY <5>1
      <4>2. CASE e # d \/ ~AutoSave
        <5>1. rows'[e] = rows[e]
          BY <3>4, <4>2
        <5>2. PICK s \in Requests : Settles(s, e)
          BY <3>1, <3>6, <5>1 DEF StrandInv
        <5>3. pc[s] = "admitting" => pc'[s] = "admitting"
          BY <3>1, <3>3
        <5>4. Settles(s, e)'
          BY <3>1, <5>1, <5>2, <5>3 DEF Settles
        <5> QED
          BY <5>4
      <4> QED
        BY <4>1, <4>2
    <3> QED
      BY <3>1, <3>6 DEF StrandInv, Serving, Open
  <2>9. ASSUME NEW r \in Requests, Refuse(r) \/ LaunchUnbindable(r) PROVE StrandInv'
    <3>1. /\ Serving /\ Serving' /\ rows' = Rejected(r)
          /\ turn' = turn /\ terminal' = terminal
          /\ pc' = [pc EXCEPT ![r] = "answered"]
      BY <2>9 DEF Refuse, LaunchUnbindable, Serving, Answered
    <3>2. \A s \in Requests : s # r => pc'[s] = pc[s]
      BY <3>1 DEF TypeOK
    <3> QED
      BY <3>1, <3>2, StrandRejected
  <2>10. ASSUME NEW r \in Requests, Launch(r) PROVE StrandInv'
    <3> DEFINE d == dispatchOf[r]
    <3>1. /\ Serving /\ Serving' /\ pc' = [pc EXCEPT ![r] = "attaching"]
          /\ terminal' = terminal /\ turn' = [turn EXCEPT ![r] = "running"]
      BY <2>10 DEF Launch, Serving
    <3>2. /\ \A e \in Dispatches : e # d => rows'[e] = rows[e]
          /\ ~AutoSave => rows' = rows
          /\ AutoSave => rows'[d].turn = r
      BY <2>10, LaunchEffect
    <3>3. AutoSave => rows'[d].status = "accepted"
      <4> SUFFICES ASSUME AutoSave PROVE rows'[d].status = "accepted"
        OBVIOUS
      <4>1. d \in Dispatches /\ rows[d] \in Row /\ r \in Turns /\ hubInstOf[r] \in Instances
        BY RequestAssumption DEF TypeOK
      <4>2. rows[d].turn # r /\ CanBind(rows[d], r, hubInstOf[r])
        <5>1. rows[d].turn = NoTurn /\ r # NoTurn
          BY <2>10, LaunchEffect, RequestAssumption, StoreAssumption
        <5> QED
          BY <2>10, <5>1 DEF Launch, Bindable
      <4>3. rows'[d] = MarkAccepted(BindProviderTurn(rows[d], r, hubInstOf[r]),
                                    r, hubInstOf[r])
        BY <2>10, <4>1 DEF Launch, Accepted, TypeOK
      <4> QED
        BY <4>1, <4>2, <4>3, BoundTurn
    <3>4. \A s \in Requests : s # r => pc'[s] = pc[s] /\ turn'[s] = turn[s]
      BY <3>1 DEF TypeOK
    <3>5. turn'[r] = "running"
      BY <3>1 DEF TypeOK
    <3>6. ASSUME NEW e \in Dispatches, rows'[e].status \in Open
          PROVE  \E s \in Requests : Settles(s, e)'
      <4>1. CASE e = d /\ AutoSave
        <5>1. Settles(r, e)'
          BY <3>2, <3>3, <3>5, <4>1 DEF Settles
        <5> QED
          BY <5>1
      <4>2. CASE e # d
        <5>1. rows'[e] = rows[e]
          BY <3>2, <4>2
        <5>2. PICK s \in Requests : Settles(s, e)
          BY <3>1, <3>6, <5>1 DEF StrandInv
        <5>3. s # r
          BY <4>2, <5>2 DEF Settles
        <5>4. Settles(s, e)'
          BY <3>1, <3>4, <5>1, <5>2, <5>3 DEF Settles
        <5> QED
          BY <5>4
      <4>3. CASE ~AutoSave
        BY <3>2, <3>6, <4>3 DEF OwnInv, RowsOnlyIfSaved, Present, TypeOK, Row, Open
      <4> QED
        BY <4>1, <4>2, <4>3
    <3> QED
      BY <3>1, <3>6 DEF StrandInv, Serving, Open
  <2>11. ASSUME NEW r \in Requests,
                SessionReady(r) \/ DispatchReturns(r) \/ TurnCleared(r)
         PROVE  StrandInv'
    BY <2>2, <2>11 DEF SessionReady, DispatchReturns, TurnCleared
  <2>12. ASSUME NEW r \in Requests, TurnEnds(r) PROVE StrandInv'
    <3>1. /\ Serving /\ Serving' /\ rows' = rows /\ pc' = pc
          /\ turn[r] = "running" /\ terminal' = [terminal EXCEPT ![r] = "queued"]
          /\ \E outcome \in Ended : turn' = [turn EXCEPT ![r] = outcome]
      BY <2>12 DEF TurnEnds, Emitted, Serving
    <3>2. terminal'[r] = "queued"
          /\ \A s \in Requests : s # r => terminal'[s] = terminal[s] /\ turn'[s] = turn[s]
      BY <3>1 DEF TypeOK
    <3> QED
      BY <3>1, <3>2, StrandFrame
  <2>13. ASSUME NEW r \in Requests, DispatchRejects(r) PROVE StrandInv'
    <3>1. /\ Serving /\ Serving' /\ rows' = Rejected(r) /\ pc' = pc
          /\ \A s \in Requests : s # r => turn'[s] = turn[s] /\ terminal'[s] = terminal[s]
      BY <2>13 DEF DispatchRejects, Emitted, Serving, TypeOK
    <3> QED
      BY <3>1, StrandRejected
  <2>14. ASSUME NEW r \in Requests, DeliverTerminal(r) PROVE StrandInv'
    <3>1. /\ Serving /\ Serving' /\ rows' = Projected(r) /\ pc' = pc /\ turn' = turn
          /\ terminal' = [terminal EXCEPT ![r] = "receipted"]
      BY <2>14 DEF DeliverTerminal, Serving
    <3>2. \A s \in Requests : s # r => terminal'[s] = terminal[s]
      BY <3>1 DEF TypeOK
    <3> QED
      BY <3>1, <3>2, StrandProjected
  <2>15. ASSUME NEW t \in Threads, StopFinishes(t) \/ EndRevert(t) PROVE StrandInv'
    <3>1. AllKept(rows, rows')
      BY <2>15, StopKept, RevertKept
    <3> QED
      BY <2>1, <2>15, <3>1 DEF StopFinishes, EndRevert, Serving
  <2>16. ASSUME NEW t \in Threads,
                StopArrives(t) \/ StopRecovered(t) \/ StopFails(t) \/ BeginRevert(t)
         PROVE  StrandInv'
    BY <2>2, <2>16 DEF StopArrives, StopRecovered, StopFails, BeginRevert
  <2>17. ASSUME phase' = "replaying" PROVE StrandInv'
    BY <2>17 DEF StrandInv, Serving
  <2>18. ASSUME \/ \E r \in Requests :
                      CrashLaunching(r) \/ CrashDelivering(r) \/ ReplayTerminal(r)
                \/ \E d \in Dispatches : CrashRecovering(d)
                \/ Crash \/ EmergencyRestart
         PROVE  phase' = "replaying"
    BY <2>18 DEF CrashLaunching, CrashDelivering, CrashRecovering, Crash, ReplayTerminal,
                 EmergencyRestart, Crashed, Restarted
  <2>19. ASSUME RecoverPending PROVE StrandInv'
    <3>1. rows' = Recovered(rows) /\ phase' = "recovering"
      BY <2>19 DEF RecoverPending
    <3>2. ASSUME NEW d \in Dispatches PROVE rows'[d].status \notin Open
      <4>1. rows[d] \in Row /\ d \in DOMAIN rows
        BY DEF TypeOK
      <4>2. rows'[d] = IF rows[d].status \in Open
                       THEN [rows[d] EXCEPT !.status = "uncertain", !.recovered = FALSE]
                       ELSE rows[d]
        BY <3>1, <4>1 DEF Recovered
      <4> QED
        BY <4>1, <4>2 DEF Row, Open
    <3> QED
      BY <3>1, <3>2 DEF StrandInv, Serving, Open
  <2>20. ASSUME NEW d \in Dispatches, RecoverOne(d) PROVE StrandInv'
    <3>1. /\ phase = "recovering" /\ phase' = phase
          /\ rows' = [rows EXCEPT ![d] = CompleteRecovery(@)]
      BY <2>20 DEF RecoverOne
    <3>2. ASSUME NEW e \in Dispatches PROVE rows'[e].status \notin Open
      <4>1. rows[e] \in Row /\ rows[e].status \notin Open
        BY <3>1 DEF TypeOK, StrandInv
      <4>2. rows'[e] = rows[e] \/ rows'[e] = CompleteRecovery(rows[e])
        BY <3>1 DEF TypeOK
      <4> QED
        BY <4>1, <4>2 DEF CompleteRecovery, Row
    <3> QED
      BY <3>1, <3>2 DEF StrandInv, Serving, Open
  <2>21. ASSUME OpenHttp PROVE StrandInv'
    BY <2>21 DEF OpenHttp, StrandInv, Serving
  <2>22. CASE UNCHANGED vars
    BY <2>2, <2>22 DEF vars
  <2> QED
    BY <2>6, <2>7, <2>8, <2>9, <2>10, <2>11, <2>12, <2>13, <2>14, <2>15, <2>16, <2>17,
       <2>18, <2>19, <2>20, <2>21, <2>22
       DEF Next, Admission, DispatchSettles, Stopping, Recovery
<1>3. StrandInv => NoStrandedDispatch
  BY DEF StrandInv, NoStrandedDispatch, Admitting, Settles
<1> QED
  BY <1>1, <1>2, <1>3, TypeCorrect, OwnInductive, PTL DEF Spec

-----------------------------------------------------------------------------
(* What startup recovery makes of a turn of unknown outcome.               *)

\* The inductive strengthening of RecoveryRotates.  A native session is of its
\* thread's generation at the time or an older one, and its binding is kept; a
\* recovered row's session is of an older one for good; a turn whose outcome is
\* unknown does not run, so that it gets no other session; and no turn runs
\* while the backend starts.
SessionsBound ==
    \A r \in Requests :
        /\ session[r] <= gen[threadOf[r]]
        /\ session[r] # 0 => <<threadOf[r], hubInstOf[r]>> \in bindings

UncertainOver ==
    \A d \in Dispatches : rows[d].status = "uncertain" =>
        /\ rows[d].turn # NoTurn => turn[rows[d].turn] # "running"
        /\ rows[d].turn # NoTurn /\ rows[d].recovered =>
              session[rows[d].turn] < gen[rows[d].thread]

RecoveredBeforeServing ==
    Serving => \A d \in Dispatches : rows[d].status = "uncertain" => rows[d].recovered

RunsOnlyServing ==
    ~Serving => \A r \in Requests : turn[r] # "running"

RotateInv ==
    SessionsBound /\ UncertainOver /\ RecoveredBeforeServing /\ RunsOnlyServing

\* A step that makes no row uncertain, starts no turn and rotates nothing back
\* keeps it, unless it changes the sessions.
LEMMA RotateFrame ==
    ASSUME TypeOK, TypeOK', RotateInv, bindings' = bindings, session' = session,
           \A d \in Dispatches : UncertainKept(rows[d], rows'[d]),
           \A t \in Threads : gen[t] <= gen'[t],
           \A r \in Requests : turn'[r] = "running" => turn[r] = "running",
           Serving' => Serving,
           (~Serving)' => \A r \in Requests : turn'[r] # "running"
    PROVE  RotateInv'
<1>1. SessionsBound'
  <2> SUFFICES ASSUME NEW r \in Requests
               PROVE  /\ session[r] <= gen'[threadOf[r]]
                      /\ session[r] # 0 => <<threadOf[r], hubInstOf[r]>> \in bindings
    BY DEF SessionsBound
  <2>1. threadOf[r] \in Threads
    BY RequestAssumption
  <2>2. /\ session[r] \in Nat /\ gen[threadOf[r]] \in Nat
        /\ gen'[threadOf[r]] \in Nat
    BY <2>1 DEF TypeOK
  <2> QED
    BY <2>1, <2>2 DEF RotateInv, SessionsBound
<1>2. ASSUME NEW d \in Dispatches, rows'[d].status = "uncertain"
      PROVE  rows'[d] = rows[d]
  BY <1>2 DEF UncertainKept
<1>3. UncertainOver'
  <2> SUFFICES ASSUME NEW d \in Dispatches, rows'[d].status = "uncertain",
                      rows'[d].turn # NoTurn
               PROVE  /\ turn'[rows'[d].turn] # "running"
                      /\ rows'[d].recovered =>
                            session[rows'[d].turn] < gen'[rows'[d].thread]
    BY DEF UncertainOver
  <2>1. rows'[d] = rows[d]
    BY <1>2
  <2>2. rows[d].turn \in Requests /\ rows[d].thread \in Threads
    BY <2>1, RequestAssumption DEF TypeOK, Row
  <2>3. turn[rows[d].turn] # "running"
    BY <2>1 DEF RotateInv, UncertainOver
  <2>4. rows[d].recovered => session[rows[d].turn] < gen[rows[d].thread]
    BY <2>1 DEF RotateInv, UncertainOver
  <2>5. /\ session[rows[d].turn] \in Nat /\ gen[rows[d].thread] \in Nat
        /\ gen'[rows[d].thread] \in Nat /\ gen[rows[d].thread] <= gen'[rows[d].thread]
    BY <2>2 DEF TypeOK
  <2> QED
    BY <2>1, <2>2, <2>3, <2>4, <2>5
<1>4. RecoveredBeforeServing'
  BY <1>2 DEF RotateInv, RecoveredBeforeServing, Serving
<1>5. RunsOnlyServing'
  BY DEF RunsOnlyServing, Serving
<1> QED
  BY <1>1, <1>3, <1>4, <1>5 DEF RotateInv

\* A launch makes the row of its turn open, so no row of unknown outcome gets
\* a running turn.
LEMMA RotateLaunch ==
    ASSUME TypeOK, TypeOK', OwnInv, RotateInv, NEW r \in Requests, Launch(r)
    PROVE  RotateInv'
<1> DEFINE d == dispatchOf[r]
<1>1. /\ Serving /\ Serving' /\ UNCHANGED <<gen, bindings, session>>
      /\ turn' = [turn EXCEPT ![r] = "running"]
  BY DEF Launch, Serving, backend
<1>2. /\ turn[r] = "none"
      /\ \A e \in Dispatches : e # d => rows'[e] = rows[e]
      /\ ~AutoSave => rows' = rows
      /\ AutoSave => rows'[d].status \in Open
  BY LaunchEffect
<1>3. ASSUME NEW e \in Dispatches, rows'[e].status = "uncertain"
      PROVE  /\ rows'[e] = rows[e]
             /\ rows[e].turn # NoTurn =>
                   turn'[rows[e].turn] = turn[rows[e].turn]
  <2>1. rows'[e] = rows[e]
    BY <1>2, <1>3 DEF Open
  <2>2. ASSUME rows[e].turn # NoTurn
        PROVE  turn'[rows[e].turn] = turn[rows[e].turn]
    <3>1. OwnRow(e, rows[e].turn) /\ rows[e].turn \in Requests
      BY <2>2, TurnOfRow DEF OwnInv, OwnedRows
    <3>2. rows[e].turn # r
      BY <1>2, <3>1 DEF OwnRow, Launched
    <3> QED
      BY <1>1, <3>1, <3>2 DEF TypeOK
  <2> QED
    BY <2>1, <2>2
<1>4. SessionsBound'
  BY <1>1 DEF RotateInv, SessionsBound
<1>5. UncertainOver'
  <2> SUFFICES ASSUME NEW e \in Dispatches, rows'[e].status = "uncertain",
                      rows'[e].turn # NoTurn
               PROVE  /\ turn'[rows'[e].turn] # "running"
                      /\ rows'[e].recovered =>
                            session[rows'[e].turn] < gen[rows'[e].thread]
    BY <1>1 DEF UncertainOver
  <2> QED
    BY <1>3 DEF RotateInv, UncertainOver
<1>6. RecoveredBeforeServing'
  BY <1>1, <1>3 DEF RotateInv, RecoveredBeforeServing
<1>7. RunsOnlyServing'
  BY <1>1 DEF RunsOnlyServing
<1> QED
  BY <1>4, <1>5, <1>6, <1>7 DEF RotateInv

\* A turn that gets its session runs, so it is not of unknown outcome.
LEMMA RotateSession ==
    ASSUME TypeOK, TypeOK', RotateInv, NEW r \in Requests, SessionReady(r)
    PROVE  RotateInv'
<1>1. /\ Serving /\ Serving' /\ turn[r] = "running" /\ UNCHANGED <<rows, gen, turn>>
      /\ session' = [session EXCEPT ![r] = gen[threadOf[r]]]
      /\ bindings' = bindings \cup {<<threadOf[r], hubInstOf[r]>>}
  BY DEF SessionReady, Serving, backend
<1>2. /\ session'[r] = gen[threadOf[r]]
      /\ \A s \in Requests : s # r => session'[s] = session[s]
  BY <1>1 DEF TypeOK
<1>3. gen[threadOf[r]] \in Nat
  BY RequestAssumption DEF TypeOK
<1>4. SessionsBound'
  <2> SUFFICES ASSUME NEW s \in Requests
               PROVE  /\ session'[s] <= gen[threadOf[s]]
                      /\ session'[s] # 0 => <<threadOf[s], hubInstOf[s]>> \in bindings'
    BY <1>1 DEF SessionsBound
  <2>1. CASE s = r
    BY <1>1, <1>2, <1>3, <2>1
  <2>2. CASE s # r
    BY <1>1, <1>2, <2>2 DEF RotateInv, SessionsBound
  <2> QED
    BY <2>1, <2>2
<1>5. UncertainOver'
  <2> SUFFICES ASSUME NEW d \in Dispatches, rows[d].status = "uncertain",
                      rows[d].turn # NoTurn
               PROVE  /\ turn[rows[d].turn] # "running"
                      /\ rows[d].recovered =>
                            session'[rows[d].turn] < gen[rows[d].thread]
    BY <1>1 DEF UncertainOver
  <2>1. rows[d].turn \in Requests
    BY TurnOfRow
  <2>2. turn[rows[d].turn] # "running" /\ rows[d].turn # r
    BY <1>1 DEF RotateInv, UncertainOver
  <2> QED
    BY <1>2, <2>1, <2>2 DEF RotateInv, UncertainOver
<1>6. RecoveredBeforeServing'
  BY <1>1 DEF RotateInv, RecoveredBeforeServing, Serving
<1>7. RunsOnlyServing'
  BY <1>1 DEF RunsOnlyServing
<1> QED
  BY <1>4, <1>5, <1>6, <1>7 DEF RotateInv

\* Startup marks every open row; nothing runs.
LEMMA RotatePending ==
    ASSUME TypeOK, TypeOK', RotateInv, RecoverPending
    PROVE  RotateInv'
<1>1. /\ ~Serving /\ ~Serving' /\ rows' = Recovered(rows)
      /\ UNCHANGED <<gen, bindings, session, turn>>
  BY DEF RecoverPending, Serving, turns
<1>2. \A r \in Requests : turn[r] # "running"
  BY <1>1 DEF RotateInv, RunsOnlyServing
<1>3. UncertainOver'
  <2> SUFFICES ASSUME NEW d \in Dispatches, rows'[d].status = "uncertain",
                      rows'[d].turn # NoTurn
               PROVE  /\ turn[rows'[d].turn] # "running"
                      /\ rows'[d].recovered =>
                            session[rows'[d].turn] < gen[rows'[d].thread]
    BY <1>1 DEF UncertainOver
  <2>1. rows'[d].turn \in Requests
    BY RequestAssumption DEF TypeOK, Row
  <2>2. /\ rows[d] \in Row
        /\ rows'[d] = IF rows[d].status \in Open
                      THEN [rows[d] EXCEPT !.status = "uncertain", !.recovered = FALSE]
                      ELSE rows[d]
    BY <1>1 DEF Recovered, TypeOK
  <2>3. rows'[d].recovered => rows'[d] = rows[d]
    BY <2>2 DEF Row
  <2> QED
    BY <1>2, <2>1, <2>3 DEF RotateInv, UncertainOver
<1> QED
  BY <1>1, <1>2, <1>3
     DEF RotateInv, SessionsBound, RecoveredBeforeServing, RunsOnlyServing

\* The recovery of one row rotates the generation its session could be of.
LEMMA RotateOne ==
    ASSUME TypeOK, TypeOK', OwnInv, RotateInv, NEW d \in Dispatches, RecoverOne(d)
    PROVE  RotateInv'
<1> DEFINE th == rows[d].thread
           bound == {i \in Instances : <<th, i>> \in bindings}
<1>1. /\ ~Serving /\ ~Serving' /\ UNCHANGED <<bindings, session, turn>>
      /\ rows' = [rows EXCEPT ![d] = CompleteRecovery(@)]
      /\ rows[d].status = "uncertain"
  BY DEF RecoverOne, Serving, turns, backend, NextUnrecovered, Unrecovered
<1>2. PICK rotates \in Rotates(d) : gen' = IF rotates THEN Rotated(th) ELSE gen
  BY DEF RecoverOne
<1>3. th \in Threads /\ rows[d] \in Row
  BY DEF TypeOK, Row
<1>4. \A t \in Threads : gen[t] \in Nat /\ gen'[t] \in Nat
  BY DEF TypeOK
<1>5. /\ rotates => gen'[th] = gen[th] + 1
      /\ \A t \in Threads : gen[t] <= gen'[t]
  BY <1>2, <1>3, <1>4 DEF Rotated, TypeOK
<1>6. \A r \in Requests : turn[r] # "running"
  BY <1>1 DEF RotateInv, RunsOnlyServing
<1>7. SessionsBound'
  <2> SUFFICES ASSUME NEW r \in Requests
               PROVE  /\ session[r] <= gen'[threadOf[r]]
                      /\ session[r] # 0 => <<threadOf[r], hubInstOf[r]>> \in bindings
    BY <1>1 DEF SessionsBound
  <2>1. threadOf[r] \in Threads /\ session[r] \in Nat
    BY RequestAssumption DEF TypeOK
  <2> QED
    BY <1>4, <1>5, <2>1 DEF RotateInv, SessionsBound
<1>8. ASSUME rows[d].turn # NoTurn
      PROVE  session[rows[d].turn] < gen'[th]
  <2> DEFINE s == rows[d].turn
  <2>1. s \in Requests /\ OwnRow(d, s)
    BY <1>8, TurnOfRow DEF OwnInv, OwnedRows
  <2>2. /\ th = threadOf[s] /\ rows[d].inst = hubInstOf[s] /\ hubInstOf[s] \in Instances
        /\ rows[d].inst # NoInst
    BY <2>1, RequestAssumption, StoreAssumption DEF OwnRow
  <2>3. rotates = (hubInstOf[s] \in bound)
    BY <1>2, <2>2 DEF Rotates
  <2>4. session[s] \in Nat /\ gen[th] \in Nat \ {0}
    BY <1>3, <2>1 DEF TypeOK
  <2>5. session[s] <= gen[th] /\ (session[s] # 0 => <<th, hubInstOf[s]>> \in bindings)
    BY <2>1, <2>2 DEF RotateInv, SessionsBound
  <2> HIDE DEF s
  <2>6. ASSUME session[s] = 0 PROVE session[s] < gen'[th]
    BY <1>3, <1>4, <1>5, <2>4, <2>6
  <2>7. ASSUME session[s] # 0 PROVE session[s] < gen'[th]
    <3>1. rotates
      BY <2>2, <2>3, <2>5, <2>7
    <3>2. gen'[th] = gen[th] + 1
      BY <1>5, <3>1
    <3> QED
      BY <2>4, <2>5, <3>2
  <2>8. session[s] < gen'[th]
    BY <2>6, <2>7
  <2> QED
    BY <2>8 DEF s
<1>9. UncertainOver'
  <2> SUFFICES ASSUME NEW e \in Dispatches, rows'[e].status = "uncertain",
                      rows'[e].turn # NoTurn
               PROVE  /\ turn[rows'[e].turn] # "running"
                      /\ rows'[e].recovered =>
                            session[rows'[e].turn] < gen'[rows'[e].thread]
    BY <1>1 DEF UncertainOver
  <2>1. rows'[e].turn \in Requests
    BY RequestAssumption DEF TypeOK, Row
  <2>2. turn[rows'[e].turn] # "running"
    BY <1>6, <2>1
  <2>3. CASE e = d
    <3>1. rows'[d] = CompleteRecovery(rows[d])
      BY <1>1 DEF TypeOK
    <3>2. rows'[d].turn = rows[d].turn /\ rows'[d].thread = th
      BY <1>3, <3>1 DEF CompleteRecovery, Row
    <3> QED
      BY <1>8, <2>2, <2>3, <3>2
  <2>4. CASE e # d
    <3>1. rows'[e] = rows[e] /\ rows[e].thread \in Threads
      BY <1>1, <2>4 DEF TypeOK, Row
    <3>2. rows[e].recovered => session[rows[e].turn] < gen[rows[e].thread]
      BY <3>1 DEF RotateInv, UncertainOver
    <3>3. /\ session[rows[e].turn] \in Nat
          /\ gen[rows[e].thread] \in Nat /\ gen'[rows[e].thread] \in Nat
      BY <1>4, <2>1, <3>1 DEF TypeOK
    <3> QED
      BY <1>5, <2>2, <3>1, <3>2, <3>3
  <2> QED
    BY <2>3, <2>4
<1> QED
  BY <1>1, <1>6, <1>7, <1>9
     DEF RotateInv, RecoveredBeforeServing, RunsOnlyServing

\* With or without auto-save, whichever steps of which starts are torn: while
\* the backend serves, the native session of a turn of unknown outcome is of an
\* older generation of its thread.
THEOREM RecoveryAlwaysRotates == Spec => []RecoveryRotates
<1> USE DEF durable, admission, turns, stopping, backend
<1>1. Init => RotateInv
  BY RequestAssumption
     DEF Init, RotateInv, SessionsBound, UncertainOver, RecoveredBeforeServing,
         RunsOnlyServing, Serving, AbsentRow
<1>2. TypeOK /\ TypeOK' /\ OwnInv /\ RotateInv /\ [Next]_vars => RotateInv'
  <2> SUFFICES ASSUME TypeOK, TypeOK', OwnInv, RotateInv, [Next]_vars
               PROVE  RotateInv'
    OBVIOUS
  <2>1. \A t \in Threads : gen[t] <= gen[t]
    BY DEF TypeOK
  <2>2. ASSUME \A d \in Dispatches : UncertainKept(rows[d], rows'[d]),
               bindings' = bindings, session' = session, gen' = gen, Serving,
               Serving', \A r \in Requests : turn'[r] = "running" => turn[r] = "running"
        PROVE  RotateInv'
    BY <2>1, <2>2, RotateFrame
  <2>3. ASSUME AllKept(rows, rows') \/ Reserves
        PROVE  \A d \in Dispatches : UncertainKept(rows[d], rows'[d])
    <3>1. ASSUME NEW r \in Requests, Reserve(r), NEW d \in Dispatches
          PROVE  UncertainKept(rows[d], rows'[d])
      <4>1. rows'[d] = rows[d]
             \/ rows'[d] = Inserted(rows, threadOf[r], printOf[r], instOf[r])
        BY <3>1 DEF Reserve, TypeOK
      <4> QED
        BY <4>1 DEF Inserted, UncertainKept
    <3> QED
      BY <2>3, <3>1 DEF AllKept, Kept, Reserves
  <2>4. ASSUME NEW r \in Requests,
               \/ Arrive(r) \/ RefuseEarly(r) \/ Replay(r) \/ ReserveBusy(r)
               \/ ReserveExisting(r) \/ Reserve(r) \/ Refuse(r) \/ LaunchUnbindable(r)
               \/ Attached(r) \/ AttachFails(r) \/ TurnEnds(r) \/ DispatchReturns(r)
               \/ DispatchRejects(r) \/ TurnCleared(r) \/ DeliverTerminal(r)
        PROVE  RotateInv'
    <3>1. /\ bindings' = bindings /\ session' = session /\ gen' = gen
          /\ Serving /\ Serving'
      BY <2>4 DEF Arrive, RefuseEarly, Replay, ReserveBusy, ReserveExisting, Reserve,
         Refuse, LaunchUnbindable, Attached, AttachFails, TurnEnds, DispatchReturns,
         DispatchRejects, TurnCleared, DeliverTerminal, Serving, Admitting
    <3>2. turn' = turn \/ \E o \in Ended : turn' = [turn EXCEPT ![r] = o]
      BY <2>4 DEF Arrive, RefuseEarly, Replay, ReserveBusy, ReserveExisting, Reserve,
         Refuse, LaunchUnbindable, Attached, AttachFails, TurnEnds, DispatchReturns,
         DispatchRejects, TurnCleared, DeliverTerminal, Emitted, Ended
    <3>3. \A s \in Requests : turn'[s] = "running" => turn[s] = "running"
      BY <3>2 DEF Ended, TypeOK
    <3>4. AllKept(rows, rows') \/ Reserves
      <4>1. ~Launches
        <5>1. \A s \in Requests : turn'[s] # "none" => turn[s] # "none"
          BY <2>4, <3>2
          DEF Ended, TypeOK, TurnEnds, DispatchRejects, Emitted, Arrive, RefuseEarly, Replay,
              ReserveBusy, ReserveExisting, Reserve,
              Refuse, LaunchUnbindable, Attached, AttachFails, DispatchReturns,
              TurnCleared, DeliverTerminal
        <5>2. ASSUME NEW s \in Requests, Launch(s) \/ CrashLaunching(s) PROVE FALSE
          BY <5>1, <5>2, LaunchEffect
        <5> QED
          BY <5>2 DEF Launches
      <4>2. ~Recovers
        BY <3>1 DEF Recovers, RecoverPending, RecoverOne, Serving
      <4> QED
        BY <4>1, <4>2, RowsStep
    <3> QED
      BY <2>2, <2>3, <3>1, <3>3, <3>4
  <2>5. ASSUME NEW t \in Threads,
               StopArrives(t) \/ Stopping(t) \/ BeginRevert(t) \/ EndRevert(t)
        PROVE  RotateInv'
    <3>1. AllKept(rows, rows')
      BY <2>5, StopKept, RevertKept, SettledKept
         DEF Stopping, StopArrives, StopRecovered, StopFails, BeginRevert, AllKept, TypeOK
    <3>2. /\ bindings' = bindings /\ session' = session /\ gen' = gen /\ turn' = turn
          /\ Serving /\ Serving'
      BY <2>5 DEF Stopping, StopArrives, StopRecovered, StopFinishes, StopFails,
                  BeginRevert, EndRevert, Serving, Admitting
    <3> QED
      BY <2>2, <2>3, <3>1, <3>2
  <2>6. ASSUME NEW r \in Requests, Launch(r) PROVE RotateInv'
    BY <2>6, RotateLaunch
  <2>7. ASSUME NEW r \in Requests, SessionReady(r) PROVE RotateInv'
    BY <2>7, RotateSession
  <2>8. ASSUME \A d \in Dispatches : UncertainKept(rows[d], rows'[d]),
               \A t \in Threads : gen[t] <= gen'[t], bindings' = bindings, Restarted,
               \A r \in Requests : turn'[r] # "running"
        PROVE  RotateInv'
    <3>1. session' = session /\ ~Serving'
      BY <2>8 DEF Restarted, Serving
    <3> QED
      BY <2>8, <3>1, RotateFrame
  <2>9. \A r \in Requests : Killed(turn)[r] # "running"
    BY DEF Killed
  <2>10. ASSUME NEW r \in Requests, CrashLaunching(r) PROVE RotateInv'
    <3>1. /\ Restarted /\ gen' = gen /\ bindings' = bindings
          /\ turn' = [Killed(turn) EXCEPT ![r] = "dead"]
      BY <2>10 DEF CrashLaunching, Crashed
    <3>2. \A s \in Requests : turn'[s] # "running"
      BY <2>9, <3>1 DEF Killed
    <3>3. /\ \A e \in Dispatches : e # dispatchOf[r] => rows'[e] = rows[e]
          /\ ~AutoSave => rows' = rows
          /\ AutoSave => rows'[dispatchOf[r]].status \in Open
      BY <2>10, LaunchEffect
    <3>4. \A d \in Dispatches : UncertainKept(rows[d], rows'[d])
      BY <3>3 DEF UncertainKept, Open
    <3> QED
      BY <2>1, <2>8, <3>1, <3>2, <3>4
  <2>11. ASSUME \/ \E r \in Requests : CrashDelivering(r)
                \/ Crash \/ EmergencyRestart
         PROVE  RotateInv'
    <3>1. /\ Restarted /\ gen' = gen /\ bindings' = bindings /\ turn' = Killed(turn)
      BY <2>11 DEF CrashDelivering, Crash, EmergencyRestart, Crashed
    <3>2. AllKept(rows, rows')
      BY <2>11, ProjectedKept, SettledKept
         DEF CrashDelivering, Crash, EmergencyRestart, AllKept, TypeOK
    <3> QED
      BY <2>1, <2>3, <2>8, <2>9, <3>1, <3>2
  <2>12. ASSUME NEW d \in Dispatches, CrashRecovering(d) PROVE RotateInv'
    <3>1. /\ Restarted /\ rows' = rows /\ bindings' = bindings /\ turn' = turn
          /\ phase = "recovering" /\ gen' = Rotated(rows[d].thread)
      BY <2>12 DEF CrashRecovering, Crashed
    <3>2. \A r \in Requests : turn[r] # "running"
      BY <3>1 DEF RotateInv, RunsOnlyServing, Serving
    <3>3. \A t \in Threads : gen[t] <= gen'[t]
      BY <3>1 DEF Rotated, TypeOK
    <3> QED
      BY <2>8, <3>1, <3>2, <3>3 DEF UncertainKept
  <2>13. ASSUME NEW r \in Requests, ReplayTerminal(r) PROVE RotateInv'
    <3>1. /\ bindings' = bindings /\ session' = session /\ gen' = gen /\ turn' = turn
          /\ ~Serving /\ ~Serving' /\ AllKept(rows, rows')
      BY <2>13, ProjectedKept DEF ReplayTerminal, Serving
    <3>2. \A s \in Requests : turn[s] # "running"
      BY <3>1 DEF RotateInv, RunsOnlyServing
    <3> QED
      BY <2>1, <2>3, <3>1, <3>2, RotateFrame
  <2>14. CASE RecoverPending
    BY <2>14, RotatePending
  <2>15. ASSUME NEW d \in Dispatches, RecoverOne(d) PROVE RotateInv'
    BY <2>15, RotateOne
  <2>16. CASE OpenHttp
    <3>1. /\ ~Serving /\ Serving' /\ Unrecovered(rows) = {}
          /\ UNCHANGED <<rows, gen, bindings, session, turn>>
      BY <2>16 DEF OpenHttp, Serving
    <3>2. RecoveredBeforeServing'
      BY <3>1 DEF RecoveredBeforeServing, Unrecovered, TypeOK
    <3> QED
      BY <3>1, <3>2 DEF RotateInv, SessionsBound, UncertainOver, RunsOnlyServing
  <2>17. CASE UNCHANGED vars
    BY <2>17 DEF vars, RotateInv, SessionsBound, UncertainOver, RecoveredBeforeServing,
                 RunsOnlyServing, Serving
  <2> QED
    BY <2>4, <2>5, <2>6, <2>7, <2>10, <2>11, <2>12, <2>13, <2>14, <2>15, <2>16, <2>17
       DEF Next, Admission, DispatchSettles, Recovery
<1>3. RotateInv => RecoveryRotates
  BY DEF RotateInv, UncertainOver, RecoveredBeforeServing, RecoveryRotates
<1> QED
  BY <1>1, <1>2, <1>3, TypeCorrect, OwnInductive, PTL DEF Spec
=============================================================================
