-------------------------- MODULE ChatResume_proofs --------------------------
(***************************************************************************)
(* Theorems about ChatResume, for any number of attempts and any limits: a *)
(* turn the user stopped is not resumed, whatever crashes in between, and  *)
(* no chat is resumed more often in a row than the limits allow.           *)
(***************************************************************************)
EXTENDS ChatResume, SequenceTheorems, TLAPS

\* The histories count no more than there was to count, and no turn runs before
\* the first.
Counts ==
  /\ inARow + (IF mode = "serving" THEN 0 ELSE 1) <= crashes
  /\ unseen + (IF mode = "draining" THEN 1 ELSE 0) <= crashes
  /\ tries <= last
  /\ Running => last >= 1

\* A dispatch in flight started from a record.
Started == \A a \in Attempts : pc[a] # "none" => saved[a] # None

\* What could resume the chat after a Stop stands for a later turn: its record or
\* an attempt, and the running marker, of which a restart makes a record.
Heeded ==
  ~late /\ ~kept /\ declined # 0 =>
    /\ s.record # None \/ s.holder # None => cause > declined
    /\ s.running # None => s.running.turn > declined

\* Every continuation in a row was counted, or is a death no count can know of; one
\* that recover will not count is so already when the process is down ...
Owed == lost /\ s.running = None
Counted == inARow + (IF Owed THEN 1 ELSE 0) <= s.count + unseen

\* ... and the count starts again with a message of the user only.
Sent(x) == x.pending = "user" \/ (x.live # None /\ x.live.origin = "user")
Renewed ==
  /\ lost => mode = "down" /\ IsResuming(s.record)
  /\ Sent(s) => inARow = 0 /\ mode # "down"
  /\ mode = "down" => \A a \in Attempts : pc[a] = "none"

CountedInv == Counted /\ Renewed

ResumeInv == TypeOK /\ Counts /\ Started /\ Heeded /\ StopHolds

-----------------------------------------------------------------------------
(* The scheduler's state                                                    *)

\* What TypeOK says of s.
States ==
  [record : Records \cup {None}, running : Markers \cup {None},
   count : 0..MaxContinuations, template : BOOLEAN, timer : BOOLEAN,
   holder : Attempts \cup {None}, attempt : Attempts \cup {None},
   live : Markers \cup {None}, pending : Origins \cup {"none"}, recent : 0..MaxTurns]

LEMMA ArmKeeps ==
  ASSUME NEW x \in States
  PROVE  /\ Arm(x) \in States
         /\ Arm(x).record = x.record /\ Arm(x).running = x.running /\ Arm(x).holder = x.holder
  BY DEF Arm, States, IsAuto

LEMMA DropKeeps ==
  ASSUME NEW x \in States
  PROVE  /\ Drop(x) \in States
         /\ Drop(x).record = None /\ Drop(x).running = x.running /\ Drop(x).holder = None
  BY DEF Drop, States

LEMMA ClearKeeps ==
  ASSUME NEW x \in States, NEW b \in BOOLEAN
  PROVE  /\ ClearMarker(x, b) \in States
         /\ ClearMarker(x, b).record = x.record /\ ClearMarker(x, b).holder = x.holder
         /\ ClearMarker(x, b).running \in {None, x.running}
         /\ ~b => ClearMarker(x, b).running = None
<1> DEFINE template == x.template /\ b
           y == [x EXCEPT !.running = None, !.template = template]
<1>1. template \in BOOLEAN
  BY Zenon
<1>2. ClearMarker(x, b) = IF x.running = None /\ b THEN x ELSE y
  BY DEF ClearMarker, States
<1> HIDE DEF template
<1>3. y.record = x.record /\ y.holder = x.holder /\ y.running = None
  BY DEF States
<1>4. y \in States
  BY <1>1 DEF States
<1> HIDE DEF y
<1> QED
  BY <1>2, <1>3, <1>4

LEMMA FailedType ==
  ASSUME NEW r \in Records
  PROVE  Failed(r) \in Records
<1>1. r.failures + 1 \in Nat /\ r.failures \in Nat
  BY DEF Records
<1> DEFINE mode1 == IF r.failures + 1 >= MaxFailures THEN "off" ELSE "auto"
           n == r.failures + 1
<1>2. mode1 \in {"auto", "off"} /\ n \in Nat
  BY <1>1
<1>3. Failed(r) = [r EXCEPT !.mode = mode1, !.status = "waiting", !.failures = n]
  BY DEF Failed, Records
<1> HIDE DEF mode1, n
<1>4. [r EXCEPT !.mode = mode1, !.status = "waiting", !.failures = n] \in Records
  BY <1>2 DEF Records
<1> QED
  BY <1>3, <1>4

LEMMA NotedKeeps ==
  ASSUME NEW x \in States, NEW o \in Origins
  PROVE  /\ Noted(x, o) \in States
         /\ Noted(x, o).record = None /\ Noted(x, o).holder = None
         /\ Noted(x, o).running = x.running
  BY DEF Noted, Drop, States

LEMMA StartedKeeps ==
  ASSUME NEW x \in States, NEW t \in 1..MaxTurns
  PROVE  /\ OnTurnStarted(x, t) \in States
         /\ OnTurnStarted(x, t).record = x.record /\ OnTurnStarted(x, t).holder = x.holder
         /\ OnTurnStarted(x, t).running = x.running \/ OnTurnStarted(x, t).running.turn = t
<1> DEFINE origin == IF x.pending # "none" THEN x.pending
                     ELSE IF x.live # None THEN x.live.origin ELSE "unknown"
           m == [turn |-> t, origin |-> origin]
           y == [x EXCEPT !.pending = "none", !.live = m]
           template == y.template \/ x.pending = "user"
           count == IF origin = "user" THEN 0 ELSE y.count
           z == [y EXCEPT !.template = template, !.count = count, !.running = m]
<1>1. m \in Markers /\ m.turn = t
  BY DEF Markers, Origins, States
<1>2. OnTurnStarted(x, t) = IF mode = "draining" THEN y ELSE z
  BY DEF OnTurnStarted
<1> HIDE DEF m, origin
<1>3. /\ y \in States /\ y.record = x.record /\ y.holder = x.holder /\ y.running = x.running
      /\ y.template \in BOOLEAN /\ y.count \in 0..MaxContinuations
  BY <1>1 DEF States
<1> HIDE DEF y
<1>4. template \in BOOLEAN
  BY Zenon
<1>5. count \in 0..MaxContinuations
  BY <1>3, ResumeAssumption
<1> HIDE DEF template, count
<1>6. z \in States
  BY <1>1, <1>3, <1>4, <1>5 DEF States
<1>7. z.record = x.record /\ z.holder = x.holder /\ z.running = m
  BY <1>3 DEF States
<1> QED
  BY <1>1, <1>2, <1>3, <1>6, <1>7

LEMMA EndedKeeps ==
  ASSUME NEW x \in States, NEW t \in 1..MaxTurns
  PROVE  /\ OnTurnEnded(x, t) \in States
         /\ OnTurnEnded(x, t).record \in {None, x.record}
         /\ OnTurnEnded(x, t).running \in {None, x.running}
         /\ OnTurnEnded(x, t).holder = None
            \/ (OnTurnEnded(x, t).holder = x.holder /\ OnTurnEnded(x, t).record = x.record)
<1> DEFINE w == [x EXCEPT !.live = IF @ # None /\ @.turn = t THEN None ELSE @]
           y == ClearMarker(w, x.record # None)
           z == [y EXCEPT !.attempt = None]
<1>1. w \in States /\ w.record = x.record /\ w.holder = x.holder /\ w.running = x.running
  BY DEF States
<1> HIDE DEF w
<1>2. /\ y \in States /\ y.record = x.record /\ y.holder = x.holder
      /\ y.running \in {None, x.running}
  <2>1. PICK b \in BOOLEAN : b <=> x.record # None
    OBVIOUS
  <2>2. y = ClearMarker(w, b)
    BY <2>1 DEF ClearMarker
  <2> QED
    BY <1>1, <2>2, ClearKeeps
<1> HIDE DEF y
<1>3. /\ z \in States /\ z.record = y.record /\ z.holder = y.holder /\ z.running = y.running
  BY <1>2 DEF States
<1> HIDE DEF z
<1>4. OnTurnEnded(x, t) \in {x, y, z, Drop(z)}
  BY DEF OnTurnEnded, w, y, z
<1>5. /\ Drop(z) \in States /\ Drop(z).record = None /\ Drop(z).holder = None
      /\ Drop(z).running = z.running
  BY <1>3, DropKeeps
<1> QED
  BY <1>2, <1>3, <1>4, <1>5

LEMMA LimitKeeps ==
  ASSUME NEW x \in States, NEW t \in 1..MaxTurns, NEW setting \in BOOLEAN
  PROVE  /\ RecordLimit(x, t, setting) \in States
         /\ RecordLimit(x, t, setting).running = x.running
         /\ RecordLimit(x, t, setting).holder = None
<1> DEFINE origin == IF x.live # None THEN x.live.origin ELSE "unknown"
           again == x.attempt # None /\ origin = OriginOf(x.attempt) /\ IsResuming(x.record)
           failures == IF again THEN x.record.failures + 1 ELSE 0
           template == x.template \/ x.pending = "user"
           auto == setting /\ origin \in Resumable /\ template /\ failures < MaxFailures
           record == [reason |-> "limit", mode |-> IF auto THEN "auto" ELSE "off",
                      status |-> "waiting", failures |-> failures]
           y == [x EXCEPT !.recent = LimitKey(x, t), !.template = template, !.holder = None,
                          !.record = record]
<1>1. failures \in Nat
  BY DEF IsResuming, States, Records
<1>2. LimitKey(x, t) \in 0..MaxTurns
  BY ResumeAssumption DEF LimitKey, States, Markers
<1>3. RecordLimit(x, t, setting) = Arm(y)
  BY DEF RecordLimit
<1>4. template \in BOOLEAN
  BY Zenon
<1> HIDE DEF failures, auto, template
<1>5. record \in Records
  BY <1>1 DEF Records
<1> HIDE DEF record
<1>6. y \in States /\ y.running = x.running /\ y.holder = None
  BY <1>2, <1>4, <1>5 DEF States
<1> HIDE DEF y
<1> QED
  BY <1>3, <1>6, ArmKeeps

\* TypeOK in parts.
FibresOK ==
  /\ pc \in [Attempts -> {"none", "preparing", "admitted", "running"}]
  /\ manual \in [Attempts -> BOOLEAN]
  /\ saved \in [Attempts -> Records \cup {None}]
  /\ turnOf \in [Attempts -> 0..MaxTurns]
EnvOK ==
  /\ mode \in {"down", "serving", "draining"}
  /\ owner \in {"nobody", "message", "attempt", "turn", "limited"} /\ last \in 0..MaxTurns
  /\ bus \in Seq({"started", "limit", "ended"} \X (1..MaxTurns))
  /\ crashes \in 0..MaxCrashes /\ choices \in 0..MaxChoices
HistoryOK ==
  /\ declined \in 0..MaxTurns /\ cause \in 0..MaxTurns
  /\ inARow \in 0..MaxCrashes /\ unseen \in 0..MaxCrashes /\ tries \in 0..MaxTurns
FlagsOK ==
  /\ late \in BOOLEAN /\ unwanted \in BOOLEAN /\ lost \in BOOLEAN /\ missed \in BOOLEAN
  /\ kept \in BOOLEAN /\ archived \in BOOLEAN

LEMMA TypeParts ==
  /\ TypeOK <=> s \in States /\ FibresOK /\ EnvOK /\ HistoryOK /\ FlagsOK
  /\ TypeOK' <=> s' \in States /\ FibresOK' /\ EnvOK' /\ HistoryOK' /\ FlagsOK'
  BY Zenon DEF TypeOK, States, FibresOK, EnvOK, HistoryOK, FlagsOK

\* The next event.
LEMMA NextEvent ==
  ASSUME EnvOK, bus # <<>>
  PROVE  /\ Head(bus)[2] \in 1..MaxTurns
         /\ Tail(bus) \in Seq({"started", "limit", "ended"} \X (1..MaxTurns))
  BY DEF EnvOK

-----------------------------------------------------------------------------
(* The steps of the scheduler                                               *)

\* An attempt that goes out, or is refused, leaves a record.
LEMMA AttemptKeeps ==
  ASSUME s \in States, FibresOK, Started, s.record \in Records,
         NEW a \in Attempts, NEW byUser \in BOOLEAN, Attempt(a, byUser)
  PROVE  /\ s' \in States /\ s'.running = s.running
         /\ FibresOK' /\ (s.record # None => Started')
<1> DEFINE x == [s EXCEPT !.holder = None, !.timer = FALSE]
<1>1. x \in States /\ x.running = s.running /\ x.record = s.record
  BY DEF States
<1>2. Failed(x.record) \in Records
  BY <1>1, FailedType
<1> DEFINE y == [x EXCEPT !.record = Failed(x.record)]
           z == [x EXCEPT !.record.mode = "off"]
           out == [x EXCEPT !.holder = a, !.attempt = a,
                            !.record.mode = "auto", !.record.status = "resuming"]
<1>3. y \in States /\ y.running = s.running
  BY <1>1, <1>2 DEF States
<1>4. z \in States /\ z.running = s.running
  <2>1. [x.record EXCEPT !.mode = "off"] \in Records
    BY <1>1 DEF Records
  <2>2. z = [x EXCEPT !.record = [x.record EXCEPT !.mode = "off"]]
    BY <1>1
  <2> QED
    BY <1>1, <2>1, <2>2 DEF States
<1>5. out \in States /\ out.running = s.running
  <2>1. [x.record EXCEPT !.mode = "auto", !.status = "resuming"] \in Records
    BY <1>1 DEF Records
  <2>2. out = [x EXCEPT !.holder = a, !.attempt = a,
                        !.record = [x.record EXCEPT !.mode = "auto", !.status = "resuming"]]
    BY <1>1 DEF States
  <2> QED
    BY <1>1, <2>1, <2>2 DEF States
<1>6. s' \in {Arm(x), Arm(y), x, z, out}
  BY DEF Attempt
<1>7. s' \in States /\ s'.running = s.running
  <2> HIDE DEF x, y, z, out
  <2> QED
    BY <1>1, <1>3, <1>4, <1>5, <1>6, ArmKeeps
<1>8. CASE UNCHANGED fibres
  BY <1>7, <1>8 DEF fibres, FibresOK, Started
<1>9. CASE /\ pc' = [pc EXCEPT ![a] = "preparing"]
           /\ manual' = [manual EXCEPT ![a] = byUser]
           /\ saved' = [saved EXCEPT ![a] = s.record]
           /\ turnOf' = [turnOf EXCEPT ![a] = 0]
  <2>1. FibresOK'
    BY <1>9, ResumeAssumption DEF FibresOK
  <2>2. s.record # None => Started'
    BY <1>9 DEF FibresOK, Started
  <2> QED
    BY <1>7, <2>1, <2>2
<1> QED
  BY <1>8, <1>9, Zenon DEF Attempt

LEMMA DoneKeeps ==
  ASSUME FibresOK, Started, NEW a \in Attempts, Done(a)
  PROVE  FibresOK' /\ Started'
  BY ResumeAssumption DEF FibresOK, Started, Done

\* A rejected attempt puts its record back, if it still has the generation.
LEMMA RejectedKeeps ==
  ASSUME s \in States, FibresOK, Started, NEW a \in Attempts, pc[a] # "none", Rejected(a)
  PROVE  /\ s' \in States /\ s'.running = s.running /\ s'.holder = s.holder
         /\ s'.record = s.record \/ s.holder = a
<1> DEFINE x == [s EXCEPT !.attempt = IF @ = a THEN None ELSE @]
           r == IF manual[a] THEN saved[a] ELSE Failed(saved[a])
           y == [x EXCEPT !.record = r]
<1>1. x \in States /\ x.running = s.running /\ x.record = s.record /\ x.holder = s.holder
  BY DEF States
<1>2. saved[a] \in Records
  BY DEF Started, FibresOK
<1>3. r \in Records
  BY <1>2, FailedType
<1> HIDE DEF r
<1>4. y \in States /\ y.running = s.running /\ y.holder = s.holder
  <2> HIDE DEF x
  <2> QED
    BY <1>1, <1>3 DEF States
<1>5. s' = IF ~Guard(a) THEN x ELSE Arm(y)
  BY DEF Rejected, r
<1> HIDE DEF x, y
<1> QED
  BY <1>1, <1>4, <1>5, ArmKeeps DEF Guard

\* A step of the scheduler keeps its state's type, and brings no record, marker
\* or generation out of nothing.
Tame ==
  /\ s' \in States
  /\ s'.record # None \/ s'.holder # None => s.record # None \/ s.holder # None
  /\ s'.running # None => s'.running = s.running

LEMMA AttemptTame ==
  ASSUME s \in States, FibresOK, Started,
         \/ \E a \in Attempts : Fire(a) \/ ResumeNow(a)
  PROVE  Tame
<1>1. PICK a \in Attempts : Fire(a) \/ ResumeNow(a)
  OBVIOUS
<1>2. CASE s' = [s EXCEPT !.timer = FALSE]
  BY <1>2 DEF Tame, States
<1>3. CASE (IsAuto(s.record) /\ Attempt(a, FALSE)) \/ ResumeNow(a)
  <2>1. s.record # None /\ \E b \in BOOLEAN : Attempt(a, b)
    BY <1>3 DEF ResumeNow, IsAuto
  <2>2. s.record \in Records
    BY <2>1 DEF States
  <2>3. s' \in States /\ s'.running = s.running
    BY <2>1, <2>2, AttemptKeeps
  <2> QED
    BY <2>1, <2>3 DEF Tame
<1> QED
  BY <1>1, <1>2, <1>3 DEF Fire

LEMMA DispatchTame ==
  ASSUME s \in States, FibresOK, Started, ResumeAssumption,
         \E a \in Attempts : Admit(a) \/ LaunchFails(a)
  PROVE  Tame
<1>1. PICK a \in Attempts : Admit(a) \/ LaunchFails(a)
  OBVIOUS
<1>2. a # None /\ pc[a] # "none"
  BY <1>1 DEF Admit, LaunchFails
<1>3. CASE Rejected(a)
  <2>1. /\ s' \in States /\ s'.running = s.running /\ s'.holder = s.holder
        /\ s'.record = s.record \/ s.holder = a
    BY <1>2, <1>3, RejectedKeeps
  <2> QED
    BY <1>2, <2>1 DEF Tame
<1>4. CASE ~Rejected(a)
  <2>1. s' = IF s.attempt = a THEN [s EXCEPT !.pending = OriginOf(a)] ELSE Noted(s, "other")
    BY <1>1, <1>4 DEF Admit, LaunchFails
  <2>2. OriginOf(a) \in Origins /\ "other" \in Origins
    BY DEF OriginOf, Origins
  <2>3. CASE s.attempt = a
    <3>1. s' \in States /\ s'.record = s.record /\ s'.holder = s.holder /\ s'.running = s.running
      BY <2>1, <2>2, <2>3 DEF States
    <3> QED
      BY <3>1 DEF Tame
  <2>4. CASE s.attempt # a
    BY <2>1, <2>2, <2>4, NotedKeeps DEF Tame
  <2> QED
    BY <2>3, <2>4
<1> QED
  BY <1>3, <1>4

LEMMA SettledTame ==
  ASSUME s \in States, \E a \in Attempts : Settled(a)
  PROVE  Tame
<1> DEFINE x == [s EXCEPT !.attempt = None]
           y == [x EXCEPT !.record = Failed(x.record)]
<1>1. s' = s \/ s' = x \/ (IsResuming(s.record) /\ (s' = Drop(x) \/ s' = Arm(y)))
  BY DEF Settled
<1>2. x \in States /\ x.record = s.record /\ x.holder = s.holder /\ x.running = s.running
  BY DEF States
<1>3. CASE s' = s \/ s' = x
  BY <1>2, <1>3 DEF Tame
<1>4. CASE s' = Drop(x)
  BY <1>2, <1>4, DropKeeps DEF Tame
<1>5. CASE IsResuming(s.record) /\ s' = Arm(y)
  <2>1. x.record \in Records /\ s.record # None
    BY <1>2, <1>5 DEF IsResuming, States
  <2>2. Failed(x.record) \in Records
    BY <2>1, FailedType
  <2>3. y \in States /\ y.running = s.running
    BY <1>2, <2>2 DEF States
  <2> HIDE DEF y
  <2> QED
    BY <1>5, <2>1, <2>3, ArmKeeps DEF Tame
<1> QED
  BY <1>1, <1>3, <1>4, <1>5

LEMMA UserTame ==
  ASSUME s \in States, ResumeAssumption,
         Dismiss \/ Cancel \/ Schedule \/ \E origin \in {"user", "other"} : Message(origin)
  PROVE  Tame
<1>1. CASE Dismiss
  BY <1>1, DropKeeps DEF Dismiss, Tame
<1>2. CASE \E origin \in {"user", "other"} : Message(origin)
  <2>1. PICK origin \in {"user", "other"} : s' = Noted(s, origin)
    BY <1>2 DEF Message
  <2>2. origin \in Origins
    BY DEF Origins
  <2> QED
    BY <2>1, <2>2, NotedKeeps DEF Tame
<1>3. CASE Cancel
  <2> DEFINE r == [s.record EXCEPT !.mode = "off"]
             y == [s EXCEPT !.holder = None, !.timer = FALSE, !.record = r]
  <2>1. s.record # None /\ s.record \in Records
    BY <1>3 DEF Cancel, States
  <2>2. r \in Records
    BY <2>1 DEF Records
  <2>3. s' = y
    BY <1>3 DEF Cancel, States
  <2> HIDE DEF r
  <2>4. y \in States /\ y.running = s.running
    BY <2>2 DEF States
  <2> HIDE DEF y
  <2> QED
    BY <2>1, <2>3, <2>4 DEF Tame
<1>4. CASE Schedule
  <2> DEFINE r == [s.record EXCEPT !.mode = "auto", !.failures = 0]
             y == [s EXCEPT !.holder = None, !.record = r]
  <2>1. s.record # None /\ s.record \in Records
    BY <1>4 DEF Schedule, States
  <2>2. r \in Records
    BY <2>1 DEF Records
  <2>3. s' = Arm(y)
    BY <1>4 DEF Schedule, States
  <2> HIDE DEF r
  <2>4. y \in States /\ y.running = s.running
    BY <2>2 DEF States
  <2> HIDE DEF y
  <2> QED
    BY <2>1, <2>3, <2>4, ArmKeeps DEF Tame
<1> QED
  BY <1>1, <1>2, <1>3, <1>4

\* What a dead process leaves.
LEMMA Dead ==
  ASSUME NEW x \in States, Dies(x)
  PROVE  /\ s' \in States /\ s'.record = x.record /\ s'.running = x.running /\ s'.holder = None
<1>1. s' = [x EXCEPT !.timer = FALSE, !.holder = None, !.attempt = None, !.live = None,
                     !.pending = "none", !.recent = 0]
  BY DEF Dies
<1>2. 0 \in 0..MaxTurns
  BY ResumeAssumption
<1> QED
  BY <1>1, <1>2 DEF States

\* The next event, observed.
LEMMA ObserveKeeps ==
  ASSUME s \in States, EnvOK, HistoryOK, Heeded, Observe
  PROVE  s' \in States /\ Heeded'
<1> DEFINE t == Head(bus)[2]
<1>1. t \in 1..MaxTurns
  BY NextEvent DEF Observe
<1>2. /\ declined' = declined /\ kept' = kept
      /\ late' = (late \/ (Head(bus)[1] # "ended" /\ t <= declined))
      /\ t \in Nat /\ declined \in Nat
  BY <1>1, ResumeAssumption DEF Observe, HistoryOK
<1> HIDE DEF t
<1>3. CASE Head(bus)[1] = "started" /\ ObserveStarted(t)
  <2>1. s' = OnTurnStarted(s, t) /\ cause' = cause
    BY <1>3 DEF ObserveStarted
  <2>2. /\ s' \in States /\ s'.record = s.record /\ s'.holder = s.holder
        /\ s'.running = s.running \/ s'.running.turn = t
    BY <1>1, <2>1, StartedKeeps
  <2>3. ~late' => ~late /\ t > declined
    <3>1. ~late' => ~late /\ ~(t <= declined)
      BY <1>2, <1>3, Zenon
    <3> QED
      BY <1>2, <3>1
  <2> QED
    BY <1>2, <2>1, <2>2, <2>3 DEF Heeded
<1>4. CASE s' = OnTurnEnded(s, t) /\ cause' = cause
  <2>1. /\ s' \in States /\ s'.record \in {None, s.record} /\ s'.running \in {None, s.running}
        /\ s'.holder = None \/ (s'.holder = s.holder /\ s'.record = s.record)
    BY <1>1, <1>4, EndedKeeps
  <2>2. ~late' => ~late
    BY <1>2
  <2> QED
    BY <1>2, <1>4, <2>1, <2>2 DEF Heeded
<1>5. CASE /\ Head(bus)[1] = "limit" /\ cause' = t
           /\ \E setting \in BOOLEAN : s' = OnTurnEnded(RecordLimit(s, t, setting), t)
  <2>1. PICK setting \in BOOLEAN : s' = OnTurnEnded(RecordLimit(s, t, setting), t)
    BY <1>5
  <2>2. PICK x \in States : /\ x = RecordLimit(s, t, setting)
                            /\ x.running = s.running
    BY <1>1, <2>1, LimitKeeps
  <2>3. s' = OnTurnEnded(x, t)
    BY <2>1, <2>2
  <2>4. s' \in States /\ s'.running \in {None, s.running}
    BY <1>1, <2>2, <2>3, EndedKeeps
  <2>5. ~late' => ~late /\ t > declined
    <3>1. ~late' => ~late /\ ~(t <= declined)
      BY <1>2, <1>5, Zenon
    <3> QED
      BY <1>2, <3>1
  <2> QED
    BY <1>2, <1>5, <2>4, <2>5 DEF Heeded
<1> QED
  BY <1>3, <1>4, <1>5 DEF Observe, ObserveLimit, ObserveEnded, t

\* The process dies while it observes an event.
LEMMA CrashObservingKeeps ==
  ASSUME s \in States, EnvOK, HistoryOK, Heeded, CrashObserving
  PROVE  s' \in States /\ Heeded'
<1> DEFINE t == Head(bus)[2]
<1>1. t \in 1..MaxTurns
  BY NextEvent DEF CrashObserving
<1>2. declined' = declined /\ kept' = kept /\ t \in Nat /\ declined \in Nat
  <2>1. declined' = declined /\ kept' = kept
    BY DEF CrashObserving, Dies
  <2>2. declined \in 0..MaxTurns
    BY DEF HistoryOK
  <2> QED
    BY <1>1, <2>1, <2>2, ResumeAssumption
<1> HIDE DEF t
<1>3. CASE Dies(ClearMarker(s, s.record # None)) /\ UNCHANGED <<cause, late>>
  <2>1. PICK b \in BOOLEAN : b <=> s.record # None
    OBVIOUS
  <2>2. PICK x \in States : /\ x = ClearMarker(s, s.record # None)
                            /\ x.record = s.record /\ x.running \in {None, s.running}
    <3>1. ClearMarker(s, b) = ClearMarker(s, s.record # None)
      BY <2>1 DEF ClearMarker
    <3> QED
      BY <3>1, ClearKeeps
  <2>3. s' \in States /\ s'.record = x.record /\ s'.running = x.running /\ s'.holder = None
    BY <1>3, <2>2, Dead
  <2> QED
    BY <1>2, <1>3, <2>2, <2>3 DEF Heeded
<1>4. CASE /\ \E setting \in BOOLEAN : Dies(RecordLimit(s, t, setting))
           /\ cause' = t /\ late' = (late \/ t <= declined)
  <2>1. PICK setting \in BOOLEAN : Dies(RecordLimit(s, t, setting))
    BY <1>4
  <2>2. PICK x \in States : x = RecordLimit(s, t, setting) /\ x.running = s.running
    BY <1>1, <2>1, LimitKeeps
  <2>3. s' \in States /\ s'.running = x.running
    BY <2>1, <2>2, Dead
  <2>4. ~late' => ~late /\ t > declined
    <3>1. ~late' => ~late /\ ~(t <= declined)
      BY <1>2, <1>4, Zenon
    <3> QED
      BY <1>2, <3>1
  <2> QED
    BY <1>2, <1>4, <2>2, <2>3, <2>4 DEF Heeded
<1> QED
  BY <1>3, <1>4 DEF CrashObserving, t

\* What recover makes of what is kept with the chat.
LEMMA RecoveredKeeps ==
  ASSUME s \in States, NEW x \in Recovered(s)
  PROVE  /\ x \in States /\ x.running \in {None, s.running} /\ x.holder = s.holder
         /\ s.running = None => (x.record # None => s.record # None)
         /\ IsResuming(s.record) => s.record # None
<1> DEFINE y == [s EXCEPT !.running = None]
           w == [s.record EXCEPT !.status = "waiting"]
           z == [y EXCEPT !.record = w]
           off == [z EXCEPT !.record = [w EXCEPT !.mode = "off"]]
           more == [z EXCEPT !.count = s.count + 1]
           cont(h) == [y EXCEPT !.record = RestartRecord(h),
                                !.count = IF h = "auto" THEN s.count + 1 ELSE s.count]
           waits == [s EXCEPT !.record = w]
<1>1. /\ y \in States /\ y.running = None /\ y.holder = s.holder
      /\ y.record = s.record /\ y.count = s.count
  BY DEF States
<1>2. s.count \in Nat /\ MaxContinuations \in Nat /\ s.count <= MaxContinuations
  BY ResumeAssumption DEF States
<1>3. CASE s.running # None /\ IsResuming(s.record)
  <2>1. s.record \in Records /\ s.record # None
    BY <1>3 DEF IsResuming, States
  <2>2. w \in Records /\ [w EXCEPT !.mode = "off"] \in Records
    BY <2>1 DEF Records
  <2>3. z \in States /\ z.running = None /\ z.holder = s.holder /\ z.count = s.count
    BY <1>1, <2>2 DEF States
  <2>4. off \in States /\ off.running = None /\ off.holder = s.holder
    BY <2>2, <2>3 DEF States
  <2>5. s.count + 1 <= MaxContinuations =>
          more \in States /\ more.running = None /\ more.holder = s.holder
    <3>1. s.count + 1 <= MaxContinuations => s.count + 1 \in 0..MaxContinuations
      BY <1>2
    <3> QED
      BY <2>3, <3>1 DEF States
  <2>6. x = CutOffAgain(s)
    BY <1>3 DEF Recovered
  <2>7. x = z \/ x = off \/ (x = more /\ s.count + 1 <= MaxContinuations)
    BY <1>2, <2>1, <2>6 DEF CutOffAgain, States
  <2> QED
    BY <1>3, <2>1, <2>3, <2>4, <2>5, <2>7
<1>4. CASE s.running # None /\ ~IsResuming(s.record)
  <2>1. x \in {y} \/ x \in CutOff(s)
    BY <1>4 DEF Recovered
  <2>2. \/ x = y
        \/ \E h \in {"off", "auto"} : x = cont(h) /\ (h = "auto" => s.count < MaxContinuations)
    BY <2>1 DEF CutOff, States
  <2>3. ASSUME NEW h \in {"off", "auto"}, h = "auto" => s.count < MaxContinuations
        PROVE  cont(h) \in States /\ cont(h).running = None /\ cont(h).holder = s.holder
    <3>1. RestartRecord(h) \in Records
      BY DEF RestartRecord, Records
    <3>2. (IF h = "auto" THEN s.count + 1 ELSE s.count) \in 0..MaxContinuations
      BY <1>2, <2>3
    <3> QED
      BY <1>1, <3>1, <3>2 DEF States
  <2> HIDE DEF y, cont
  <2> QED
    BY <1>1, <1>4, <2>2, <2>3
<1>5. CASE s.running = None /\ IsResuming(s.record)
  <2>1. s.record \in Records /\ s.record # None
    BY <1>5 DEF IsResuming, States
  <2>2. w \in Records
    BY <2>1 DEF Records
  <2>3. x = waits
    BY <1>5 DEF Recovered
  <2> QED
    BY <1>5, <2>1, <2>2, <2>3 DEF States
<1>6. CASE s.running = None /\ ~IsResuming(s.record)
  BY <1>6 DEF Recovered
<1> QED
  BY <1>3, <1>4, <1>5, <1>6 DEF IsResuming

LEMMA TameHeeds ==
  ASSUME Heeded, Tame, cause' = cause, declined' = declined \/ declined' = 0, late' = late,
         kept' = kept
  PROVE  s' \in States /\ Heeded'
  BY DEF Heeded, Tame

LEMMA RecoverKeeps ==
  ASSUME s \in States, Heeded, Recover
  PROVE  s' \in States /\ Heeded'
<1>1. PICK x \in Recovered(s) :
        /\ s' = [x EXCEPT !.timer = IsAuto(x.record)]
        /\ cause' = IF s.running # None /\ x.record # s.record /\ ~IsResuming(s.record)
                      THEN s.running.turn ELSE cause
  BY DEF Recover
<1>2. declined' = declined /\ late' = late /\ kept' = kept
  BY DEF Recover
<1>3. /\ x \in States /\ x.running \in {None, s.running} /\ x.holder = s.holder
      /\ s.running = None => (x.record # None => s.record # None)
      /\ IsResuming(s.record) => s.record # None
  BY <1>1, RecoveredKeeps
<1>4. IsAuto(x.record) \in BOOLEAN
  BY DEF IsAuto
<1>5. s' \in States /\ s'.record = x.record /\ s'.running = x.running /\ s'.holder = x.holder
  BY <1>1, <1>3, <1>4 DEF States
<1>6. CASE s.running # None /\ x.record # s.record /\ ~IsResuming(s.record)
  <2>1. cause' = s.running.turn
    BY <1>1, <1>6
  <2> QED
    BY <1>2, <1>3, <1>5, <1>6, <2>1 DEF Heeded
<1>7. CASE ~(s.running # None /\ x.record # s.record /\ ~IsResuming(s.record))
  <2>1. cause' = cause
    BY <1>1, <1>7
  <2>2. x.record # None => s.record # None
    BY <1>3, <1>7
  <2> QED
    BY <1>2, <1>3, <1>5, <2>1, <2>2 DEF Heeded
<1> QED
  BY <1>6, <1>7

LEMMA CrashRecoveringKeeps ==
  ASSUME s \in States, Heeded, CrashRecovering
  PROVE  s' \in States /\ Heeded'
<1>1. PICK counted \in {s.count} \cup {x.count : x \in Recovered(s)} :
        s' = [s EXCEPT !.running = None, !.count = counted]
  BY DEF CrashRecovering
<1>2. declined' = declined /\ late' = late /\ kept' = kept /\ cause' = cause
  BY DEF CrashRecovering
<1>3. counted \in 0..MaxContinuations
  <2>1. \A x \in Recovered(s) : x \in States
    BY RecoveredKeeps
  <2>2. \A x \in States : x.count \in 0..MaxContinuations
    BY DEF States
  <2> QED
    BY <1>1, <2>1, <2>2
<1>4. s' \in States /\ s'.record = s.record /\ s'.running = None /\ s'.holder = s.holder
  BY <1>1, <1>3 DEF States
<1> QED
  BY <1>2, <1>4 DEF Heeded

LEMMA StopKeeps ==
  ASSUME s \in States, EnvOK, Stop
  PROVE  s' \in States /\ Heeded'
<1> DEFINE x == [Drop(s) EXCEPT !.attempt = None]
<1>1. /\ Drop(s) \in States /\ Drop(s).record = None /\ Drop(s).holder = None
      /\ Drop(s).running = s.running
  BY DropKeeps
<1>2. x \in States /\ x.record = None /\ x.holder = None /\ x.running = s.running
  BY <1>1 DEF States
<1>3. /\ s' = IF mode = "serving" THEN ClearMarker(x, FALSE) ELSE x
      /\ kept' = (kept \/ (mode = "draining" /\ s.running # None))
      /\ mode \in {"serving", "draining"}
  BY DEF Stop, Choice, EnvOK
<1> HIDE DEF x
<1>4. /\ s' \in States /\ s'.record = None /\ s'.holder = None
      /\ mode = "serving" => s'.running = None
      /\ mode # "serving" => s'.running = s.running
  <2>1. CASE mode = "serving"
    BY <1>2, <1>3, <2>1, ClearKeeps
  <2>2. CASE mode # "serving"
    BY <1>2, <1>3, <2>2
  <2> QED
    BY <2>1, <2>2
<1>5. ~kept' => s'.running = None
  BY <1>3, <1>4
<1> QED
  BY <1>4, <1>5 DEF Heeded

\* Nothing that could resume the chat outlives a Stop, but for events that were
\* still on their way.
LEMMA HeededInductive ==
  TypeOK /\ Started /\ Heeded /\ [Next]_vars => s' \in States /\ Heeded'
<1> SUFFICES ASSUME TypeOK, Started, Heeded, [Next]_vars PROVE s' \in States /\ Heeded'
  OBVIOUS
<1>0. s \in States /\ FibresOK /\ EnvOK /\ HistoryOK /\ ResumeAssumption
  BY TypeParts, ResumeAssumption, Zenon
<1>1. CASE \E origin \in {"user", "other"} : Message(origin)
  <2>1. cause' = cause /\ declined' = declined /\ late' = late /\ kept' = kept
    BY <1>1 DEF Message
  <2> QED
    BY <1>0, <1>1, <2>1, UserTame, TameHeeds
<1>2. CASE Dismiss \/ Cancel \/ Schedule
  <2>1. cause' = cause /\ (declined' = declined \/ declined' = 0) /\ late' = late /\ kept' = kept
    BY <1>2 DEF Dismiss, Cancel, Schedule
  <2> QED
    BY <1>0, <1>2, <2>1, UserTame, TameHeeds
<1>3. CASE \E a \in Attempts : Fire(a) \/ ResumeNow(a)
  <2>1. cause' = cause /\ (declined' = declined \/ declined' = 0) /\ late' = late /\ kept' = kept
    BY <1>3 DEF Fire, ResumeNow, history
  <2> QED
    BY <1>0, <1>3, <2>1, AttemptTame, TameHeeds
<1>4. CASE \E a \in Attempts : Admit(a) \/ LaunchFails(a)
  <2>1. cause' = cause /\ declined' = declined /\ late' = late /\ kept' = kept
    BY <1>4 DEF Admit, LaunchFails, Rejected, history
  <2> QED
    BY <1>0, <1>4, <2>1, DispatchTame, TameHeeds
<1>5. CASE \E a \in Attempts : Settled(a)
  <2>1. cause' = cause /\ declined' = declined /\ late' = late /\ kept' = kept
    BY <1>5 DEF Settled, history
  <2> QED
    BY <1>0, <1>5, <2>1, SettledTame, TameHeeds
<1>6. CASE BeginShutdown
  <2>1. s' = [s EXCEPT !.timer = FALSE] /\ cause' = cause /\ declined' = declined /\ late' = late /\ kept' = kept
    BY <1>6 DEF BeginShutdown, history
  <2>2. Tame
    BY <1>0, <2>1 DEF Tame, States
  <2> QED
    BY <2>1, <2>2, TameHeeds
<1>7. CASE Exit \/ Crash
  <2>1. Dies(s) /\ cause' = cause /\ declined' = declined /\ late' = late /\ kept' = kept
    BY <1>7 DEF Exit, Crash, Dies
  <2>2. Tame
    BY <1>0, <2>1, Dead DEF Tame
  <2> QED
    BY <2>1, <2>2, TameHeeds
<1>8. CASE CrashStopping
  <2>1. Dies(Drop(s)) /\ cause' = cause /\ declined' = declined /\ late' = late /\ kept' = kept
    BY <1>8 DEF CrashStopping, Dies
  <2>2. PICK x \in States : x = Drop(s) /\ x.record = None /\ x.running = s.running
    BY <1>0, DropKeeps
  <2>3. s' \in States /\ s'.record = x.record /\ s'.running = x.running /\ s'.holder = None
    BY <2>1, <2>2, Dead
  <2>4. Tame
    BY <2>2, <2>3 DEF Tame
  <2> QED
    BY <2>1, <2>4, TameHeeds
<1>9. CASE Observe
  BY <1>0, <1>9, ObserveKeeps
<1>10. CASE CrashObserving
  BY <1>0, <1>10, CrashObservingKeeps
<1>11. CASE Recover
  BY <1>0, <1>11, RecoverKeeps
<1>12. CASE CrashRecovering
  BY <1>0, <1>12, CrashRecoveringKeeps
<1>13. CASE Stop
  BY <1>0, <1>13, StopKeeps
<1>14. CASE \/ LaunchMessage \/ RefuseMessage \/ TurnLimited \/ TurnEnds
             \/ (\E a \in Attempts : Launch(a)) \/ UNCHANGED vars
  <2>1. s' = s /\ cause' = cause /\ declined' = declined /\ late' = late /\ kept' = kept
    BY <1>14 DEF LaunchMessage, RefuseMessage, TurnLimited, TurnEnds, Launch, vars, history
  <2>2. Tame
    BY <1>0, <2>1 DEF Tame
  <2> QED
    BY <2>1, <2>2, TameHeeds
<1> QED
  BY <1>1, <1>2, <1>3, <1>4, <1>5, <1>6, <1>7, <1>8, <1>9, <1>10, <1>11, <1>12, <1>13, <1>14,
     Zenon DEF Next

-----------------------------------------------------------------------------
(* The rest of the state                                                    *)

\* The dispatches of the scheduler.
LEMMA FibresInductive ==
  TypeOK /\ Started /\ [Next]_vars => FibresOK' /\ Started'
<1> SUFFICES ASSUME TypeOK, Started, [Next]_vars PROVE FibresOK' /\ Started'
  OBVIOUS
<1>0. s \in States /\ FibresOK /\ EnvOK /\ ResumeAssumption
  BY TypeParts, ResumeAssumption, Zenon
<1>1. CASE UNCHANGED fibres
  BY <1>0, <1>1 DEF fibres, FibresOK, Started
<1>2. CASE \E a \in Attempts : \/ IsAuto(s.record) /\ Attempt(a, FALSE)
                               \/ ResumeNow(a)
  <2>1. PICK a \in Attempts, b \in BOOLEAN : s.record # None /\ Attempt(a, b)
    BY <1>2, Zenon DEF ResumeNow, IsAuto
  <2>2. s.record \in Records
    BY <1>0, <2>1 DEF States
  <2> QED
    BY <1>0, <2>1, <2>2, AttemptKeeps
<1>3. CASE \E a \in Attempts : Done(a)
  BY <1>0, <1>3, DoneKeeps
<1>4. CASE \E a \in Attempts : /\ pc[a] # "none" /\ UNCHANGED <<manual, saved, turnOf>>
                               /\ pc' = [pc EXCEPT ![a] = "admitted"]
  <2>1. PICK a \in Attempts : /\ pc[a] # "none" /\ UNCHANGED <<manual, saved, turnOf>>
                              /\ pc' = [pc EXCEPT ![a] = "admitted"]
    BY <1>4
  <2> QED
    BY <1>0, <2>1 DEF FibresOK, Started
<1>5. CASE \E a \in Attempts : Launch(a)
  <2>1. PICK a \in Attempts : Launch(a)
    BY <1>5
  <2>2. /\ pc[a] # "none" /\ UNCHANGED <<manual, saved>>
        /\ pc' = [pc EXCEPT ![a] = "running"]
        /\ turnOf' = [turnOf EXCEPT ![a] = last + 1]
        /\ last + 1 \in 0..MaxTurns
    BY <1>0, <2>1 DEF Launch, EnvOK
  <2> QED
    BY <1>0, <2>2 DEF FibresOK, Started
<1>6. CASE Observe
  <2>1. UNCHANGED <<pc, manual, saved>>
    BY <1>6 DEF Observe
  <2>2. Head(bus)[2] \in 0..MaxTurns
    BY <1>0, <1>6, NextEvent DEF Observe
  <2>3. turnOf' = turnOf \/ turnOf' = [turnOf EXCEPT ![s.attempt] = Head(bus)[2]]
    BY <1>6 DEF Observe, ObserveStarted, ObserveLimit, ObserveEnded
  <2> QED
    BY <1>0, <2>1, <2>2, <2>3 DEF FibresOK, Started
<1>7. CASE \E x : Dies(x)
  <2>1. /\ pc' = [a \in Attempts |-> "none"] /\ manual' = [a \in Attempts |-> FALSE]
        /\ saved' = [a \in Attempts |-> None] /\ turnOf' = [a \in Attempts |-> 0]
    BY <1>7 DEF Dies
  <2> QED
    BY <1>0, <2>1 DEF FibresOK, Started
<1>8. CASE \E a \in Attempts : Fire(a)
  BY <1>1, <1>2, <1>8, Zenon DEF Fire
<1>9. CASE \E a \in Attempts : Admit(a) \/ LaunchFails(a) \/ Settled(a)
  <2>1. PICK a \in Attempts : Admit(a) \/ LaunchFails(a) \/ Settled(a)
    BY <1>9
  <2>2. CASE Done(a)
    BY <1>3, <2>2
  <2>3. CASE ~Done(a)
    <3>1. /\ pc[a] = "preparing" /\ UNCHANGED <<manual, saved, turnOf>>
          /\ pc' = [pc EXCEPT ![a] = "admitted"]
      BY <2>1, <2>3, Zenon DEF Admit, LaunchFails, Settled, Rejected
    <3> QED
      BY <1>4, <3>1
  <2> QED
    BY <2>2, <2>3
<1>10. CASE Crash \/ Exit \/ CrashObserving \/ CrashStopping
  BY <1>7, <1>10, Zenon DEF Crash, Exit, CrashObserving, CrashStopping
<1>11. CASE \/ \E origin \in {"user", "other"} : Message(origin)
            \/ LaunchMessage \/ RefuseMessage \/ TurnLimited \/ TurnEnds
            \/ Stop \/ Dismiss \/ Cancel \/ Schedule
            \/ BeginShutdown \/ Recover \/ CrashRecovering \/ UNCHANGED vars
  <2>1. UNCHANGED fibres
    BY <1>11 DEF Message, LaunchMessage, RefuseMessage, TurnLimited, TurnEnds, Stop, Dismiss,
                 Cancel, Schedule, BeginShutdown, Recover, CrashRecovering, vars
  <2> QED
    BY <1>1, <2>1
<1> QED
  BY <1>2, <1>5, <1>6, <1>8, <1>9, <1>10, <1>11, Zenon DEF Next

\* The chat's turns and the process.
LEMMA EnvInductive ==
  TypeOK /\ Counts /\ [Next]_vars => EnvOK'
<1> SUFFICES ASSUME TypeOK, Counts, [Next]_vars PROVE EnvOK'
  OBVIOUS
<1> DEFINE Events == {"started", "limit", "ended"} \X (1..MaxTurns)
<1>0. /\ EnvOK /\ ResumeAssumption /\ bus \in Seq(Events)
      /\ last \in Nat /\ crashes \in Nat /\ choices \in Nat
      /\ MaxTurns \in Nat /\ MaxCrashes \in Nat /\ MaxChoices \in Nat
      /\ last <= MaxTurns /\ crashes <= MaxCrashes /\ choices <= MaxChoices
  BY TypeParts, ResumeAssumption DEF EnvOK
<1>1. mode' \in {"down", "serving", "draining"}
  BY <1>0 DEF EnvOK, Next, vars, env, budget, fibres, Message, LaunchMessage, RefuseMessage,
    TurnLimited, TurnEnds, Observe, Stop, Dismiss, Cancel, Schedule, Choice, Fire, ResumeNow,
    Admit, Rejected, Launch, LaunchFails, Settled, BeginShutdown, Exit, Crash, CrashObserving,
    CrashStopping, Dies, Recover, CrashRecovering
<1>2. owner' \in {"nobody", "message", "attempt", "turn", "limited"}
  BY <1>0 DEF EnvOK, Next, vars, env, budget, fibres, Message, LaunchMessage, RefuseMessage,
    TurnLimited, TurnEnds, Observe, Stop, Dismiss, Cancel, Schedule, Choice, Fire, ResumeNow,
    Admit, Rejected, Launch, LaunchFails, Settled, BeginShutdown, Exit, Crash, CrashObserving,
    CrashStopping, Dies, Recover, CrashRecovering
<1>3. last' \in 0..MaxTurns
  <2>1. last' = last \/ (last < MaxTurns /\ last' = last + 1)
    BY DEF Next, vars, env, budget, fibres, Message, LaunchMessage, RefuseMessage,
      TurnLimited, TurnEnds, Observe, Stop, Dismiss, Cancel, Schedule, Choice, Fire, ResumeNow,
      Admit, Rejected, Launch, LaunchFails, Settled, BeginShutdown, Exit, Crash, CrashObserving,
      CrashStopping, Dies, Recover, CrashRecovering
  <2> QED
    BY <1>0, <2>1
<1>4. crashes' \in 0..MaxCrashes
  <2>1. crashes' = crashes \/ (crashes < MaxCrashes /\ crashes' = crashes + 1)
    BY DEF Next, vars, env, budget, fibres, Message, LaunchMessage, RefuseMessage,
      TurnLimited, TurnEnds, Observe, Stop, Dismiss, Cancel, Schedule, Choice, Fire, ResumeNow,
      Admit, Rejected, Launch, LaunchFails, Settled, BeginShutdown, Exit, Crash, CrashObserving,
      CrashStopping, Dies, Recover, CrashRecovering
  <2> QED
    BY <1>0, <2>1
<1>5. choices' \in 0..MaxChoices
  <2>1. choices' = choices \/ (choices < MaxChoices /\ choices' = choices + 1)
    BY DEF Next, vars, env, budget, fibres, Message, LaunchMessage, RefuseMessage,
      TurnLimited, TurnEnds, Observe, Stop, Dismiss, Cancel, Schedule, Choice, Fire, ResumeNow,
      Admit, Rejected, Launch, LaunchFails, Settled, BeginShutdown, Exit, Crash, CrashObserving,
      CrashStopping, Dies, Recover, CrashRecovering
  <2> QED
    BY <1>0, <2>1
<1>6. bus' \in Seq(Events)
  <2> HIDE DEF Events
  <2>1. CASE bus' = bus \/ bus' = <<>>
    <3>1. <<>> \in Seq(Events)
      OBVIOUS
    <3> QED
      BY <1>0, <2>1, <3>1, Zenon
  <2>2. CASE LaunchMessage \/ \E a \in Attempts : Launch(a)
    <3>1. last < MaxTurns /\ bus' \in {bus, Append(bus, <<"started", last + 1>>)}
      BY <2>2 DEF LaunchMessage, Launch
    <3>2. <<"started", last + 1>> \in Events
      BY <1>0, <3>1 DEF Events
    <3> QED
      BY <1>0, <3>1, <3>2
  <2>3. CASE TurnLimited \/ TurnEnds
    <3>1. last \in 1..MaxTurns
      BY <1>0, <2>3 DEF TurnLimited, TurnEnds, Running, Counts
    <3>2. \A e \in {"ended", "limit"} : <<e, last>> \in Events
      BY <3>1 DEF Events
    <3>3. bus' = bus \/ \E e \in {"ended", "limit"} : bus' = Append(bus, <<e, last>>)
      BY <2>3 DEF TurnLimited, TurnEnds
    <3>4. CASE bus' = bus
      BY <1>0, <3>4
    <3>5. CASE \E e \in {"ended", "limit"} : bus' = Append(bus, <<e, last>>)
      <4>1. PICK e \in Events : bus' = Append(bus, e)
        BY <3>2, <3>5
      <4> QED
        BY <1>0, <4>1
    <3> QED
      BY <3>3, <3>4, <3>5
  <2>4. CASE Observe
    BY <1>0, <2>4, NextEvent DEF Observe, Events
  <2> QED
    BY <2>1, <2>2, <2>3, <2>4 DEF Next, vars, env, budget, fibres, Message, RefuseMessage,
      Stop, Dismiss, Cancel, Schedule, Choice, Fire, ResumeNow,
      Admit, Rejected, LaunchFails, Settled, BeginShutdown, Exit, Crash, CrashObserving,
      CrashStopping, Dies, Recover, CrashRecovering
<1> QED
  BY <1>1, <1>2, <1>3, <1>4, <1>5, <1>6 DEF EnvOK

\* The counts of the histories.
LEMMA CountsInductive ==
  TypeOK /\ Counts /\ [Next]_vars => Counts'
<1> SUFFICES ASSUME TypeOK, Counts, [Next]_vars PROVE Counts'
  OBVIOUS
<1>0. /\ mode \in {"down", "serving", "draining"}
      /\ last \in Nat /\ crashes \in Nat /\ inARow \in Nat /\ unseen \in Nat /\ tries \in Nat
  BY TypeParts, ResumeAssumption DEF EnvOK, HistoryOK
<1>1. (inARow + (IF mode = "serving" THEN 0 ELSE 1) <= crashes)'
  <2>1. \/ inARow' \in {inARow, 0} /\ mode' = mode /\ crashes' = crashes
        \/ inARow' = inARow /\ crashes' = crashes + 1
        \/ inARow' = inARow /\ mode = "draining" /\ mode' = "down" /\ crashes' = crashes
        \/ /\ inARow' \in {inARow, inARow + 1} /\ crashes' = crashes
           /\ mode = "down" /\ mode' = "serving"
    BY DEF Next, vars, env, budget, fibres, history, Message, LaunchMessage, RefuseMessage,
      TurnLimited, TurnEnds, Observe, Stop, Dismiss, Cancel, Schedule, Choice, Fire, ResumeNow,
      Admit, Rejected, Launch, LaunchFails, Settled, BeginShutdown, Exit, Crash, CrashObserving,
      CrashStopping, Dies, Recover, CrashRecovering
  <2> QED
    BY <1>0, <2>1 DEF Counts
<1>2. (unseen + (IF mode = "draining" THEN 1 ELSE 0) <= crashes)'
  <2>1. \/ unseen' \in {unseen, 0} /\ mode' = mode /\ crashes' = crashes
        \/ unseen' = unseen /\ crashes' = crashes + 1
        \/ unseen' \in {unseen, unseen + 1} /\ mode' = "down" /\ crashes' = crashes + 1
        \/ /\ unseen' \in {unseen, unseen + 1} /\ crashes' = crashes
           /\ mode = "draining" /\ mode' = "down"
        \/ unseen' = unseen /\ crashes' = crashes /\ mode' = "serving"
    BY DEF Next, vars, env, budget, fibres, history, Message, LaunchMessage, RefuseMessage,
      TurnLimited, TurnEnds, Observe, Stop, Dismiss, Cancel, Schedule, Choice, Fire, ResumeNow,
      Admit, Rejected, Launch, LaunchFails, Settled, BeginShutdown, Exit, Crash, CrashObserving,
      CrashStopping, Dies, Recover, CrashRecovering
  <2> QED
    BY <1>0, <2>1 DEF Counts
<1>3. (tries <= last)'
  <2>1. \/ tries' \in {tries, 0} /\ last' = last
        \/ tries' \in {tries, tries + 1} /\ last' = last + 1
    BY DEF Next, vars, env, budget, fibres, history, Message, LaunchMessage, RefuseMessage,
      TurnLimited, TurnEnds, Observe, Stop, Dismiss, Cancel, Schedule, Choice, Fire, ResumeNow,
      Admit, Rejected, Launch, LaunchFails, Settled, BeginShutdown, Exit, Crash, CrashObserving,
      CrashStopping, Dies, Recover, CrashRecovering
  <2> QED
    BY <1>0, <2>1 DEF Counts
<1>4. (Running => last >= 1)'
  <2>1. \/ last' = last + 1
        \/ last' = last /\ (owner' = owner \/ owner' \notin {"turn", "limited"})
        \/ last' = last /\ owner = "turn"
    BY DEF Next, vars, env, budget, fibres, history, Message, LaunchMessage, RefuseMessage,
      TurnLimited, TurnEnds, Observe, Stop, Dismiss, Cancel, Schedule, Choice, Fire, ResumeNow,
      Admit, Rejected, Launch, LaunchFails, Settled, BeginShutdown, Exit, Crash, CrashObserving,
      CrashStopping, Dies, Recover, CrashRecovering
  <2> QED
    BY <1>0, <2>1 DEF Counts, Running
<1> QED
  BY <1>1, <1>2, <1>3, <1>4 DEF Counts

\* The histories.
LEMMA HistoryInductive ==
  TypeOK /\ Counts /\ [Next]_vars => HistoryOK'
<1> SUFFICES ASSUME TypeOK, Counts, [Next]_vars PROVE HistoryOK'
  OBVIOUS
<1>0. s \in States /\ EnvOK /\ HistoryOK /\ EnvOK' /\ Counts' /\ ResumeAssumption
  BY TypeParts, EnvInductive, CountsInductive, ResumeAssumption, Zenon
<1>1. declined' \in 0..MaxTurns
  <2>1. declined' \in {declined, last, 0}
    BY DEF Next, vars, env, budget, fibres, history, Message, LaunchMessage, RefuseMessage,
      TurnLimited, TurnEnds, Observe, Stop, Dismiss, Cancel, Schedule, Choice, Fire, ResumeNow,
      Admit, Rejected, Launch, LaunchFails, Settled, BeginShutdown, Exit, Crash, CrashObserving,
      CrashStopping, Dies, Recover, CrashRecovering
  <2> QED
    BY <1>0, <2>1 DEF EnvOK, HistoryOK
<1>2. cause' \in 0..MaxTurns
  <2>1. CASE Observe \/ CrashObserving
    <3>1. Head(bus)[2] \in 0..MaxTurns
      BY <1>0, <2>1, NextEvent DEF Observe, CrashObserving
    <3>2. cause' = cause \/ cause' = Head(bus)[2]
      BY <2>1 DEF Observe, ObserveStarted, ObserveLimit, ObserveEnded, CrashObserving
    <3> QED
      BY <1>0, <3>1, <3>2 DEF HistoryOK
  <2>2. CASE Recover
    <3>1. cause' = cause \/ (s.running # None /\ cause' = s.running.turn)
      BY <2>2 DEF Recover
    <3> QED
      BY <1>0, <3>1 DEF HistoryOK, States, Markers
  <2>3. CASE ~(Observe \/ CrashObserving \/ Recover)
    <3>1. cause' = cause
      BY <2>3 DEF Next, vars, env, budget, fibres, history, Message, LaunchMessage, RefuseMessage,
        TurnLimited, TurnEnds, Stop, Dismiss, Cancel, Schedule, Choice, Fire, ResumeNow,
        Admit, Rejected, Launch, LaunchFails, Settled, BeginShutdown, Exit, Crash,
        CrashStopping, Dies, CrashRecovering
    <3> QED
      BY <1>0, <3>1 DEF HistoryOK
  <2> QED
    BY <2>1, <2>2, <2>3
<1>3. inARow' \in Nat /\ unseen' \in Nat /\ tries' \in Nat
  <2>1. inARow \in Nat /\ unseen \in Nat /\ tries \in Nat
    BY <1>0 DEF HistoryOK
  <2>2. inARow' \in {inARow, 0, inARow + 1}
    BY DEF Next, vars, env, budget, fibres, history, Message, LaunchMessage, RefuseMessage,
      TurnLimited, TurnEnds, Observe, Stop, Dismiss, Cancel, Schedule, Choice, Fire, ResumeNow,
      Admit, Rejected, Launch, LaunchFails, Settled, BeginShutdown, Exit, Crash, CrashObserving,
      CrashStopping, Dies, Recover, CrashRecovering
  <2>3. unseen' \in {unseen, 0, unseen + 1}
    BY DEF Next, vars, env, budget, fibres, history, Message, LaunchMessage, RefuseMessage,
      TurnLimited, TurnEnds, Observe, Stop, Dismiss, Cancel, Schedule, Choice, Fire, ResumeNow,
      Admit, Rejected, Launch, LaunchFails, Settled, BeginShutdown, Exit, Crash, CrashObserving,
      CrashStopping, Dies, Recover, CrashRecovering
  <2>4. tries' \in {tries, 0, tries + 1}
    BY DEF Next, vars, env, budget, fibres, history, Message, LaunchMessage, RefuseMessage,
      TurnLimited, TurnEnds, Observe, Stop, Dismiss, Cancel, Schedule, Choice, Fire, ResumeNow,
      Admit, Rejected, Launch, LaunchFails, Settled, BeginShutdown, Exit, Crash, CrashObserving,
      CrashStopping, Dies, Recover, CrashRecovering
  <2> QED
    BY <2>1, <2>2, <2>3, <2>4
<1>4. inARow' <= MaxCrashes /\ unseen' <= MaxCrashes /\ tries' <= MaxTurns
  <2>1. crashes' \in 0..MaxCrashes /\ last' \in 0..MaxTurns
    BY <1>0 DEF EnvOK
  <2>2. /\ inARow' + (IF mode' = "serving" THEN 0 ELSE 1) <= crashes'
        /\ unseen' + (IF mode' = "draining" THEN 1 ELSE 0) <= crashes'
        /\ tries' <= last'
    BY <1>0 DEF Counts
  <2>3. crashes' \in Nat /\ MaxCrashes \in Nat /\ crashes' <= MaxCrashes
    BY <2>1, ResumeAssumption
  <2>4. inARow' <= crashes'
    <3>1. inARow' + 0 <= crashes' \/ inARow' + 1 <= crashes'
      BY <2>2, Zenon
    <3>2. inARow' \in Nat /\ crashes' \in Nat
      BY <1>3, <2>3
    <3>3. \A m, n \in Nat : m + 0 <= n \/ m + 1 <= n => m <= n
      OBVIOUS
    <3> QED
      BY <3>1, <3>2, <3>3
  <2>5. unseen' <= crashes'
    <3>1. unseen' + 0 <= crashes' \/ unseen' + 1 <= crashes'
      BY <2>2, Zenon
    <3>2. unseen' \in Nat /\ crashes' \in Nat
      BY <1>3, <2>3
    <3>3. \A m, n \in Nat : m + 0 <= n \/ m + 1 <= n => m <= n
      OBVIOUS
    <3> QED
      BY <3>1, <3>2, <3>3
  <2> QED
    BY <1>3, <2>1, <2>2, <2>3, <2>4, <2>5, ResumeAssumption
<1> QED
  BY <1>1, <1>2, <1>3, <1>4, ResumeAssumption DEF HistoryOK

\* The flags among them.
LEMMA FlagsInductive ==
  TypeOK /\ [Next]_vars => FlagsOK'
<1> SUFFICES ASSUME TypeOK, [Next]_vars PROVE FlagsOK'
  OBVIOUS
<1>0. FlagsOK
  BY TypeParts, Zenon
<1>1. \A a : OriginOf(a) \in {"restart", "resume"}
  BY DEF OriginOf
<1>2. late' \in BOOLEAN
  BY <1>0, Zenon DEF FlagsOK, Next, vars, env, budget, fibres, history,
      Message, LaunchMessage, RefuseMessage,
      TurnLimited, TurnEnds, Observe, Stop, Dismiss, Cancel, Schedule, Choice, Fire, ResumeNow,
      Admit, Rejected, Launch, LaunchFails, Settled, BeginShutdown, Exit, Crash, CrashObserving,
      CrashStopping, Dies, Recover, CrashRecovering
<1>3. unwanted' \in BOOLEAN
  BY <1>0, Zenon DEF FlagsOK, Next, vars, env, budget, fibres, history,
      Message, LaunchMessage, RefuseMessage,
      TurnLimited, TurnEnds, Observe, Stop, Dismiss, Cancel, Schedule, Choice, Fire, ResumeNow,
      Admit, Rejected, Launch, LaunchFails, Settled, BeginShutdown, Exit, Crash, CrashObserving,
      CrashStopping, Dies, Recover, CrashRecovering
<1>4. lost' \in BOOLEAN
  BY <1>0, Zenon DEF FlagsOK, Continuing, Next, vars, env, budget, fibres, history,
      Message, LaunchMessage, RefuseMessage,
      TurnLimited, TurnEnds, Observe, Stop, Dismiss, Cancel, Schedule, Choice, Fire, ResumeNow,
      Admit, Rejected, Launch, LaunchFails, Settled, BeginShutdown, Exit, Crash, CrashObserving,
      CrashStopping, Dies, Recover, CrashRecovering
<1>5. missed' \in BOOLEAN
  BY <1>0, Zenon DEF FlagsOK, Next, vars, env, budget, fibres, history,
      Message, LaunchMessage, RefuseMessage,
      TurnLimited, TurnEnds, Observe, Stop, Dismiss, Cancel, Schedule, Choice, Fire, ResumeNow,
      Admit, Rejected, Launch, LaunchFails, Settled, BeginShutdown, Exit, Crash, CrashObserving,
      CrashStopping, Dies, Recover, CrashRecovering
<1>6. kept' \in BOOLEAN
  BY <1>0, Zenon DEF FlagsOK, Next, vars, env, budget, fibres, history,
      Message, LaunchMessage, RefuseMessage,
      TurnLimited, TurnEnds, Observe, Stop, Dismiss, Cancel, Schedule, Choice, Fire, ResumeNow,
      Admit, Rejected, Launch, LaunchFails, Settled, BeginShutdown, Exit, Crash, CrashObserving,
      CrashStopping, Dies, Recover, CrashRecovering
<1>7. archived' \in BOOLEAN
  BY <1>0, Zenon DEF FlagsOK, IsAuto, Next, vars, env, budget, fibres, history,
      Message, LaunchMessage, RefuseMessage,
      TurnLimited, TurnEnds, Observe, Stop, Dismiss, Cancel, Schedule, Choice, Fire, ResumeNow,
      Admit, Rejected, Launch, LaunchFails, Settled, BeginShutdown, Exit, Crash, CrashObserving,
      CrashStopping, Dies, Recover, CrashRecovering
<1> QED
  BY <1>2, <1>3, <1>4, <1>5, <1>6, <1>7 DEF FlagsOK

-----------------------------------------------------------------------------
(* The theorems                                                             *)

LEMMA InitResumeInv == Init => ResumeInv
<1> SUFFICES ASSUME Init PROVE ResumeInv
  OBVIOUS
<1>1. s \in States
  BY ResumeAssumption DEF Init, States, Origins
<1>2. FibresOK
  BY ResumeAssumption DEF Init, FibresOK
<1>3. EnvOK
  BY ResumeAssumption DEF Init, EnvOK
<1>4. HistoryOK
  BY ResumeAssumption DEF Init, HistoryOK
<1>5. FlagsOK
  BY DEF Init, FlagsOK
<1>6. Counts
  BY DEF Init, Counts, Running
<1>7. Started /\ Heeded /\ StopHolds
  BY DEF Init, Started, Heeded, StopHolds
<1> QED
  BY <1>1, <1>2, <1>3, <1>4, <1>5, <1>6, <1>7, TypeParts, Zenon DEF ResumeInv

\* A turn goes out under the generation of its attempt, which Heeded speaks of.
LEMMA StopHoldsInductive ==
  TypeOK /\ Heeded /\ StopHolds /\ [Next]_vars => StopHolds'
<1> SUFFICES ASSUME TypeOK, Heeded, StopHolds, [Next]_vars PROVE StopHolds'
  OBVIOUS
<1>1. CASE \E a \in Attempts : Launch(a)
  <2>1. PICK a \in Attempts : Launch(a)
    BY <1>1
  <2>2. s.holder # None
    BY <2>1, ResumeAssumption DEF Launch, Guard
  <2>3. late' = late /\ kept' = kept
    BY <2>1 DEF Launch
  <2>4. cause \in Nat /\ declined \in Nat
    BY TypeParts, ResumeAssumption DEF HistoryOK
  <2>5. ~late /\ ~kept /\ declined # 0 => ~(cause <= declined)
    BY <2>2, <2>4 DEF Heeded
  <2>6. unwanted' = (unwanted \/ (declined # 0 /\ cause <= declined))
    BY <2>1 DEF Launch
  <2> QED
    BY <2>3, <2>5, <2>6, Zenon DEF StopHolds
<1>2. CASE ~ \E a \in Attempts : Launch(a)
  <2>1. unwanted' = unwanted
    BY <1>2 DEF Next, vars, env, budget, fibres, history, Message, LaunchMessage, RefuseMessage,
      TurnLimited, TurnEnds, Observe, Stop, Dismiss, Cancel, Schedule, Choice, Fire, ResumeNow,
      Admit, Rejected, LaunchFails, Settled, BeginShutdown, Exit, Crash, CrashObserving,
      CrashStopping, Dies, Recover, CrashRecovering
  <2>2. late => late'
    BY Zenon DEF Next, vars, env, budget, fibres, history, Message, LaunchMessage, RefuseMessage,
      TurnLimited, TurnEnds, Observe, Stop, Dismiss, Cancel, Schedule, Choice, Fire, ResumeNow,
      Admit, Rejected, Launch, LaunchFails, Settled, BeginShutdown, Exit, Crash, CrashObserving,
      CrashStopping, Dies, Recover, CrashRecovering
  <2>3. kept => kept'
    BY Zenon DEF Next, vars, env, budget, fibres, history, Message, LaunchMessage, RefuseMessage,
      TurnLimited, TurnEnds, Observe, Stop, Dismiss, Cancel, Schedule, Choice, Fire, ResumeNow,
      Admit, Rejected, Launch, LaunchFails, Settled, BeginShutdown, Exit, Crash, CrashObserving,
      CrashStopping, Dies, Recover, CrashRecovering
  <2> QED
    BY <2>1, <2>2, <2>3, Zenon DEF StopHolds
<1> QED
  BY <1>1, <1>2

LEMMA NextResumeInv == ResumeInv /\ [Next]_vars => ResumeInv'
<1> SUFFICES ASSUME ResumeInv, [Next]_vars PROVE ResumeInv'
  OBVIOUS
<1>1. TypeOK /\ Counts /\ Started /\ Heeded /\ StopHolds
  BY DEF ResumeInv
<1>2. s' \in States /\ Heeded'
  BY <1>1, HeededInductive
<1>3. FibresOK' /\ Started'
  BY <1>1, FibresInductive
<1>4. EnvOK' /\ HistoryOK' /\ FlagsOK' /\ Counts'
  BY <1>1, EnvInductive, HistoryInductive, FlagsInductive, CountsInductive
<1>5. StopHolds'
  BY <1>1, StopHoldsInductive
<1> QED
  BY <1>2, <1>3, <1>4, <1>5, TypeParts, Zenon DEF ResumeInv

\* The inductive invariant of the scheduler: its types, what its histories count,
\* that a dispatch in flight has a record to put back, and that nothing which could
\* resume the chat outlives a Stop.
THEOREM ResumeInductive == Spec => []ResumeInv
  BY InitResumeInv, NextResumeInv, PTL DEF Spec

\* The state keeps its type through every crash, and the count of restarts its bound.
THEOREM ResumeTypeCorrect == Spec => []TypeOK
<1>1. ResumeInv => TypeOK
  BY DEF ResumeInv
<1> QED
  BY <1>1, ResumeInductive, PTL

\* No timer, attempt under way, limit or restart resumes a turn the user stopped,
\* unless an event of that turn comes in after the Stop, or a Stop came during the
\* shutdown, which keeps the turn's marker.
THEOREM StopIsHeeded == Spec => []StopHolds
<1>1. ResumeInv => StopHolds
  BY DEF ResumeInv
<1> QED
  BY <1>1, ResumeInductive, PTL

-----------------------------------------------------------------------------
(* The count of continuations                                               *)

Same(x, y) == y.count = x.count /\ y.pending = x.pending /\ y.live \in {None, x.live}
Quiet == s'.count = s.count /\ (Sent(s') => Sent(s))

LEMMA SameQuiet ==
  ASSUME NEW x \in States, NEW y \in States, Same(x, y)
  PROVE  y.count = x.count /\ (Sent(y) => Sent(x))
  BY DEF Same, Sent

LEMMA HelpersSame ==
  ASSUME NEW x \in States
  PROVE  /\ Same(x, Arm(x)) /\ Same(x, Drop(x))
         /\ \A b \in BOOLEAN : Same(x, ClearMarker(x, b))
<1>1. Same(x, Arm(x)) /\ Same(x, Drop(x))
  BY DEF Same, Arm, Drop, States
<1>2. \A b \in BOOLEAN : Same(x, ClearMarker(x, b))
  BY DEF Same, ClearMarker, States
<1> QED
  BY <1>1, <1>2

LEMMA EndedSame ==
  ASSUME NEW x \in States, NEW t \in 1..MaxTurns
  PROVE  Same(x, OnTurnEnded(x, t))
<1> DEFINE w == [x EXCEPT !.live = IF @ # None /\ @.turn = t THEN None ELSE @]
           y == ClearMarker(w, x.record # None)
           z == [y EXCEPT !.attempt = None]
<1>1. w \in States /\ Same(x, w)
  BY DEF States, Same
<1> HIDE DEF w
<1>2. y \in States /\ Same(w, y)
  <2>1. PICK b \in BOOLEAN : b <=> x.record # None
    OBVIOUS
  <2>2. y = ClearMarker(w, b)
    BY <2>1 DEF ClearMarker
  <2> QED
    BY <1>1, <2>2, ClearKeeps, HelpersSame
<1> HIDE DEF y
<1>3. z \in States /\ Same(y, z)
  BY <1>2 DEF States, Same
<1> HIDE DEF z
<1>4. OnTurnEnded(x, t) \in {x, y, z, Drop(z)}
  BY DEF OnTurnEnded, w, y, z
<1>5. Same(z, Drop(z)) /\ Same(x, x)
  BY <1>3, HelpersSame DEF Same
<1> QED
  BY <1>1, <1>2, <1>3, <1>4, <1>5 DEF Same

LEMMA LimitSame ==
  ASSUME NEW x \in States, NEW t \in 1..MaxTurns, NEW setting \in BOOLEAN
  PROVE  Same(x, RecordLimit(x, t, setting))
<1>1. PICK r, b, k :
        RecordLimit(x, t, setting)
          = Arm([x EXCEPT !.recent = k, !.template = b, !.holder = None, !.record = r])
  BY DEF RecordLimit
<1> QED
  BY <1>1 DEF Arm, Same, States

\* What the steps of the scheduler and of the user leave of it.
LEMMA DispatchQuiet ==
  ASSUME s \in States,
         \E a \in Attempts : \/ Fire(a) \/ ResumeNow(a) \/ Admit(a) \/ LaunchFails(a)
                              \/ Settled(a)
  PROVE  Quiet
<1>1. PICK a \in Attempts : \/ Fire(a) \/ ResumeNow(a) \/ Admit(a) \/ LaunchFails(a)
                            \/ Settled(a)
  OBVIOUS
<1>2. CASE Fire(a) \/ ResumeNow(a)
  <2>1. s' = [s EXCEPT !.timer = FALSE] \/ \E b \in BOOLEAN : Attempt(a, b)
    BY <1>2 DEF Fire, ResumeNow
  <2>2. CASE s' = [s EXCEPT !.timer = FALSE]
    BY <2>2 DEF Quiet, Sent, States
  <2>3. CASE \E b \in BOOLEAN : Attempt(a, b)
    BY <2>3 DEF Attempt, Arm, Quiet, Sent, States
  <2> QED
    BY <2>1, <2>2, <2>3
<1>3. CASE Rejected(a)
  BY <1>3 DEF Rejected, Arm, Quiet, Sent, States
<1>4. CASE Admit(a) /\ ~Rejected(a)
  <2>1. OriginOf(a) # "user"
    BY DEF OriginOf
  <2> QED
    BY <1>4, <2>1 DEF Admit, Noted, Drop, Quiet, Sent, States
<1>5. CASE Settled(a)
  BY <1>5 DEF Settled, Drop, Arm, Quiet, Sent, States
<1> QED
  BY <1>1, <1>2, <1>3, <1>4, <1>5 DEF LaunchFails

LEMMA UserQuiet ==
  ASSUME s \in States, Stop \/ Dismiss \/ Cancel \/ Schedule \/ BeginShutdown
  PROVE  Quiet
<1>1. CASE Stop
  <2> DEFINE x == [Drop(s) EXCEPT !.attempt = None]
  <2>1. x.count = s.count /\ x.pending = s.pending /\ x.live = s.live /\ x \in States
    BY DropKeeps DEF Drop, States
  <2>2. s' = x \/ s' = ClearMarker(x, FALSE)
    BY <1>1 DEF Stop
  <2> HIDE DEF x
  <2> QED
    BY <2>1, <2>2 DEF ClearMarker, Quiet, Sent, States
<1>2. CASE Dismiss \/ Cancel \/ Schedule \/ BeginShutdown
  BY <1>2 DEF Dismiss, Cancel, Schedule, BeginShutdown, Drop, Arm, Quiet, Sent, States
<1> QED
  BY <1>1, <1>2

\* A step that leaves the count alone.
LEMMA QuietCounted ==
  ASSUME CountedInv, Quiet, mode # "down", mode' # "down", UNCHANGED <<inARow, unseen, lost>>
  PROVE  CountedInv'
<1>1. lost = FALSE
  BY DEF CountedInv, Renewed
<1>2. ~Owed /\ ~Owed'
  BY <1>1 DEF Owed
<1>3. Counted'
  BY <1>2 DEF CountedInv, Counted, Quiet
<1> QED
  BY <1>1, <1>3 DEF CountedInv, Renewed, Quiet

\* A death owes a count, or no count can know of it.
LEMMA DiesCounted ==
  ASSUME NEW x \in States, x.count = s.count, Dies(x), CountedInv, mode # "down",
         inARow \in Nat, unseen \in Nat, s.count \in Nat
  PROVE  CountedInv'
<1>1. /\ s'.count = s.count /\ s'.running = x.running /\ s'.record = x.record
      /\ s'.pending = "none" /\ s'.live = None
  BY DEF Dies, States
<1>2. ~Owed
  BY DEF CountedInv, Renewed, Owed
<1>3. inARow <= s.count + unseen
  BY <1>2 DEF CountedInv, Counted
<1>4. inARow' = inARow /\ mode' = "down" /\ (lost' <=> Continuing(x))
  BY DEF Dies
<1>5. CASE Continuing(x) /\ x.running = None
  <2>1. unseen' = unseen + 1
    BY <1>5 DEF Dies
  <2> QED
    BY <1>1, <1>3, <1>4, <1>5, <2>1 DEF Counted, CountedInv, Renewed, Sent, Dies, Continuing
<1>6. CASE ~(Continuing(x) /\ x.running = None)
  <2>1. unseen' = unseen /\ ~Owed'
    BY <1>1, <1>4, <1>6 DEF Dies, Owed
  <2> QED
    BY <1>1, <1>3, <1>4, <2>1 DEF Counted, CountedInv, Renewed, Sent, Dies, Continuing
<1> QED
  BY <1>5, <1>6

\* What recover counts.
LEMMA RecoveredCounts ==
  ASSUME s \in States, NEW x \in Recovered(s)
  PROVE  /\ x.pending = s.pending /\ x.live = s.live
         /\ x.count \in {s.count, s.count + 1}
         /\ /\ s.running # None /\ IsAuto(x.record) /\ x.record.reason = "restart"
            /\ IsResuming(s.record) \/ x # [s EXCEPT !.running = None]
            => x.count = s.count + 1
<1>1. CASE s.running = None
  BY <1>1 DEF Recovered, States
<1>2. CASE s.running # None /\ IsResuming(s.record)
  <2>1. x = CutOffAgain(s) /\ s.record \in Records
    BY <1>2 DEF Recovered, IsResuming, States
  <2>2. CASE s.record.reason = "limit"
    BY <2>1, <2>2 DEF CutOffAgain, States, Records
  <2>3. CASE s.record.reason # "limit" /\ s.count + 1 > MaxContinuations
    BY <2>1, <2>3 DEF CutOffAgain, States, Records, IsAuto
  <2>4. CASE s.record.reason # "limit" /\ ~(s.count + 1 > MaxContinuations)
    BY <2>1, <2>4 DEF CutOffAgain, States, Records
  <2> QED
    BY <2>2, <2>3, <2>4
<1>3. CASE s.running # None /\ ~IsResuming(s.record)
  <2>1. x = [s EXCEPT !.running = None] \/ x \in CutOff(s)
    BY <1>3 DEF Recovered
  <2>2. CASE x = [s EXCEPT !.running = None]
    BY <1>3, <2>2 DEF States
  <2>3. CASE x # [s EXCEPT !.running = None] /\ x \in CutOff(s)
    <3> DEFINE y == [s EXCEPT !.running = None]
    <3>1. PICK h \in {"off", "auto"} :
            x = [y EXCEPT !.record = RestartRecord(h),
                          !.count = IF h = "auto" THEN y.count + 1 ELSE y.count]
      BY <2>3 DEF CutOff, States
    <3>2. y \in [record : Records \cup {None}, running : {None}, count : {s.count},
                 template : BOOLEAN, timer : BOOLEAN, holder : Attempts \cup {None},
                 attempt : Attempts \cup {None}, live : {s.live}, pending : {s.pending},
                 recent : 0..MaxTurns]
      BY DEF States
    <3> HIDE DEF y
    <3>3. x.pending = s.pending /\ x.live = s.live /\ x.record = RestartRecord(h)
      BY <3>1, <3>2
    <3>4. x.count = IF h = "auto" THEN s.count + 1 ELSE s.count
      BY <3>1, <3>2
    <3>5. IsAuto(x.record) => h = "auto"
      BY <3>3 DEF RestartRecord, IsAuto
    <3> QED
      BY <3>3, <3>4, <3>5
  <2> QED
    BY <2>1, <2>2, <2>3
<1> QED
  BY <1>1, <1>2, <1>3

LEMMA RecoverCounted ==
  ASSUME s \in States, CountedInv, Recover,
         inARow \in Nat, unseen \in Nat, s.count \in Nat
  PROVE  CountedInv'
<1>1. PICK x \in Recovered(s) :
        /\ s' = [x EXCEPT !.timer = IsAuto(x.record)]
        /\ inARow' = IF (lost \/ (s.running # None /\ x # [s EXCEPT !.running = None]))
                        /\ IsAuto(x.record) /\ x.record.reason = "restart"
                      THEN inARow + 1 ELSE inARow
  BY DEF Recover
<1>2. x \in States
  BY <1>1, RecoveredKeeps
<1>3. s'.count = x.count /\ s'.pending = s.pending /\ s'.live = s.live
  BY <1>1, <1>2, RecoveredCounts DEF States
<1>4. mode = "down" /\ mode' = "serving" /\ lost' = FALSE /\ unseen' = unseen
  BY DEF Recover
<1>5. Renewed'
  <2>1. ~Sent(s)
    BY <1>4 DEF CountedInv, Renewed
  <2>2. ~Sent(s')
    BY <1>3, <2>1 DEF Sent
  <2> QED
    BY <1>4, <2>2 DEF Renewed
<1>6. inARow' <= s'.count + unseen'
  <2>1. x.count \in {s.count, s.count + 1}
    BY <1>1, RecoveredCounts
  <2>2. CASE inARow' = inARow
    <3>1. inARow <= s.count + unseen
      BY DEF CountedInv, Counted
    <3> QED
      BY <1>3, <1>4, <2>1, <2>2, <3>1
  <2>3. CASE inARow' # inARow
    <3>1. /\ inARow' = inARow + 1 /\ IsAuto(x.record) /\ x.record.reason = "restart"
          /\ lost \/ (s.running # None /\ x # [s EXCEPT !.running = None])
      BY <1>1, <2>3
    <3>2. CASE s.running = None
      <4>1. Owed
        BY <3>1, <3>2 DEF Owed
      <4>2. inARow + 1 <= s.count + unseen
        BY <4>1 DEF CountedInv, Counted
      <4> QED
        BY <1>3, <1>4, <2>1, <3>1, <4>2
    <3>3. CASE s.running # None
      <4>1. IsResuming(s.record) \/ x # [s EXCEPT !.running = None]
        BY <3>1 DEF CountedInv, Renewed
      <4>2. x.count = s.count + 1
        BY <1>1, <3>1, <3>3, <4>1, RecoveredCounts
      <4>3. inARow <= s.count + unseen
        BY DEF CountedInv, Counted
      <4> QED
        BY <1>3, <1>4, <3>1, <4>2, <4>3
    <3> QED
      BY <3>2, <3>3
  <2> QED
    BY <2>2, <2>3
<1>7. ~Owed'
  BY <1>4 DEF Owed
<1>8. Counted'
  <2>1. inARow' \in Nat
    BY <1>1
  <2> QED
    BY <1>6, <1>7, <2>1 DEF Counted
<1> QED
  BY <1>5, <1>8 DEF CountedInv

LEMMA CrashRecoveringCounted ==
  ASSUME s \in States, CountedInv, CrashRecovering,
         inARow \in Nat, unseen \in Nat, s.count \in Nat
  PROVE  CountedInv'
<1>1. PICK counted \in {s.count} \cup {x.count : x \in Recovered(s)} :
        /\ s' = [s EXCEPT !.running = None, !.count = counted]
        /\ unseen' = IF IsResuming(s.record) /\ counted = s.count THEN unseen + 1 ELSE unseen
  BY DEF CrashRecovering
<1>2. counted \in {s.count, s.count + 1}
  BY <1>1, RecoveredCounts
<1>3. /\ s'.count = counted /\ s'.running = None /\ s'.pending = s.pending
      /\ s'.live = s.live /\ s'.record = s.record
  BY <1>1 DEF States
<1>4. /\ mode = "down" /\ UNCHANGED <<mode, pc, inARow, lost>> /\ s.running # None
  BY DEF CrashRecovering, fibres
<1>5. Renewed'
  <2>1. ~Sent(s')
    BY <1>3, <1>4 DEF CountedInv, Renewed, Sent
  <2> QED
    BY <1>3, <1>4, <2>1 DEF CountedInv, Renewed
<1>6. inARow <= s.count + unseen
  BY <1>4 DEF CountedInv, Counted, Owed
<1>7. CASE lost
  <2>1. IsResuming(s.record) /\ Owed'
    BY <1>3, <1>4, <1>7 DEF CountedInv, Renewed, Owed
  <2>2. inARow + 1 <= counted + unseen'
    BY <1>1, <1>2, <1>6, <2>1
  <2> QED
    BY <1>3, <1>4, <1>5, <2>1, <2>2 DEF CountedInv, Counted
<1>8. CASE ~lost
  <2>1. ~Owed'
    BY <1>4, <1>8 DEF Owed
  <2>2. inARow <= counted + unseen'
    BY <1>1, <1>2, <1>6
  <2> QED
    BY <1>3, <1>4, <1>5, <2>1, <2>2 DEF CountedInv, Counted
<1> QED
  BY <1>7, <1>8

\* A message or turn of the user starts the count again.
LEMMA ObserveCounted ==
  ASSUME s \in States, EnvOK, CountedInv, Observe,
         inARow \in Nat, unseen \in Nat, s.count \in Nat
  PROVE  CountedInv'
<1> DEFINE t == Head(bus)[2]
<1>1. t \in 1..MaxTurns
  BY NextEvent DEF Observe
<1>2. mode # "down" /\ UNCHANGED <<mode, pc, inARow, unseen, lost>>
  BY DEF Observe
<1> HIDE DEF t
<1>3. CASE s' = OnTurnStarted(s, t)
  <2> DEFINE origin == IF s.pending # "none" THEN s.pending
                       ELSE IF s.live # None THEN s.live.origin ELSE "unknown"
             m == [turn |-> t, origin |-> origin]
             y == [s EXCEPT !.pending = "none", !.live = m]
  <2>1. s' = IF mode = "draining" THEN y
             ELSE [y EXCEPT !.template = y.template \/ s.pending = "user",
                            !.count = IF origin = "user" THEN 0 ELSE y.count,
                            !.running = m]
    BY <1>3 DEF OnTurnStarted
  <2>2. origin = "user" => Sent(s)
    BY DEF Sent
  <2>3. m.origin = origin
    OBVIOUS
  <2> HIDE DEF origin, m
  <2>4. /\ s'.pending = "none" /\ s'.live = m
        /\ s'.count \in {s.count, 0} /\ (s'.count # s.count => origin = "user")
    BY <2>1 DEF States
  <2>5. Sent(s') => Sent(s)
    BY <2>2, <2>3, <2>4 DEF Sent
  <2>6. CASE s'.count = s.count
    BY <1>2, <2>5, <2>6, QuietCounted DEF Quiet
  <2>7. CASE s'.count # s.count
    <3>1. inARow = 0 /\ s'.count = 0
      BY <2>2, <2>4, <2>7 DEF CountedInv, Renewed
    <3>2. ~Owed'
      BY <1>2 DEF CountedInv, Renewed, Owed
    <3>3. Counted'
      BY <1>2, <3>1, <3>2 DEF Counted
    <3> QED
      BY <1>2, <2>5, <3>3 DEF CountedInv, Renewed
  <2> QED
    BY <2>6, <2>7
<1>4. CASE s' = OnTurnEnded(s, t)
  <2>1. s' \in States /\ Same(s, s')
    BY <1>1, <1>4, EndedKeeps, EndedSame
  <2>2. Quiet
    BY <2>1, SameQuiet DEF Quiet
  <2> QED
    BY <1>2, <2>2, QuietCounted
<1>5. CASE \E setting \in BOOLEAN : s' = OnTurnEnded(RecordLimit(s, t, setting), t)
  <2>1. PICK x \in States : s' = OnTurnEnded(x, t) /\ Same(s, x)
    BY <1>1, <1>5, LimitKeeps, LimitSame
  <2>2. s' \in States /\ Same(x, s')
    BY <1>1, <2>1, EndedKeeps, EndedSame
  <2>3. Quiet
    BY <2>1, <2>2 DEF Same, Quiet, Sent
  <2> QED
    BY <1>2, <2>3, QuietCounted
<1> QED
  BY <1>3, <1>4, <1>5 DEF Observe, ObserveStarted, ObserveLimit, ObserveEnded, t

LEMMA CountedInductive == TypeOK /\ CountedInv /\ [Next]_vars => CountedInv'
<1> SUFFICES ASSUME TypeOK, CountedInv, [Next]_vars PROVE CountedInv'
  OBVIOUS
<1>0. /\ s \in States /\ EnvOK
      /\ inARow \in Nat /\ unseen \in Nat /\ s.count \in Nat
  <2>1. s \in States /\ EnvOK /\ HistoryOK
    BY TypeParts, Zenon
  <2> QED
    BY <2>1, ResumeAssumption DEF HistoryOK, States
<1>1. CASE \E origin \in {"user", "other"} : Message(origin)
  <2>1. PICK origin \in {"user", "other"} : Message(origin)
    BY <1>1
  <2>2. mode # "down" /\ UNCHANGED <<mode, pc, lost>>
    BY <2>1 DEF Message, fibres
  <2>3. s'.count = s.count /\ s'.pending = origin /\ s'.live = s.live
    BY <1>0, <2>1 DEF Message, Noted, Drop, States
  <2>4. CASE origin = "user"
    <3>1. inARow' = 0 /\ unseen' = 0
      BY <2>1, <2>4 DEF Message
    <3>2. ~Owed'
      BY <2>2 DEF CountedInv, Renewed, Owed
    <3>3. Counted'
      BY <1>0, <2>3, <3>1, <3>2 DEF Counted
    <3> QED
      BY <2>2, <3>1, <3>3 DEF CountedInv, Renewed
  <2>5. CASE origin = "other"
    <3>1. UNCHANGED <<inARow, unseen>>
      BY <2>1, <2>5 DEF Message
    <3>2. Quiet
      BY <2>3, <2>5 DEF Quiet, Sent
    <3> QED
      BY <2>2, <3>1, <3>2, QuietCounted
  <2> QED
    BY <2>1, <2>4, <2>5
<1>2. CASE Stop \/ Dismiss \/ Cancel \/ Schedule \/ BeginShutdown
  <2>1. mode # "down" /\ mode' # "down" /\ UNCHANGED <<inARow, unseen, lost>>
    BY <1>2 DEF Stop, Dismiss, Cancel, Schedule, Choice, BeginShutdown, history
  <2> QED
    BY <1>0, <1>2, <2>1, UserQuiet, QuietCounted
<1>3. CASE \E a \in Attempts : \/ Fire(a) \/ ResumeNow(a) \/ Admit(a) \/ LaunchFails(a)
                               \/ Settled(a)
  <2>1. mode # "down"
    BY <1>3 DEF Fire, ResumeNow, Choice, Admit, LaunchFails, Settled, CountedInv, Renewed
  <2>2. UNCHANGED <<mode, inARow, unseen, lost>>
    BY <1>3 DEF Fire, ResumeNow, Admit, LaunchFails, Rejected, Settled, history
  <2> QED
    BY <1>0, <1>3, <2>1, <2>2, DispatchQuiet, QuietCounted
<1>4. CASE \E a \in Attempts : Launch(a)
  <2>1. mode # "down" /\ UNCHANGED <<mode, s, inARow, unseen, lost>>
    BY <1>4 DEF Launch, Guard
  <2>2. Quiet
    BY <2>1 DEF Quiet, Sent
  <2> QED
    BY <2>1, <2>2, QuietCounted
<1>5. CASE LaunchMessage \/ RefuseMessage \/ TurnLimited \/ TurnEnds \/ UNCHANGED vars
  <2>1. UNCHANGED <<mode, s, pc, inARow, unseen, lost>>
    BY <1>5 DEF LaunchMessage, RefuseMessage, TurnLimited, TurnEnds, vars, fibres, history
  <2> QED
    BY <2>1 DEF CountedInv, Counted, Renewed, Owed, Sent
<1>6. CASE Observe
  BY <1>0, <1>6, ObserveCounted
<1>7. CASE Exit \/ Crash
  <2>1. mode # "down" /\ Dies(s)
    BY <1>7 DEF Exit, Crash
  <2> QED
    BY <1>0, <2>1, DiesCounted
<1>8. CASE CrashStopping
  <2>1. mode # "down" /\ Dies(Drop(s))
    BY <1>8 DEF CrashStopping
  <2>2. Drop(s) \in States /\ Drop(s).count = s.count
    BY <1>0, DropKeeps, HelpersSame DEF Same
  <2> QED
    BY <1>0, <2>1, <2>2, DiesCounted
<1>9. CASE CrashObserving
  <2>1. PICK x \in States : Dies(x) /\ x.count = s.count
    <3>1. CASE Dies(ClearMarker(s, s.record # None))
      <4>1. PICK b \in BOOLEAN : b <=> s.record # None
        OBVIOUS
      <4>2. ClearMarker(s, b) = ClearMarker(s, s.record # None)
        BY <4>1 DEF ClearMarker
      <4>3. ClearMarker(s, b) \in States /\ ClearMarker(s, b).count = s.count
        BY <1>0, ClearKeeps, HelpersSame DEF Same
      <4> QED
        BY <3>1, <4>2, <4>3
    <3>2. CASE \E setting \in BOOLEAN : Dies(RecordLimit(s, Head(bus)[2], setting))
      <4>1. Head(bus)[2] \in 1..MaxTurns
        BY <1>0, <1>9, NextEvent DEF CrashObserving
      <4> QED
        BY <1>0, <3>2, <4>1, LimitKeeps, LimitSame DEF Same
    <3> QED
      BY <1>9, <3>1, <3>2 DEF CrashObserving
  <2>2. mode # "down"
    BY <1>9 DEF CrashObserving
  <2> QED
    BY <1>0, <2>1, <2>2, DiesCounted
<1>10. CASE Recover
  BY <1>0, <1>10, RecoverCounted
<1>11. CASE CrashRecovering
  BY <1>0, <1>11, CrashRecoveringCounted
<1> QED
  BY <1>1, <1>2, <1>3, <1>4, <1>5, <1>6, <1>7, <1>8, <1>9, <1>10, <1>11, Zenon DEF Next

\* A backend that dies while it continues a chat cut off by a restart does so at most
\* MaxContinuations times in a row, not counting the deaths that leave no trace.
THEOREM ContinuationsAreCounted == Spec => []CountedCrashesEnd
<1>1. Init => CountedInv
  <2>1. ASSUME Init PROVE CountedInv
    <3>1. Counted
      BY <2>1, ResumeAssumption DEF Init, Counted, Owed
    <3>2. Renewed
      BY <2>1 DEF Init, Renewed, Sent
    <3> QED
      BY <3>1, <3>2 DEF CountedInv
  <2> QED
    BY <2>1
<1>2. TypeOK /\ CountedInv /\ [Next]_vars => CountedInv'
  BY CountedInductive
<1>3. TypeOK /\ CountedInv => CountedCrashesEnd
  <2>1. ASSUME TypeOK, CountedInv PROVE CountedCrashesEnd
    <3>1. s \in States /\ HistoryOK
      BY <2>1, TypeParts, Zenon
    <3>2. s.count \in 0..MaxContinuations /\ inARow \in Nat /\ unseen \in Nat
      BY <3>1, ResumeAssumption DEF States, HistoryOK
    <3>3. inARow <= s.count + unseen
      BY <2>1, <3>2 DEF CountedInv, Counted
    <3> QED
      BY <3>2, <3>3, ResumeAssumption DEF CountedCrashesEnd
  <2> QED
    BY <2>1
<1> QED
  BY <1>1, <1>2, <1>3, ResumeTypeCorrect, PTL DEF Spec

-----------------------------------------------------------------------------
(* The scheduler gives up at the limit                                       *)

Ends(j, t) == bus[j][1] # "started" /\ bus[j][2] = t

\* Turn t is to end, or its end is on its way.
Ending(t) == (Running /\ t = last) \/ \E j \in DOMAIN bus : Ends(j, t)

\* So is every turn whose turn.started is on its way, which it follows, and the
\* turn of the live marker.
Ordered ==
  \A i \in DOMAIN bus : bus[i][1] = "started" =>
    (Running /\ bus[i][2] = last) \/ \E j \in DOMAIN bus : i < j /\ Ends(j, bus[i][2])
LiveEnds == s.live # None => Ending(s.live.turn)

\* One attempt has the token.
Token ==
  /\ \A a \in Attempts : pc[a] = "admitted" =>
       owner = "attempt" /\ \A b \in Attempts : pc[b] = "admitted" => b = a
  /\ owner = "message" => tries = 0
  /\ mode = "down" => /\ bus = <<>> /\ tries = 0 /\ s.live = None /\ owner = "nobody"
                      /\ \A a \in Attempts : pc[a] = "none"

\* An attempt that still has its generation goes out by itself only when all is
\* quiet, with a record that has failed as often as turns were tried.
GoingOut(a) == s.holder = a /\ pc[a] \in {"preparing", "admitted"}
Out ==
  \A a \in Attempts : GoingOut(a) =>
    IF manual[a] THEN tries = 0
    ELSE /\ bus = <<>> /\ s.live = None /\ owner \in {"nobody", "attempt"}
         /\ s.attempt = a /\ IsResuming(s.record)
         /\ s.record.reason = saved[a].reason /\ s.record.failures = saved[a].failures
         /\ tries <= s.record.failures /\ tries < MaxFailures
         /\ pc[a] = "admitted" => s.pending = OriginOf(a)

\* Its turn runs, or its events are on their way: a limit will count as a failure.
InFlight(a) ==
  /\ s.attempt = a /\ pc[a] = "running" /\ turnOf[a] = last /\ OriginOf(a) = "resume"
  /\ IsResuming(s.record) /\ tries <= s.record.failures + 1
  /\ s.live \in {None, [turn |-> last, origin |-> "resume"]}
  /\ \A i \in DOMAIN bus : /\ bus[i][2] = last
                           /\ bus[i][1] = "started" => i = 1 /\ s.pending = "resume"

\* It is over: another report of its limit finds no live turn to resume.
Over ==
  /\ s.live = None /\ \A i \in DOMAIN bus : bus[i][1] # "started"
  /\ IsResuming(s.record) => \E a \in Attempts : GoingOut(a)

Phase == tries > 0 => Over \/ \E a \in Attempts : InFlight(a)
Waiting == IsAuto(s.record) => tries <= s.record.failures /\ tries < MaxFailures
Limits == tries > 0 /\ s.record # None => s.record.reason = "limit"

Sound == Ordered /\ LiveEnds /\ Out /\ Phase /\ Waiting /\ Limits
Told == mode = "serving" /\ ~missed => Sound
GiveUpInv == Token /\ GivesUp /\ Told

\* The numbers.
LEMMA ResumeTypes ==
  ASSUME TypeOK
  PROVE  /\ s \in States /\ FibresOK /\ EnvOK
         /\ tries \in Nat /\ last \in Nat /\ MaxFailures \in Nat /\ MaxFailures > 0
         /\ missed \in BOOLEAN
         /\ s.record # None => s.record \in Records /\ s.record.failures \in Nat
         /\ s.live # None => s.live \in Markers
         /\ None \notin Attempts
<1>1. s \in States /\ FibresOK /\ EnvOK /\ HistoryOK /\ FlagsOK
  BY TypeParts, Zenon
<1>2. tries \in Nat /\ last \in Nat /\ MaxFailures \in Nat /\ MaxFailures > 0 /\ None \notin Attempts
  BY <1>1, ResumeAssumption DEF HistoryOK, EnvOK
<1>3. s.record # None => s.record \in Records /\ s.record.failures \in Nat
  BY <1>1 DEF States, Records
<1>4. s.live # None => s.live \in Markers
  BY <1>1 DEF States
<1>5. missed \in BOOLEAN
  BY <1>1, Zenon DEF FlagsOK
<1> QED
  BY <1>1, <1>2, <1>3, <1>4, <1>5

\* The pipeline takes the first event ...
LEMMA BusTail ==
  ASSUME EnvOK, bus # <<>>, bus' = Tail(bus)
  PROVE  /\ 1 \in DOMAIN bus /\ Head(bus) = bus[1]
         /\ \A i \in DOMAIN bus : i \in Nat /\ i >= 1
         /\ \A i \in DOMAIN bus' : i \in Nat /\ i >= 1 /\ i + 1 \in DOMAIN bus
                                   /\ bus'[i] = bus[i + 1]
         /\ \A i \in DOMAIN bus : i # 1 => i - 1 \in DOMAIN bus' /\ bus'[i - 1] = bus[i]
<1> DEFINE Events == {"started", "limit", "ended"} \X (1..MaxTurns)
<1>1. bus \in Seq(Events)
  BY DEF EnvOK
<1> HIDE DEF Events
<1>2. /\ Len(bus) \in Nat /\ DOMAIN bus = 1..Len(bus) /\ Len(bus) # 0 /\ Head(bus) = bus[1]
      /\ Len(bus') = Len(bus) - 1 /\ DOMAIN bus' = 1..(Len(bus) - 1)
      /\ \A i \in 1..(Len(bus) - 1) : bus'[i] = bus[i + 1]
  BY <1>1
<1>3. Len(bus) >= 1 /\ 1 \in DOMAIN bus
  BY <1>2
<1>4. ASSUME NEW i \in DOMAIN bus'
      PROVE  i \in Nat /\ i >= 1 /\ i + 1 \in DOMAIN bus /\ bus'[i] = bus[i + 1]
  BY <1>2
<1>5. ASSUME NEW i \in DOMAIN bus
      PROVE  i \in Nat /\ i >= 1
  BY <1>2
<1>6. ASSUME NEW i \in DOMAIN bus, i # 1
      PROVE  i - 1 \in DOMAIN bus' /\ bus'[i - 1] = bus[i]
  <2>1. i - 1 \in 1..(Len(bus) - 1) /\ (i - 1) + 1 = i
    BY <1>2, <1>6
  <2> QED
    BY <1>2, <2>1
<1> QED
  BY <1>2, <1>3, <1>4, <1>5, <1>6

\* ... or is given one.
LEMMA BusAppend ==
  ASSUME EnvOK, NEW e \in {"started", "limit", "ended"} \X (1..MaxTurns),
         bus' = Append(bus, e)
  PROVE  /\ \A i \in DOMAIN bus : i \in Nat /\ i \in DOMAIN bus' /\ bus'[i] = bus[i]
                                  /\ i < Len(bus) + 1
         /\ Len(bus) + 1 \in DOMAIN bus' /\ bus'[Len(bus) + 1] = e
         /\ \A i \in DOMAIN bus' : i \in DOMAIN bus \/ i = Len(bus) + 1
  BY DEF EnvOK

\* A turn ends by an event, or after the next one has none running before it.
LEMMA EndsLater ==
  ASSUME EnvOK, Ordered, last \in Nat,
         \/ /\ ~Running /\ ~Running' /\ bus' = bus
         \/ /\ Running' = Running /\ last' = last /\ bus' = bus
         \/ /\ ~Running /\ Running' /\ last' = last + 1 /\ last < MaxTurns
            /\ bus' \in {bus, Append(bus, <<"started", last + 1>>)}
         \/ /\ Running /\ last' = last /\ last >= 1
            /\ \E e \in {"ended", "limit"} : bus' = Append(bus, <<e, last>>)
  PROVE  Ordered' /\ \A t : Ending(t) => Ending(t)'
<1>1. CASE bus' = bus
  BY <1>1 DEF Ordered, Ending, Ends
<1>2. CASE /\ ~Running /\ Running' /\ last' = last + 1 /\ last < MaxTurns
           /\ bus' = Append(bus, <<"started", last + 1>>)
  <2>1. /\ \A i \in DOMAIN bus : i \in DOMAIN bus' /\ bus'[i] = bus[i]
        /\ \A i \in DOMAIN bus' : i \in DOMAIN bus \/ bus'[i] = <<"started", last + 1>>
    <3>1. <<"started", last + 1>> \in {"started", "limit", "ended"} \X (1..MaxTurns)
      BY <1>2, ResumeAssumption DEF EnvOK
    <3> QED
      BY <1>2, <3>1, BusAppend
  <2>2. \A t : Ending(t) => Ending(t)'
    BY <1>2, <2>1 DEF Ending, Ends
  <2>3. Ordered'
    <3> SUFFICES ASSUME NEW i \in DOMAIN bus', bus'[i][1] = "started"
                 PROVE  \/ Running' /\ bus'[i][2] = last'
                        \/ \E j \in DOMAIN bus' : i < j /\ bus'[j][1] # "started"
                                                    /\ bus'[j][2] = bus'[i][2]
      BY DEF Ordered, Ends
    <3>1. CASE i \in DOMAIN bus
      <4>1. bus'[i] = bus[i] /\ bus[i][1] = "started"
        BY <2>1, <3>1
      <4>2. PICK j \in DOMAIN bus : i < j /\ Ends(j, bus[i][2])
        BY <1>2, <3>1, <4>1 DEF Ordered
      <4>3. j \in DOMAIN bus' /\ bus'[j] = bus[j]
        BY <2>1, <4>2
      <4>4. i < j /\ bus'[j][1] # "started" /\ bus'[j][2] = bus'[i][2]
        BY <4>1, <4>2, <4>3 DEF Ends
      <4> QED
        BY <4>3, <4>4
    <3>2. CASE bus'[i] = <<"started", last + 1>>
      BY <1>2, <3>2
    <3> QED
      BY <2>1, <3>1, <3>2
  <2> QED
    BY <2>2, <2>3
<1>3. CASE /\ Running /\ last' = last /\ last >= 1
           /\ \E e \in {"ended", "limit"} : bus' = Append(bus, <<e, last>>)
  <2>1. PICK e \in {"ended", "limit"} : bus' = Append(bus, <<e, last>>)
    BY <1>3
  <2> DEFINE n == Len(bus) + 1
  <2>2. PICK k \in DOMAIN bus' :
          /\ bus'[k][1] # "started" /\ bus'[k][2] = last
          /\ \A i \in DOMAIN bus : i \in DOMAIN bus' /\ bus'[i] = bus[i] /\ i < k
          /\ \A i \in DOMAIN bus' : i \in DOMAIN bus \/ i = k
    <3>1. /\ \A i \in DOMAIN bus : i \in Nat /\ i \in DOMAIN bus' /\ bus'[i] = bus[i]
                                   /\ i < Len(bus) + 1
          /\ Len(bus) + 1 \in DOMAIN bus' /\ bus'[Len(bus) + 1] = <<e, last>>
          /\ \A i \in DOMAIN bus' : i \in DOMAIN bus \/ i = Len(bus) + 1
      <4>1. <<e, last>> \in {"started", "limit", "ended"} \X (1..MaxTurns)
        BY <1>3, ResumeAssumption DEF EnvOK
      <4> QED
        BY <2>1, <4>1, BusAppend
    <3>2. <<e, last>>[1] # "started" /\ <<e, last>>[2] = last
      OBVIOUS
    <3> QED
      BY <3>1, <3>2
  <2>3. \A t : Ending(t) => Ending(t)'
    BY <1>3, <2>2 DEF Ending, Ends
  <2>4. Ordered'
    BY <1>3, <2>2 DEF Ordered, Ends
  <2> QED
    BY <2>3, <2>4
<1> QED
  BY <1>1, <1>2, <1>3

\* The first event is taken: a turn of which it is not the end still ends.
LEMMA EndsStill ==
  ASSUME EnvOK, Ordered, bus # <<>>, bus' = Tail(bus), UNCHANGED <<owner, last>>
  PROVE  /\ Ordered'
         /\ \A t : Ending(t) /\ (bus[1][1] = "started" \/ bus[1][2] # t) => Ending(t)'
         /\ \A t : bus[1] = <<"started", t>> => Ending(t)'
<1>1. /\ 1 \in DOMAIN bus
      /\ \A i \in DOMAIN bus : i \in Nat /\ i >= 1
      /\ \A i \in DOMAIN bus' : i \in Nat /\ i >= 1 /\ i + 1 \in DOMAIN bus
                                /\ bus'[i] = bus[i + 1]
      /\ \A i \in DOMAIN bus : i # 1 => i - 1 \in DOMAIN bus' /\ bus'[i - 1] = bus[i]
  BY BusTail
<1>2. Running' = Running
  BY DEF Running
<1>3. Ordered'
  <2> SUFFICES ASSUME NEW i \in DOMAIN bus', bus'[i][1] = "started",
                      ~(Running' /\ bus'[i][2] = last')
               PROVE  \E j \in DOMAIN bus' : i < j /\ bus'[j][1] # "started"
                                             /\ bus'[j][2] = bus'[i][2]
    BY DEF Ordered, Ends
  <2>1. PICK j \in DOMAIN bus : i + 1 < j /\ bus[j][1] # "started" /\ bus[j][2] = bus[i + 1][2]
    BY <1>1, <1>2 DEF Ordered, Ends
  <2>2. i \in Nat /\ j \in Nat /\ j # 1 /\ i < j - 1
    BY <1>1, <2>1
  <2> QED
    BY <1>1, <2>1, <2>2
<1>4. ASSUME NEW t, Ending(t), bus[1][1] = "started" \/ bus[1][2] # t
      PROVE  Ending(t)'
  <2>1. CASE Running /\ t = last
    BY <1>2, <2>1 DEF Ending
  <2>2. CASE \E j \in DOMAIN bus : Ends(j, t)
    <3>1. PICK j \in DOMAIN bus : bus[j][1] # "started" /\ bus[j][2] = t
      BY <2>2 DEF Ends
    <3>2. j # 1
      BY <1>4, <3>1
    <3>3. j - 1 \in DOMAIN bus' /\ bus'[j - 1] = bus[j]
      BY <1>1, <3>2
    <3> QED
      BY <3>1, <3>3 DEF Ending, Ends
  <2> QED
    BY <1>4, <2>1, <2>2 DEF Ending
<1>5. ASSUME NEW t, bus[1] = <<"started", t>>
      PROVE  Ending(t)'
  <2>1. bus[1][1] = "started" /\ bus[1][2] = t
    BY <1>5
  <2>2. Ending(t)
    BY <1>1, <2>1 DEF Ordered, Ending
  <2> QED
    BY <1>4, <2>1, <2>2
<1> QED
  BY <1>3, <1>4, <1>5

\* What the helpers leave of the live marker, the attempt and the dispatch's origin.
Kept(x, y) == y.live = x.live /\ y.attempt = x.attempt /\ y.pending = x.pending

LEMMA HelpersKeep ==
  ASSUME NEW x \in States
  PROVE  Kept(x, Arm(x)) /\ Kept(x, Drop(x)) /\ \A b \in BOOLEAN : Kept(x, ClearMarker(x, b))
  BY DEF Kept, Arm, Drop, ClearMarker, States

LEMMA EndedFields ==
  ASSUME NEW x \in States, NEW t \in 1..MaxTurns, mode # "draining"
  PROVE  LET y == OnTurnEnded(x, t)
         IN /\ y.live \in {None, x.live} /\ (x.live # None /\ x.live.turn = t => y.live = None)
            /\ y.pending = x.pending
            /\ IF x.attempt # None /\ turnOf[x.attempt] = t
                 THEN /\ y.attempt = None
                      /\ y.record = IF IsResuming(x.record) THEN None ELSE x.record
                      /\ y.holder \in {None, x.holder}
                 ELSE y.attempt = x.attempt /\ y.record = x.record /\ y.holder = x.holder
<1> DEFINE live == IF x.live # None /\ x.live.turn = t THEN None ELSE x.live
           w == [x EXCEPT !.live = live]
<1>1. live \in {None, x.live} /\ (x.live # None /\ x.live.turn = t => live = None)
  OBVIOUS
<1>2. PICK b \in BOOLEAN : b <=> x.record # None
  OBVIOUS
<1> DEFINE y == ClearMarker(w, b)
           z == [y EXCEPT !.attempt = None]
<1>3. OnTurnEnded(x, t) = IF x.attempt = None \/ turnOf[x.attempt] # t THEN y
                          ELSE IF IsResuming(x.record) THEN Drop(z) ELSE z
  BY <1>2 DEF OnTurnEnded, ClearMarker
<1> HIDE DEF live
<1>4. /\ w \in States /\ w.record = x.record /\ w.holder = x.holder /\ w.live = live
      /\ w.attempt = x.attempt /\ w.pending = x.pending
  BY <1>1 DEF States
<1> HIDE DEF w
<1>5. /\ y \in States /\ y.record = x.record /\ y.holder = x.holder /\ y.live = live
      /\ y.attempt = x.attempt /\ y.pending = x.pending
  BY <1>4, ClearKeeps, HelpersKeep DEF Kept
<1> HIDE DEF y
<1>6. /\ z \in States /\ z.record = x.record /\ z.holder = x.holder /\ z.live = live
      /\ z.attempt = None /\ z.pending = x.pending
  BY <1>5 DEF States
<1> HIDE DEF z
<1>7. /\ Drop(z).record = None /\ Drop(z).holder = None /\ Drop(z).live = live
      /\ Drop(z).attempt = None /\ Drop(z).pending = x.pending
  BY <1>6, DropKeeps, HelpersKeep DEF Kept
<1> QED
  BY <1>1, <1>3, <1>5, <1>6, <1>7

LEMMA LimitFields ==
  ASSUME NEW x \in States, NEW t \in 1..MaxTurns, NEW setting \in BOOLEAN
  PROVE  LET y == RecordLimit(x, t, setting)
             again == /\ x.live # None /\ x.attempt # None
                      /\ x.live.origin = OriginOf(x.attempt) /\ IsResuming(x.record)
         IN /\ Kept(x, y) /\ y.holder = None
            /\ y.record.reason = "limit" /\ y.record.status = "waiting"
            /\ again => y.record.failures = x.record.failures + 1
            /\ y.record.mode = "auto" => y.record.failures < MaxFailures /\ x.live # None
<1> DEFINE origin == IF x.live # None THEN x.live.origin ELSE "unknown"
           again == x.attempt # None /\ origin = OriginOf(x.attempt) /\ IsResuming(x.record)
           failures == IF again THEN x.record.failures + 1 ELSE 0
           template == x.template \/ x.pending = "user"
           auto == setting /\ origin \in Resumable /\ template /\ failures < MaxFailures
           record == [reason |-> "limit", mode |-> IF auto THEN "auto" ELSE "off",
                      status |-> "waiting", failures |-> failures]
           y == [x EXCEPT !.recent = LimitKey(x, t), !.template = template, !.holder = None,
                          !.record = record]
<1>1. failures \in Nat
  BY DEF IsResuming, States, Records
<1>2. LimitKey(x, t) \in 0..MaxTurns
  BY ResumeAssumption DEF LimitKey, States, Markers
<1>3. RecordLimit(x, t, setting) = Arm(y)
  BY DEF RecordLimit
<1>4. template \in BOOLEAN
  BY Zenon
<1>5. /\ auto => failures < MaxFailures /\ x.live # None
      /\ x.live # None /\ x.attempt # None /\ x.live.origin = OriginOf(x.attempt)
         /\ IsResuming(x.record) => failures = x.record.failures + 1
  BY DEF Resumable
<1> HIDE DEF failures, auto, template
<1>6. /\ record \in Records /\ record.reason = "limit"
      /\ record.status = "waiting" /\ record.failures = failures
      /\ record.mode = "auto" => auto
  BY <1>1 DEF Records
<1> HIDE DEF record
<1>7. /\ y \in States /\ y.record = record /\ y.holder = None /\ Kept(x, y)
  BY <1>2, <1>4, <1>6 DEF States, Kept
<1> HIDE DEF y
<1>8. Arm(y).record = record /\ Arm(y).holder = None /\ Kept(x, Arm(y))
  BY <1>7, ArmKeeps, HelpersKeep DEF Kept
<1> QED
  BY <1>3, <1>5, <1>6, <1>8

\* With no try so far there is little to keep.
LEMMA ZeroSound ==
  ASSUME MaxFailures \in Nat, MaxFailures > 0, s' \in States,
         tries' = 0, Ordered', LiveEnds', \A a \in Attempts : GoingOut(a)' => manual'[a]
  PROVE  Sound'
<1>1. s'.record # None => s'.record.failures \in Nat
  BY DEF States, Records
<1>2. Waiting'
  BY <1>1 DEF Waiting, IsAuto
<1>3. Phase' /\ Limits'
  BY DEF Phase, Limits
<1>4. Out'
  BY DEF Out
<1> QED
  BY <1>2, <1>3, <1>4 DEF Sound

LEMMA LiveStays ==
  ASSUME LiveEnds, s'.live \in {None, s.live}, \A t : Ending(t) => Ending(t)'
  PROVE  LiveEnds'
  BY DEF LiveEnds

-----------------------------------------------------------------------------
(* A step of a process that serves, and has missed no end of a turn          *)

Steady ==
  /\ TypeOK /\ Counts /\ Started /\ Token /\ Sound
  /\ mode = "serving" /\ ~missed

\* What nothing but the user changes: the queue, and who runs.
Still == bus' = bus /\ Running' = Running /\ last' = last

LEMMA StillEnds ==
  ASSUME Steady, Still
  PROVE  Ordered' /\ \A t : Ending(t) => Ending(t)'
<1>1. EnvOK /\ last \in Nat
  BY ResumeTypes DEF Steady
<1> QED
  BY <1>1, EndsLater DEF Steady, Sound, Still

LEMMA UserSound ==
  ASSUME Steady, s' \in States,
         \/ \E origin \in {"user", "other"} : Message(origin)
         \/ Stop \/ Dismiss \/ Cancel \/ Schedule
  PROVE  Sound'
<1>1. /\ s \in States /\ MaxFailures \in Nat /\ MaxFailures > 0 /\ None \notin Attempts
  BY ResumeTypes DEF Steady
<1>2. tries' = 0
  BY DEF Message, Stop, Dismiss, Cancel, Schedule
<1>3. Still
  <2>1. CASE \E origin \in {"user", "other"} : Message(origin)
    <3>1. bus' = bus /\ last' = last /\ owner = "nobody" /\ owner' = "message"
      BY <2>1 DEF Message
    <3> QED
      BY <3>1 DEF Still, Running
  <2>2. CASE Stop \/ Dismiss \/ Cancel \/ Schedule
    <3>1. UNCHANGED <<owner, last, bus>>
      BY <2>2 DEF Stop, Dismiss, Cancel, Schedule, env
    <3> QED
      BY <3>1 DEF Still, Running
  <2> QED
    BY <2>1, <2>2
<1>4. s'.holder = None /\ s'.live = s.live
  <2>1. CASE \E origin \in {"user", "other"} : Message(origin)
    <3>1. PICK origin \in {"user", "other"} : s' = Noted(s, origin)
      BY <2>1 DEF Message
    <3> QED
      BY <1>1, <3>1 DEF Noted, Drop, States
  <2>2. CASE Stop
    <3> DEFINE x == [Drop(s) EXCEPT !.attempt = None]
    <3>1. x \in States /\ x.holder = None /\ x.live = s.live
      BY <1>1, DropKeeps, HelpersKeep DEF States, Kept
    <3>2. s' = ClearMarker(x, FALSE)
      BY <2>2 DEF Stop, Steady
    <3> HIDE DEF x
    <3> QED
      BY <3>1, <3>2, ClearKeeps, HelpersKeep DEF Kept
  <2>3. CASE Dismiss
    BY <1>1, <2>3, DropKeeps, HelpersKeep DEF Dismiss, Kept
  <2>4. CASE Cancel
    BY <1>1, <2>4 DEF Cancel, States
  <2>5. CASE Schedule
    <3> DEFINE r == [s.record EXCEPT !.mode = "auto", !.failures = 0]
               x == [s EXCEPT !.holder = None, !.record = r]
    <3>1. s' = Arm(x)
      BY <1>1, <2>5 DEF Schedule, States
    <3>2. r \in Records
      BY <1>1, <2>5 DEF Schedule, States, Records
    <3> HIDE DEF r
    <3>3. x \in States /\ x.holder = None /\ x.live = s.live
      BY <1>1, <3>2 DEF States
    <3> HIDE DEF x
    <3> QED
      BY <3>1, <3>3, ArmKeeps, HelpersKeep DEF Kept
  <2> QED
    BY <2>1, <2>2, <2>3, <2>4, <2>5
<1>5. Ordered' /\ LiveEnds'
  BY <1>3, <1>4, StillEnds, LiveStays DEF Steady, Sound
<1> QED
  BY <1>1, <1>2, <1>4, <1>5, ZeroSound DEF GoingOut

\* A message of the user, and every turn that ends.
LEMMA TurnSound ==
  ASSUME Steady, s' \in States, ~missed',
         LaunchMessage \/ RefuseMessage \/ TurnLimited \/ TurnEnds
  PROVE  Sound'
<1>1. /\ s \in States /\ MaxFailures \in Nat /\ MaxFailures > 0 /\ EnvOK /\ last \in Nat
      /\ tries \in Nat
  BY ResumeTypes DEF Steady
<1>2. UNCHANGED <<s, pc, manual, saved, turnOf>>
  BY DEF LaunchMessage, RefuseMessage, TurnLimited, TurnEnds, fibres
<1>3. tries' \in {tries, 0}
  BY DEF LaunchMessage, RefuseMessage, TurnLimited, TurnEnds, history
<1>4. /\ Running => last >= 1
      /\ owner = "message" => tries = 0
  BY DEF Steady, Counts, Token
<1>5. CASE LaunchMessage \/ RefuseMessage
  <2>1. tries = 0 /\ tries' = 0
    BY <1>3, <1>4, <1>5 DEF LaunchMessage, RefuseMessage
  <2>2. Ordered' /\ \A t : Ending(t) => Ending(t)'
    <3>1. CASE LaunchMessage
      <4>1. /\ ~Running /\ Running' /\ last' = last + 1 /\ last < MaxTurns
            /\ bus' \in {bus, Append(bus, <<"started", last + 1>>)}
        BY <3>1 DEF LaunchMessage, Running
      <4> QED
        BY <1>1, <4>1, EndsLater DEF Steady, Sound
    <3>2. CASE RefuseMessage
      <4>1. Still
        BY <3>2 DEF RefuseMessage, Running, Still
      <4> QED
        BY <4>1, StillEnds
    <3> QED
      BY <1>5, <3>1, <3>2
  <2>3. \A a \in Attempts : GoingOut(a)' => manual'[a]
    BY <1>2, <1>5 DEF GoingOut, Steady, Sound, Out, LaunchMessage, RefuseMessage
  <2>4. LiveEnds'
    BY <1>2, <2>2, LiveStays DEF Steady, Sound
  <2> QED
    BY <1>1, <2>1, <2>2, <2>3, <2>4, ZeroSound
<1>6. CASE TurnLimited \/ TurnEnds
  <2>1. PICK e \in {"ended", "limit"} : bus' = Append(bus, <<e, last>>)
    BY <1>6 DEF TurnLimited, TurnEnds, history
  <2>2. Running /\ last' = last /\ last >= 1
    BY <1>4, <1>6 DEF TurnLimited, TurnEnds, Running
  <2>3. Ordered' /\ \A t : Ending(t) => Ending(t)'
    BY <1>1, <2>1, <2>2, EndsLater DEF Steady, Sound
  <2>4. LiveEnds'
    BY <1>2, <2>3, LiveStays DEF Steady, Sound
  <2>5. \A a \in Attempts : GoingOut(a)' => manual'[a] /\ tries = 0
    BY <1>2, <2>2 DEF GoingOut, Steady, Sound, Out, Running
  <2>6. CASE tries' = 0
    BY <1>1, <2>3, <2>4, <2>5, <2>6, ZeroSound
  <2>7. CASE tries' # 0
    <3>1. tries' = tries /\ tries > 0
      BY <1>1, <1>3, <2>7
    <3>2. \A i \in DOMAIN bus' : \/ i \in DOMAIN bus /\ bus'[i] = bus[i]
                                 \/ bus'[i] = <<e, last>>
      <4>1. <<e, last>> \in {"started", "limit", "ended"} \X (1..MaxTurns)
        BY <1>1, <2>2, ResumeAssumption DEF EnvOK
      <4> QED
        BY <1>1, <2>1, <4>1, BusAppend
    <3>3. Out'
      BY <2>5, <3>1 DEF Out
    <3>4. Phase'
      <4>1. CASE Over
        <5>1. \A i \in DOMAIN bus' : bus'[i][1] # "started"
          BY <3>2, <4>1 DEF Over
        <5>2. (\E a \in Attempts : GoingOut(a)) => \E a \in Attempts : GoingOut(a)'
          BY <1>2 DEF GoingOut
        <5>3. Over'
          BY <1>2, <4>1, <5>1, <5>2 DEF Over
        <5> QED
          BY <5>3 DEF Phase
      <4>2. CASE \E a \in Attempts : InFlight(a)
        <5>1. PICK a \in Attempts : InFlight(a)
          BY <4>2
        <5>2. \A i \in DOMAIN bus' : /\ bus'[i][2] = last
                                     /\ bus'[i][1] = "started" => i = 1 /\ s.pending = "resume"
          BY <3>2, <5>1 DEF InFlight
        <5>3. InFlight(a)'
          BY <1>2, <2>2, <3>1, <5>1, <5>2 DEF InFlight, OriginOf
        <5> QED
          BY <5>3 DEF Phase
      <4> QED
        BY <3>1, <4>1, <4>2 DEF Steady, Sound, Phase
    <3>5. Waiting' /\ Limits'
      BY <1>2, <3>1 DEF Steady, Sound, Waiting, Limits
    <3> QED
      BY <2>3, <2>4, <3>3, <3>4, <3>5 DEF Sound
  <2> QED
    BY <2>6, <2>7
<1> QED
  BY <1>5, <1>6

\* A launch that the scheduler's guard allows: at a limit, it is in flight.
LEMMA LaunchSound ==
  ASSUME Steady, s' \in States, NEW a \in Attempts, Launch(a)
  PROVE  Sound' /\ (tries' = tries \/ (tries' = tries + 1 /\ tries < MaxFailures))
<1>1. /\ s \in States /\ MaxFailures \in Nat /\ MaxFailures > 0 /\ EnvOK /\ last \in Nat
      /\ tries \in Nat /\ FibresOK
  BY ResumeTypes DEF Steady
<1>2. /\ UNCHANGED <<s, manual, saved>> /\ GoingOut(a) /\ pc[a] = "admitted"
      /\ pc' = [pc EXCEPT ![a] = "running"] /\ turnOf' = [turnOf EXCEPT ![a] = last + 1]
      /\ last' = last + 1 /\ bus' \in {bus, Append(bus, <<"started", last + 1>>)}
      /\ owner' = "turn" /\ last < MaxTurns
      /\ tries' = IF ~manual[a] /\ OriginOf(a) = "resume" THEN tries + 1 ELSE tries
  BY DEF Launch, Guard, GoingOut
<1>3. owner = "attempt"
  BY <1>2 DEF Steady, Token
<1>4. ~Running /\ Running'
  BY <1>2, <1>3 DEF Running
<1>5. Ordered' /\ \A t : Ending(t) => Ending(t)'
  BY <1>1, <1>2, <1>4, EndsLater DEF Steady, Sound
<1>6. LiveEnds'
  BY <1>2, <1>5, LiveStays DEF Steady, Sound
<1>7. pc'[a] = "running" /\ turnOf'[a] = last'
  BY <1>1, <1>2 DEF FibresOK
<1>8. \A b \in Attempts : ~GoingOut(b)'
  BY <1>2, <1>7 DEF GoingOut
<1>9. CASE manual[a]
  <2>1. tries' = 0 /\ tries' = tries
    BY <1>2, <1>9 DEF Steady, Sound, Out
  <2> QED
    BY <1>1, <1>5, <1>6, <1>8, <2>1, ZeroSound
<1>10. CASE ~manual[a]
  <2>1. /\ bus = <<>> /\ s.live = None /\ s.attempt = a /\ IsResuming(s.record)
        /\ s.record.reason = saved[a].reason
        /\ tries <= s.record.failures /\ tries < MaxFailures /\ s.pending = OriginOf(a)
    BY <1>2, <1>10 DEF Steady, Sound, Out
  <2>2. s.record \in Records /\ s.record.failures \in Nat /\ s.record # None
    BY <1>1, <2>1 DEF IsResuming, States, Records
  <2>3. tries > 0 => s.record.reason = "limit"
    BY <2>2 DEF Steady, Sound, Limits
  <2>4. CASE OriginOf(a) # "resume"
    <3>1. tries' = tries
      BY <1>2, <2>4
    <3>2. s.record.reason = "restart"
      BY <2>1, <2>4 DEF OriginOf
    <3>3. tries = 0
      BY <1>1, <2>3, <3>2
    <3> QED
      BY <1>1, <1>5, <1>6, <1>8, <3>1, <3>3, ZeroSound
  <2>5. CASE OriginOf(a) = "resume"
    <3>1. tries' = tries + 1
      BY <1>2, <1>10, <2>5
    <3>2. s.record.reason = "limit"
      BY <2>1, <2>2, <2>5 DEF OriginOf, Records
    <3>3. \A i \in DOMAIN bus' : i = 1 /\ bus'[i][2] = last'
      <4>1. CASE bus' = bus
        <5>1. bus' = <<>>
          BY <2>1, <4>1
        <5> QED
          BY <5>1
      <4>2. CASE bus' = Append(bus, <<"started", last + 1>>)
        <5>1. bus' = <<<<"started", last + 1>>>>
          BY <2>1, <4>2
        <5> QED
          BY <1>2, <5>1
      <4> QED
        BY <1>2, <4>1, <4>2
    <3>4. OriginOf(a)' = "resume"
      BY <1>2, <2>5 DEF OriginOf
    <3>5. tries' <= s.record.failures + 1
      BY <1>1, <2>1, <2>2, <3>1
    <3>6. InFlight(a)'
      BY <1>2, <1>7, <2>1, <2>5, <3>3, <3>4, <3>5 DEF InFlight
    <3>7. Out' /\ Phase'
      BY <1>8, <3>6 DEF Out, Phase
    <3>8. Waiting' /\ Limits'
      BY <1>2, <2>1, <3>2 DEF Waiting, IsAuto, IsResuming, Limits
    <3> QED
      BY <1>5, <1>6, <2>1, <3>1, <3>7, <3>8 DEF Sound
  <2> QED
    BY <2>4, <2>5
<1> QED
  BY <1>9, <1>10

\* What an attempt makes of the scheduler's state, refused or sent.
LEMMA AttemptFields ==
  ASSUME s \in States, FibresOK, s.record \in Records,
         NEW a \in Attempts, NEW byUser \in BOOLEAN, Attempt(a, byUser)
  PROVE  /\ s'.live = s.live
         /\ \/ /\ UNCHANGED fibres /\ s'.holder = None /\ s'.attempt = s.attempt
               /\ ~byUser =>
                    /\ s'.record.status \in {s.record.status, "waiting"}
                    /\ s'.record.reason = s.record.reason
                    /\ s'.record.failures >= s.record.failures
                    /\ s'.record.mode = "auto" => s'.record.failures < MaxFailures
            \/ /\ owner = "nobody" /\ s'.holder = a /\ s'.attempt = a /\ s'.record # None
               /\ s'.record.status = "resuming" /\ s'.record.reason = s.record.reason
               /\ s'.record.failures = s.record.failures
               /\ pc'[a] = "preparing" /\ manual'[a] = byUser /\ saved'[a] = s.record
               /\ \A b \in Attempts : b # a => pc'[b] = pc[b]
<1> DEFINE x == [s EXCEPT !.holder = None, !.timer = FALSE]
<1>1. /\ x \in States /\ x.record = s.record /\ x.live = s.live /\ x.holder = None
      /\ x.attempt = s.attempt
  BY DEF States
<1>2. s.record.failures \in Nat /\ MaxFailures \in Nat
  BY ResumeAssumption DEF Records
<1>3. PICK r \in Records : r = Failed(s.record)
  BY FailedType
<1>4. /\ r.status = "waiting" /\ r.reason = s.record.reason
      /\ r.failures >= s.record.failures /\ (r.mode = "auto" => r.failures < MaxFailures)
  <2>1. /\ r.failures = s.record.failures + 1 /\ r.status = "waiting"
        /\ r.reason = s.record.reason
        /\ r.mode = IF s.record.failures + 1 >= MaxFailures THEN "off" ELSE "auto"
    BY <1>3 DEF Failed, Records
  <2> QED
    BY <1>2, <2>1
<1>5. PICK q \in Records : q = [s.record EXCEPT !.mode = "off"]
  BY DEF Records
<1>6. /\ q.status = s.record.status /\ q.reason = s.record.reason
      /\ q.failures = s.record.failures /\ q.mode = "off"
  BY <1>5 DEF Records
<1>7. PICK p \in Records : p = [s.record EXCEPT !.mode = "auto", !.status = "resuming"]
  BY DEF Records
<1>8. /\ p.status = "resuming" /\ p.reason = s.record.reason
      /\ p.failures = s.record.failures /\ p # None
  BY <1>7, NoneIsNoRecord DEF Records
<1> DEFINE y == [x EXCEPT !.record = r]
           z == [x EXCEPT !.record = q]
           w == [x EXCEPT !.holder = a, !.attempt = a, !.record = p]
<1>9. \/ UNCHANGED fibres /\ byUser /\ s' = Arm(x)
      \/ UNCHANGED fibres /\ s' \in {Arm(y), z}
      \/ /\ owner = "nobody" /\ s' = w
         /\ pc' = [pc EXCEPT ![a] = "preparing"] /\ manual' = [manual EXCEPT ![a] = byUser]
         /\ saved' = [saved EXCEPT ![a] = s.record]
  <2>1. /\ Failed(x.record) = r /\ [x EXCEPT !.record.mode = "off"] = z
        /\ [x EXCEPT !.holder = a, !.attempt = a,
                     !.record.mode = "auto", !.record.status = "resuming"] = w
    BY <1>1, <1>3, <1>5, <1>7 DEF States
  <2> HIDE DEF z, w
  <2> QED
    BY <2>1 DEF Attempt
<1>10. /\ y \in States /\ y.record = r /\ y.live = s.live /\ y.holder = None
       /\ y.attempt = s.attempt
       /\ z \in States /\ z.record = q /\ z.live = s.live /\ z.holder = None
       /\ z.attempt = s.attempt
       /\ w.record = p /\ w.live = s.live /\ w.holder = a /\ w.attempt = a
  <2> HIDE DEF x
  <2> QED
    BY <1>1 DEF States
<1> HIDE DEF x, y, z, w
<1>11. CASE UNCHANGED fibres /\ byUser /\ s' = Arm(x)
  BY <1>1, <1>11, ArmKeeps, HelpersKeep DEF Kept
<1>12. CASE UNCHANGED fibres /\ s' \in {Arm(y), z}
  <2>1. /\ s'.live = s.live /\ s'.holder = None /\ s'.attempt = s.attempt
        /\ s'.record \in {r, q}
    BY <1>10, <1>12, ArmKeeps, HelpersKeep DEF Kept
  <2>2. q.failures >= s.record.failures
    BY <1>2, <1>6
  <2> QED
    BY <1>4, <1>6, <1>12, <2>1, <2>2
<1>13. CASE /\ owner = "nobody" /\ s' = w
            /\ pc' = [pc EXCEPT ![a] = "preparing"] /\ manual' = [manual EXCEPT ![a] = byUser]
            /\ saved' = [saved EXCEPT ![a] = s.record]
  BY <1>8, <1>10, <1>13 DEF FibresOK
<1> QED
  BY <1>9, <1>11, <1>12, <1>13

\* "Resume now" starts the tries again; a schedule goes out when all is quiet.
LEMMA AttemptSound ==
  ASSUME Steady, s' \in States, NEW a \in Attempts, Fire(a) \/ ResumeNow(a)
  PROVE  Sound' /\ tries' \in {tries, 0}
<1>1. /\ s \in States /\ MaxFailures \in Nat /\ MaxFailures > 0 /\ EnvOK /\ last \in Nat
      /\ tries \in Nat /\ FibresOK /\ None \notin Attempts
  BY ResumeTypes DEF Steady
<1>2. UNCHANGED <<owner, last, bus>>
  BY DEF Fire, ResumeNow, env
<1>3. Still
  BY <1>2 DEF Still, Running
<1>4. Ordered' /\ \A t : Ending(t) => Ending(t)'
  BY <1>3, StillEnds
<1>5. CASE ResumeNow(a)
  <2>1. s.record \in Records /\ Attempt(a, TRUE) /\ tries' = 0
    BY <1>1, <1>5 DEF ResumeNow, States
  <2>2. /\ s'.live = s.live
        /\ s'.holder = None \/ (s'.holder = a /\ manual'[a] = TRUE)
    BY <1>1, <2>1, AttemptFields
  <2>3. LiveEnds'
    BY <1>4, <2>2, LiveStays DEF Steady, Sound
  <2>4. \A b \in Attempts : GoingOut(b)' => manual'[b]
    BY <1>1, <2>2 DEF GoingOut
  <2> QED
    BY <1>1, <1>4, <2>1, <2>3, <2>4, ZeroSound
<1>6. CASE Fire(a) /\ s' = [s EXCEPT !.timer = FALSE] /\ UNCHANGED fibres
  <2>1. s' = [s EXCEPT !.timer = FALSE] /\ UNCHANGED <<pc, manual, saved, turnOf, tries>>
    BY <1>6 DEF Fire, fibres
  <2>2. /\ s'.record = s.record /\ s'.holder = s.holder /\ s'.live = s.live
        /\ s'.attempt = s.attempt /\ s'.pending = s.pending
    BY <1>1, <2>1 DEF States
  <2>3. LiveEnds'
    BY <1>4, <2>2, LiveStays DEF Steady, Sound
  <2>4. \A b \in Attempts : GoingOut(b)' <=> GoingOut(b)
    BY <2>1, <2>2 DEF GoingOut
  <2>5. Out'
    BY <1>2, <2>1, <2>2, <2>4 DEF Steady, Sound, Out, OriginOf
  <2>6. Over => Over'
    BY <1>2, <2>2, <2>4 DEF Over
  <2>7. ASSUME NEW b \in Attempts, InFlight(b) PROVE InFlight(b)'
    BY <1>2, <2>1, <2>2, <2>7 DEF InFlight, OriginOf
  <2>8. Phase'
    BY <2>1, <2>6, <2>7 DEF Steady, Sound, Phase
  <2>9. Waiting' /\ Limits'
    BY <2>1, <2>2 DEF Steady, Sound, Waiting, Limits
  <2> QED
    BY <1>4, <2>1, <2>3, <2>5, <2>8, <2>9 DEF Sound
<1>7. CASE Fire(a) /\ IsAuto(s.record) /\ Attempt(a, FALSE)
  <2>1. /\ s.record \in Records /\ Attempt(a, FALSE) /\ UNCHANGED tries
        /\ s.record # None /\ s.record.status = "waiting" /\ (Running \/ bus = <<>>)
    BY <1>1, <1>7 DEF Fire, States, IsAuto
  <2>2. /\ tries <= s.record.failures /\ tries < MaxFailures /\ s.record.failures \in Nat
        /\ tries > 0 => s.record.reason = "limit"
    <3>1. s.record.failures \in Nat
      BY <2>1 DEF Records
    <3> QED
      BY <1>7, <2>1, <3>1 DEF Steady, Sound, Waiting, Limits
  <2>3. tries > 0 => Over
    <3>1. ~IsResuming(s.record)
      BY <2>1 DEF IsResuming
    <3> QED
      BY <3>1 DEF Steady, Sound, Phase, InFlight
  <2> DEFINE Refused == /\ UNCHANGED fibres /\ s'.holder = None
                        /\ s'.record.status = "waiting" /\ s'.record.reason = s.record.reason
                        /\ s'.record.failures >= s.record.failures
             Goes == /\ owner = "nobody" /\ s'.holder = a /\ s'.attempt = a /\ s'.record # None
                     /\ s'.record.status = "resuming" /\ s'.record.reason = s.record.reason
                     /\ s'.record.failures = s.record.failures
                     /\ pc'[a] = "preparing" /\ manual'[a] = FALSE /\ saved'[a] = s.record
  <2>4. s'.live = s.live /\ (Refused \/ Goes)
    BY <1>1, <2>1, AttemptFields
  <2>5. LiveEnds'
    BY <1>4, <2>4, LiveStays DEF Steady, Sound
  <2>6. s'.record # None => s'.record.failures \in Nat
    BY DEF States, Records
  <2>7. CASE Refused
    <3>1. \A b \in Attempts : ~GoingOut(b)'
      BY <1>1, <2>7 DEF GoingOut
    <3>2. ~IsResuming(s'.record)
      BY <2>7 DEF IsResuming
    <3>3. Over => Over'
      BY <1>2, <2>4, <3>2 DEF Over
    <3>4. Out' /\ Phase'
      BY <2>1, <2>3, <3>1, <3>3 DEF Out, Phase
    <3>5. Waiting'
      BY <1>1, <2>1, <2>2, <2>6, <2>7 DEF Waiting, IsAuto
    <3>6. Limits'
      BY <2>1, <2>2, <2>7 DEF Limits
    <3> QED
      BY <1>4, <2>1, <2>5, <3>4, <3>5, <3>6 DEF Sound
  <2>8. CASE Goes
    <3>1. ~Running /\ bus = <<>>
      BY <2>1, <2>8 DEF Running
    <3>2. s.live = None
      BY <3>1 DEF Steady, Sound, LiveEnds, Ending
    <3>3. GoingOut(a)' /\ \A b \in Attempts : GoingOut(b)' => b = a
      BY <2>8 DEF GoingOut
    <3>4. IsResuming(s'.record) /\ ~IsAuto(s'.record)
      BY <2>8 DEF IsResuming, IsAuto
    <3>5. tries' <= s'.record.failures /\ tries' < MaxFailures
      BY <2>1, <2>2, <2>8
    <3>6. Out'
      BY <1>2, <2>1, <2>4, <2>8, <3>1, <3>2, <3>3, <3>4, <3>5 DEF Out
    <3>7. Over'
      BY <1>2, <2>4, <3>1, <3>2, <3>3 DEF Over
    <3>8. Phase' /\ Waiting' /\ Limits'
      BY <2>1, <2>2, <2>8, <3>4, <3>7 DEF Phase, Waiting, Limits
    <3> QED
      BY <1>4, <2>1, <2>5, <3>6, <3>8 DEF Sound
  <2> QED
    BY <2>4, <2>7, <2>8
<1> QED
  BY <1>5, <1>6, <1>7, Zenon DEF Fire

\* The token is the attempt's now; one that has lost its record drops it.
LEMMA AdmitSound ==
  ASSUME Steady, s' \in States, NEW a \in Attempts, Admit(a), ~Rejected(a)
  PROVE  Sound' /\ tries' = tries
<1>1. /\ s \in States /\ MaxFailures \in Nat /\ MaxFailures > 0 /\ FibresOK
      /\ tries \in Nat /\ None \notin Attempts
  BY ResumeTypes DEF Steady
<1>2. /\ owner = "nobody" /\ owner' = "attempt" /\ pc[a] = "preparing" /\ s.holder = a
      /\ pc' = [pc EXCEPT ![a] = "admitted"]
      /\ UNCHANGED <<manual, saved, turnOf, last, bus, tries>>
      /\ s' = IF s.attempt = a THEN [s EXCEPT !.pending = OriginOf(a)] ELSE Noted(s, "other")
  BY DEF Admit, Guard, history
<1>3. Still
  BY <1>2 DEF Still, Running
<1>4. Ordered' /\ \A t : Ending(t) => Ending(t)'
  BY <1>3, StillEnds
<1>5. GoingOut(a)
  BY <1>2 DEF GoingOut
<1>6. pc'[a] = "admitted" /\ \A b \in Attempts : b # a => pc'[b] = pc[b]
  BY <1>1, <1>2 DEF FibresOK
<1>7. CASE s.attempt # a
  <2>1. manual[a] /\ tries = 0
    BY <1>5, <1>7 DEF Steady, Sound, Out
  <2>2. s'.holder = None /\ s'.live = s.live
    BY <1>1, <1>2, <1>7 DEF Noted, Drop, States
  <2>3. LiveEnds'
    BY <1>4, <2>2, LiveStays DEF Steady, Sound
  <2>4. \A b \in Attempts : ~GoingOut(b)'
    BY <1>1, <2>2 DEF GoingOut
  <2> QED
    BY <1>1, <1>2, <1>4, <2>1, <2>3, <2>4, ZeroSound
<1>8. CASE s.attempt = a
  <2>1. /\ s'.record = s.record /\ s'.holder = s.holder /\ s'.live = s.live
        /\ s'.attempt = s.attempt /\ s'.pending = OriginOf(a)
    BY <1>1, <1>2, <1>8 DEF States
  <2>2. LiveEnds'
    BY <1>4, <2>1, LiveStays DEF Steady, Sound
  <2>3. GoingOut(a)' /\ \A b \in Attempts : GoingOut(b)' => b = a
    BY <1>2, <1>6, <2>1 DEF GoingOut
  <2>4. Out'
    BY <1>2, <1>5, <2>1, <2>3 DEF Steady, Sound, Out, OriginOf
  <2>5. ASSUME NEW b \in Attempts, InFlight(b) PROVE FALSE
    BY <1>2, <1>8, <2>5 DEF InFlight
  <2>6. Over => Over'
    BY <1>2, <2>1, <2>3 DEF Over
  <2>7. Phase'
    BY <1>2, <2>5, <2>6 DEF Steady, Sound, Phase
  <2>8. Waiting' /\ Limits'
    BY <1>2, <2>1 DEF Steady, Sound, Waiting, Limits
  <2> QED
    BY <1>2, <1>4, <2>2, <2>4, <2>7, <2>8 DEF Sound
<1> QED
  BY <1>7, <1>8

\* What is left of a dispatch that has returned is as it was.
LEMMA DoneFields ==
  ASSUME FibresOK, NEW a \in Attempts, Done(a)
  PROVE  /\ pc'[a] = "none"
         /\ \A b \in Attempts : b # a => /\ pc'[b] = pc[b] /\ manual'[b] = manual[b]
                                         /\ saved'[b] = saved[b] /\ turnOf'[b] = turnOf[b]
                                         /\ OriginOf(b)' = OriginOf(b)
<1>1. /\ pc'[a] = "none"
      /\ \A b \in Attempts : b # a => /\ pc'[b] = pc[b] /\ manual'[b] = manual[b]
                                      /\ saved'[b] = saved[b] /\ turnOf'[b] = turnOf[b]
  BY DEF FibresOK, Done
<1> QED
  BY <1>1 DEF OriginOf

\* An attempt that fails is one try less to go, or changes nothing.
LEMMA RejectedSound ==
  ASSUME Steady, s' \in States, NEW a \in Attempts, Rejected(a),
         pc[a] \in {"preparing", "admitted"},
         owner' = owner \/ (owner = "attempt" /\ owner' = "nobody")
  PROVE  Sound' /\ tries' = tries
<1>1. /\ s \in States /\ MaxFailures \in Nat /\ MaxFailures > 0 /\ FibresOK
      /\ tries \in Nat /\ None \notin Attempts
  BY ResumeTypes DEF Steady
<1>2. Done(a) /\ UNCHANGED <<last, bus, tries>>
  BY DEF Rejected, history
<1>3. Still
  BY <1>2 DEF Still, Running
<1>4. Ordered' /\ \A t : Ending(t) => Ending(t)'
  BY <1>3, StillEnds
<1>5. /\ pc'[a] = "none"
      /\ \A b \in Attempts : b # a => /\ pc'[b] = pc[b] /\ manual'[b] = manual[b]
                                      /\ saved'[b] = saved[b] /\ turnOf'[b] = turnOf[b]
                                      /\ OriginOf(b)' = OriginOf(b)
  BY <1>1, <1>2, DoneFields
<1>6. owner \in {"nobody", "attempt"} => owner' \in {"nobody", "attempt"}
  OBVIOUS
<1> DEFINE attempt == IF s.attempt = a THEN None ELSE s.attempt
           x == [s EXCEPT !.attempt = attempt]
<1>7. /\ x \in States /\ x.record = s.record /\ x.holder = s.holder /\ x.live = s.live
      /\ x.pending = s.pending /\ (s.attempt # a => x.attempt = s.attempt)
  BY <1>1 DEF States
<1>8. saved[a] \in Records
  BY <1>1 DEF Steady, Started, FibresOK
<1>9. PICK r \in Records : r = IF manual[a] THEN saved[a] ELSE Failed(saved[a])
  BY <1>8, FailedType
<1>10. s' = IF ~Guard(a) THEN x ELSE Arm([x EXCEPT !.record = r])
  BY <1>1, <1>9 DEF Rejected, States
<1> HIDE DEF x
<1>11. CASE s.holder # a
  <2>1. s' = x
    BY <1>10, <1>11 DEF Guard
  <2>2. LiveEnds'
    BY <1>4, <1>7, <2>1, LiveStays DEF Steady, Sound
  <2>3. \A b \in Attempts : GoingOut(b)' => b # a /\ GoingOut(b)
    BY <1>5, <1>7, <2>1 DEF GoingOut
  <2>4. Out'
    <3> SUFFICES ASSUME NEW b \in Attempts, GoingOut(b)'
                 PROVE  IF manual'[b] THEN tries' = 0
                        ELSE /\ bus' = <<>> /\ s'.live = None /\ owner' \in {"nobody", "attempt"}
                             /\ s'.attempt = b /\ IsResuming(s'.record)
                             /\ s'.record.reason = saved'[b].reason
                             /\ s'.record.failures = saved'[b].failures
                             /\ tries' <= s'.record.failures /\ tries' < MaxFailures
                             /\ pc'[b] = "admitted" => s'.pending = OriginOf(b)'
      BY DEF Out
    <3>1. b # a /\ GoingOut(b)
      BY <2>3
    <3> QED
      BY <1>2, <1>5, <1>6, <1>7, <2>1, <3>1 DEF Steady, Sound, Out
  <2>5. ASSUME NEW b \in Attempts, InFlight(b) PROVE InFlight(b)'
    <3>1. b # a
      BY <2>5 DEF InFlight
    <3> QED
      BY <1>2, <1>5, <1>7, <2>1, <2>5, <3>1 DEF InFlight
  <2>6. Over => Over'
    <3>1. ASSUME NEW b \in Attempts, GoingOut(b) PROVE GoingOut(b)'
      BY <1>5, <1>7, <1>11, <2>1, <3>1 DEF GoingOut
    <3> QED
      BY <1>2, <1>7, <2>1, <3>1 DEF Over
  <2>7. Phase'
    BY <1>2, <2>5, <2>6 DEF Steady, Sound, Phase
  <2>8. Waiting' /\ Limits'
    BY <1>2, <1>7, <2>1 DEF Steady, Sound, Waiting, Limits
  <2> QED
    BY <1>2, <1>4, <2>2, <2>4, <2>7, <2>8 DEF Sound
<1>12. CASE s.holder = a
  <2>1. s' = Arm([x EXCEPT !.record = r])
    BY <1>10, <1>12 DEF Guard, Steady
  <2>2. s'.record = r /\ s'.holder = a /\ s'.live = s.live
    <3> DEFINE y == [x EXCEPT !.record = r]
    <3>1. y \in States /\ y.record = r /\ y.holder = a /\ y.live = s.live
      BY <1>7, <1>9, <1>12 DEF States
    <3> HIDE DEF y
    <3>2. s' = Arm(y)
      BY <2>1 DEF y
    <3> QED
      BY <3>1, <3>2, ArmKeeps, HelpersKeep DEF Kept
  <2>3. LiveEnds'
    BY <1>4, <2>2, LiveStays DEF Steady, Sound
  <2>4. \A b \in Attempts : ~GoingOut(b)'
    BY <1>5, <2>2 DEF GoingOut
  <2>5. GoingOut(a)
    BY <1>12 DEF GoingOut
  <2>6. CASE manual[a]
    <3>1. tries = 0
      BY <2>5, <2>6 DEF Steady, Sound, Out
    <3> QED
      BY <1>1, <1>2, <1>4, <2>3, <2>4, <3>1, ZeroSound
  <2>7. CASE ~manual[a]
    <3>1. /\ bus = <<>> /\ s.live = None /\ IsResuming(s.record)
          /\ s.record.reason = saved[a].reason /\ s.record.failures = saved[a].failures
          /\ tries <= s.record.failures /\ tries < MaxFailures
      BY <2>5, <2>7 DEF Steady, Sound, Out
    <3>2. /\ r.status = "waiting" /\ r.reason = saved[a].reason
          /\ r.failures = saved[a].failures + 1
      BY <1>8, <1>9, <2>7 DEF Failed, Records
    <3>3. saved[a].failures \in Nat
      BY <1>8 DEF Records
    <3>4. tries <= r.failures
      BY <1>1, <3>1, <3>2, <3>3
    <3>5. tries > 0 => r.reason = "limit"
      BY <3>1, <3>2 DEF Steady, Sound, Limits, IsResuming
    <3>6. Over'
      BY <1>2, <2>2, <3>1, <3>2 DEF Over, IsResuming
    <3>7. Out' /\ Phase'
      BY <2>4, <3>6 DEF Out, Phase
    <3>8. Waiting' /\ Limits'
      BY <1>2, <2>2, <3>1, <3>4, <3>5 DEF Waiting, Limits
    <3> QED
      BY <1>2, <1>4, <2>3, <3>7, <3>8 DEF Sound
  <2> QED
    BY <2>6, <2>7
<1> QED
  BY <1>2, <1>11, <1>12

\* The dispatch is settled: its events have all been observed.
LEMMA SettledSound ==
  ASSUME Steady, s' \in States, NEW a \in Attempts, Settled(a)
  PROVE  Sound' /\ tries' = tries
<1>1. /\ s \in States /\ MaxFailures \in Nat /\ MaxFailures > 0 /\ FibresOK /\ EnvOK
      /\ tries \in Nat /\ None \notin Attempts
  BY ResumeTypes DEF Steady
<1>2. /\ Done(a) /\ UNCHANGED <<owner, last, bus, tries>> /\ pc[a] = "running"
      /\ ~(Running /\ last = turnOf[a]) /\ \A i \in 1..Len(bus) : bus[i][2] # turnOf[a]
  BY DEF Settled, env, history
<1>3. Still
  BY <1>2 DEF Still, Running
<1>4. Ordered' /\ \A t : Ending(t) => Ending(t)'
  BY <1>3, StillEnds
<1>5. /\ pc'[a] = "none"
      /\ \A b \in Attempts : b # a => /\ pc'[b] = pc[b] /\ manual'[b] = manual[b]
                                      /\ saved'[b] = saved[b] /\ turnOf'[b] = turnOf[b]
                                      /\ OriginOf(b)' = OriginOf(b)
  BY <1>1, <1>2, DoneFields
<1>6. CASE s.attempt # a
  <2>1. s' = s
    BY <1>6 DEF Settled
  <2>2. LiveEnds'
    BY <1>4, <2>1, LiveStays DEF Steady, Sound
  <2>3. \A b \in Attempts : GoingOut(b)' => b # a /\ GoingOut(b)
    BY <1>5, <2>1 DEF GoingOut
  <2>4. Out'
    <3> SUFFICES ASSUME NEW b \in Attempts, GoingOut(b)'
                 PROVE  IF manual'[b] THEN tries' = 0
                        ELSE /\ bus' = <<>> /\ s'.live = None /\ owner' \in {"nobody", "attempt"}
                             /\ s'.attempt = b /\ IsResuming(s'.record)
                             /\ s'.record.reason = saved'[b].reason
                             /\ s'.record.failures = saved'[b].failures
                             /\ tries' <= s'.record.failures /\ tries' < MaxFailures
                             /\ pc'[b] = "admitted" => s'.pending = OriginOf(b)'
      BY DEF Out
    <3>1. b # a /\ GoingOut(b)
      BY <2>3
    <3> QED
      BY <1>2, <1>5, <2>1, <3>1 DEF Steady, Sound, Out
  <2>5. ASSUME NEW b \in Attempts, InFlight(b) PROVE InFlight(b)'
    <3>1. b # a
      BY <1>6, <2>5 DEF InFlight
    <3> QED
      BY <1>2, <1>5, <2>1, <2>5, <3>1 DEF InFlight
  <2>6. Over => Over'
    <3>1. ASSUME NEW b \in Attempts, GoingOut(b) PROVE GoingOut(b)'
      BY <1>2, <1>5, <2>1, <3>1 DEF GoingOut
    <3> QED
      BY <1>2, <2>1, <3>1 DEF Over
  <2>7. Phase'
    BY <1>2, <2>5, <2>6 DEF Steady, Sound, Phase
  <2>8. Waiting' /\ Limits'
    BY <1>2, <2>1 DEF Steady, Sound, Waiting, Limits
  <2> QED
    BY <1>2, <1>4, <2>2, <2>4, <2>7, <2>8 DEF Sound
<1>7. CASE s.attempt = a
  <2> DEFINE x == [s EXCEPT !.attempt = None]
  <2>1. x \in States /\ x.record = s.record /\ x.holder = s.holder /\ x.live = s.live
    BY <1>1 DEF States
  <2>2. IF ~IsResuming(s.record) THEN s' = x
        ELSE s' \in {Drop(x), Arm([x EXCEPT !.record = Failed(x.record)])}
    BY <1>1, <1>7, <2>1 DEF Settled, Steady
  <2> HIDE DEF x
  <2>3. /\ s'.live = s.live /\ s'.holder \in {None, s.holder}
        /\ \/ ~IsResuming(s.record) /\ s'.record = s.record
           \/ s'.record = None
           \/ IsResuming(s.record) /\ s'.record = Failed(s.record)
    <3>1. CASE ~IsResuming(s.record)
      BY <2>1, <2>2, <3>1
    <3>2. CASE IsResuming(s.record)
      <4>1. s.record \in Records
        BY <1>1, <3>2 DEF IsResuming, States
      <4>2. PICK r \in Records : r = Failed(s.record)
        BY <4>1, FailedType
      <4> DEFINE y == [x EXCEPT !.record = r]
      <4>3. y \in States /\ y.record = r /\ y.holder = s.holder /\ y.live = s.live
        BY <2>1, <4>2 DEF States
      <4>4. s' \in {Drop(x), Arm(y)}
        BY <2>1, <2>2, <3>2, <4>2
      <4> HIDE DEF y
      <4> QED
        BY <2>1, <3>2, <4>2, <4>3, <4>4, ArmKeeps, DropKeeps, HelpersKeep DEF Kept
    <3> QED
      BY <3>1, <3>2
  <2>4. LiveEnds'
    BY <1>4, <2>3, LiveStays DEF Steady, Sound
  <2>5. ASSUME NEW b \in Attempts, GoingOut(b) PROVE b # a /\ manual[b] /\ tries = 0
    <3>1. b # a
      BY <1>2, <2>5 DEF GoingOut
    <3> QED
      BY <1>7, <2>5, <3>1 DEF Steady, Sound, Out
  <2>6. \A b \in Attempts : GoingOut(b)' => b # a /\ GoingOut(b)
    BY <1>1, <1>5, <2>3 DEF GoingOut
  <2>7. CASE tries = 0
    <3>1. \A b \in Attempts : GoingOut(b)' => manual'[b]
      BY <1>5, <2>5, <2>6
    <3> QED
      BY <1>1, <1>2, <1>4, <2>4, <2>7, <3>1, ZeroSound
  <2>8. CASE tries # 0
    <3>1. tries > 0
      BY <1>1, <2>8
    <3>2. \A b \in Attempts : ~GoingOut(b) /\ ~GoingOut(b)'
      BY <2>5, <2>6, <2>8
    <3>3. Out'
      BY <3>2 DEF Out
    <3>4. CASE Over
      <4>1. ~IsResuming(s.record)
        BY <3>2, <3>4 DEF Over
      <4>2. /\ ~IsResuming(s'.record) /\ s'.record \in {None, s.record}
        BY <2>3, <4>1 DEF IsResuming
      <4>3. Over'
        BY <1>2, <2>3, <3>4, <4>2 DEF Over
      <4>4. Phase'
        BY <4>3 DEF Phase
      <4>5. Waiting' /\ Limits'
        BY <1>2, <4>2 DEF Steady, Sound, Waiting, Limits, IsAuto
      <4> QED
        BY <1>2, <1>4, <2>4, <3>3, <4>4, <4>5 DEF Sound
    <3>5. CASE \E b \in Attempts : InFlight(b)
      <4>1. InFlight(a)
        BY <1>7, <3>5 DEF InFlight
      <4>2. ~Running /\ IsResuming(s.record) /\ s.record \in Records /\ s.record # None
            /\ tries <= s.record.failures + 1
        BY <1>1, <1>2, <4>1 DEF InFlight, IsResuming, States
      <4>3. bus = <<>>
        <5>1. /\ Len(bus) \in Nat /\ DOMAIN bus = 1..Len(bus)
              /\ (Len(bus) = 0 => bus = <<>>)
          BY <1>1 DEF EnvOK
        <5>2. \A i \in 1..Len(bus) : FALSE
          BY <1>2, <4>1, <5>1 DEF InFlight
        <5>3. Len(bus) = 0
          <6>1. 1 \notin 1..Len(bus)
            BY <5>2
          <6> QED
            BY <5>1, <6>1
        <5> QED
          BY <5>1, <5>3
      <4>4. s.live = None
        BY <4>2, <4>3 DEF Steady, Sound, LiveEnds, Ending
      <4>5. s.record.failures \in Nat /\ s.record.reason = "limit"
        BY <3>1, <4>2 DEF Steady, Sound, Limits, Records
      <4>6. s'.record = None \/ s'.record = Failed(s.record)
        BY <2>3, <4>2
      <4>7. s'.record # None =>
              /\ s'.record.status = "waiting" /\ s'.record.reason = "limit"
              /\ s'.record.failures = s.record.failures + 1
              /\ s'.record.mode = "auto" => s.record.failures + 1 < MaxFailures
        <5>1. /\ Failed(s.record).status = "waiting" /\ Failed(s.record).reason = "limit"
              /\ Failed(s.record).failures = s.record.failures + 1
              /\ Failed(s.record).mode = IF s.record.failures + 1 >= MaxFailures
                                           THEN "off" ELSE "auto"
          BY <4>2, <4>5 DEF Failed, Records
        <5>2. Failed(s.record).mode = "auto" => s.record.failures + 1 < MaxFailures
          BY <1>1, <4>5, <5>1
        <5> QED
          BY <4>6, <5>1, <5>2
      <4>8. ~IsResuming(s'.record)
        BY <4>7 DEF IsResuming
      <4>9. Over'
        BY <1>2, <2>3, <4>3, <4>4, <4>8 DEF Over
      <4>10. Phase' /\ Limits'
        BY <4>7, <4>9 DEF Phase, Limits
      <4>11. Waiting'
        BY <1>1, <1>2, <4>2, <4>5, <4>7 DEF Waiting, IsAuto
      <4> QED
        BY <1>2, <1>4, <2>4, <3>3, <4>10, <4>11 DEF Sound
    <3> QED
      BY <3>1, <3>4, <3>5 DEF Steady, Sound, Phase
  <2> QED
    BY <2>7, <2>8
<1> QED
  BY <1>2, <1>6, <1>7

\* An event of a turn: a limit counts for the attempt it stopped.
LEMMA ObserveSound ==
  ASSUME Steady, s' \in States, Observe
  PROVE  Sound' /\ tries' = tries
<1>1. /\ s \in States /\ MaxFailures \in Nat /\ MaxFailures > 0 /\ FibresOK /\ EnvOK
      /\ tries \in Nat /\ None \notin Attempts
  BY ResumeTypes DEF Steady
<1>2. /\ bus # <<>> /\ bus' = Tail(bus) /\ mode = "serving"
      /\ UNCHANGED <<pc, manual, saved, owner, last, tries>>
  BY DEF Observe, Steady
<1>3. /\ 1 \in DOMAIN bus /\ Head(bus) = bus[1]
      /\ \A i \in DOMAIN bus' : i \in Nat /\ i >= 1 /\ i + 1 \in DOMAIN bus
                                /\ bus'[i] = bus[i + 1]
  BY <1>1, <1>2, BusTail
<1>4. PICK t \in 1..MaxTurns : t = bus[1][2]
  BY <1>1, <1>2, <1>3, NextEvent
<1>5. /\ Ordered'
      /\ \A u : Ending(u) /\ (bus[1][1] = "started" \/ bus[1][2] # u) => Ending(u)'
      /\ \A u : bus[1] = <<"started", u>> => Ending(u)'
  BY <1>1, <1>2, EndsStill DEF Steady, Sound
<1> DEFINE Begun == bus[1][1] = "started" /\ s' = OnTurnStarted(s, t)
           Gone == bus[1][1] \in {"limit", "ended"} /\ s' = OnTurnEnded(s, t)
           Limited == bus[1][1] = "limit" /\ \E setting \in BOOLEAN :
                        s' = OnTurnEnded(RecordLimit(s, t, setting), t)
<1>6. Begun \/ (Gone /\ turnOf' = turnOf) \/ (Limited /\ turnOf' = turnOf)
  BY <1>2, <1>3, <1>4 DEF Observe, ObserveStarted, ObserveLimit, ObserveEnded
<1>7. \A a \in Attempts : GoingOut(a) => manual[a] /\ tries = 0
  BY <1>2 DEF Steady, Sound, Out
<1>8. CASE Begun
  <2> DEFINE origin == IF s.pending # "none" THEN s.pending
                       ELSE IF s.live # None THEN s.live.origin ELSE "unknown"
             m == [turn |-> t, origin |-> origin]
  <2>1. /\ s'.live = m /\ s'.attempt = s.attempt /\ s'.record = s.record
        /\ s'.holder = s.holder /\ s'.pending = "none"
    <3> DEFINE y == [s EXCEPT !.pending = "none", !.live = m]
    <3>1. s' = [y EXCEPT !.template = y.template \/ s.pending = "user",
                         !.count = IF origin = "user" THEN 0 ELSE y.count,
                         !.running = m]
      BY <1>2, <1>8 DEF OnTurnStarted
    <3> HIDE DEF m, origin
    <3> QED
      BY <1>1, <3>1 DEF States
  <2>2. m.turn = t /\ m.origin = origin
    OBVIOUS
  <2>3. bus[1] = <<"started", t>>
    BY <1>1, <1>3, <1>4, <1>8 DEF EnvOK
  <2>4. LiveEnds'
    BY <1>5, <2>1, <2>2, <2>3 DEF LiveEnds
  <2>5. \A b \in Attempts : GoingOut(b)' => GoingOut(b)
    BY <1>2, <2>1 DEF GoingOut
  <2>6. CASE tries = 0
    <3>1. \A b \in Attempts : GoingOut(b)' => manual'[b]
      BY <1>2, <1>7, <2>5
    <3> QED
      BY <1>1, <1>2, <1>5, <2>4, <2>6, <3>1, ZeroSound
  <2>7. CASE tries # 0
    <3>1. tries > 0
      BY <1>1, <2>7
    <3>2. Out'
      BY <1>7, <2>5, <2>7 DEF Out
    <3>3. ~Over
      BY <1>3, <1>8 DEF Over
    <3>4. PICK a \in Attempts : InFlight(a)
      BY <3>1, <3>3 DEF Steady, Sound, Phase
    <3>5. t = last /\ s.pending = "resume"
      BY <1>3, <1>4, <1>8, <3>4 DEF InFlight
    <3>6. m = [turn |-> last, origin |-> "resume"]
      BY <3>5
    <3>7. turnOf'[a] = last
      <4>1. turnOf[a] = last /\ s.attempt = a
        BY <3>4 DEF InFlight
      <4>2. turnOf' = turnOf \/ turnOf' = [turnOf EXCEPT ![a] = last]
        <5>1. ObserveStarted(t)
          BY <1>3, <1>4, <1>8 DEF Observe
        <5> QED
          BY <3>5, <4>1, <5>1 DEF ObserveStarted
      <4> QED
        BY <1>1, <4>1, <4>2 DEF FibresOK
    <3>8. \A i \in DOMAIN bus' : bus'[i][2] = last /\ bus'[i][1] # "started"
      <4> SUFFICES ASSUME NEW i \in DOMAIN bus'
                   PROVE  bus'[i][2] = last /\ bus'[i][1] # "started"
        OBVIOUS
      <4>1. i + 1 \in DOMAIN bus /\ bus'[i] = bus[i + 1] /\ i + 1 # 1
        BY <1>3
      <4> QED
        BY <3>4, <4>1 DEF InFlight
    <3>9. InFlight(a)'
      BY <1>2, <2>1, <3>4, <3>6, <3>7, <3>8 DEF InFlight, OriginOf
    <3>10. Phase' /\ Waiting' /\ Limits'
      BY <1>2, <2>1, <3>9 DEF Steady, Sound, Phase, Waiting, Limits
    <3> QED
      BY <1>2, <1>5, <2>4, <3>2, <3>10 DEF Sound
  <2> QED
    BY <2>6, <2>7
<1>9. CASE (Gone \/ Limited) /\ turnOf' = turnOf
  <2>1. PICK x \in States :
          /\ s' = OnTurnEnded(x, t) /\ Kept(s, x) /\ x.holder \in {None, s.holder}
          /\ \/ x.record = s.record
             \/ /\ x.record.status = "waiting" /\ x.record.reason = "limit"
                /\ x.record.mode = "auto" => x.record.failures < MaxFailures /\ s.live # None
                /\ /\ s.live # None /\ s.attempt # None
                   /\ s.live.origin = OriginOf(s.attempt) /\ IsResuming(s.record)
                   => x.record.failures = s.record.failures + 1
    <3>1. CASE Gone
      BY <1>1, <3>1 DEF Kept
    <3>2. CASE Limited
      <4>1. PICK setting \in BOOLEAN : s' = OnTurnEnded(RecordLimit(s, t, setting), t)
        BY <3>2
      <4>2. RecordLimit(s, t, setting) \in States
        BY <1>1, LimitKeeps
      <4> QED
        BY <1>1, <4>1, <4>2, LimitFields
    <3> QED
      BY <1>9, <3>1, <3>2
  <2>2. /\ s'.live \in {None, x.live} /\ (x.live # None /\ x.live.turn = t => s'.live = None)
        /\ s'.pending = x.pending
        /\ IF x.attempt # None /\ turnOf[x.attempt] = t
             THEN /\ s'.attempt = None
                  /\ s'.record = IF IsResuming(x.record) THEN None ELSE x.record
                  /\ s'.holder \in {None, x.holder}
             ELSE s'.attempt = x.attempt /\ s'.record = x.record /\ s'.holder = x.holder
    BY <1>2, <2>1, EndedFields
  <2>3. s.live = x.live /\ s.attempt = x.attempt
    BY <2>1 DEF Kept
  <2>4. LiveEnds'
    <3>1. CASE s'.live = None
      BY <3>1 DEF LiveEnds
    <3>2. CASE s'.live # None
      <4>1. s'.live = s.live /\ s.live # None /\ s.live.turn # t
        BY <2>2, <2>3, <3>2
      <4>2. PICK u \in 1..MaxTurns : u = s.live.turn
        BY <1>1, <4>1 DEF States, Markers
      <4>3. Ending(u)
        BY <4>1, <4>2 DEF Steady, Sound, LiveEnds
      <4>4. Ending(u)'
        BY <1>4, <1>5, <4>1, <4>2, <4>3
      <4>5. s'.live.turn = u
        BY <4>1, <4>2
      <4> QED
        BY <4>4, <4>5 DEF LiveEnds, Ending, Ends
    <3> QED
      BY <3>1, <3>2
  <2>5. \A b \in Attempts : GoingOut(b)' => GoingOut(b)
    BY <1>1, <1>2, <2>1, <2>2 DEF GoingOut
  <2>6. CASE tries = 0
    <3>1. \A b \in Attempts : GoingOut(b)' => manual'[b]
      BY <1>2, <1>7, <2>5
    <3> QED
      BY <1>1, <1>2, <1>5, <2>4, <2>6, <3>1, ZeroSound
  <2>7. CASE tries # 0
    <3>1. tries > 0
      BY <1>1, <2>7
    <3>2. Out'
      BY <1>7, <2>5, <2>7 DEF Out
    <3>3. \A i \in DOMAIN bus' : bus'[i][1] # "started"
      <4> SUFFICES ASSUME NEW i \in DOMAIN bus' PROVE bus'[i][1] # "started"
        OBVIOUS
      <4>1. i + 1 \in DOMAIN bus /\ bus'[i] = bus[i + 1] /\ i + 1 # 1
        BY <1>3
      <4> QED
        BY <3>1, <4>1 DEF Steady, Sound, Phase, Over, InFlight
    <3>4. Limits'
      BY <1>2, <2>1, <2>2 DEF Steady, Sound, Limits
    <3>5. CASE Over
      <4>1. s.live = None /\ ~IsResuming(s.record)
        BY <1>7, <2>7, <3>5 DEF Over
      <4>2. ~IsResuming(x.record)
        BY <2>1, <4>1 DEF IsResuming
      <4>3. s'.live = None /\ s'.record = x.record /\ ~IsResuming(s'.record)
        BY <2>2, <2>3, <4>1, <4>2
      <4>4. Phase'
        BY <3>3, <4>3 DEF Phase, Over
      <4>5. Waiting'
        <5>1. CASE x.record = s.record
          BY <1>2, <4>3, <5>1 DEF Steady, Sound, Waiting
        <5>2. CASE x.record.mode # "auto"
          BY <4>3, <5>2 DEF Waiting, IsAuto
        <5> QED
          BY <2>1, <4>1, <5>1, <5>2
      <4> QED
        BY <1>2, <1>5, <2>4, <3>2, <3>4, <4>4, <4>5 DEF Sound
    <3>6. CASE \E a \in Attempts : InFlight(a)
      <4>1. PICK a \in Attempts : InFlight(a)
        BY <3>6
      <4>2. /\ t = last /\ s.attempt = a /\ turnOf[a] = last /\ OriginOf(a) = "resume"
            /\ IsResuming(s.record) /\ tries <= s.record.failures + 1
            /\ s.live \in {None, [turn |-> last, origin |-> "resume"]}
        BY <1>3, <1>4, <4>1 DEF InFlight
      <4>3. s'.live = None
        BY <2>2, <2>3, <4>2
      <4>4. s'.record = IF IsResuming(x.record) THEN None ELSE x.record
        BY <1>1, <2>2, <2>3, <4>2
      <4>5. ~IsResuming(s'.record)
        BY <4>4 DEF IsResuming
      <4>6. Phase'
        BY <3>3, <4>3, <4>5 DEF Phase, Over
      <4>7. Waiting'
        <5> SUFFICES ASSUME IsAuto(s'.record)
                     PROVE  tries <= s'.record.failures /\ tries < MaxFailures
          BY <1>2 DEF Waiting
        <5>1. s'.record = x.record /\ x.record # None /\ x.record.mode = "auto"
          BY <4>4 DEF IsAuto
        <5>2. x.record # s.record
          BY <4>2, <4>4, <5>1
        <5>3. s.live # None /\ x.record.failures < MaxFailures
          BY <2>1, <5>1, <5>2
        <5>4. s.live.origin = OriginOf(s.attempt) /\ s.attempt # None
          BY <1>1, <4>2, <5>3
        <5>5. x.record.failures = s.record.failures + 1
          BY <2>1, <4>2, <5>2, <5>3, <5>4
        <5>6. s.record.failures \in Nat
          BY <1>1, <4>2 DEF IsResuming, States, Records
        <5> QED
          BY <1>1, <4>2, <5>1, <5>3, <5>5, <5>6
      <4> QED
        BY <1>2, <1>5, <2>4, <3>2, <3>4, <4>6, <4>7 DEF Sound
    <3> QED
      BY <3>1, <3>5, <3>6 DEF Steady, Sound, Phase
  <2> QED
    BY <2>6, <2>7
<1> QED
  BY <1>2, <1>6, <1>8, <1>9

\* A process starts again with nothing under way.
LEMMA RecoverSound ==
  ASSUME TypeOK, Token, s' \in States, Recover
  PROVE  Sound'
<1>1. s \in States /\ MaxFailures \in Nat /\ MaxFailures > 0
  BY ResumeTypes
<1>2. /\ bus' = <<>> /\ tries' = 0 /\ \A a \in Attempts : pc'[a] = "none"
  BY DEF Token, Recover, env, fibres
<1>3. PICK x \in Recovered(s) : s' = [x EXCEPT !.timer = IsAuto(x.record)]
  BY DEF Recover
<1>4. s'.live = None
  <2>1. x \in States /\ x.live = s.live
    BY <1>1, <1>3, RecoveredKeeps, RecoveredCounts
  <2>2. s.live = None
    BY DEF Token, Recover
  <2> QED
    BY <1>3, <2>1, <2>2 DEF States
<1>5. Ordered' /\ LiveEnds'
  BY <1>2, <1>4 DEF Ordered, LiveEnds
<1>6. \A a \in Attempts : ~GoingOut(a)'
  BY <1>2 DEF GoingOut
<1> QED
  BY <1>1, <1>2, <1>5, <1>6, ZeroSound

\* The scheduler alone adds to the tries.
LEMMA TriesGrow ==
  ASSUME [Next]_vars
  PROVE  tries' \in {tries, 0} \/ \E a \in Attempts : Launch(a)
<1>1. CASE \E origin \in {"user", "other"} : Message(origin)
  BY <1>1 DEF Message
<1>2. CASE LaunchMessage \/ RefuseMessage \/ TurnLimited \/ TurnEnds \/ Observe
  BY <1>2 DEF LaunchMessage, RefuseMessage, TurnLimited, TurnEnds, Observe, history
<1>3. CASE Stop \/ Dismiss \/ Cancel \/ Schedule \/ UNCHANGED vars
  BY <1>3 DEF Stop, Dismiss, Cancel, Schedule, vars, history
<1>4. CASE \E a \in Attempts : Fire(a) \/ ResumeNow(a) \/ Admit(a) \/ LaunchFails(a) \/ Settled(a)
  BY <1>4 DEF Fire, ResumeNow, Admit, LaunchFails, Rejected, Settled, history
<1>5. CASE BeginShutdown \/ Exit \/ Crash \/ CrashObserving \/ CrashStopping
           \/ Recover \/ CrashRecovering
  BY <1>5 DEF BeginShutdown, Exit, Crash, CrashObserving, CrashStopping, Dies, Recover,
     CrashRecovering, history
<1> QED
  BY <1>1, <1>2, <1>3, <1>4, <1>5, Zenon DEF Next

\* A step of a process that goes on serving.
LEMMA NextSound ==
  ASSUME Steady, s' \in States, mode' = "serving", ~missed', [Next]_vars
  PROVE  Sound'
<1>1. mode = "serving" /\ Sound /\ None \notin Attempts
  BY ResumeTypes DEF Steady
<1>2. CASE \/ \E origin \in {"user", "other"} : Message(origin)
           \/ Stop \/ Dismiss \/ Cancel \/ Schedule
  BY <1>2, UserSound
<1>3. CASE LaunchMessage \/ RefuseMessage \/ TurnLimited \/ TurnEnds
  BY <1>3, TurnSound
<1>4. CASE \E a \in Attempts : Fire(a) \/ ResumeNow(a)
  BY <1>4, AttemptSound
<1>5. CASE \E a \in Attempts : Launch(a)
  BY <1>5, LaunchSound
<1>6. CASE \E a \in Attempts : Settled(a)
  BY <1>6, SettledSound
<1>7. CASE Observe
  BY <1>7, ObserveSound
<1>8. CASE \E a \in Attempts : Admit(a) \/ LaunchFails(a)
  <2>1. PICK a \in Attempts : Admit(a) \/ LaunchFails(a)
    BY <1>8
  <2>2. CASE Admit(a) /\ ~Rejected(a)
    BY <2>2, AdmitSound
  <2>3. CASE Rejected(a)
    <3>1. pc[a] \in {"preparing", "admitted"}
      BY <2>1 DEF Admit, LaunchFails
    <3>2. owner' = owner \/ (owner = "attempt" /\ owner' = "nobody")
      <4>1. CASE Admit(a)
        <5>1. pc'[a] = "none"
          BY <2>3, ResumeTypes, DoneFields DEF Rejected, Steady
        <5>2. pc' # [pc EXCEPT ![a] = "admitted"]
          BY <5>1, ResumeTypes DEF Steady, FibresOK
        <5> QED
          BY <4>1, <5>2 DEF Admit
      <4>2. CASE LaunchFails(a)
        BY <4>2 DEF LaunchFails, Steady, Token
      <4> QED
        BY <2>1, <4>1, <4>2
    <3> QED
      BY <2>3, <3>1, <3>2, RejectedSound
  <2> QED
    BY <2>1, <2>2, <2>3 DEF LaunchFails
<1>9. CASE UNCHANGED vars
  <2>1. /\ UNCHANGED <<s, pc, manual, saved, turnOf, owner, last, bus, tries>>
    BY <1>9 DEF vars, fibres, env, history
  <2>2. Sound' <=> Sound
    BY <2>1 DEF Sound, Ordered, LiveEnds, Ending, Ends, Running, Out, GoingOut, OriginOf,
       Phase, Over, InFlight, Waiting, Limits
  <2> QED
    BY <1>1, <2>2
<1>10. ~(BeginShutdown \/ Exit \/ Crash \/ CrashObserving \/ CrashStopping \/ Recover
         \/ CrashRecovering)
  BY <1>1 DEF BeginShutdown, Exit, Crash, CrashObserving, CrashStopping, Dies, Recover,
     CrashRecovering
<1> QED
  BY <1>2, <1>3, <1>4, <1>5, <1>6, <1>7, <1>8, <1>9, <1>10, Zenon DEF Next

\* The token, which one attempt has at most.
Admitted(a) == pc[a] = "admitted"
OneAdmitted ==
  \A a \in Attempts : Admitted(a) =>
    owner = "attempt" /\ \A b \in Attempts : Admitted(b) => b = a
MessageZero == owner = "message" => tries = 0
DownQuiet ==
  mode = "down" => /\ bus = <<>> /\ tries = 0 /\ s.live = None /\ owner = "nobody"
                   /\ \A a \in Attempts : pc[a] = "none"

LEMMA TokenParts ==
  /\ Token <=> OneAdmitted /\ MessageZero /\ DownQuiet
  /\ Token' <=> OneAdmitted' /\ MessageZero' /\ DownQuiet'
  BY DEF Token, OneAdmitted, MessageZero, DownQuiet, Admitted

LEMMA TokenKept ==
  ASSUME TypeOK, Token, [Next]_vars
  PROVE  Token'
<1>1. s \in States /\ FibresOK /\ None \notin Attempts
  BY ResumeTypes
<1>2. OneAdmitted /\ MessageZero /\ DownQuiet
  BY TokenParts
<1>3. owner # "attempt" => \A a \in Attempts : ~Admitted(a)
  BY <1>2 DEF OneAdmitted
<1>4. CASE \/ \E origin \in {"user", "other"} : Message(origin)
           \/ LaunchMessage \/ RefuseMessage \/ TurnLimited \/ TurnEnds
  <2>1. owner # "attempt" /\ mode # "down" /\ UNCHANGED <<mode, pc>>
    BY <1>2, <1>4 DEF Message, LaunchMessage, RefuseMessage, TurnLimited, TurnEnds, Running,
       DownQuiet, fibres
  <2>2. owner' = "message" => tries' = 0
    BY <1>4 DEF Message, LaunchMessage, RefuseMessage, TurnLimited, TurnEnds
  <2>3. OneAdmitted' /\ MessageZero' /\ DownQuiet'
    BY <1>3, <2>1, <2>2 DEF OneAdmitted, Admitted, MessageZero, DownQuiet
  <2> QED
    BY <2>3, TokenParts
<1>5. CASE \/ Observe \/ Stop \/ Dismiss \/ Cancel \/ Schedule \/ BeginShutdown
  <2>1. UNCHANGED <<owner, pc>> /\ tries' \in {tries, 0} /\ mode # "down" /\ mode' # "down"
    BY <1>5 DEF Observe, Stop, Dismiss, Cancel, Schedule, Choice, BeginShutdown, fibres, env,
       history
  <2>2. OneAdmitted' /\ MessageZero' /\ DownQuiet'
    BY <1>2, <2>1 DEF OneAdmitted, Admitted, MessageZero, DownQuiet
  <2> QED
    BY <2>2, TokenParts
<1>6. CASE \E a \in Attempts : Fire(a) \/ ResumeNow(a) \/ Settled(a)
  <2>1. PICK a \in Attempts : Fire(a) \/ ResumeNow(a) \/ Settled(a)
    BY <1>6
  <2>2. UNCHANGED <<owner, mode>> /\ tries' \in {tries, 0}
    BY <2>1 DEF Fire, ResumeNow, Settled, env, history
  <2>3. mode # "down"
    BY <1>2, <2>1 DEF Fire, ResumeNow, Choice, Settled, DownQuiet
  <2>4. \/ pc' = pc
        \/ \E v \in {"preparing", "none"} : pc' = [pc EXCEPT ![a] = v]
    BY <2>1 DEF Fire, ResumeNow, Settled, Attempt, Done, fibres
  <2>5. \A b \in Attempts : Admitted(b)' => Admitted(b)
    BY <1>1, <2>4 DEF FibresOK, Admitted
  <2>6. OneAdmitted' /\ MessageZero' /\ DownQuiet'
    BY <1>2, <2>2, <2>3, <2>5 DEF OneAdmitted, MessageZero, DownQuiet
  <2> QED
    BY <2>6, TokenParts
<1>7. CASE \E a \in Attempts : Admit(a) \/ Launch(a) \/ LaunchFails(a)
  <2>1. PICK a \in Attempts : Admit(a) \/ Launch(a) \/ LaunchFails(a)
    BY <1>7
  <2>2. mode # "down" /\ mode' = mode
    BY <1>2, <2>1 DEF Admit, Launch, LaunchFails, Rejected, DownQuiet
  <2>3. MessageZero' /\ DownQuiet'
    BY <1>2, <2>1, <2>2 DEF MessageZero, DownQuiet, Admit, Launch, LaunchFails, Rejected, history
  <2>4. \/ \E v \in {"none", "running"} : /\ pc' = [pc EXCEPT ![a] = v]
                                          /\ Admitted(a) \/ owner' = owner
        \/ /\ owner = "nobody" /\ owner' = "attempt"
           /\ pc' = [pc EXCEPT ![a] = "admitted"]
    BY <2>1 DEF Admit, Launch, LaunchFails, Rejected, Done, Admitted
  <2>5. CASE \E v \in {"none", "running"} : /\ pc' = [pc EXCEPT ![a] = v]
                                            /\ Admitted(a) \/ owner' = owner
    <3>1. \A b \in Attempts : Admitted(b)' => Admitted(b) /\ b # a
      BY <1>1, <2>5 DEF FibresOK, Admitted
    <3>2. OneAdmitted'
      BY <1>2, <2>5, <3>1 DEF OneAdmitted
    <3> QED
      BY <2>3, <3>2, TokenParts
  <2>6. CASE /\ owner = "nobody" /\ owner' = "attempt"
             /\ pc' = [pc EXCEPT ![a] = "admitted"]
    <3>1. \A b \in Attempts : Admitted(b)' => Admitted(b) \/ b = a
      BY <1>1, <2>6 DEF FibresOK, Admitted
    <3>2. OneAdmitted'
      BY <1>3, <2>6, <3>1 DEF OneAdmitted
    <3> QED
      BY <2>3, <3>2, TokenParts
  <2> QED
    BY <2>4, <2>5, <2>6
<1>8. CASE Exit \/ Crash \/ CrashObserving \/ CrashStopping
  <2>1. PICK x \in States : Dies(x)
    <3>1. CASE Exit \/ Crash
      BY <1>1, <3>1 DEF Exit, Crash
    <3>2. CASE CrashStopping
      BY <1>1, <3>2, DropKeeps DEF CrashStopping
    <3>3. CASE CrashObserving
      <4>1. Head(bus)[2] \in 1..MaxTurns
        BY <3>3, ResumeTypes, NextEvent DEF CrashObserving
      <4>2. CASE \E setting \in BOOLEAN : Dies(RecordLimit(s, Head(bus)[2], setting))
        BY <1>1, <4>1, <4>2, LimitKeeps
      <4>3. CASE Dies(ClearMarker(s, s.record # None))
        <5>1. PICK b \in BOOLEAN : b <=> s.record # None
          OBVIOUS
        <5>2. ClearMarker(s, b) = ClearMarker(s, s.record # None)
          BY <5>1 DEF ClearMarker
        <5> QED
          BY <1>1, <4>3, <5>2, ClearKeeps
      <4> QED
        BY <3>3, <4>2, <4>3 DEF CrashObserving
    <3> QED
      BY <1>8, <3>1, <3>2, <3>3
  <2>2. s'.live = None
    BY <2>1 DEF Dies, States
  <2>3. OneAdmitted' /\ MessageZero' /\ DownQuiet'
    BY <2>1, <2>2 DEF Dies, OneAdmitted, Admitted, MessageZero, DownQuiet
  <2> QED
    BY <2>3, TokenParts
<1>9. CASE Recover
  <2>1. UNCHANGED <<owner, pc, tries>> /\ mode' = "serving"
    BY <1>9 DEF Recover, env, fibres
  <2>2. OneAdmitted' /\ MessageZero' /\ DownQuiet'
    BY <1>2, <2>1 DEF OneAdmitted, Admitted, MessageZero, DownQuiet
  <2> QED
    BY <2>2, TokenParts
<1>10. CASE CrashRecovering \/ UNCHANGED vars
  <2>1. UNCHANGED <<mode, owner, pc, tries, bus>> /\ s'.live = s.live
    <3>1. CASE CrashRecovering
      BY <1>1, <3>1 DEF CrashRecovering, env, fibres, States
    <3>2. CASE UNCHANGED vars
      BY <3>2 DEF vars, env, fibres, history
    <3> QED
      BY <1>10, <3>1, <3>2
  <2>2. OneAdmitted' /\ MessageZero' /\ DownQuiet'
    BY <1>2, <2>1 DEF OneAdmitted, Admitted, MessageZero, DownQuiet
  <2> QED
    BY <2>2, TokenParts
<1> QED
  BY <1>4, <1>5, <1>6, <1>7, <1>8, <1>9, <1>10, Zenon DEF Next

\* An end that was missed stays missed.
LEMMA MissedStays ==
  ASSUME [Next]_vars, missed
  PROVE  missed'
<1>1. CASE \E origin \in {"user", "other"} : Message(origin)
  BY <1>1 DEF Message
<1>2. CASE LaunchMessage \/ RefuseMessage \/ TurnLimited \/ TurnEnds \/ Observe
  BY <1>2 DEF LaunchMessage, RefuseMessage, TurnLimited, TurnEnds, Observe, history
<1>3. CASE Stop \/ Dismiss \/ Cancel \/ Schedule \/ UNCHANGED vars
  BY <1>3 DEF Stop, Dismiss, Cancel, Schedule, vars, history
<1>4. CASE \E a \in Attempts : \/ Fire(a) \/ ResumeNow(a) \/ Admit(a) \/ Launch(a)
                               \/ LaunchFails(a) \/ Settled(a)
  BY <1>4 DEF Fire, ResumeNow, Admit, Launch, LaunchFails, Rejected, Settled, history
<1>5. CASE BeginShutdown \/ Exit \/ Crash \/ CrashObserving \/ CrashStopping
           \/ Recover \/ CrashRecovering
  BY <1>5 DEF BeginShutdown, Exit, Crash, CrashObserving, CrashStopping, Dies, Recover,
     CrashRecovering, history
<1> QED
  BY <1>1, <1>2, <1>3, <1>4, <1>5, Zenon DEF Next

LEMMA GiveUpInductive == ResumeInv /\ GiveUpInv /\ [Next]_vars => GiveUpInv'
<1> SUFFICES ASSUME ResumeInv, GiveUpInv, [Next]_vars PROVE GiveUpInv'
  OBVIOUS
<1>1. /\ TypeOK /\ Counts /\ Started /\ Heeded /\ Token /\ GivesUp /\ Told
      /\ tries \in Nat /\ MaxFailures \in Nat /\ missed \in BOOLEAN
  BY ResumeTypes DEF ResumeInv, GiveUpInv
<1>2. s' \in States
  BY <1>1, HeededInductive
<1>3. Token'
  BY <1>1, TokenKept
<1>4. Told'
  <2> SUFFICES ASSUME mode' = "serving", ~missed' PROVE Sound'
    BY DEF Told
  <2>1. ~missed
    BY MissedStays
  <2>2. CASE mode = "serving"
    BY <1>1, <1>2, <2>1, <2>2, NextSound DEF Told, Steady
  <2>3. CASE mode # "serving"
    <3>1. Recover
      <4>1. CASE \E origin \in {"user", "other"} : Message(origin)
        BY <2>3, <4>1 DEF Message
      <4>2. CASE LaunchMessage \/ RefuseMessage \/ TurnLimited \/ TurnEnds \/ Observe
        BY <2>3, <4>2 DEF LaunchMessage, RefuseMessage, TurnLimited, TurnEnds, Observe
      <4>3. CASE Stop \/ Dismiss \/ Cancel \/ Schedule \/ UNCHANGED vars
        BY <2>3, <4>3 DEF Stop, Dismiss, Cancel, Schedule, vars
      <4>4. CASE \E a \in Attempts : \/ Fire(a) \/ ResumeNow(a) \/ Admit(a) \/ Launch(a)
                                     \/ LaunchFails(a) \/ Settled(a)
        BY <2>3, <4>4 DEF Fire, ResumeNow, Admit, Launch, LaunchFails, Rejected, Settled
      <4>5. CASE BeginShutdown \/ Exit \/ Crash \/ CrashObserving \/ CrashStopping
                 \/ CrashRecovering
        BY <2>3, <4>5 DEF BeginShutdown, Exit, Crash, CrashObserving, CrashStopping, Dies,
           CrashRecovering
      <4> QED
        BY <4>1, <4>2, <4>3, <4>4, <4>5, Zenon DEF Next
    <3> QED
      BY <1>1, <1>2, <3>1, RecoverSound
  <2> QED
    BY <2>2, <2>3
<1>5. GivesUp'
  <2> SUFFICES ASSUME ~missed' PROVE tries' <= MaxFailures
    BY DEF GivesUp
  <2>1. ~missed
    BY MissedStays
  <2>2. CASE tries' \in {tries, 0}
    BY <1>1, <2>1, <2>2 DEF GivesUp
  <2>3. CASE \E a \in Attempts : Launch(a)
    <3>1. PICK a \in Attempts : Launch(a)
      BY <2>3
    <3>2. mode = "serving"
      BY <3>1 DEF Launch, Guard
    <3>3. Steady
      BY <1>1, <2>1, <3>2 DEF Told, Steady
    <3>4. tries' = tries \/ (tries' = tries + 1 /\ tries < MaxFailures)
      BY <1>2, <3>1, <3>3, LaunchSound
    <3> QED
      BY <1>1, <2>1, <3>4 DEF GivesUp
  <2> QED
    BY <2>2, <2>3, TriesGrow
<1> QED
  BY <1>3, <1>4, <1>5 DEF GiveUpInv

\* As long as every turn ends with an event, a chat that stops at the limit again is
\* resumed MaxFailures times in a row and then no more, unless the user asks.
THEOREM LimitsGiveUp == Spec => []GivesUp
<1>1. Init => GiveUpInv
  <2>1. ASSUME Init PROVE GiveUpInv
    <3>1. /\ s.live = None /\ s.holder = None /\ s.record = None /\ bus = <<>> /\ tries = 0
          /\ mode = "serving" /\ owner = "nobody" /\ \A a \in Attempts : pc[a] = "none"
      BY <2>1 DEF Init
    <3>2. Token
      BY <3>1 DEF Token
    <3>3. GivesUp
      BY <3>1, ResumeAssumption DEF GivesUp
    <3>4. Sound
      BY <3>1 DEF Sound, Ordered, LiveEnds, Out, GoingOut, Phase, Waiting, IsAuto, Limits
    <3> QED
      BY <3>2, <3>3, <3>4 DEF GiveUpInv, Told
  <2> QED
    BY <2>1
<1>2. ResumeInv /\ GiveUpInv /\ [Next]_vars => GiveUpInv'
  BY GiveUpInductive
<1>3. GiveUpInv => GivesUp
  BY DEF GiveUpInv
<1> QED
  BY <1>1, <1>2, <1>3, ResumeInductive, PTL DEF Spec

=============================================================================
