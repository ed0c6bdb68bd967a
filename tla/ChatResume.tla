------------------------------ MODULE ChatResume ------------------------------
(***************************************************************************)
(* services/chat/resume-scheduler.ts: the scheduler that resumes one chat  *)
(* after a usage limit or a restart of the backend, with its policy        *)
(* (resume-policy.ts) and what it keeps with the chat (resume-store.ts).   *)
(*                                                                         *)
(* It learns of the chat's turns from the projected events of the pipeline,*)
(* which come in order but, while SQLite is busy, later than the hub has   *)
(* settled the turn; and of the user from dispatches, Stop and the choices *)
(* of POST /chat/resume.  Its own turn is a fibre through dispatchChatTurn,*)
(* guarded by a generation.  A crash may fall between any two of its       *)
(* writes; the chat's turn token and its turns are the environment.        *)
(***************************************************************************)
EXTENDS Naturals, Sequences

CONSTANTS
  Attempts,          \* dispatches of the scheduler that may be in flight
  None,
  MaxFailures,       \* THREAD_RESUME_MAX_FAILURES
  MaxContinuations,  \* MAX_RESTART_CONTINUATIONS
  MaxTurns,          \* bound: turns of the chat
  MaxCrashes,        \* bound: ends of the process, by a crash or a quit
  MaxChoices         \* bound: messages, Stops and choices of the user

ASSUME ResumeAssumption ==
  /\ None \notin Attempts
  /\ MaxFailures \in Nat \ {0} /\ MaxContinuations \in Nat
  /\ MaxTurns \in Nat /\ MaxCrashes \in Nat /\ MaxChoices \in Nat

VARIABLES
  mode,      \* the process: "down", "serving" or "draining"
  s,         \* the scheduler's state, see Init
  pc,        \* attempt -> where its dispatch is
  manual,    \* attempt -> options.manual
  saved,     \* attempt -> the record it started from
  turnOf,    \* attempt -> attempt.turnId, 0 for none
  owner,     \* who has the chat's turn token
  last,      \* turns launched; while owner is "turn" this is the one running
  bus,       \* projected events on their way, as <<type, turn>>
  crashes, choices,
  declined,  \* history: the user stopped the chat at this turn
  cause,     \* history: the turn whose limit or death the record stands for
  late,      \* history: an event of a declined turn was observed
  unwanted,  \* history: a declined turn was resumed
  inARow,    \* history: starts in a row that continued a turn cut off by a restart
  lost,      \* history: such a continuation was running when the process died
  unseen,    \* history: deaths that no count can know of
  tries,     \* history: turns in a row the scheduler sent at a limit, and a limit stopped
  missed,    \* history: a turn ended with no event
  kept,      \* history: a Stop came during the shutdown, which keeps the marker
  archived   \* history: the schedule found its chat archived

env     == <<owner, last, bus>>
fibres  == <<pc, manual, saved, turnOf>>
budget  == <<crashes, choices>>
history == <<declined, cause, late, unwanted, inARow, lost, unseen, tries, missed, kept, archived>>
vars    == <<mode, s, fibres, env, budget, history>>

Records == [reason : {"limit", "restart"}, mode : {"auto", "off"},
            status : {"waiting", "resuming"}, failures : Nat]

\* None stands for null.
ASSUME NoneIsNoRecord == None \notin Records

Origins == {"user", "other", "resume", "restart", "unknown"}
Markers == [turn : 1..MaxTurns, origin : Origins]

\* What is kept with the chat: the record, the running marker, the count of
\* restart continuations, and whether there are settings to resume with; then
\* the maps of the process, with `holder` the attempt whose generation is the
\* current one.
Init ==
  /\ mode = "serving"
  /\ s = [record |-> None, running |-> None, count |-> 0, template |-> FALSE,
          timer |-> FALSE, holder |-> None, attempt |-> None, live |-> None,
          pending |-> "none", recent |-> 0]
  /\ pc = [a \in Attempts |-> "none"]
  /\ manual = [a \in Attempts |-> FALSE]
  /\ saved = [a \in Attempts |-> None]
  /\ turnOf = [a \in Attempts |-> 0]
  /\ owner = "nobody" /\ last = 0 /\ bus = <<>>
  /\ crashes = 0 /\ choices = 0
  /\ declined = 0 /\ cause = 0 /\ late = FALSE /\ unwanted = FALSE
  /\ inARow = 0 /\ lost = FALSE /\ unseen = 0
  /\ tries = 0 /\ missed = FALSE /\ kept = FALSE /\ archived = FALSE

-----------------------------------------------------------------------------
(* Helpers of the scheduler                                                 *)

IsAuto(r) == r # None /\ r.mode = "auto" /\ r.status = "waiting"
IsResuming(r) == r # None /\ r.status = "resuming"
Resumable == {"user", "resume", "restart"}
OriginOf(a) == IF saved[a].reason = "restart" THEN "restart" ELSE "resume"

\* arm: a timer for a record that waits to go out by itself.
Arm(x) == [x EXCEPT !.timer = mode = "serving" /\ IsAuto(x.record)]

\* drop: bump, cancelTimer, and the record is removed.
Drop(x) == [x EXCEPT !.timer = FALSE, !.holder = None, !.record = None]

\* clearRunningMarker.
ClearMarker(x, keepTemplate) ==
  IF x.running = None /\ keepTemplate THEN x
  ELSE [x EXCEPT !.running = None, !.template = @ /\ keepTemplate]

\* afterFailedAttempt.
Failed(r) ==
  [r EXCEPT !.mode = IF r.failures + 1 >= MaxFailures THEN "off" ELSE "auto",
            !.status = "waiting", !.failures = @ + 1]

\* noteDispatch, of a turn that is not the scheduler's own.
Noted(x, origin) == Drop([x EXCEPT !.pending = origin])

-----------------------------------------------------------------------------
(* Turns of the chat                                                        *)

\* A message of the user, or a turn of a goal or a worker, has reserved the
\* token: it continues the chat instead.
Message(origin) ==
  /\ mode # "down" /\ owner = "nobody" /\ choices < MaxChoices
  /\ choices' = choices + 1
  /\ owner' = "message"
  /\ s' = Noted(s, origin)
  /\ IF origin = "user" THEN inARow' = 0 /\ unseen' = 0 ELSE UNCHANGED <<inARow, unseen>>
  /\ UNCHANGED <<mode, fibres, last, bus, crashes, declined, cause, late, unwanted, lost, missed, kept, archived>>
  /\ tries' = 0

\* Its turn starts, with or without a turn.started ...
LaunchMessage ==
  /\ owner = "message" /\ last < MaxTurns
  /\ owner' = "turn" /\ last' = last + 1
  /\ bus' \in {bus, Append(bus, <<"started", last + 1>>)}
  /\ UNCHANGED <<mode, s, fibres, budget, history>>

\* ... or fails to.
RefuseMessage ==
  /\ owner = "message"
  /\ owner' = "nobody"
  /\ UNCHANGED <<mode, s, fibres, last, bus, budget, history>>

\* A runtime error reports the limit before the turn ends.
TurnLimited ==
  /\ owner = "turn"
  /\ owner' = "limited" /\ bus' = Append(bus, <<"limit", last>>)
  /\ UNCHANGED <<mode, s, fibres, last, budget, history>>

\* The hub settles the turn: ended, failed at a limit, or with no event.
Running == owner \in {"turn", "limited"}

TurnEnds ==
  /\ Running
  /\ owner' = "nobody"
  /\ bus' \in {bus} \cup {Append(bus, <<e, last>>) : e \in {"ended", "limit"}}
  /\ tries' = IF owner = "limited" \/ (bus' # bus /\ bus'[Len(bus')][1] = "limit") THEN tries ELSE 0
  /\ missed' = (missed \/ bus' = bus)
  /\ UNCHANGED <<mode, s, fibres, last, budget, declined, cause, late, unwanted, inARow, lost, unseen, kept, archived>>

\* onTurnStarted.
OnTurnStarted(x, t) ==
  LET origin == IF x.pending # "none" THEN x.pending
                ELSE IF x.live # None THEN x.live.origin ELSE "unknown"
      y == [x EXCEPT !.pending = "none", !.live = [turn |-> t, origin |-> origin]]
  IN IF mode = "draining" THEN y
     ELSE [y EXCEPT !.template = @ \/ x.pending = "user",
                    !.count = IF origin = "user" THEN 0 ELSE @,
                    !.running = [turn |-> t, origin |-> origin]]

ObserveStarted(t) ==
  LET next == OnTurnStarted(s, t)
      a == s.attempt
      own == a # None /\ pc[a] # "none" /\ turnOf[a] = 0 /\ next.live.origin = OriginOf(a)
  IN /\ s' = next
     /\ turnOf' = IF own THEN [turnOf EXCEPT ![a] = t] ELSE turnOf
     /\ UNCHANGED cause

\* onTurnEnded.  A turn of the scheduler that ran takes its record along, unless
\* a limit has armed it again.
OnTurnEnded(x, t) ==
  LET a == x.attempt
      y == ClearMarker([x EXCEPT !.live = IF @ # None /\ @.turn = t THEN None ELSE @],
                       x.record # None)
      z == [y EXCEPT !.attempt = None]
  IN IF mode = "draining" THEN x
     ELSE IF a = None \/ turnOf[a] # t THEN y
     ELSE IF IsResuming(x.record) THEN Drop(z) ELSE z

\* recordLimit.  A second report of the same turn changes nothing but the time;
\* failures carry over if the turn was the scheduler's own.
LimitKey(x, t) == IF x.live # None THEN x.live.turn ELSE t
SecondReport(x, t) ==
  /\ x.recent = LimitKey(x, t)
  /\ x.record # None /\ x.record.reason = "limit" /\ x.record.status = "waiting"

\* Wrong: a limit of the scheduler's own turn starts its failures afresh.
RecordLimitAfresh(x, t, setting) ==
  LET origin == IF x.live # None THEN x.live.origin ELSE "unknown"
      template == x.template \/ x.pending = "user"
      auto == setting /\ origin \in Resumable /\ template
  IN Arm([x EXCEPT !.recent = LimitKey(x, t), !.template = template, !.holder = None,
                   !.record = [reason |-> "limit", mode |-> IF auto THEN "auto" ELSE "off",
                               status |-> "waiting", failures |-> 0]])

RecordLimit(x, t, setting) ==
  LET origin == IF x.live # None THEN x.live.origin ELSE "unknown"
      again == x.attempt # None /\ origin = OriginOf(x.attempt) /\ IsResuming(x.record)
      failures == IF again THEN x.record.failures + 1 ELSE 0
      template == x.template \/ x.pending = "user"
      auto == setting /\ origin \in Resumable /\ template /\ failures < MaxFailures
  IN Arm([x EXCEPT !.recent = LimitKey(x, t), !.template = template, !.holder = None,
                   !.record = [reason |-> "limit", mode |-> IF auto THEN "auto" ELSE "off",
                               status |-> "waiting", failures |-> failures]])

\* onTurnError: the limit is recorded, then the turn is over.
ObserveLimit(t) ==
  /\ \/ mode = "draining" /\ s' = OnTurnEnded(s, t) /\ UNCHANGED cause
     \/ mode = "serving" /\ SecondReport(s, t) /\ s' = OnTurnEnded(s, t) /\ UNCHANGED cause
     \/ /\ mode = "serving" /\ ~SecondReport(s, t)
        /\ \E setting \in BOOLEAN : s' = OnTurnEnded(RecordLimit(s, t, setting), t)
        /\ cause' = t
  /\ UNCHANGED turnOf

ObserveEnded(t) ==
  /\ s' = OnTurnEnded(s, t)
  /\ UNCHANGED <<turnOf, cause>>

\* observe, of the next projected event.
Observe ==
  /\ mode # "down" /\ bus # <<>>
  /\ LET type == Head(bus)[1]  t == Head(bus)[2]
     IN /\ \/ type = "started" /\ ObserveStarted(t)
           \/ type = "limit" /\ ObserveLimit(t)
           \/ type = "ended" /\ ObserveEnded(t)
        /\ late' = (late \/ (type # "ended" /\ t <= declined))
  /\ bus' = Tail(bus)
  /\ UNCHANGED <<mode, pc, manual, saved, owner, last, budget, declined, unwanted,
                 inARow, lost, unseen, tries, missed, kept, archived>>

-----------------------------------------------------------------------------
(* The user                                                                 *)

\* A request let in before the shutdown may be handled during it.
Choice == mode # "down" /\ choices < MaxChoices /\ choices' = choices + 1

\* noteUserStop: "nothing of this chat continues by itself".  But markers stay
\* once the shutdown has begun.
Stop ==
  /\ Choice
  /\ LET x == [Drop(s) EXCEPT !.attempt = None]
     IN s' = IF mode = "serving" THEN ClearMarker(x, FALSE) ELSE x
  /\ declined' = last
  /\ kept' = (kept \/ (mode = "draining" /\ s.running # None))
  /\ tries' = 0
  /\ UNCHANGED <<mode, fibres, env, crashes, cause, late, unwanted, inARow, lost, unseen, missed, archived>>

\* control: "Don't resume", which removes the record ...
Dismiss ==
  /\ Choice /\ s.record # None
  /\ s' = Drop(s)
  /\ UNCHANGED <<mode, fibres, env, crashes, declined, cause, late, unwanted, inARow, lost, unseen, missed, kept, archived>>
  /\ tries' = 0

\* ... no schedule any more ...
Cancel ==
  /\ Choice /\ s.record # None /\ s.record.status = "waiting"
  /\ s' = [s EXCEPT !.holder = None, !.timer = FALSE, !.record.mode = "off"]
  /\ UNCHANGED <<mode, fibres, env, crashes, declined, cause, late, unwanted, inARow, lost, unseen, missed, kept, archived>>
  /\ tries' = 0

\* ... or a schedule again.
Schedule ==
  /\ Choice /\ s.record # None /\ s.record.status = "waiting"
  /\ s' = Arm([s EXCEPT !.holder = None, !.record.mode = "auto", !.record.failures = 0])
  /\ declined' = 0 /\ tries' = 0
  /\ UNCHANGED <<mode, fibres, env, crashes, cause, late, unwanted, inARow, lost, unseen, missed, kept, archived>>

-----------------------------------------------------------------------------
(* An attempt                                                               *)

\* A dispatch that is not in flight, if there is one.
Free == CHOOSE a \in Attempts \cup {None} :
          IF \E b \in Attempts : pc[b] = "none" THEN a # None /\ pc[a] = "none" ELSE a = None

\* The dispatch has returned.
Done(a) ==
  /\ pc' = [pc EXCEPT ![a] = "none"]
  /\ manual' = [manual EXCEPT ![a] = FALSE]
  /\ saved' = [saved EXCEPT ![a] = None]
  /\ turnOf' = [turnOf EXCEPT ![a] = 0]

\* attempt, up to its first await: it takes the generation and the timer, and
\* is refused, or goes out.
Attempt(a, byUser) ==
  LET x == [s EXCEPT !.holder = None, !.timer = FALSE]
      template == s.template \/ s.pending = "user"
  IN \/ /\ IF byUser THEN s' = Arm(x)                     \* auto-save is off, or the chat is busy
           ELSE s' = Arm([x EXCEPT !.record = Failed(@)])
        /\ UNCHANGED fibres
     \/ /\ ~template                                      \* no settings to resume with
        /\ IF byUser THEN s' = Arm(x) ELSE s' = [x EXCEPT !.record.mode = "off"]
        /\ UNCHANGED fibres
     \/ /\ template /\ owner = "nobody"
        /\ s' = [x EXCEPT !.holder = a, !.attempt = a,
                          !.record.mode = "auto", !.record.status = "resuming"]
        /\ pc' = [pc EXCEPT ![a] = "preparing"]
        /\ manual' = [manual EXCEPT ![a] = byUser]
        /\ saved' = [saved EXCEPT ![a] = s.record]
        /\ turnOf' = [turnOf EXCEPT ![a] = 0]

\* Retention has archived the chat, days after its last turn: hasThread fails.
\* Nothing restores it, and recover passes over it.
Unused == owner = "nobody" /\ bus = <<>> /\ \A a \in Attempts : pc[a] = "none"

\* The schedule is due, long after the events of the turns that are over.
Fire(a) ==
  /\ mode = "serving" /\ s.timer /\ a = Free /\ (Running \/ bus = <<>>)
  /\ \/ IsAuto(s.record) /\ Attempt(a, FALSE) /\ UNCHANGED archived
     \/ /\ IsAuto(s.record) => Unused
        /\ s' = [s EXCEPT !.timer = FALSE] /\ UNCHANGED fibres
        /\ archived' = IsAuto(s.record)
  /\ UNCHANGED <<mode, env, budget, declined, cause, late, unwanted, inARow, lost, unseen,
                 tries, missed, kept>>

\* "Resume now".
ResumeNow(a) ==
  /\ Choice /\ a = Free
  /\ s.record # None /\ s.record.status = "waiting"
  /\ Attempt(a, TRUE)
  /\ declined' = 0 /\ tries' = 0
  /\ UNCHANGED <<mode, env, crashes, cause, late, unwanted, inARow, lost, unseen, missed, kept, archived>>

\* Wrong: the guard asks for a shutdown alone.
GuardOfShutdown(a) == mode = "serving" /\ a \in Attempts

\* The guard of an attempt: no shutdown, and still its generation.
Guard(a) == mode = "serving" /\ s.holder = a

\* Wrong: a failed attempt is saved for later, and no timer set.
RejectedUnarmed(a) ==
  LET x == [s EXCEPT !.attempt = IF @ = a THEN None ELSE @]
  IN /\ s' = IF ~Guard(a) THEN x
             ELSE [x EXCEPT !.record = IF manual[a] THEN saved[a] ELSE Failed(saved[a])]
     /\ Done(a)
     /\ UNCHANGED <<mode, last, bus, budget, history>>

\* The catch of attempt: cancelled meanwhile, it changes nothing; otherwise the
\* user gets the record back, and a failed schedule is tried again later.
Rejected(a) ==
  LET x == [s EXCEPT !.attempt = IF @ = a THEN None ELSE @]
  IN /\ s' = IF ~Guard(a) THEN x
             ELSE Arm([x EXCEPT !.record = IF manual[a] THEN saved[a] ELSE Failed(saved[a])])
     /\ Done(a)
     /\ UNCHANGED <<mode, last, bus, budget, history>>

\* dispatchChatTurn reserves the token and asks the guard.
Admit(a) ==
  /\ pc[a] = "preparing"
  /\ \/ /\ Guard(a) /\ owner = "nobody"
        /\ owner' = "attempt"
        /\ s' = IF s.attempt = a THEN [s EXCEPT !.pending = OriginOf(a)] ELSE Noted(s, "other")
        /\ pc' = [pc EXCEPT ![a] = "admitted"]
        /\ UNCHANGED <<mode, manual, saved, turnOf, last, bus, budget, history>>
     \/ Rejected(a) /\ UNCHANGED owner

\* After its last await dispatchChatTurn asks the guard again, and the hub
\* starts the turn.
Launch(a) ==
  /\ pc[a] = "admitted" /\ Guard(a) /\ last < MaxTurns
  /\ owner' = "turn" /\ last' = last + 1
  /\ bus' \in {bus, Append(bus, <<"started", last + 1>>)}
  /\ pc' = [pc EXCEPT ![a] = "running"]
  /\ turnOf' = [turnOf EXCEPT ![a] = last + 1]
  /\ unwanted' = (unwanted \/ (declined # 0 /\ cause <= declined))
  /\ tries' = IF ~manual[a] /\ OriginOf(a) = "resume" THEN tries + 1 ELSE tries
  /\ UNCHANGED <<mode, s, manual, saved, budget, declined, cause, late, inARow, lost, unseen, missed, kept, archived>>

LaunchFails(a) ==
  /\ pc[a] = "admitted"
  /\ owner' = "nobody"
  /\ Rejected(a)

\* settled, a grace period after the turn: its end event normally decided.
Settled(a) ==
  /\ pc[a] = "running" /\ ~(Running /\ last = turnOf[a])
  /\ \A i \in 1..Len(bus) : bus[i][2] # turnOf[a]
  /\ Done(a)
  /\ IF mode = "draining" \/ s.attempt # a THEN UNCHANGED s
     ELSE LET x == [s EXCEPT !.attempt = None]
          IN IF ~IsResuming(s.record) THEN s' = x
             ELSE s' \in {Drop(x), Arm([x EXCEPT !.record = Failed(@)])}
  /\ UNCHANGED <<mode, env, budget, history>>

-----------------------------------------------------------------------------
(* The process                                                              *)

\* beginShutdown: no resume goes out any more, and markers stay.
BeginShutdown ==
  /\ mode = "serving" /\ crashes < MaxCrashes
  /\ crashes' = crashes + 1
  /\ mode' = "draining"
  /\ s' = [s EXCEPT !.timer = FALSE]
  /\ UNCHANGED <<fibres, env, choices, history>>

\* A turn that continues the chat after a restart is running.
Continuing(x) ==
  /\ IsResuming(x.record) /\ x.record.reason = "restart"
  /\ x.attempt # None /\ pc[x.attempt] = "running"

\* The process ends, and of x only what is kept with the chat is left.
Dies(x) ==
  /\ mode' = "down"
  /\ s' = [x EXCEPT !.timer = FALSE, !.holder = None, !.attempt = None, !.live = None,
                    !.pending = "none", !.recent = 0]
  /\ pc' = [a \in Attempts |-> "none"]
  /\ manual' = [a \in Attempts |-> FALSE]
  /\ saved' = [a \in Attempts |-> None]
  /\ turnOf' = [a \in Attempts |-> 0]
  /\ owner' = "nobody" /\ bus' = <<>>
  /\ lost' = Continuing(x)
  /\ unseen' = IF Continuing(x) /\ x.running = None THEN unseen + 1 ELSE unseen
  /\ tries' = 0
  /\ UNCHANGED <<last, choices, declined, unwanted, inARow, missed, kept, archived>>

Exit ==
  /\ mode = "draining"
  /\ Dies(s)
  /\ UNCHANGED <<crashes, cause, late>>

Crash ==
  /\ mode # "down" /\ crashes < MaxCrashes
  /\ crashes' = crashes + 1
  /\ Dies(s)
  /\ UNCHANGED <<cause, late>>

\* A crash between two writes: of an end (the marker before the record), of a
\* limit (the record before the marker), or of a Stop.
CrashObserving ==
  /\ mode = "serving" /\ crashes < MaxCrashes /\ bus # <<>>
  /\ crashes' = crashes + 1
  /\ LET type == Head(bus)[1]  t == Head(bus)[2]
     IN \/ /\ type = "ended"
           /\ Dies(ClearMarker(s, s.record # None))
           /\ UNCHANGED <<cause, late>>
        \/ /\ type = "limit" /\ ~SecondReport(s, t)
           /\ \E setting \in BOOLEAN : Dies(RecordLimit(s, t, setting))
           /\ cause' = t
           /\ late' = (late \/ t <= declined)

CrashStopping ==
  /\ mode = "serving" /\ crashes < MaxCrashes
  /\ crashes' = crashes + 1
  /\ Dies(Drop(s))
  /\ UNCHANGED <<cause, late>>

\* Wrong: a continuation cut off again is not counted.
CutOffAgainUncounted(x) == [x EXCEPT !.running = None, !.record.status = "waiting"]

\* recover, of a turn the scheduler had sent and that was cut off: it goes out
\* again, unless restarts have interrupted the chat too often.
CutOffAgain(x) ==
  LET y == [x EXCEPT !.running = None, !.record.status = "waiting"]
  IN IF x.record.reason = "limit" THEN y
     ELSE IF x.count + 1 > MaxContinuations THEN [y EXCEPT !.record.mode = "off"]
     ELSE [y EXCEPT !.count = @ + 1]

\* restartRecord, of another turn that was cut off: it is left (by its origin,
\* the settings, or its provider), waits for the user, or is continued.
RestartRecord(how) ==
  [reason |-> "restart", mode |-> how, status |-> "waiting", failures |-> 0]

CutOff(x) ==
  LET y == [x EXCEPT !.running = None]
      ours == x.running.origin \in Resumable
      how == {h \in {"off", "auto"} :
                ours /\ (h = "auto" => x.template /\ x.count < MaxContinuations)}
  IN {y} \cup {[y EXCEPT !.record = RestartRecord(h),
                         !.count = IF h = "auto" THEN @ + 1 ELSE @] : h \in how}

\* recover.
Recovered(x) ==
  IF x.running # None
    THEN IF IsResuming(x.record) THEN {CutOffAgain(x)}
         ELSE IF x.record # None /\ x.record.reason = "limit" THEN {[x EXCEPT !.running = None]}
         ELSE CutOff(x)
    ELSE IF IsResuming(x.record) THEN {[x EXCEPT !.record.status = "waiting"]} ELSE {x}

Recover ==
  /\ mode = "down"
  /\ mode' = "serving"
  /\ \E x \in Recovered(s) :
       /\ s' = [x EXCEPT !.timer = IsAuto(x.record)]
       /\ cause' = IF s.running # None /\ x.record # s.record /\ ~IsResuming(s.record)
                     THEN s.running.turn ELSE cause
       /\ inARow' = IF (lost \/ (s.running # None /\ x # [s EXCEPT !.running = None]))
                        /\ IsAuto(x.record) /\ x.record.reason = "restart"
                     THEN inARow + 1 ELSE inARow
  /\ lost' = FALSE
  /\ UNCHANGED <<fibres, env, budget, declined, late, unwanted, unseen, tries, missed, kept, archived>>

\* The process dies again once the marker is gone, counted or not.
CrashRecovering ==
  /\ mode = "down" /\ crashes < MaxCrashes /\ s.running # None
  /\ crashes' = crashes + 1
  /\ \E counted \in {s.count} \cup {x.count : x \in Recovered(s)} :
       /\ s' = [s EXCEPT !.running = None, !.count = counted]
       /\ unseen' = IF IsResuming(s.record) /\ counted = s.count THEN unseen + 1 ELSE unseen
  /\ UNCHANGED <<mode, fibres, env, choices, declined, cause, late, unwanted, inARow, lost, tries, missed, kept, archived>>

-----------------------------------------------------------------------------
\* An archived chat is left alone for good.
Next ==
  /\ ~archived
  /\ \/ \E origin \in {"user", "other"} : Message(origin)
     \/ LaunchMessage \/ RefuseMessage \/ TurnLimited \/ TurnEnds \/ Observe
     \/ Stop \/ Dismiss \/ Cancel \/ Schedule
     \/ \E a \in Attempts :
          Fire(a) \/ ResumeNow(a) \/ Admit(a) \/ Launch(a) \/ LaunchFails(a) \/ Settled(a)
     \/ BeginShutdown \/ Exit \/ Crash \/ CrashObserving \/ CrashStopping
     \/ Recover \/ CrashRecovering

Spec == Init /\ [][Next]_vars

\* Promises resume, timers fire, turns end, and a process that has gone is
\* started again.
Fairness ==
  /\ WF_vars(LaunchMessage \/ RefuseMessage) /\ WF_vars(TurnEnds) /\ WF_vars(Observe)
  /\ WF_vars(\E a \in Attempts : Fire(a))
  /\ \A a \in Attempts :
       WF_vars(Admit(a)) /\ WF_vars(Launch(a) \/ LaunchFails(a)) /\ WF_vars(Settled(a))
  /\ WF_vars(Exit) /\ WF_vars(Recover)

FairSpec == Spec /\ Fairness

-----------------------------------------------------------------------------
TypeOK ==
  /\ mode \in {"down", "serving", "draining"}
  /\ s \in [record : Records \cup {None}, running : Markers \cup {None},
            count : 0..MaxContinuations, template : BOOLEAN, timer : BOOLEAN,
            holder : Attempts \cup {None}, attempt : Attempts \cup {None},
            live : Markers \cup {None}, pending : Origins \cup {"none"}, recent : 0..MaxTurns]
  /\ pc \in [Attempts -> {"none", "preparing", "admitted", "running"}]
  /\ manual \in [Attempts -> BOOLEAN]
  /\ saved \in [Attempts -> Records \cup {None}]
  /\ turnOf \in [Attempts -> 0..MaxTurns]
  /\ owner \in {"nobody", "message", "attempt", "turn", "limited"} /\ last \in 0..MaxTurns
  /\ bus \in Seq({"started", "limit", "ended"} \X (1..MaxTurns))
  /\ crashes \in 0..MaxCrashes /\ choices \in 0..MaxChoices
  /\ declined \in 0..MaxTurns /\ cause \in 0..MaxTurns
  /\ late \in BOOLEAN /\ unwanted \in BOOLEAN
  /\ inARow \in 0..MaxCrashes /\ lost \in BOOLEAN /\ unseen \in 0..MaxCrashes
  /\ tries \in 0..MaxTurns /\ missed \in BOOLEAN /\ kept \in BOOLEAN /\ archived \in BOOLEAN

\* StopHolds: a turn the user stopped is not resumed, by a limit, by a timer, by
\* an attempt already under way or by a restart, as long as the pipeline brings
\* nothing more of that turn after the Stop (noteUserStop looks no further back)
\* and no Stop came while the shutdown kept the turn's marker.
StopHolds == unwanted => late \/ kept

\* StopAlwaysHolds: the same of every Stop, in the shutdown as well: a marker left
\* by a quit is continued at the next start unless "the user had stopped it"
\* (noteUserStop, recover).
StopAlwaysHolds == unwanted => late

\* CrashLoopEnds: a backend that dies while it continues a chat cut off by a
\* restart does so at most MaxContinuations times in a row (recover).
CrashLoopEnds == inARow <= MaxContinuations

\* CountedCrashesEnd: the same, of the deaths the scheduler can know of: those that
\* find the continuation's turn.started recorded, and do not fall into recover.
CountedCrashesEnd == inARow <= MaxContinuations + unseen

\* GivesUp: as long as every turn ends with an event, a chat whose resumed turns
\* stop at the limit again is resumed MaxFailures times, and then no more, unless
\* the user asks (recordLimit's failures reach limitRecord from the right turn).
\* A death of the process starts the row afresh: `tries` is reset there.
GivesUp == ~missed => tries <= MaxFailures

\* ResumeEnds: a schedule the user sees goes out, and a resume that is shown as
\* running comes to an end: it ran, waits for the user, or was dropped, or the
\* chat was archived.
ResumeEnds ==
  LET underWay == IsAuto(s.record) \/ IsResuming(s.record)
  IN underWay ~> ~underWay \/ archived
=============================================================================
