--------------------------- MODULE ProviderJournal ---------------------------
(***************************************************************************)
(* The durable lane of provider events: ProviderRuntimeIngestion journals  *)
(* an event, projects it and writes a receipt for its row; events SQLite   *)
(* does not take wait in a retry queue, go to a spool of files when the    *)
(* queue is full or the backend stops, and are journaled by the next       *)
(* start; rows without a receipt are replayed at startup, a bounded number *)
(* of times.                                                               *)
(*                                                                         *)
(* All of it is synchronous code, so other events arrive only between two  *)
(* actions at mode "serving"; but each row, receipt and file is durable on *)
(* its own, and the backend can die between any two of them.               *)
(*                                                                         *)
(* Abstracted: an event is its place in the order of arrival; the byte     *)
(* limit of the queue (its count limit stands for both); what a projection *)
(* writes (the legacy bridge, or a projection that fails, is a choice, and *)
(* an event the bridge declines projects nothing); the notice of a degraded*)
(* thread and the taint, whose only effect here is Stop, which is always   *)
(* possible.                                                               *)
(***************************************************************************)
EXTENDS Integers, Sequences, FiniteSets

CONSTANTS Threads,
          Last,          \* bound: events 1..Last arrive, in this order
          threadOf,      \* the thread of each event
          Journaled,     \* shouldJournalEntry, with conversations persisted
          Terminal,      \* isTerminalJournalEntry
          QueueMax,      \* journalQueueMaxEvents
          BatchSize,     \* DEFAULT_REPLAY_BATCH_SIZE
          MaxAttempts,   \* MAX_JOURNAL_REPLAY_ATTEMPTS
          MaxBoots,      \* bound: starts of the backend
          None

Events == 1..Last

ASSUME JournalAssumption ==
  /\ Last \in Nat /\ threadOf \in [Events -> Threads]
  /\ Terminal \subseteq Journaled /\ Journaled \subseteq Events
  /\ QueueMax \in Nat \ {0} /\ BatchSize \in Nat \ {0} /\ MaxAttempts \in Nat \ {0}
  /\ MaxBoots \in Nat /\ None \notin {"projected", "discarded", "taken", "thrown"}

VARIABLES
  mode,         \* what the synchronous code is in the middle of
  arrived,      \* events emitted so far
  fate,         \* what the emitter was told, or how the event was given up
  queue, timer, \* journalQueue and its retry timer
  intake,       \* ~journalIntakeStopped
  sequence,     \* this.sequence, the version of the next row; it starts at the clock,
                \* so it grows from one start of the backend to the next
  spool,        \* recovery files
  quarantined,  \* recovery files that could not be read
  rows,         \* the journal with its receipts and attempts, in SQLite's order
  pass,         \* the local state of replayAll
  projected,    \* history: events projected, live or by a replay
  late,         \* history: events left to a later start while others go on
  boots

memory  == <<queue, timer, intake>>
durable == <<sequence, spool, quarantined, rows>>
vars == <<mode, arrived, fate, memory, durable, pass, projected, late, boots>>

\* How an event can be given up.
GivenUp == {"rejected", "unserializable", "crashed", "unspooled"}

NoPass == [batch |-> {}, full |-> FALSE, progressed |-> FALSE, blocked |-> {}]

Init ==
  /\ mode = "down" /\ arrived = 0 /\ fate = [e \in Events |-> None]
  /\ queue = <<>> /\ timer = FALSE /\ intake = TRUE
  /\ sequence = 0 /\ spool = {} /\ quarantined = {} /\ rows = <<>>
  /\ pass = NoPass /\ projected = {} /\ late = {} /\ boots = 0

Queued == {queue[i] : i \in DOMAIN queue}
Row(e, version) ==
  [event |-> e, version |-> version, receipt |-> None, attempts |-> 0, replays |-> 0]
Unreceipted(rs) == {i \in DOMAIN rs : rs[i].receipt = None}
IsFirst(i, S) == i \in S /\ \A j \in S : i <= j
Leave(rs) == late' = late \cup {rs[i].event : i \in Unreceipted(rs)}

-----------------------------------------------------------------------------
(* processEvent: one event through the journal, the projections, the receipt *)

\* persistJournalBeforeProjection answers "fatal": the event is dropped.
Unserializable(e) ==
  /\ e \in Journaled
  /\ fate' = [fate EXCEPT ![e] = "unserializable"]
  /\ UNCHANGED <<sequence, rows, projected, late>>

\* The row is written, and the bridge or a projection fails, or the receipt
\* cannot be written: the row is left for the next start.  Only a bridge that
\* fails on a terminal event is reported to an emitter that is still there.
Degraded(e, emitting) ==
  /\ e \in Journaled
  /\ sequence' = sequence + 1
  /\ rows' = Append(rows, Row(e, sequence + 1))
  /\ late' = late \cup {e}
  /\ \/ /\ projected' \in {projected, projected \cup {e}}
        /\ fate' = [fate EXCEPT ![e] = "taken"]
     \/ /\ projected' = projected
        /\ fate' = [fate EXCEPT ![e] =
             IF emitting /\ e \in Terminal THEN "thrown" ELSE "taken"]

\* Journaled, projected, receipted, shown; or, not to be journaled, shown.
Complete(e) ==
  /\ sequence' = sequence + 1
  /\ rows' = IF e \in Journaled
             THEN Append(rows, [Row(e, sequence + 1) EXCEPT !.receipt = "projected"])
             ELSE rows
  /\ projected' = projected \cup {e}
  /\ fate' = [fate EXCEPT ![e] = "taken"]
  /\ UNCHANGED late

Process(e, emitting) ==
  /\ Unserializable(e) \/ Degraded(e, emitting) \/ Complete(e)
  /\ UNCHANGED <<spool, quarantined, pass, boots>>

\* The process ends: what is only in memory is gone.
Lose(kept, why) ==
  /\ mode' = "down" /\ queue' = <<>> /\ timer' = FALSE /\ intake' = TRUE
  /\ pass' = NoPass
  /\ fate' = [e \in Events |-> IF e \in Queued \ kept THEN why
                               ELSE IF e \in kept THEN "taken" ELSE fate[e]]

\* ... in the middle of processEvent: the row is there, its receipt is not.
TornProcess(e) ==
  /\ e \in Journaled
  /\ rows' = Append(rows, Row(e, sequence + 1)) /\ sequence' = sequence + 1
  /\ projected' \in {projected, projected \cup {e}}
  /\ Lose({e}, "crashed")
  /\ UNCHANGED <<spool, quarantined, late, boots>>

-----------------------------------------------------------------------------
(* Intake                                                                    *)

Arrive(e) == mode = "serving" /\ e = arrived + 1 /\ e \in Events

\* After an overflow the intake is closed and its listeners are gone.
Reject(e) ==
  /\ Arrive(e) /\ ~intake
  /\ arrived' = e /\ fate' = [fate EXCEPT ![e] = "rejected"]
  /\ UNCHANGED <<mode, memory, durable, pass, projected, late, boots>>

\* Wrong: an event does not look at the queue.
IngestPastQueue(e) ==
  /\ Arrive(e) /\ intake
  /\ arrived' = e
  /\ \/ Process(e, TRUE) /\ UNCHANGED <<mode, memory>>
     \/ TornProcess(e)

IngestDirectly(e) ==
  /\ Arrive(e) /\ intake /\ queue = <<>>
  /\ arrived' = e
  /\ \/ Process(e, TRUE) /\ UNCHANGED <<mode, memory>>
     \/ TornProcess(e)

\* Wrong: the event that meets a full queue is not handed over with it.
EnqueueIfRoom(e) ==
  /\ Arrive(e) /\ intake /\ (queue # <<>> \/ e \in Journaled)
  /\ arrived' = e /\ fate' = [fate EXCEPT ![e] = "taken"]
  /\ IF Len(queue) >= QueueMax
     THEN mode' = "overflow" /\ intake' = FALSE /\ timer' = FALSE /\ UNCHANGED queue
     ELSE queue' = Append(queue, e) /\ timer' = TRUE /\ UNCHANGED <<mode, intake>>
  /\ UNCHANGED <<durable, pass, projected, late, boots>>

\* enqueueJournalBlockedEvent: behind the events that wait, or the first to wait
\* because SQLite did not take it.
Enqueue(e) ==
  /\ Arrive(e) /\ intake /\ (queue # <<>> \/ e \in Journaled)
  /\ arrived' = e /\ fate' = [fate EXCEPT ![e] = "taken"]
  /\ queue' = Append(queue, e)
  /\ IF Len(queue) >= QueueMax
     THEN mode' = "overflow" /\ intake' = FALSE /\ timer' = FALSE
     ELSE timer' = TRUE /\ UNCHANGED <<mode, intake>>
  /\ UNCHANGED <<durable, pass, projected, late, boots>>

\* ProviderRuntimeJournalRecoveryStore.enqueue, and the queue's head is done with.
SpoolHead ==
  /\ sequence' = sequence + 1
  /\ spool' = spool \cup {[event |-> Head(queue), version |-> sequence + 1]}
  /\ queue' = Tail(queue)
  /\ UNCHANGED <<arrived, fate, intake, quarantined, rows, pass, projected, late, boots>>

\* The queue is full: hand it to the spool, as far as that goes.
Overflow ==
  /\ mode = "overflow"
  /\ SpoolHead
  /\ mode' = IF Len(queue) = 1 THEN "serving" ELSE "overflow"
  /\ UNCHANGED timer

\* The spool fails: what it took stays behind, the rest of the queue is retried.
OverflowStuck ==
  /\ mode = "overflow"
  /\ mode' = "serving" /\ timer' = TRUE
  /\ late' = late \cup {f.event : f \in spool}
  /\ UNCHANGED <<arrived, fate, queue, intake, durable, pass, projected, boots>>

-----------------------------------------------------------------------------
(* The retry queue and stop()                                                *)

RetryDue ==
  /\ mode = "serving" /\ timer
  /\ mode' = "draining" /\ timer' = FALSE
  /\ UNCHANGED <<arrived, fate, queue, intake, durable, pass, projected, late, boots>>

Stop ==
  /\ mode = "serving"
  /\ timer' = FALSE /\ mode' = IF queue = <<>> THEN "down" ELSE "stopping"
  /\ UNCHANGED <<arrived, fate, queue, intake, durable, pass, projected, late, boots>>

\* One round of drainJournalQueue: the head is consumed, ...
DrainHead ==
  /\ mode \in {"draining", "stopping"}
  /\ UNCHANGED arrived
  /\ \/ /\ Process(Head(queue), FALSE)
        /\ queue' = Tail(queue)
        /\ mode' = IF Len(queue) > 1 THEN mode
                   ELSE IF mode = "draining" THEN "serving" ELSE "down"
        /\ UNCHANGED <<timer, intake>>
     \/ TornProcess(Head(queue))

\* Wrong: a blocked drain does not set its timer again.
DrainGivesUp ==
  /\ mode \in {"draining", "stopping"} /\ Head(queue) \in Journaled
  /\ mode' = IF mode = "draining" THEN "serving" ELSE "spooling"
  /\ UNCHANGED <<arrived, fate, memory, durable, pass, projected, late, boots>>

\* ... or SQLite still does not take it.
DrainBlocked ==
  /\ mode \in {"draining", "stopping"} /\ Head(queue) \in Journaled
  /\ IF mode = "draining" THEN mode' = "serving" /\ timer' = TRUE
                          ELSE mode' = "spooling" /\ UNCHANGED timer
  /\ UNCHANGED <<arrived, fate, queue, intake, durable, pass, projected, late, boots>>

StopSpools ==
  /\ mode = "spooling"
  /\ SpoolHead
  /\ mode' = IF Len(queue) = 1 THEN "down" ELSE "spooling"
  /\ UNCHANGED timer

StopStuck ==
  /\ mode = "spooling"
  /\ Lose({}, "unspooled")
  /\ UNCHANGED <<arrived, durable, projected, late, boots>>

\* Death between two of these steps.
Crash ==
  /\ mode # "down"
  /\ Lose({}, "crashed")
  /\ UNCHANGED <<arrived, durable, projected, late, boots>>

-----------------------------------------------------------------------------
(* Startup: the spool is journaled, then unreceipted rows are replayed       *)

\* A quarantined file keeps the backend from starting.
Boot ==
  /\ mode = "down" /\ quarantined = {} /\ boots < MaxBoots
  /\ mode' = "unspooling" /\ boots' = boots + 1 /\ intake' = TRUE
  /\ UNCHANGED <<arrived, fate, queue, timer, durable, pass, projected, late>>

\* Wrong: a file is journaled without looking for its row.
UnspoolAgain(file) == rows' = Append(rows, Row(file.event, file.version))

\* persist with the file's stable event id: a row that is already there is found.
Unspool(file) ==
  rows' = IF \E i \in DOMAIN rows : rows[i].event = file.event /\ rows[i].version = file.version
          THEN rows ELSE Append(rows, Row(file.event, file.version))

ReplaySpool ==
  /\ mode = "unspooling"
  /\ \E file \in spool :
       /\ \A f \in spool : file.version <= f.version
       /\ \/ Unspool(file) /\ spool' = spool \ {file} /\ UNCHANGED <<mode, quarantined>>
          \/ Unspool(file) /\ mode' = "down" /\ UNCHANGED <<spool, quarantined>>
          \/ /\ spool' = spool \ {file} /\ quarantined' = quarantined \cup {file}
             /\ mode' = "down" /\ UNCHANGED rows
          \/ mode' = "down" /\ UNCHANGED <<spool, quarantined, rows>>
  /\ UNCHANGED <<arrived, fate, memory, sequence, pass, projected, late, boots>>

SpoolReplayed ==
  /\ mode = "unspooling" /\ spool = {}
  /\ mode' = "reading"
  /\ UNCHANGED <<arrived, fate, memory, durable, pass, projected, late, boots>>

\* readUnprojectedProviderRuntimeEvents(limit)
Batch(rs) ==
  LET U == Unreceipted(rs) IN {i \in U : Cardinality({j \in U : j < i}) < BatchSize}

ReadBatch ==
  /\ mode = "reading"
  /\ IF Unreceipted(rows) = {}
     THEN mode' = "serving" /\ pass' = NoPass
     ELSE /\ mode' = "replaying"
          /\ pass' = [batch |-> Batch(rows), full |-> Cardinality(Batch(rows)) = BatchSize,
                      progressed |-> FALSE, blocked |-> pass.blocked]
  /\ UNCHANGED <<arrived, fate, memory, durable, projected, late, boots>>

\* Wrong: a failed row does not hold back the rest of its thread.
AdvanceUnblocked(i, progressed, blocked) ==
  LET rest == pass.batch \ {i} IN
  IF rest # {} THEN /\ pass' = [pass EXCEPT !.batch = rest, !.progressed = progressed]
                    /\ UNCHANGED <<mode, late>>
  ELSE IF pass.full /\ progressed
  THEN mode' = "reading" /\ pass' = NoPass /\ UNCHANGED late
  ELSE mode' = "serving" /\ pass' = NoPass /\ Leave(rows')

\* Wrong: one poisoned thread ends the replay of all of them.
AdvanceUnlessBlocked(i, progressed, blocked) ==
  LET rest == pass.batch \ {i} IN
  IF rest # {} THEN /\ pass' = [pass EXCEPT !.batch = rest, !.progressed = progressed,
                                  !.blocked = blocked]
                    /\ UNCHANGED <<mode, late>>
  ELSE IF pass.full /\ blocked = {}
  THEN mode' = "reading" /\ pass' = NoPass /\ UNCHANGED late
  ELSE mode' = "serving" /\ pass' = NoPass /\ Leave(rows')

\* Wrong: a full batch is always followed by another read.
AdvanceWithoutProgress(i, progressed, blocked) ==
  LET rest == pass.batch \ {i} IN
  IF rest # {} THEN /\ pass' = [pass EXCEPT !.batch = rest, !.progressed = progressed,
                                  !.blocked = blocked]
                    /\ UNCHANGED <<mode, late>>
  ELSE IF pass.full
  THEN mode' = "reading" /\ pass' = [NoPass EXCEPT !.blocked = blocked] /\ UNCHANGED late
  ELSE mode' = "serving" /\ pass' = NoPass /\ Leave(rows')

\* The loop goes on with the batch, with another one, or ends.
Advance(i, progressed, blocked) ==
  LET rest == pass.batch \ {i} IN
  IF rest # {} THEN /\ pass' = [pass EXCEPT !.batch = rest, !.progressed = progressed,
                                  !.blocked = blocked]
                    /\ UNCHANGED <<mode, late>>
  ELSE IF pass.full /\ progressed
  THEN /\ mode' = "reading" /\ UNCHANGED late
       /\ pass' = [NoPass EXCEPT !.blocked = blocked]
  ELSE mode' = "serving" /\ pass' = NoPass /\ Leave(rows')

\* recordReplayAttempt, and the replay it counts.
Attempted(r) == [r EXCEPT !.attempts = @ + 1]
Replayed(r) == [Attempted(r) EXCEPT !.replays = @ + 1]
\* markProjected, markDiscarded
Receipted(r, status) == [r EXCEPT !.receipt = status]
Put(i, r) == rows' = [rows EXCEPT ![i] = r]

\* A row behind one that failed in this pass waits for the next start.
SkipRow ==
  /\ mode = "replaying"
  /\ UNCHANGED <<arrived, fate, memory, durable, projected, boots>>
  /\ \E i \in pass.batch :
       /\ IsFirst(i, pass.batch)
       /\ threadOf[rows[i].event] \in pass.blocked
       /\ Advance(i, pass.progressed, pass.blocked)

\* The replay of row i and its receipt.
Replay(i) ==
  LET r == Replayed(rows[i])
      Projects == projected' = projected \cup {r.event}
  IN
  \/ \* it cannot be parsed, or earlier starts used up its budget and died
     /\ Put(i, Receipted(Attempted(rows[i]), "discarded")) /\ UNCHANGED projected
     /\ Advance(i, TRUE, pass.blocked)
  \/ /\ r.attempts <= MaxAttempts
     /\ Put(i, Receipted(r, "projected")) /\ Projects
     /\ Advance(i, TRUE, pass.blocked)
  \/ \* the projection or its receipt fails, or the row is one this backend cannot
     \* interpret (counted as a replay all the same): recordFailure
     /\ r.attempts < MaxAttempts
     /\ Put(i, r) /\ (Projects \/ UNCHANGED projected)
     /\ Advance(i, pass.progressed, pass.blocked \cup {threadOf[r.event]})
  \/ /\ r.attempts = MaxAttempts
     /\ Put(i, Receipted(r, "discarded")) /\ (Projects \/ UNCHANGED projected)
     /\ Advance(i, TRUE, pass.blocked)

ReplayRow ==
  /\ mode = "replaying"
  /\ UNCHANGED <<arrived, fate, memory, sequence, spool, quarantined, boots>>
  /\ \E i \in pass.batch :
       /\ IsFirst(i, pass.batch)
       /\ threadOf[rows[i].event] \notin pass.blocked
       /\ Replay(i)

\* Wrong: an attempt is counted once it is over.
TornReplayUncounted ==
  /\ mode = "replaying"
  /\ \E i \in pass.batch :
     /\ IsFirst(i, pass.batch)
     /\ threadOf[rows[i].event] \notin pass.blocked
     /\ rows[i].attempts < MaxAttempts
     /\ Put(i, [rows[i] EXCEPT !.replays = @ + 1])
     /\ projected' \in {projected, projected \cup {rows[i].event}}
  /\ Lose({}, "crashed")
  /\ UNCHANGED <<arrived, sequence, spool, quarantined, late, boots>>

\* The replay of the row is what kills the backend.
TornReplay ==
  /\ mode = "replaying"
  /\ \E i \in pass.batch :
     /\ IsFirst(i, pass.batch)
     /\ threadOf[rows[i].event] \notin pass.blocked
     /\ rows[i].attempts < MaxAttempts
     /\ Put(i, Replayed(rows[i]))
     /\ projected' \in {projected, projected \cup {rows[i].event}}
  /\ Lose({}, "crashed")
  /\ UNCHANGED <<arrived, sequence, spool, quarantined, late, boots>>

-----------------------------------------------------------------------------
Startup == ReplaySpool \/ SpoolReplayed \/ ReadBatch \/ SkipRow \/ ReplayRow
Retry == RetryDue \/ DrainHead

Next ==
  \/ \E e \in Events : Reject(e) \/ IngestDirectly(e) \/ Enqueue(e)
  \/ Overflow \/ OverflowStuck \/ Retry \/ DrainBlocked
  \/ Stop \/ StopSpools \/ StopStuck \/ Crash
  \/ Boot \/ Startup \/ TornReplay

Spec == Init /\ [][Next]_vars

\* The process runs its startup, its timers and its shutdown to the end; and
\* SQLite is not busy for ever: of a retry that comes again and again one
\* succeeds.
FairSpec ==
  /\ Spec
  /\ WF_vars(Startup) /\ WF_vars(RetryDue) /\ SF_vars(DrainHead)
  /\ WF_vars(Overflow) /\ WF_vars(StopSpools)

-----------------------------------------------------------------------------
(* Properties                                                                *)

RowType ==
  [event : Events, version : Nat, receipt : {None, "projected", "discarded"},
   attempts : Nat, replays : Nat]
FileType == [event : Events, version : Nat]

TypeOK ==
  /\ mode \in {"down", "unspooling", "reading", "replaying", "serving", "overflow",
              "draining", "stopping", "spooling"}
  /\ arrived \in 0..Last
  /\ fate \in [Events -> GivenUp \cup {None, "taken", "thrown"}]
  /\ queue \in Seq(Events) /\ timer \in BOOLEAN /\ intake \in BOOLEAN
  /\ sequence \in Nat /\ spool \subseteq FileType /\ quarantined \subseteq FileType
  /\ rows \in Seq(RowType)
  /\ pass \in [batch : SUBSET (DOMAIN rows), full : BOOLEAN, progressed : BOOLEAN,
              blocked : SUBSET Threads]
  /\ projected \subseteq Events /\ late \subseteq Events /\ boots \in 0..MaxBoots

HasRow(e) == \E i \in DOMAIN rows : rows[i].event = e
InFile(e) == \E f \in spool \cup quarantined : f.event = e

\* ingestEvent and the queue never drop what they took: an event the emitter was
\* not refused is queued, spooled or journaled, or (never to be journaled) shown,
\* until a death of the process or a stop whose spool fails gives it up.
NothingLost ==
  \A e \in Events : fate[e] \in {"taken", "thrown"} =>
    e \in Queued \/ HasRow(e) \/ InFile(e) \/ e \in projected \ Journaled

\* Retry, spool and startup together journal an event once, also when the process
\* dies between the row and the removal of its file.
OneRow ==
  \A i, j \in DOMAIN rows : rows[i].event = rows[j].event => i = j

\* No row is replayed more often than the attempt budget allows, whether its
\* replays fail or kill the process.
ReplayBudget ==
  \A i \in DOMAIN rows : rows[i].replays <= MaxAttempts

Before(f) == {e \in Events : e < f /\ threadOf[e] = threadOf[f]}
Discards(rs, e) == \E i \in DOMAIN rs : rs[i].event = e /\ rs[i].receipt = "discarded"

\* Events of a thread are projected in the order they arrived, through retries,
\* spool and restarts, except for what was given up, discarded, or left behind
\* for a later start because its projection or an overflow's spool failed.
InOrder ==
  [][\A f \in projected' \ projected : \A e \in Before(f) :
       \/ e \in projected' \cup late'
       \/ fate'[e] \in GivenUp \/ Discards(rows', e)]_vars

\* "its later rows must not project ahead of the failed one"
ReplayInOrder ==
  [][mode = "replaying" => \A j \in DOMAIN rows : rows'[j].receipt # rows[j].receipt =>
       \A i \in 1..(j - 1) :
         threadOf[rows[i].event] = threadOf[rows[j].event] => rows[i].receipt # None]_vars

\* A replay pass that ends has dealt with every row, except those of threads that
\* failed in it and those behind a full batch of such rows.
PassIsComplete ==
  [][mode = "replaying" /\ mode' = "serving" =>
       LET failed == {threadOf[rows'[i].event] : i \in {k \in Unreceipted(rows') :
                                                        rows'[k].attempts > 0}}
           Waits(i) == threadOf[rows'[i].event] \in failed
       IN \A i \in Unreceipted(rows') :
            \/ Waits(i)
            \/ Cardinality({j \in Unreceipted(rows') : j < i /\ Waits(j)}) >= BatchSize]_vars

\* Startup comes to an end, whatever rows and files it meets.
StartupEnds == mode \in {"unspooling", "reading", "replaying"} ~> mode \in {"serving", "down"}

\* A queue that waits for SQLite is emptied: its timer is never lost.
QueueDrains == queue # <<>> ~> queue = <<>>
=============================================================================
