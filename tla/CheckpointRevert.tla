--------------------------- MODULE CheckpointRevert ---------------------------
(***************************************************************************)
(* services/checkpoint-revert-saga.ts and its journal: a thread is taken   *)
(* back to an earlier turn by restoring the files of its workspace, rolling*)
(* back the provider's conversation and truncating the database, in that   *)
(* order, with a durable phase before and after what cannot be repeated.   *)
(*                                                                         *)
(* A run is a turn or a revert of a thread; the thread's maintenance lock  *)
(* allows one at a time.  Leases are those of WorkspaceRecoveryGate, of    *)
(* which only the isolation is used here.  A step is a stretch between two *)
(* awaits, cut at each SQLite transaction so that a crash can fall between *)
(* two of them; no other thread runs inside a stretch (Calm).              *)
(***************************************************************************)
EXTENDS Integers, FiniteSets

CONSTANTS
  Threads,
  Cwd,             \* thread -> its workspace
  None,            \* no journal row
  Fresh,           \* provider session rotated: rebuilt from the database when next used
  Torn, Abandoned, \* files half restored; half restored and given up
  Other,           \* files not at a boundary of this thread
  MissingRefs,     \* the pairs <<thread, turn>> whose checkpoint ref is gone
  MayCorrupt,      \* whether a journal row can be unreadable after a restart
  MaxTurns, MaxReverts, MaxCrashes   \* bounds

\* Rows of the journal: checkpoint turn counts and the phase.
Phases == {"prepared", "filesystem_restored", "provider_rollback_started",
           "provider_rollback_done", "database_truncated"}
Operations == [phase : Phases, target : 0..MaxTurns, current : 0..MaxTurns]

ASSUME RevertAssumption ==
  /\ MaxTurns \in Nat /\ MaxReverts \in Nat /\ MaxCrashes \in Nat
  /\ None \notin Operations
  /\ Fresh \notin Nat /\ Torn \notin Nat /\ Abandoned \notin Nat /\ Other \notin Nat
  /\ Torn \notin {Abandoned, Other} /\ Abandoned # Other
  /\ MayCorrupt \in BOOLEAN

VARIABLES
  turns,       \* database: turns of the thread in the read model
  provider,    \* turns the provider's conversation holds, or Fresh
  files,       \* boundary of the thread its workspace is at, or Torn, Abandoned, Other
  journal,     \* durable revert operation, or None
  quarantined, \* threads with a quarantined row and recovery_required
  byHand,      \* threads whose quarantine the user resolved
  run,         \* the run of each thread: pc and requested turn count
  lease,       \* "none", "shared" or "exclusive", on Cwd[t]
  up,          \* "recovering" or "serving"
  todo,        \* operations the startup recovery has still to resume
  reverts, crashes

durable == <<turns, provider, files, journal, quarantined, byHand>>
memory  == <<run, lease, up, todo>>
bounds  == <<reverts, crashes>>
vars == <<durable, memory, bounds>>

\* Points of a stretch at which no other code runs, and the awaits of a run.
Sync   == {"restored", "rotated", "truncating", "truncated"}
Awaits == {"idle", "turn", "barrier", "inspecting", "closing", "restoring",
           "rolling", "rolledBack", "stopping", "cleaning"}

Calm == \A t \in Threads : run[t].pc \notin Sync
Neighbours(t) == {u \in Threads : Cwd[u] = Cwd[t]}

Init ==
  /\ turns \in [Threads -> 0..MaxTurns]
  /\ provider = turns
  /\ files \in [Threads -> 0..MaxTurns \cup {Other}]
  /\ \A t \in Threads : files[t] \in {turns[t], Other}
  /\ journal = [t \in Threads |-> None]
  /\ quarantined = {} /\ byHand = {}
  /\ run = [t \in Threads |-> [pc |-> "idle", target |-> 0]]
  /\ lease = [t \in Threads |-> "none"]
  /\ up = "serving" /\ todo = {}
  /\ reverts = 0 /\ crashes = 0

-----------------------------------------------------------------------------
Goto(t, pc) == run' = [run EXCEPT ![t].pc = pc]

\* The run ends and its `finally` gives the lease back.
End(t) == /\ run' = [run EXCEPT ![t] = [pc |-> "idle", target |-> 0]]
          /\ lease' = [lease EXCEPT ![t] = "none"]
          /\ UNCHANGED <<up, todo, bounds>>

SetPhase(t, phase) == journal' = [journal EXCEPT ![t].phase = phase]
Delete(t) == journal' = [journal EXCEPT ![t] = None]

\* Thread t leaves the files of its workspace at v.
Wrote(t, v) == files' = [u \in Threads |-> IF u = t THEN v
                                           ELSE IF u \in Neighbours(t) THEN Other
                                           ELSE files[u]]

\* hasBlockingRecovery, for some thread of the workspace (blockingThreadForCwd).
Blocked(u) == journal[u] # None \/ u \in quarantined
Fenced(t) == \E u \in Neighbours(t) : Blocked(u)

-----------------------------------------------------------------------------
(* Turns and other mutations: a shared lease, then the durable fence.       *)

\* Wrong: only the thread's own journal is consulted.
StartTurnOwnFence(t) ==
  /\ Calm /\ up = "serving" /\ run[t].pc = "idle"
  /\ turns[t] < MaxTurns
  /\ \A u \in Neighbours(t) : lease[u] # "exclusive"
  /\ ~Blocked(t)
  /\ Goto(t, "turn")
  /\ lease' = [lease EXCEPT ![t] = "shared"]
  /\ UNCHANGED <<durable, up, todo, bounds>>

StartTurn(t) ==
  /\ Calm /\ up = "serving" /\ run[t].pc = "idle"
  /\ turns[t] < MaxTurns
  /\ \A u \in Neighbours(t) : lease[u] # "exclusive"
  /\ ~Fenced(t)
  /\ Goto(t, "turn")
  /\ lease' = [lease EXCEPT ![t] = "shared"]
  /\ UNCHANGED <<durable, up, todo, bounds>>

\* The turn settles: one more turn everywhere.  A rotated session was rebuilt
\* from the database, and so knows what the database knows.
EndTurn(t) ==
  /\ Calm /\ run[t].pc = "turn"
  /\ turns' = [turns EXCEPT ![t] = @ + 1]
  /\ provider' = [provider EXCEPT ![t] = (IF @ = Fresh THEN turns[t] ELSE @) + 1]
  /\ Wrote(t, turns[t] + 1)
  /\ End(t)
  /\ UNCHANGED <<journal, quarantined, byHand>>

-----------------------------------------------------------------------------
(* revertThreadCheckpoint                                                   *)

RequestRevert(t) ==
  /\ Calm /\ up = "serving" /\ run[t].pc = "idle" /\ reverts < MaxReverts
  /\ \E n \in 0..turns[t] :
       run' = [run EXCEPT ![t] = [pc |-> "barrier", target |-> n]]
  /\ reverts' = reverts + 1
  /\ UNCHANGED <<durable, lease, up, todo, crashes>>

\* acquireExclusiveAfterQuiesce resolves, or fails.
GrantBarrier(t) ==
  /\ Calm /\ run[t].pc = "barrier"
  /\ \A u \in Neighbours(t) : lease[u] = "none"
  /\ lease' = [lease EXCEPT ![t] = "exclusive"]
  /\ Goto(t, "inspecting")
  /\ UNCHANGED <<durable, up, todo, bounds>>

\* The barrier times out; git.isRepo fails; no repository, or no such ref.
Refuse(t) ==
  /\ Calm /\ run[t].pc \in {"barrier", "inspecting"}
  /\ End(t)
  /\ UNCHANGED durable

\* begin() throws 409: another revert is pending, or recovery is required.
RefuseBegin(t) ==
  /\ Calm /\ run[t].pc = "inspecting"
  /\ IF journal[t] # None THEN journal[t].target # run[t].target ELSE t \in quarantined
  /\ End(t)
  /\ UNCHANGED durable

\* begin() inserts the operation or returns the pending one.  The operation is
\* returned without being awaited: the `finally` that releases the exclusive
\* lease runs at its first await, before anything is restored.
Begin(t) ==
  /\ Calm /\ run[t].pc = "inspecting"
  /\ \/ /\ journal[t] # None /\ journal[t].target = run[t].target
        /\ UNCHANGED journal
     \/ /\ journal[t] = None /\ t \notin quarantined
        /\ journal' = [journal EXCEPT ![t] =
             [phase |-> "prepared", target |-> run[t].target, current |-> turns[t]]]
  /\ lease' = [lease EXCEPT ![t] = "none"]
  /\ Goto(t, "closing")
  /\ UNCHANGED <<turns, provider, files, quarantined, byHand, up, todo, bounds>>

-----------------------------------------------------------------------------
(* executeCheckpointRevertOperation                                         *)

\* Wrong: the rollback that may have happened is repeated.
ResumeRepeatsRollback(phase) ==
  CASE phase = "prepared" -> "restoring"
    [] phase = "filesystem_restored" -> "restored"
    [] phase = "provider_rollback_started" -> "restored"
    [] phase = "provider_rollback_done" -> "truncating"
    [] phase = "database_truncated" -> "cleaning"

\* Where a run goes on that finds its operation in this phase.
ResumeAt(phase) ==
  CASE phase = "prepared" -> "restoring"
    [] phase = "filesystem_restored" -> "restored"
    [] phase = "provider_rollback_started" -> "stopping"
    [] phase = "provider_rollback_done" -> "truncating"
    [] phase = "database_truncated" -> "cleaning"

\* The workspace's shells are closed.  git.restoreCheckpoint then starts to
\* rewrite files.
OwnersClosed(t) ==
  LET next == ResumeAt(journal[t].phase) IN
  /\ Calm /\ run[t].pc = "closing"
  /\ next = "restoring" => <<t, journal[t].target>> \notin MissingRefs
  /\ Goto(t, next)
  /\ files' = IF next = "restoring"
                THEN [u \in Threads |-> IF u \in Neighbours(t) THEN Torn ELSE files[u]]
                ELSE files
  /\ UNCHANGED <<turns, provider, journal, quarantined, byHand, lease, up, todo, bounds>>

\* A restore of u is journaled and not done, or its row can no longer be read.
Unrestored(u) ==
  \/ journal[u] # None /\ journal[u].phase = "prepared"
  \/ u \in quarantined

\* restored: false, without a file touched by this attempt: the ref is missing,
\* or the snapshot failed.  The operation is deleted.  Files that an earlier
\* attempt left half restored stay so, and no restore of the workspace is left
\* to finish them, unless another thread has one.
RestoreUnavailable(t) ==
  /\ Calm /\ run[t].pc = "closing" /\ journal[t].phase = "prepared"
  /\ Delete(t)
  /\ files' = [u \in Threads |->
       IF /\ u \in Neighbours(t) /\ files[u] = Torn
          /\ \A w \in Neighbours(t) \ {t} : ~Unrestored(w)
         THEN Abandoned ELSE files[u]]
  /\ End(t)
  /\ UNCHANGED <<turns, provider, quarantined, byHand>>

RestoreDone(t) ==
  /\ Calm /\ run[t].pc = "restoring"
  /\ Wrote(t, journal[t].target)
  /\ SetPhase(t, "filesystem_restored")
  /\ Goto(t, "restored")
  /\ UNCHANGED <<turns, provider, quarantined, byHand, lease, up, todo, bounds>>

\* With nothing to roll back the provider is done; otherwise the ambiguous
\* boundary is made durable before the provider is called.
AfterRestore(t) ==
  /\ run[t].pc = "restored"
  /\ IF journal[t].current = journal[t].target
       THEN SetPhase(t, "provider_rollback_done") /\ Goto(t, "truncating")
       ELSE SetPhase(t, "provider_rollback_started") /\ Goto(t, "rolling")
  /\ UNCHANGED <<turns, provider, files, quarantined, byHand, lease, up, todo, bounds>>

\* The provider drops the turns; its answer is still to come.
ProviderRollsBack(t) ==
  /\ Calm /\ run[t].pc = "rolling" /\ provider[t] # Fresh
  /\ LET left == provider[t] - (journal[t].current - journal[t].target) IN
     provider' = [provider EXCEPT ![t] = IF left < 0 THEN 0 ELSE left]
  /\ Goto(t, "rolledBack")
  /\ UNCHANGED <<turns, files, journal, quarantined, byHand, lease, up, todo, bounds>>

RollbackConfirmed(t) ==
  /\ Calm /\ run[t].pc = "rolledBack"
  /\ SetPhase(t, "provider_rollback_done")
  /\ Goto(t, "truncating")
  /\ UNCHANGED <<turns, provider, files, quarantined, byHand, lease, up, todo, bounds>>

\* Wrong: an unconfirmed rollback is taken for none at all.
UnconfirmedIgnored(t) ==
  /\ Calm /\ run[t].pc \in {"rolling", "rolledBack"}
  /\ SetPhase(t, "provider_rollback_done")
  /\ Goto(t, "truncating")
  /\ UNCHANGED <<turns, provider, files, quarantined, byHand, lease, up, todo, bounds>>

\* rollbackConversation answers false, whether or not it took effect: stopSession.
RollbackUnconfirmed(t) ==
  /\ Calm /\ run[t].pc \in {"rolling", "rolledBack"}
  /\ Goto(t, "stopping")
  /\ UNCHANGED <<durable, lease, up, todo, bounds>>

\* The session is stopped and its generation rotated.
SessionStopped(t) ==
  /\ Calm /\ run[t].pc = "stopping"
  /\ provider' = [provider EXCEPT ![t] = Fresh]
  /\ Goto(t, "rotated")
  /\ UNCHANGED <<turns, files, journal, quarantined, byHand, lease, up, todo, bounds>>

AfterRotation(t) ==
  /\ run[t].pc = "rotated"
  /\ SetPhase(t, "provider_rollback_done")
  /\ Goto(t, "truncating")
  /\ UNCHANGED <<turns, provider, files, quarantined, byHand, lease, up, todo, bounds>>

Truncate(t) ==
  /\ run[t].pc = "truncating"
  /\ turns' = [turns EXCEPT ![t] = journal[t].target]
  /\ Goto(t, "truncated")
  /\ UNCHANGED <<provider, files, journal, quarantined, byHand, lease, up, todo, bounds>>

AfterTruncate(t) ==
  /\ run[t].pc = "truncated"
  /\ SetPhase(t, "database_truncated")
  /\ Goto(t, "cleaning")
  /\ UNCHANGED <<turns, provider, files, quarantined, byHand, lease, up, todo, bounds>>

\* Stale refs are deleted, or queued for cleanup; then the operation is deleted.
Cleaned(t) ==
  /\ Calm /\ run[t].pc = "cleaning"
  /\ Delete(t)
  /\ End(t)
  /\ UNCHANGED <<turns, provider, files, quarantined, byHand>>

\* Wrong: a failed operation is dropped.
ThrowDeletes(t) ==
  /\ Calm
  /\ run[t].pc \in {"closing", "restoring", "rolling", "rolledBack", "stopping", "cleaning"}
  /\ Delete(t)
  /\ End(t)
  /\ UNCHANGED <<turns, provider, files, quarantined, byHand>>

\* Any awaited call of the operation throws: the journal keeps its phase.
Throw(t) ==
  /\ Calm
  /\ run[t].pc \in {"closing", "restoring", "rolling", "rolledBack", "stopping", "cleaning"}
  /\ End(t)
  /\ UNCHANGED durable

-----------------------------------------------------------------------------
(* Crashes, startup recovery, and the quarantine.                           *)

\* The backend dies, possibly inside a stretch.  A turn it interrupts leaves
\* its edits behind, and its session is rotated by the recovery of dispatches.
\* At the restart list() quarantines the rows it cannot read.
Crash ==
  /\ crashes < MaxCrashes
  /\ crashes' = crashes + 1
  /\ \E bad \in SUBSET {t \in Threads : journal[t] # None} :
       /\ bad = {} \/ MayCorrupt
       /\ quarantined' = quarantined \cup bad
       /\ journal' = [t \in Threads |-> IF t \in bad THEN None ELSE journal[t]]
       /\ todo' = {t \in Threads : journal'[t] # None}
  /\ provider' = [t \in Threads |-> IF run[t].pc = "turn" THEN Fresh ELSE provider[t]]
  /\ files' = [t \in Threads |->
       IF \E u \in Neighbours(t) : run[u].pc = "turn" THEN Other ELSE files[t]]
  /\ run' = [t \in Threads |-> [pc |-> "idle", target |-> 0]]
  /\ lease' = [t \in Threads |-> "none"]
  /\ up' = "recovering"
  /\ UNCHANGED <<turns, byHand, reverts>>

\* recoverPendingCheckpointReverts resumes one operation after another, each
\* under an exclusive lease that it keeps to the end.
Recover(t) ==
  /\ up = "recovering" /\ t \in todo
  /\ \A u \in Threads : run[u].pc = "idle"
  /\ todo' = todo \ {t}
  /\ lease' = [lease EXCEPT ![t] = "exclusive"]
  /\ Goto(t, "closing")
  /\ UNCHANGED <<durable, up, bounds>>

\* Wrong: the backend serves only once every revert is recovered.
ServeOnceRecovered ==
  /\ up = "recovering" /\ todo = {} /\ \A t \in Threads : journal[t] = None
  /\ \A u \in Threads : run[u].pc = "idle"
  /\ up' = "serving"
  /\ UNCHANGED <<durable, run, lease, todo, bounds>>

\* Whatever could not be recovered stays journaled; the backend serves.
Serve ==
  /\ up = "recovering" /\ todo = {}
  /\ \A u \in Threads : run[u].pc = "idle"
  /\ up' = "serving"
  /\ UNCHANGED <<durable, run, lease, todo, bounds>>

\* The user resolves a quarantined recovery: resolveQuarantine.
Resolve(t) ==
  /\ Calm /\ up = "serving" /\ t \in quarantined
  /\ quarantined' = quarantined \ {t}
  /\ byHand' = byHand \cup {t}
  /\ UNCHANGED <<turns, provider, files, journal, memory, bounds>>

Saga(t) ==
  \/ OwnersClosed(t) \/ RestoreUnavailable(t) \/ RestoreDone(t) \/ AfterRestore(t)
  \/ ProviderRollsBack(t) \/ RollbackConfirmed(t) \/ RollbackUnconfirmed(t)
  \/ SessionStopped(t) \/ AfterRotation(t) \/ Truncate(t) \/ AfterTruncate(t)
  \/ Cleaned(t) \/ Throw(t)

Revert(t) ==
  GrantBarrier(t) \/ Refuse(t) \/ RefuseBegin(t) \/ Begin(t) \/ Saga(t)

Next ==
  \/ \E t \in Threads :
       StartTurn(t) \/ EndTurn(t) \/ RequestRevert(t) \/ Revert(t) \/ Recover(t) \/ Resolve(t)
  \/ Crash \/ Serve

Spec == Init /\ [][Next]_vars

\* Awaited calls of a run settle, by an answer or an exception, and so do turns.
\* The startup recovery goes on.
FairSpec ==
  /\ Spec
  /\ \A t \in Threads : WF_vars(EndTurn(t)) /\ WF_vars(Revert(t)) /\ WF_vars(Recover(t))
  /\ WF_vars(Serve)

-----------------------------------------------------------------------------
TypeOK ==
  /\ turns \in [Threads -> 0..MaxTurns]
  /\ provider \in [Threads -> 0..MaxTurns \cup {Fresh}]
  /\ files \in [Threads -> 0..MaxTurns \cup {Torn, Abandoned, Other}]
  /\ journal \in [Threads -> Operations \cup {None}]
  /\ quarantined \subseteq Threads /\ byHand \subseteq Threads
  /\ run \in [Threads -> [pc : Sync \cup Awaits, target : 0..MaxTurns]]
  /\ lease \in [Threads -> {"none", "shared", "exclusive"}]
  /\ up \in {"recovering", "serving"} /\ todo \subseteq Threads
  /\ reverts \in 0..MaxReverts /\ crashes \in 0..MaxCrashes

\* From its journal's first row to its last, through crashes and failed
\* recoveries, and while it is quarantined, a revert has no turn in any thread
\* of its workspace beside it, although it gives its exclusive lease away.
FenceHolds ==
  \A t, u \in Threads : Cwd[t] = Cwd[u] /\ Blocked(t) => run[u].pc # "turn"

\* Once no revert is pending, the provider's conversation is at the turn the
\* database is at, or will be rebuilt from it: no crash, failed call or retry
\* rolls a conversation back twice, or not at all.
ProviderAgrees ==
  \A t \in Threads :
    journal[t] = None /\ t \notin quarantined \cup byHand
      => provider[t] \in {turns[t], Fresh}

\* The database is cut last: when it loses turns, the provider is already
\* where it goes, and so are the files, unless another thread of the workspace
\* may have restored its own checkpoint meanwhile.  (Resolving a quarantine by
\* hand gives that up: it lifts the fence and leaves everything as it is.)
AloneInWorkspace(t) == \A u \in Threads \ {t} : Cwd[u] # Cwd[t]

DatabaseLast ==
  [][\A t \in Threads : turns'[t] < turns[t] /\ t \notin byHand =>
       /\ provider[t] \in {turns'[t], Fresh}
       /\ AloneInWorkspace(t) \/ reverts = 1 => files[t] = turns'[t]]_vars

\* "Revert journals own the workspace until their recovery has either completed
\* or been durably quarantined": half-restored files are never left unfenced,
\* unless someone resolved a quarantine of the workspace by hand.  Violated: a
\* restore that is repeated after a failure or a crash and finds its snapshot
\* failing is dropped like one that never touched a file.
NobodyResolved(t) == \A u \in byHand : Cwd[u] # Cwd[t]

TornStaysFenced ==
  \A t \in Threads : files[t] \in {Torn, Abandoned} /\ NobodyResolved(t) => Fenced(t)

\* That is the one way: half-restored files stay fenced through failed calls,
\* crashes, unreadable rows, and reverts of other threads that restore the same
\* workspace at the same time, until a repeated restore is given up.
TornFencedUnlessGivenUp ==
  \A t \in Threads : files[t] = Torn /\ NobodyResolved(t) => Fenced(t)

\* "Callers hold the workspace recovery fence throughout snapshot and restore":
\* no two restores of one workspace run at a time.
OneRestoreAtATime ==
  \A t, u \in Threads :
    t # u /\ Cwd[t] = Cwd[u] => ~(run[t].pc = "restoring" /\ run[u].pc = "restoring")

\* The journal and the provider as RevertContract sees them.  For a thread whose
\* quarantine was resolved by hand no agreement is promised.
Pending(t) ==
  IF journal[t] = None THEN {}
  ELSE {[from |-> journal[t].current, to |-> journal[t].target]}
Apart(t) == t \notin quarantined \cup byHand /\ provider[t] \notin {turns[t], Fresh}

Contract == INSTANCE RevertContract WITH
  pending <- [t \in Threads |-> Pending(t)],
  apart   <- {t \in Threads : Apart(t)},
  lost    <- quarantined

\* A journaled revert takes its thread from one turn to the other or leaves it
\* alone, once, through failed calls, retries and crashes; no turn advances in
\* its workspace until it is over; and provider and database disagree only
\* while it is under way.
KeepsContract == Contract!Spec

\* No revert holds its thread for ever, whatever fails.
RunsEnd == \A t \in Threads : run[t].pc # "idle" ~> run[t].pc = "idle"

\* The startup recovery comes to an end, whatever fails in it: HTTP is served.
RecoveryEnds == up = "recovering" ~> up = "serving"

\* Whatever fails, a revert gives its thread back and the backend comes to serve.
RevertsEnd == RunsEnd /\ RecoveryEnds
=============================================================================
