------------------------ MODULE CheckpointRevert_proofs ------------------------
(***************************************************************************)
(* Theorems about CheckpointRevert, for every set of threads and layout of *)
(* workspaces: the fence holds, and the provider's conversation and the    *)
(* database end at the same turn.                                          *)
(***************************************************************************)
EXTENDS CheckpointRevert, TLAPS

SagaPcs == {"closing", "restoring", "restored", "rolling", "rolledBack", "stopping",
            "rotated", "truncating", "truncated", "cleaning"}

\* Where a run can be while its operation is in a phase.
RunPhase(t) ==
  LET pc == run[t].pc IN
  /\ pc \in SagaPcs => journal[t] # None
  /\ pc = "restoring" => journal[t].phase = "prepared"
  /\ pc = "restored" => journal[t].phase = "filesystem_restored"
  /\ pc \in {"rolling", "rolledBack", "stopping", "rotated"}
       => journal[t].phase = "provider_rollback_started"
  /\ pc = "rotated" => provider[t] = Fresh
  /\ pc \in {"truncating", "truncated"} => journal[t].phase = "provider_rollback_done"
  /\ pc = "cleaning" => journal[t].phase = "database_truncated"

\* Leases: a turn has one, a revert up to begin() has an exclusive one, and an
\* exclusive lease is alone in its workspace.
LeaseInv ==
  /\ \A t \in Threads :
       /\ run[t].pc = "turn" => lease[t] = "shared"
       /\ run[t].pc = "inspecting" => lease[t] = "exclusive"
       /\ run[t].pc \in {"idle", "barrier"} => lease[t] = "none"
  /\ \A t, u \in Threads :
       t # u /\ Cwd[t] = Cwd[u] /\ lease[t] = "exclusive" => lease[u] = "none"

\* The startup recovery has the operations it has still to resume to itself.
TodoInv ==
  /\ \A t \in todo : run[t].pc = "idle" /\ journal[t] # None
  /\ up = "serving" => todo = {}
  /\ up = "recovering" => \A t \in Threads : run[t].pc \notin {"turn", "barrier", "inspecting"}

\* How far database and provider are in each phase of a revert.
Progress(t) ==
  /\ run[t].pc = "turn" => turns[t] < MaxTurns
  /\ run[t].pc \in {"barrier", "inspecting"} => run[t].target <= turns[t]
  /\ provider[t] # Fresh => provider[t] <= turns[t]
  /\ journal[t] # None =>
       LET op == journal[t] IN
       /\ op.target <= op.current
       /\ op.phase \in {"prepared", "filesystem_restored", "provider_rollback_started"}
            => turns[t] = op.current
       /\ op.phase = "provider_rollback_done" => turns[t] \in {op.current, op.target}
       /\ op.phase = "database_truncated" \/ run[t].pc = "truncated" => turns[t] = op.target
       /\ op.phase \in {"provider_rollback_done", "database_truncated"} \/ run[t].pc = "rolledBack"
            => (provider[t] # Fresh => provider[t] <= op.target)

\* What the provider knows in each phase, unless a user settled a quarantine.
Agreement(t) ==
  t \notin quarantined \cup byHand =>
    IF journal[t] = None THEN provider[t] \in {turns[t], Fresh}
    ELSE LET op == journal[t] IN
         /\ op.phase \in {"prepared", "filesystem_restored"} \/ run[t].pc = "rolling"
              => provider[t] \in {op.current, Fresh}
         /\ op.phase = "provider_rollback_started" => provider[t] \in {op.current, op.target, Fresh}
         /\ op.phase \in {"provider_rollback_done", "database_truncated"} \/ run[t].pc = "rolledBack"
              => provider[t] \in {op.target, Fresh}

ThreadInv(t) == RunPhase(t) /\ Progress(t) /\ Agreement(t)

RevertInv ==
  /\ TypeOK
  /\ LeaseInv
  /\ TodoInv
  /\ FenceHolds
  /\ \A t \in Threads : ThreadInv(t)

-----------------------------------------------------------------------------
(* Frames.                                                                  *)

\* What a step leaves alone of a thread keeps the thread's invariant.
LEMMA UntouchedThread ==
  ASSUME NEW u \in Threads, ThreadInv(u),
         turns'[u] = turns[u], provider'[u] = provider[u], journal'[u] = journal[u],
         run'[u] = run[u], quarantined \cup byHand \subseteq quarantined' \cup byHand'
  PROVE  ThreadInv(u)'
<1>1. RunPhase(u)'
  BY DEF ThreadInv, RunPhase
<1>2. Progress(u)'
  BY DEF ThreadInv, Progress
<1>3. Agreement(u)'
  BY DEF ThreadInv, Agreement
<1> QED
  BY <1>1, <1>2, <1>3 DEF ThreadInv

\* A step inside the saga of t, which keeps its lease or ends with none.
SagaStep(t) ==
  /\ run[t].pc \in SagaPcs
  /\ \E r \in [pc : Sync \cup Awaits, target : 0..MaxTurns] :
       /\ run' = [run EXCEPT ![t] = r]
       /\ \/ r.pc \in SagaPcs /\ lease' = lease
          \/ r.pc = "idle" /\ lease' = [lease EXCEPT ![t] = "none"]
  /\ \A u \in Threads \ {t} :
       turns'[u] = turns[u] /\ provider'[u] = provider[u] /\ journal'[u] = journal[u]
  /\ UNCHANGED <<quarantined, byHand, up, todo>>

\* Such a step leaves everything alone but what it does to its own thread.
LEMMA SagaKeeps ==
  ASSUME RevertInv, NEW t \in Threads, SagaStep(t), TypeOK', ThreadInv(t)'
  PROVE  RevertInv'
<1>1. PICK r \in [pc : Sync \cup Awaits, target : 0..MaxTurns] :
        /\ run' = [run EXCEPT ![t] = r]
        /\ \/ r.pc \in SagaPcs /\ lease' = lease
           \/ r.pc = "idle" /\ lease' = [lease EXCEPT ![t] = "none"]
  BY DEF SagaStep
<1>2. /\ run'[t] = r
      /\ \A u \in Threads \ {t} : run'[u] = run[u]
  BY <1>1 DEF RevertInv, TypeOK
<1>3. journal[t] # None
  BY DEF RevertInv, ThreadInv, RunPhase, SagaStep
<1>4. LeaseInv'
  <2>1. \A u \in Threads \ {t} : lease'[u] = lease[u]
    BY <1>1 DEF RevertInv, TypeOK
  <2>2. lease'[t] \in {lease[t], "none"} /\ (run'[t].pc = "idle" => lease'[t] = "none")
    BY <1>1, <1>2 DEF RevertInv, TypeOK, SagaPcs
  <2>3. run'[t].pc \notin {"turn", "inspecting", "barrier"}
    BY <1>1, <1>2 DEF SagaPcs
  <2> QED
    BY <1>2, <2>1, <2>2, <2>3 DEF RevertInv, LeaseInv
<1>5. TodoInv'
  <2>1. t \notin todo
    BY DEF RevertInv, TodoInv, SagaStep, SagaPcs
  <2>2. run'[t].pc \notin {"turn", "barrier", "inspecting"}
    BY <1>1, <1>2 DEF SagaPcs
  <2> QED
    BY <1>2, <2>1, <2>2 DEF RevertInv, TypeOK, TodoInv, SagaStep
<1>6. FenceHolds'
  <2>1. \A u \in Threads : Blocked(u)' => Blocked(u)
    BY <1>3 DEF Blocked, SagaStep
  <2>2. run'[t].pc # "turn"
    BY <1>1, <1>2 DEF SagaPcs
  <2> QED
    BY <1>2, <2>1, <2>2 DEF RevertInv, FenceHolds
<1>7. ASSUME NEW u \in Threads PROVE ThreadInv(u)'
  <2>1. CASE u = t
    BY <2>1
  <2>2. CASE u # t
    BY <2>2, <1>2, UntouchedThread DEF RevertInv, SagaStep
  <2> QED
    BY <2>1, <2>2
<1> QED
  BY <1>4, <1>5, <1>6, <1>7 DEF RevertInv

\* The operation of a thread in the saga is a record of the journal.
LEMMA SagaOperation ==
  ASSUME RevertInv, NEW t \in Threads, run[t].pc \in SagaPcs
  PROVE  /\ journal[t] # None /\ journal[t] \in Operations
         /\ turns[t] \in 0..MaxTurns /\ provider[t] \in 0..MaxTurns \cup {Fresh}
         /\ run[t] \in [pc : Sync \cup Awaits, target : 0..MaxTurns]
BY DEF RevertInv, TypeOK, ThreadInv, RunPhase

\* What Goto and SetPhase do, with the records written out.
At(t, pc) == [pc |-> pc, target |-> run[t].target]
InPhase(t, phase) ==
  [phase |-> phase, target |-> journal[t].target, current |-> journal[t].current]

LEMMA GotoRecord ==
  ASSUME RevertInv, NEW t \in Threads, NEW pc, Goto(t, pc)
  PROVE  run' = [run EXCEPT ![t] = At(t, pc)]
<1>1. run[t] \in [pc : Sync \cup Awaits, target : 0..MaxTurns]
  BY DEF RevertInv, TypeOK
<1>2. [run[t] EXCEPT !.pc = pc] = At(t, pc)
  BY <1>1 DEF At
<1> QED
  BY <1>2 DEF Goto

LEMMA SetPhaseRecord ==
  ASSUME RevertInv, NEW t \in Threads, journal[t] \in Operations, NEW phase, SetPhase(t, phase)
  PROVE  journal' = [journal EXCEPT ![t] = InPhase(t, phase)]
<1>1. [journal[t] EXCEPT !.phase = phase] = InPhase(t, phase)
  BY DEF InPhase, Operations
<1> QED
  BY <1>1 DEF SetPhase

\* A saga step that leaves thread t with these values, and its files anywhere.
SagaTo(t, n, p, j, r) ==
  /\ n \in 0..MaxTurns /\ p \in 0..MaxTurns \cup {Fresh} /\ j \in Operations \cup {None}
  /\ r \in [pc : Sync \cup Awaits, target : 0..MaxTurns]
  /\ turns' = [turns EXCEPT ![t] = n]
  /\ provider' = [provider EXCEPT ![t] = p]
  /\ journal' = [journal EXCEPT ![t] = j]
  /\ run' = [run EXCEPT ![t] = r]
  /\ \/ r.pc \in SagaPcs /\ lease' = lease
     \/ r.pc = "idle" /\ lease' = [lease EXCEPT ![t] = "none"]
  /\ files' \in [Threads -> 0..MaxTurns \cup {Torn, Abandoned, Other}]
  /\ UNCHANGED <<quarantined, byHand, up, todo, bounds>>

LEMMA SagaValues ==
  ASSUME RevertInv, NEW t \in Threads, NEW n, NEW p, NEW j, NEW r, SagaTo(t, n, p, j, r)
  PROVE  /\ turns'[t] = n /\ provider'[t] = p /\ journal'[t] = j /\ run'[t] = r
         /\ TypeOK'
<1>1. turns'[t] = n /\ provider'[t] = p /\ journal'[t] = j /\ run'[t] = r
  BY DEF RevertInv, TypeOK, SagaTo
<1>2. /\ turns' \in [Threads -> 0..MaxTurns]
      /\ provider' \in [Threads -> 0..MaxTurns \cup {Fresh}]
      /\ journal' \in [Threads -> Operations \cup {None}]
      /\ run' \in [Threads -> [pc : Sync \cup Awaits, target : 0..MaxTurns]]
      /\ lease' \in [Threads -> {"none", "shared", "exclusive"}]
  BY DEF RevertInv, TypeOK, SagaTo
<1>3. TypeOK'
  BY <1>2 DEF RevertInv, TypeOK, SagaTo, bounds
<1> QED
  BY <1>1, <1>3

LEMMA SagaToKeeps ==
  ASSUME RevertInv, NEW t \in Threads, run[t].pc \in SagaPcs,
         NEW n, NEW p, NEW j, NEW r, SagaTo(t, n, p, j, r), ThreadInv(t)'
  PROVE  RevertInv'
<1>1. SagaStep(t)
  BY DEF RevertInv, TypeOK, SagaTo, SagaStep
<1> QED
  BY <1>1, SagaValues, SagaKeeps

-----------------------------------------------------------------------------
(* The steps of the saga.                                                   *)

LEMMA RestoreUnavailableKeeps ==
  ASSUME RevertAssumption, RevertInv, NEW t \in Threads, RestoreUnavailable(t)
  PROVE  RevertInv'
<1>1. run[t].pc \in SagaPcs
  BY DEF RestoreUnavailable, SagaPcs
<1>2. SagaTo(t, turns[t], provider[t], None, [pc |-> "idle", target |-> 0])
  BY <1>1, SagaOperation DEF RevertInv, TypeOK, SagaTo, SagaPcs, Sync, Awaits, Operations, Phases,
     ThreadInv, RunPhase, Progress, RestoreUnavailable, Delete, End
<1>3. ThreadInv(t)'
  <2>1. /\ turns'[t] = turns[t] /\ provider'[t] = provider[t]
        /\ journal'[t] = None /\ run'[t] = [pc |-> "idle", target |-> 0]
    BY <1>2, SagaValues
  <2>2. UNCHANGED <<quarantined, byHand>>
    BY <1>2 DEF SagaTo
  <2>3. RunPhase(t)'
    BY <2>1 DEF RunPhase, SagaPcs
  <2>4. Progress(t)'
    BY <1>1, <2>1, SagaOperation
    DEF RevertInv, ThreadInv, RunPhase, Progress, Operations, Phases, RestoreUnavailable
  <2>5. Agreement(t)'
    BY <1>1, <2>1, <2>2, SagaOperation
    DEF RevertInv, ThreadInv, RunPhase, Progress, Agreement, Operations, Phases, RestoreUnavailable
  <2> QED
    BY <2>3, <2>4, <2>5 DEF ThreadInv
<1> QED
  BY <1>1, <1>2, <1>3, SagaToKeeps

LEMMA RestoreDoneKeeps ==
  ASSUME RevertAssumption, RevertInv, NEW t \in Threads, RestoreDone(t)
  PROVE  RevertInv'
<1>1. run[t].pc \in SagaPcs
  BY DEF RestoreDone, SagaPcs
<1>2. /\ run' = [run EXCEPT ![t] = At(t, "restored")]
      /\ journal' = [journal EXCEPT ![t] = InPhase(t, "filesystem_restored")]
  BY <1>1, SagaOperation, GotoRecord, SetPhaseRecord DEF RestoreDone
<1>3. SagaTo(t, turns[t], provider[t], InPhase(t, "filesystem_restored"), At(t, "restored"))
  BY <1>1, <1>2, SagaOperation DEF RevertInv, TypeOK, SagaTo, SagaPcs, Sync, Awaits, Operations, Phases,
     At, InPhase, ThreadInv, RunPhase, Progress, RestoreDone, Wrote
<1>4. ThreadInv(t)'
  <2>1. /\ turns'[t] = turns[t] /\ provider'[t] = provider[t]
        /\ journal'[t] = InPhase(t, "filesystem_restored") /\ run'[t] = At(t, "restored")
    BY <1>3, SagaValues
  <2>2. InPhase(t, "filesystem_restored") # None /\ InPhase(t, "filesystem_restored") \in Operations
    BY <1>1, SagaOperation DEF RevertAssumption, InPhase, Operations, Phases
  <2>3. UNCHANGED <<quarantined, byHand>>
    BY <1>3 DEF SagaTo
  <2>4. RunPhase(t)'
    BY <1>1, <2>1, <2>2, SagaOperation DEF RevertInv, ThreadInv, RunPhase, SagaPcs, At, InPhase, RestoreDone
  <2>5. Progress(t)'
    BY <1>1, <2>1, <2>2, SagaOperation
    DEF RevertInv, ThreadInv, RunPhase, Progress, Operations, Phases, At, InPhase, RestoreDone
  <2>6. Agreement(t)'
    BY <1>1, <2>1, <2>2, <2>3, SagaOperation
    DEF RevertInv, ThreadInv, RunPhase, Progress, Agreement, Operations, Phases, At, InPhase, RestoreDone
  <2> QED
    BY <2>4, <2>5, <2>6 DEF ThreadInv
<1> QED
  BY <1>1, <1>3, <1>4, SagaToKeeps

\* The turns the provider is left with.
RolledBack(t) ==
  LET left == provider[t] - (journal[t].current - journal[t].target) IN
  IF left < 0 THEN 0 ELSE left

LEMMA ProviderRollsBackKeeps ==
  ASSUME RevertAssumption, RevertInv, NEW t \in Threads, ProviderRollsBack(t)
  PROVE  RevertInv'
<1>1. run[t].pc \in SagaPcs
  BY DEF ProviderRollsBack, SagaPcs
<1>2. run' = [run EXCEPT ![t] = At(t, "rolledBack")]
  BY <1>1, SagaOperation, GotoRecord DEF ProviderRollsBack
<1>3. SagaTo(t, turns[t], RolledBack(t), journal[t], At(t, "rolledBack"))
  BY <1>1, <1>2, SagaOperation DEF RevertInv, TypeOK, SagaTo, SagaPcs, Sync, Awaits, Operations, Phases,
     At, ThreadInv, RunPhase, Progress, ProviderRollsBack, RolledBack
<1>4. ThreadInv(t)'
  <2>1. /\ turns'[t] = turns[t] /\ provider'[t] = RolledBack(t)
        /\ journal'[t] = journal[t] /\ run'[t] = At(t, "rolledBack")
    BY <1>3, SagaValues
  <2>2. UNCHANGED <<quarantined, byHand>>
    BY <1>3 DEF SagaTo
  <2>3. RunPhase(t)'
    BY <1>1, <2>1, SagaOperation DEF RevertInv, ThreadInv, RunPhase, SagaPcs, At, ProviderRollsBack
  <2>4. Progress(t)'
    BY <1>1, <2>1, SagaOperation
    DEF RevertInv, ThreadInv, RunPhase, Progress, Operations, Phases, At, ProviderRollsBack, RolledBack
  <2>5. Agreement(t)'
    BY <1>1, <2>1, <2>2, SagaOperation
    DEF RevertInv, ThreadInv, RunPhase, Progress, Agreement, Operations, Phases, At, ProviderRollsBack, RolledBack
  <2> QED
    BY <2>3, <2>4, <2>5 DEF ThreadInv
<1> QED
  BY <1>1, <1>3, <1>4, SagaToKeeps

LEMMA RollbackConfirmedKeeps ==
  ASSUME RevertAssumption, RevertInv, NEW t \in Threads, RollbackConfirmed(t)
  PROVE  RevertInv'
<1>1. run[t].pc \in SagaPcs
  BY DEF RollbackConfirmed, SagaPcs
<1>2. /\ run' = [run EXCEPT ![t] = At(t, "truncating")]
      /\ journal' = [journal EXCEPT ![t] = InPhase(t, "provider_rollback_done")]
  BY <1>1, SagaOperation, GotoRecord, SetPhaseRecord DEF RollbackConfirmed
<1>3. SagaTo(t, turns[t], provider[t], InPhase(t, "provider_rollback_done"),
            At(t, "truncating"))
  BY <1>1, <1>2, SagaOperation DEF RevertInv, TypeOK, SagaTo, SagaPcs, Sync, Awaits, Operations, Phases,
     At, InPhase, ThreadInv, RunPhase, Progress, RollbackConfirmed
<1>4. ThreadInv(t)'
  <2>1. /\ turns'[t] = turns[t] /\ provider'[t] = provider[t]
        /\ journal'[t] = InPhase(t, "provider_rollback_done") /\ run'[t] = At(t, "truncating")
    BY <1>3, SagaValues
  <2>2. InPhase(t, "provider_rollback_done") # None /\ InPhase(t, "provider_rollback_done") \in Operations
    BY <1>1, SagaOperation DEF RevertAssumption, InPhase, Operations, Phases
  <2>3. UNCHANGED <<quarantined, byHand>>
    BY <1>3 DEF SagaTo
  <2>4. RunPhase(t)'
    BY <1>1, <2>1, <2>2, SagaOperation DEF RevertInv, ThreadInv, RunPhase, SagaPcs, At, InPhase, RollbackConfirmed
  <2>5. Progress(t)'
    BY <1>1, <2>1, <2>2, SagaOperation
    DEF RevertInv, ThreadInv, RunPhase, Progress, Operations, Phases, At, InPhase, RollbackConfirmed
  <2>6. Agreement(t)'
    BY <1>1, <2>1, <2>2, <2>3, SagaOperation
    DEF RevertInv, ThreadInv, RunPhase, Progress, Agreement, Operations, Phases, At, InPhase, RollbackConfirmed
  <2> QED
    BY <2>4, <2>5, <2>6 DEF ThreadInv
<1> QED
  BY <1>1, <1>3, <1>4, SagaToKeeps

LEMMA RollbackUnconfirmedKeeps ==
  ASSUME RevertAssumption, RevertInv, NEW t \in Threads, RollbackUnconfirmed(t)
  PROVE  RevertInv'
<1>1. run[t].pc \in SagaPcs
  BY DEF RollbackUnconfirmed, SagaPcs
<1>2. run' = [run EXCEPT ![t] = At(t, "stopping")]
  BY <1>1, SagaOperation, GotoRecord DEF RollbackUnconfirmed
<1>3. SagaTo(t, turns[t], provider[t], journal[t], At(t, "stopping"))
  BY <1>1, <1>2, SagaOperation DEF RevertInv, TypeOK, SagaTo, SagaPcs, Sync, Awaits, Operations, Phases,
     At, ThreadInv, RunPhase, Progress, RollbackUnconfirmed, durable
<1>4. ThreadInv(t)'
  <2>1. /\ turns'[t] = turns[t] /\ provider'[t] = provider[t]
        /\ journal'[t] = journal[t] /\ run'[t] = At(t, "stopping")
    BY <1>3, SagaValues
  <2>2. UNCHANGED <<quarantined, byHand>>
    BY <1>3 DEF SagaTo
  <2>3. RunPhase(t)'
    BY <1>1, <2>1, SagaOperation DEF RevertInv, ThreadInv, RunPhase, SagaPcs, At, RollbackUnconfirmed
  <2>4. Progress(t)'
    BY <1>1, <2>1, SagaOperation
    DEF RevertInv, ThreadInv, RunPhase, Progress, Operations, Phases, At, RollbackUnconfirmed
  <2>5. Agreement(t)'
    BY <1>1, <2>1, <2>2, SagaOperation
    DEF RevertInv, ThreadInv, RunPhase, Progress, Agreement, Operations, Phases, At, RollbackUnconfirmed
  <2> QED
    BY <2>3, <2>4, <2>5 DEF ThreadInv
<1> QED
  BY <1>1, <1>3, <1>4, SagaToKeeps

LEMMA SessionStoppedKeeps ==
  ASSUME RevertAssumption, RevertInv, NEW t \in Threads, SessionStopped(t)
  PROVE  RevertInv'
<1>1. run[t].pc \in SagaPcs
  BY DEF SessionStopped, SagaPcs
<1>2. run' = [run EXCEPT ![t] = At(t, "rotated")]
  BY <1>1, SagaOperation, GotoRecord DEF SessionStopped
<1>3. SagaTo(t, turns[t], Fresh, journal[t], At(t, "rotated"))
  BY <1>1, <1>2, SagaOperation DEF RevertInv, TypeOK, SagaTo, SagaPcs, Sync, Awaits, Operations, Phases,
     At, ThreadInv, RunPhase, Progress, SessionStopped
<1>4. ThreadInv(t)'
  <2>1. /\ turns'[t] = turns[t] /\ provider'[t] = Fresh
        /\ journal'[t] = journal[t] /\ run'[t] = At(t, "rotated")
    BY <1>3, SagaValues
  <2>2. UNCHANGED <<quarantined, byHand>>
    BY <1>3 DEF SagaTo
  <2>3. RunPhase(t)'
    BY <1>1, <2>1, SagaOperation DEF RevertInv, ThreadInv, RunPhase, SagaPcs, At, SessionStopped
  <2>4. Progress(t)'
    BY <1>1, <2>1, SagaOperation
    DEF RevertInv, ThreadInv, RunPhase, Progress, Operations, Phases, At, SessionStopped
  <2>5. Agreement(t)'
    BY <1>1, <2>1, <2>2, SagaOperation
    DEF RevertInv, ThreadInv, RunPhase, Progress, Agreement, Operations, Phases, At, SessionStopped
  <2> QED
    BY <2>3, <2>4, <2>5 DEF ThreadInv
<1> QED
  BY <1>1, <1>3, <1>4, SagaToKeeps

LEMMA AfterRotationKeeps ==
  ASSUME RevertAssumption, RevertInv, NEW t \in Threads, AfterRotation(t)
  PROVE  RevertInv'
<1>1. run[t].pc \in SagaPcs
  BY DEF AfterRotation, SagaPcs
<1>2. /\ run' = [run EXCEPT ![t] = At(t, "truncating")]
      /\ journal' = [journal EXCEPT ![t] = InPhase(t, "provider_rollback_done")]
  BY <1>1, SagaOperation, GotoRecord, SetPhaseRecord DEF AfterRotation
<1>3. SagaTo(t, turns[t], provider[t], InPhase(t, "provider_rollback_done"),
            At(t, "truncating"))
  BY <1>1, <1>2, SagaOperation DEF RevertInv, TypeOK, SagaTo, SagaPcs, Sync, Awaits, Operations, Phases,
     At, InPhase, ThreadInv, RunPhase, Progress, AfterRotation
<1>4. ThreadInv(t)'
  <2>1. /\ turns'[t] = turns[t] /\ provider'[t] = provider[t]
        /\ journal'[t] = InPhase(t, "provider_rollback_done") /\ run'[t] = At(t, "truncating")
    BY <1>3, SagaValues
  <2>2. InPhase(t, "provider_rollback_done") # None /\ InPhase(t, "provider_rollback_done") \in Operations
    BY <1>1, SagaOperation DEF RevertAssumption, InPhase, Operations, Phases
  <2>3. UNCHANGED <<quarantined, byHand>>
    BY <1>3 DEF SagaTo
  <2>4. RunPhase(t)'
    BY <1>1, <2>1, <2>2, SagaOperation DEF RevertInv, ThreadInv, RunPhase, SagaPcs, At, InPhase, AfterRotation
  <2>5. Progress(t)'
    BY <1>1, <2>1, <2>2, SagaOperation
    DEF RevertInv, ThreadInv, RunPhase, Progress, Operations, Phases, At, InPhase, AfterRotation
  <2>6. Agreement(t)'
    BY <1>1, <2>1, <2>2, <2>3, SagaOperation
    DEF RevertInv, ThreadInv, RunPhase, Progress, Agreement, Operations, Phases, At, InPhase, AfterRotation
  <2> QED
    BY <2>4, <2>5, <2>6 DEF ThreadInv
<1> QED
  BY <1>1, <1>3, <1>4, SagaToKeeps

LEMMA TruncateKeeps ==
  ASSUME RevertAssumption, RevertInv, NEW t \in Threads, Truncate(t)
  PROVE  RevertInv'
<1>1. run[t].pc \in SagaPcs
  BY DEF Truncate, SagaPcs
<1>2. run' = [run EXCEPT ![t] = At(t, "truncated")]
  BY <1>1, SagaOperation, GotoRecord DEF Truncate
<1>3. SagaTo(t, journal[t].target, provider[t], journal[t], At(t, "truncated"))
  BY <1>1, <1>2, SagaOperation DEF RevertInv, TypeOK, SagaTo, SagaPcs, Sync, Awaits, Operations, Phases,
     At, ThreadInv, RunPhase, Progress, Truncate
<1>4. ThreadInv(t)'
  <2>1. /\ turns'[t] = journal[t].target /\ provider'[t] = provider[t]
        /\ journal'[t] = journal[t] /\ run'[t] = At(t, "truncated")
    BY <1>3, SagaValues
  <2>2. UNCHANGED <<quarantined, byHand>>
    BY <1>3 DEF SagaTo
  <2>3. RunPhase(t)'
    BY <1>1, <2>1, SagaOperation DEF RevertInv, ThreadInv, RunPhase, SagaPcs, At, Truncate
  <2>4. Progress(t)'
    BY <1>1, <2>1, SagaOperation
    DEF RevertInv, ThreadInv, RunPhase, Progress, Operations, Phases, At, Truncate
  <2>5. Agreement(t)'
    BY <1>1, <2>1, <2>2, SagaOperation
    DEF RevertInv, ThreadInv, RunPhase, Progress, Agreement, Operations, Phases, At, Truncate
  <2> QED
    BY <2>3, <2>4, <2>5 DEF ThreadInv
<1> QED
  BY <1>1, <1>3, <1>4, SagaToKeeps

LEMMA AfterTruncateKeeps ==
  ASSUME RevertAssumption, RevertInv, NEW t \in Threads, AfterTruncate(t)
  PROVE  RevertInv'
<1>1. run[t].pc \in SagaPcs
  BY DEF AfterTruncate, SagaPcs
<1>2. /\ run' = [run EXCEPT ![t] = At(t, "cleaning")]
      /\ journal' = [journal EXCEPT ![t] = InPhase(t, "database_truncated")]
  BY <1>1, SagaOperation, GotoRecord, SetPhaseRecord DEF AfterTruncate
<1>3. SagaTo(t, turns[t], provider[t], InPhase(t, "database_truncated"), At(t, "cleaning"))
  BY <1>1, <1>2, SagaOperation DEF RevertInv, TypeOK, SagaTo, SagaPcs, Sync, Awaits, Operations, Phases,
     At, InPhase, ThreadInv, RunPhase, Progress, AfterTruncate
<1>4. ThreadInv(t)'
  <2>1. /\ turns'[t] = turns[t] /\ provider'[t] = provider[t]
        /\ journal'[t] = InPhase(t, "database_truncated") /\ run'[t] = At(t, "cleaning")
    BY <1>3, SagaValues
  <2>2. InPhase(t, "database_truncated") # None /\ InPhase(t, "database_truncated") \in Operations
    BY <1>1, SagaOperation DEF RevertAssumption, InPhase, Operations, Phases
  <2>3. UNCHANGED <<quarantined, byHand>>
    BY <1>3 DEF SagaTo
  <2>4. RunPhase(t)'
    BY <1>1, <2>1, <2>2, SagaOperation DEF RevertInv, ThreadInv, RunPhase, SagaPcs, At, InPhase, AfterTruncate
  <2>5. Progress(t)'
    BY <1>1, <2>1, <2>2, SagaOperation
    DEF RevertInv, ThreadInv, RunPhase, Progress, Operations, Phases, At, InPhase, AfterTruncate
  <2>6. Agreement(t)'
    BY <1>1, <2>1, <2>2, <2>3, SagaOperation
    DEF RevertInv, ThreadInv, RunPhase, Progress, Agreement, Operations, Phases, At, InPhase, AfterTruncate
  <2> QED
    BY <2>4, <2>5, <2>6 DEF ThreadInv
<1> QED
  BY <1>1, <1>3, <1>4, SagaToKeeps

LEMMA CleanedKeeps ==
  ASSUME RevertAssumption, RevertInv, NEW t \in Threads, Cleaned(t)
  PROVE  RevertInv'
<1>1. run[t].pc \in SagaPcs
  BY DEF Cleaned, SagaPcs
<1>2. SagaTo(t, turns[t], provider[t], None, [pc |-> "idle", target |-> 0])
  BY <1>1, SagaOperation DEF RevertInv, TypeOK, SagaTo, SagaPcs, Sync, Awaits, Operations, Phases,
     ThreadInv, RunPhase, Progress, Cleaned, Delete, End
<1>3. ThreadInv(t)'
  <2>1. /\ turns'[t] = turns[t] /\ provider'[t] = provider[t]
        /\ journal'[t] = None /\ run'[t] = [pc |-> "idle", target |-> 0]
    BY <1>2, SagaValues
  <2>2. UNCHANGED <<quarantined, byHand>>
    BY <1>2 DEF SagaTo
  <2>3. RunPhase(t)'
    BY <2>1 DEF RunPhase, SagaPcs
  <2>4. Progress(t)'
    BY <1>1, <2>1, SagaOperation
    DEF RevertInv, ThreadInv, RunPhase, Progress, Operations, Phases, Cleaned
  <2>5. Agreement(t)'
    BY <1>1, <2>1, <2>2, SagaOperation
    DEF RevertInv, ThreadInv, RunPhase, Progress, Agreement, Operations, Phases, Cleaned
  <2> QED
    BY <2>3, <2>4, <2>5 DEF ThreadInv
<1> QED
  BY <1>1, <1>2, <1>3, SagaToKeeps

LEMMA ThrowKeeps ==
  ASSUME RevertAssumption, RevertInv, NEW t \in Threads, Throw(t)
  PROVE  RevertInv'
<1>1. run[t].pc \in SagaPcs
  BY DEF Throw, SagaPcs
<1>2. SagaTo(t, turns[t], provider[t], journal[t], [pc |-> "idle", target |-> 0])
  BY <1>1, SagaOperation DEF RevertInv, TypeOK, SagaTo, SagaPcs, Sync, Awaits, Operations, Phases,
     ThreadInv, RunPhase, Progress, Throw, End, durable
<1>3. ThreadInv(t)'
  <2>1. /\ turns'[t] = turns[t] /\ provider'[t] = provider[t]
        /\ journal'[t] = journal[t] /\ run'[t] = [pc |-> "idle", target |-> 0]
    BY <1>2, SagaValues
  <2>2. UNCHANGED <<quarantined, byHand>>
    BY <1>2 DEF SagaTo
  <2>3. RunPhase(t)'
    BY <2>1 DEF RunPhase, SagaPcs
  <2>4. Progress(t)'
    BY <1>1, <2>1, SagaOperation
    DEF RevertInv, ThreadInv, RunPhase, Progress, Operations, Phases, Throw
  <2>5. Agreement(t)'
    BY <1>1, <2>1, <2>2, SagaOperation
    DEF RevertInv, ThreadInv, RunPhase, Progress, Agreement, Operations, Phases, Throw
  <2> QED
    BY <2>3, <2>4, <2>5 DEF ThreadInv
<1> QED
  BY <1>1, <1>2, <1>3, SagaToKeeps

\* AfterRestore has a branch with nothing to roll back and one with the rollback.
LEMMA AfterRestoreKeeps ==
  ASSUME RevertAssumption, RevertInv, NEW t \in Threads, AfterRestore(t)
  PROVE  RevertInv'
<1>1. /\ run[t].pc \in SagaPcs /\ run[t].pc = "restored"
      /\ journal[t].phase = "filesystem_restored"
  BY DEF AfterRestore, SagaPcs, RevertInv, ThreadInv, RunPhase
<1>2. PICK phase \in Phases, pc \in SagaPcs :
        /\ \/ phase = "provider_rollback_done" /\ pc = "truncating"
                /\ journal[t].current = journal[t].target
           \/ phase = "provider_rollback_started" /\ pc = "rolling"
        /\ SetPhase(t, phase) /\ Goto(t, pc)
  BY Zenon DEF AfterRestore, Phases, SagaPcs
<1>3. /\ run' = [run EXCEPT ![t] = At(t, pc)]
      /\ journal' = [journal EXCEPT ![t] = InPhase(t, phase)]
  BY <1>1, <1>2, SagaOperation, GotoRecord, SetPhaseRecord
<1>4. UNCHANGED <<turns, provider, files, quarantined, byHand, lease, up, todo, bounds>>
  BY DEF AfterRestore
<1>5. InPhase(t, phase) \in Operations /\ InPhase(t, phase) # None
  BY <1>1, SagaOperation DEF RevertAssumption, InPhase, Operations
<1>6. SagaTo(t, turns[t], provider[t], InPhase(t, phase), At(t, pc))
  BY <1>1, <1>2, <1>3, <1>4, <1>5, SagaOperation
  DEF RevertInv, TypeOK, SagaTo, SagaPcs, Sync, Awaits, At
<1>7. ThreadInv(t)'
  <2>1. /\ turns'[t] = turns[t] /\ provider'[t] = provider[t]
        /\ journal'[t] = InPhase(t, phase) /\ run'[t] = At(t, pc)
    BY <1>6, SagaValues
  <2>2. RunPhase(t)'
    BY <1>2, <1>5, <2>1 DEF RunPhase, SagaPcs, At, InPhase
  <2>3. Progress(t)'
    BY <1>1, <1>2, <1>5, <2>1, SagaOperation
    DEF RevertInv, ThreadInv, Progress, Operations, At, InPhase
  <2>4. Agreement(t)'
    BY <1>1, <1>2, <1>4, <1>5, <2>1, SagaOperation DEF RevertInv, ThreadInv, Agreement, At, InPhase
  <2> QED
    BY <2>2, <2>3, <2>4 DEF ThreadInv
<1> QED
  BY <1>1, <1>6, <1>7, SagaToKeeps

\* OwnersClosed goes on wherever the operation's phase says.
LEMMA OwnersClosedKeeps ==
  ASSUME RevertAssumption, RevertInv, NEW t \in Threads, OwnersClosed(t)
  PROVE  RevertInv'
<1> DEFINE next == ResumeAt(journal[t].phase)
<1>1. run[t].pc \in SagaPcs /\ run[t].pc = "closing"
  BY DEF OwnersClosed, SagaPcs
<1>2. /\ journal[t].phase = "prepared" => next = "restoring"
      /\ journal[t].phase = "filesystem_restored" => next = "restored"
      /\ journal[t].phase = "provider_rollback_started" => next = "stopping"
      /\ journal[t].phase = "provider_rollback_done" => next = "truncating"
      /\ journal[t].phase = "database_truncated" => next = "cleaning"
  BY DEF ResumeAt
<1>3. journal[t].phase \in Phases
  BY <1>1, SagaOperation DEF Operations
<1>4. /\ next \in {"restoring", "restored", "stopping", "truncating", "cleaning"}
      /\ next = "restoring" => journal[t].phase = "prepared"
      /\ next = "restored" => journal[t].phase = "filesystem_restored"
      /\ next = "stopping" => journal[t].phase = "provider_rollback_started"
      /\ next = "truncating" => journal[t].phase = "provider_rollback_done"
      /\ next = "cleaning" => journal[t].phase = "database_truncated"
  BY <1>2, <1>3 DEF Phases
<1>5. run' = [run EXCEPT ![t] = At(t, next)]
  BY GotoRecord DEF OwnersClosed
<1>6. /\ UNCHANGED <<turns, provider, journal, quarantined, byHand, lease, up, todo, bounds>>
      /\ files' \in [Threads -> 0..MaxTurns \cup {Torn, Abandoned, Other}]
  BY DEF OwnersClosed, RevertInv, TypeOK
<1> HIDE DEF next
<1>7. SagaTo(t, turns[t], provider[t], journal[t], At(t, next))
  BY <1>1, <1>4, <1>5, <1>6, SagaOperation DEF RevertInv, TypeOK, SagaTo, SagaPcs, Sync, Awaits, At
<1>8. ThreadInv(t)'
  <2>1. run'[t] = At(t, next)
    BY <1>7, SagaValues
  <2>2. RunPhase(t)'
    BY <1>1, <1>4, <1>6, <2>1, SagaOperation DEF RevertInv, ThreadInv, RunPhase, SagaPcs, At
  <2>3. Progress(t)'
    BY <1>1, <1>4, <1>6, <2>1 DEF RevertInv, ThreadInv, Progress, At
  <2>4. Agreement(t)'
    BY <1>1, <1>4, <1>6, <2>1 DEF RevertInv, ThreadInv, Agreement, At
  <2> QED
    BY <2>2, <2>3, <2>4 DEF ThreadInv
<1> QED
  BY <1>1, <1>7, <1>8, SagaToKeeps

LEMMA SagaIsSafe ==
  ASSUME RevertAssumption, RevertInv, NEW t \in Threads, Saga(t)
  PROVE  RevertInv'
BY OwnersClosedKeeps, RestoreUnavailableKeeps, RestoreDoneKeeps, AfterRestoreKeeps,
   ProviderRollsBackKeeps, RollbackConfirmedKeeps, RollbackUnconfirmedKeeps, SessionStoppedKeeps,
   AfterRotationKeeps, TruncateKeeps, AfterTruncateKeeps, CleanedKeeps, ThrowKeeps, Zenon DEF Saga

-----------------------------------------------------------------------------
(* Turns, requests and the barrier, where leases and the fence matter.      *)

\* Under the fence no operation and no quarantine is in the thread's way.
LEMMA StartTurnKeeps ==
  ASSUME RevertInv, NEW t \in Threads, StartTurn(t)
  PROVE  RevertInv'
<1>1. /\ run' = [run EXCEPT ![t] = At(t, "turn")]
      /\ lease' = [lease EXCEPT ![t] = "shared"]
      /\ UNCHANGED <<durable, up, todo, bounds>>
      /\ up = "serving" /\ turns[t] < MaxTurns
  BY GotoRecord DEF StartTurn
<1>2. /\ run'[t].pc = "turn" /\ lease'[t] = "shared"
      /\ \A u \in Threads \ {t} : run'[u] = run[u] /\ lease'[u] = lease[u]
  BY <1>1 DEF RevertInv, TypeOK, At
<1>3. \A u \in Threads : Cwd[u] = Cwd[t] => ~Blocked(u) /\ lease[u] # "exclusive"
  BY DEF StartTurn, Fenced, Neighbours
<1>4. TypeOK'
  <2>1. At(t, "turn") \in [pc : Sync \cup Awaits, target : 0..MaxTurns]
    BY DEF RevertInv, TypeOK, At, Awaits
  <2> QED
    BY <1>1, <2>1 DEF RevertInv, TypeOK, durable, bounds
<1>5. LeaseInv'
  BY <1>2, <1>3 DEF RevertInv, LeaseInv
<1>6. TodoInv'
  BY <1>1 DEF RevertInv, TodoInv
<1>7. FenceHolds'
  BY <1>1, <1>2, <1>3 DEF RevertInv, FenceHolds, Blocked, durable
<1>8. ASSUME NEW u \in Threads PROVE ThreadInv(u)'
  <2>1. CASE u # t
    BY <1>1, <1>2, <2>1, UntouchedThread DEF RevertInv, durable
  <2>2. CASE u = t
    <3>1. journal[t] = None
      BY <1>3 DEF Blocked
    <3> QED
      BY <1>1, <1>2, <2>2, <3>1
      DEF RevertInv, ThreadInv, RunPhase, Progress, Agreement, SagaPcs, durable
  <2> QED
    BY <2>1, <2>2
<1> QED
  BY <1>4, <1>5, <1>6, <1>7, <1>8 DEF RevertInv

\* A turn settles on the numbers the database had when it began.
LEMMA EndTurnKeeps ==
  ASSUME RevertAssumption, RevertInv, NEW t \in Threads, EndTurn(t)
  PROVE  RevertInv'
<1> DEFINE p == (IF provider[t] = Fresh THEN turns[t] ELSE provider[t]) + 1
<1>1. /\ turns' = [turns EXCEPT ![t] = turns[t] + 1]
      /\ provider' = [provider EXCEPT ![t] = p]
      /\ run' = [run EXCEPT ![t] = [pc |-> "idle", target |-> 0]]
      /\ lease' = [lease EXCEPT ![t] = "none"]
      /\ UNCHANGED <<journal, quarantined, byHand, up, todo, bounds>>
  BY DEF EndTurn, End
<1>2. /\ turns[t] \in 0..MaxTurns /\ turns[t] < MaxTurns
      /\ provider[t] # Fresh => provider[t] \in 0..MaxTurns /\ provider[t] <= turns[t]
      /\ journal[t] = None
  BY DEF EndTurn, RevertInv, TypeOK, ThreadInv, Progress, FenceHolds, Blocked
<1>3. p \in 1..(turns[t] + 1) /\ turns[t] + 1 \in 0..MaxTurns
  BY <1>2 DEF RevertAssumption
<1>4. files' \in [Threads -> 0..MaxTurns \cup {Torn, Abandoned, Other}]
  BY <1>3 DEF EndTurn, Wrote, RevertInv, TypeOK
<1>5. p # Fresh /\ (provider[t] \in {turns[t], Fresh} => p = turns[t] + 1)
  BY <1>3 DEF RevertAssumption
<1> HIDE DEF p
<1>6. /\ turns'[t] = turns[t] + 1 /\ provider'[t] = p
      /\ run'[t] = [pc |-> "idle", target |-> 0] /\ lease'[t] = "none"
      /\ \A u \in Threads \ {t} : /\ turns'[u] = turns[u] /\ provider'[u] = provider[u]
                                  /\ run'[u] = run[u] /\ lease'[u] = lease[u]
  BY <1>1 DEF RevertInv, TypeOK
<1>7. TypeOK'
  <2>1. p \in 0..MaxTurns
    BY <1>3 DEF RevertAssumption
  <2>2. [pc |-> "idle", target |-> 0] \in [pc : Sync \cup Awaits, target : 0..MaxTurns]
    BY DEF RevertAssumption, Awaits
  <2> QED
    BY <1>1, <1>3, <1>4, <2>1, <2>2 DEF RevertInv, TypeOK, bounds
<1>8. LeaseInv'
  BY <1>6 DEF RevertInv, LeaseInv
<1>9. TodoInv'
  <2>1. up = "serving" /\ todo = {}
    BY DEF EndTurn, RevertInv, TodoInv, TypeOK
  <2> QED
    BY <1>1, <2>1 DEF TodoInv
<1>10. FenceHolds'
  BY <1>1, <1>6 DEF RevertInv, FenceHolds, Blocked
<1>11. ASSUME NEW u \in Threads PROVE ThreadInv(u)'
  <2>1. CASE u # t
    BY <1>1, <1>6, <2>1, UntouchedThread DEF RevertInv
  <2>2. CASE u = t
    <3>1. p <= turns[t] + 1
      BY <1>3, <1>2
    <3>2. RunPhase(t)' /\ Progress(t)'
      BY <1>1, <1>2, <1>6, <3>1 DEF RunPhase, Progress, SagaPcs
    <3>3. Agreement(t)'
      BY <1>1, <1>2, <1>5, <1>6 DEF RevertInv, ThreadInv, Agreement
    <3> QED
      BY <2>2, <3>2, <3>3 DEF ThreadInv
  <2> QED
    BY <2>1, <2>2
<1> QED
  BY <1>7, <1>8, <1>9, <1>10, <1>11 DEF RevertInv

\* A revert that has not begun: its run moves, and its lease with it.
Waiting(t, r, l) ==
  /\ run[t].pc \in {"idle", "barrier", "inspecting"}
  /\ r \in [pc : Sync \cup Awaits, target : 0..MaxTurns]
  /\ l \in {"none", "exclusive"}
  /\ \/ r.pc \in {"idle", "barrier"} /\ l = "none"
     \/ r.pc = "inspecting" /\ l = "exclusive"
  /\ r.pc # "idle" => r.target <= turns[t] /\ t \notin todo /\ up = "serving"
  /\ l = "exclusive" => \A u \in Threads \ {t} : Cwd[u] = Cwd[t] => lease[u] = "none"
  /\ run' = [run EXCEPT ![t] = r]
  /\ lease' = [lease EXCEPT ![t] = l]
  /\ UNCHANGED <<durable, up, todo>>
  /\ reverts' \in 0..MaxReverts /\ crashes' \in 0..MaxCrashes

LEMMA WaitingKeeps ==
  ASSUME RevertInv, NEW t \in Threads, NEW r, NEW l, Waiting(t, r, l)
  PROVE  RevertInv'
<1>1. /\ run'[t] = r /\ lease'[t] = l
      /\ \A u \in Threads \ {t} : run'[u] = run[u] /\ lease'[u] = lease[u]
  BY DEF Waiting, RevertInv, TypeOK
<1>2. TypeOK'
  BY DEF Waiting, RevertInv, TypeOK, durable
<1>3. LeaseInv'
  BY <1>1 DEF Waiting, RevertInv, LeaseInv
<1>4. TodoInv'
  BY <1>1 DEF Waiting, RevertInv, TypeOK, TodoInv, durable
<1>5. FenceHolds'
  BY <1>1 DEF Waiting, RevertInv, FenceHolds, Blocked, durable
<1>6. ASSUME NEW u \in Threads PROVE ThreadInv(u)'
  <2>1. CASE u # t
    BY <1>1, <2>1, UntouchedThread DEF Waiting, RevertInv, durable
  <2>2. CASE u = t
    <3>1. RunPhase(t)'
      BY <1>1 DEF Waiting, RunPhase, SagaPcs
    <3>2. Progress(t)'
      BY <1>1 DEF Waiting, RevertInv, ThreadInv, Progress, durable
    <3>3. Agreement(t)'
      BY <1>1 DEF Waiting, RevertInv, ThreadInv, Agreement, durable
    <3> QED
      BY <2>2, <3>1, <3>2, <3>3 DEF ThreadInv
  <2> QED
    BY <2>1, <2>2
<1> QED
  BY <1>2, <1>3, <1>4, <1>5, <1>6 DEF RevertInv

LEMMA BeforeBeginKeeps ==
  ASSUME RevertAssumption, RevertInv, NEW t \in Threads,
         RequestRevert(t) \/ GrantBarrier(t) \/ Refuse(t) \/ RefuseBegin(t)
  PROVE  RevertInv'
<1>1. CASE RequestRevert(t)
  <2>1. PICK n \in 0..turns[t] : run' = [run EXCEPT ![t] = [pc |-> "barrier", target |-> n]]
    BY <1>1 DEF RequestRevert
  <2>2. lease = [lease EXCEPT ![t] = "none"]
    BY <1>1 DEF RequestRevert, RevertInv, TypeOK, LeaseInv
  <2>3. n \in 0..MaxTurns /\ n <= turns[t] /\ t \notin todo
    BY <1>1 DEF RequestRevert, RevertInv, TypeOK, TodoInv, RevertAssumption
  <2>4. /\ reverts' \in 0..MaxReverts /\ crashes' \in 0..MaxCrashes
        /\ UNCHANGED <<durable, lease, up, todo>> /\ up = "serving" /\ run[t].pc = "idle"
    BY <1>1 DEF RequestRevert, RevertInv, TypeOK, RevertAssumption
  <2>5. [pc |-> "barrier", target |-> n] \in [pc : Sync \cup Awaits, target : 0..MaxTurns]
    BY <2>3 DEF Awaits
  <2>6. Waiting(t, [pc |-> "barrier", target |-> n], "none")
    BY <2>1, <2>2, <2>3, <2>4, <2>5 DEF Waiting
  <2> QED
    BY <2>6, WaitingKeeps
<1>2. CASE GrantBarrier(t)
  <2>1. run' = [run EXCEPT ![t] = At(t, "inspecting")]
    BY <1>2, GotoRecord DEF GrantBarrier
  <2>2. run[t].pc = "barrier" /\ up = "serving" /\ t \notin todo /\ run[t].target <= turns[t]
    BY <1>2 DEF GrantBarrier, RevertInv, TypeOK, TodoInv, ThreadInv, Progress
  <2>3. \A u \in Threads \ {t} : Cwd[u] = Cwd[t] => lease[u] = "none"
    BY <1>2 DEF GrantBarrier, Neighbours
  <2>4. Waiting(t, At(t, "inspecting"), "exclusive")
    BY <1>2, <2>1, <2>2, <2>3 DEF GrantBarrier, Waiting, RevertInv, TypeOK, Awaits, At, bounds
  <2> QED
    BY <2>4, WaitingKeeps
<1>3. CASE Refuse(t) \/ RefuseBegin(t)
  <2>1. Waiting(t, [pc |-> "idle", target |-> 0], "none")
    BY <1>3
    DEF Refuse, RefuseBegin, End, Waiting, RevertInv, TypeOK, Awaits, RevertAssumption, durable, bounds
  <2> QED
    BY <2>1, WaitingKeeps
<1> QED
  BY <1>1, <1>2, <1>3

\* begin() finds the database at the number it writes into the journal.
LEMMA BeginKeeps ==
  ASSUME RevertAssumption, RevertInv, NEW t \in Threads, Begin(t)
  PROVE  RevertInv'
<1> DEFINE op == [phase |-> "prepared", target |-> run[t].target, current |-> turns[t]]
<1>1. /\ run' = [run EXCEPT ![t] = At(t, "closing")]
      /\ lease' = [lease EXCEPT ![t] = "none"]
      /\ UNCHANGED <<turns, provider, files, quarantined, byHand, up, todo, bounds>>
      /\ run[t].pc = "inspecting"
  BY GotoRecord DEF Begin
<1>2. /\ run[t].target \in 0..MaxTurns /\ turns[t] \in 0..MaxTurns
      /\ run[t].target <= turns[t]
      /\ lease[t] = "exclusive"
      /\ up = "serving" /\ todo = {}
  BY <1>1 DEF RevertInv, TypeOK, LeaseInv, TodoInv, ThreadInv, Progress
<1>3. op \in Operations /\ op # None
  BY <1>2 DEF RevertAssumption, Operations, Phases
<1>4. \/ journal[t] # None /\ journal' = journal
      \/ journal[t] = None /\ t \notin quarantined /\ journal' = [journal EXCEPT ![t] = op]
  BY DEF Begin
<1> HIDE DEF op
<1>5. /\ run'[t].pc = "closing" /\ lease'[t] = "none" /\ journal'[t] # None
      /\ \/ journal'[t] = journal[t]
         \/ journal'[t] = op /\ journal[t] = None /\ t \notin quarantined
      /\ \A u \in Threads \ {t} :
           run'[u] = run[u] /\ lease'[u] = lease[u] /\ journal'[u] = journal[u]
  <2>1. /\ run'[t].pc = "closing" /\ lease'[t] = "none"
        /\ \A u \in Threads \ {t} : run'[u] = run[u] /\ lease'[u] = lease[u]
    BY <1>1 DEF RevertInv, TypeOK, At
  <2>2. /\ journal'[t] # None
        /\ \/ journal'[t] = journal[t]
           \/ journal'[t] = op /\ journal[t] = None /\ t \notin quarantined
        /\ \A u \in Threads \ {t} : journal'[u] = journal[u]
    BY <1>3, <1>4 DEF RevertInv, TypeOK
  <2> QED
    BY <2>1, <2>2
<1>6. TypeOK'
  <2>1. At(t, "closing") \in [pc : Sync \cup Awaits, target : 0..MaxTurns]
    BY <1>2 DEF At, Awaits
  <2>2. journal' \in [Threads -> Operations \cup {None}]
    BY <1>3, <1>4 DEF RevertInv, TypeOK
  <2> QED
    BY <1>1, <2>1, <2>2 DEF RevertInv, TypeOK, bounds
<1>7. LeaseInv'
  BY <1>5 DEF RevertInv, LeaseInv
<1>8. TodoInv'
  BY <1>1, <1>2 DEF TodoInv
<1>9. FenceHolds'
  <2>1. \A u \in Threads : Cwd[u] = Cwd[t] => run'[u].pc # "turn"
    BY <1>2, <1>5 DEF RevertInv, LeaseInv
  <2> QED
    BY <1>1, <1>5, <2>1 DEF RevertInv, FenceHolds, Blocked
<1>10. ASSUME NEW u \in Threads PROVE ThreadInv(u)'
  <2>1. CASE u # t
    BY <1>1, <1>5, <2>1, UntouchedThread DEF RevertInv
  <2>2. CASE u = t
    <3>1. RunPhase(t)'
      BY <1>5 DEF RunPhase
    <3>2. CASE journal'[t] = journal[t]
      <4>1. Progress(t)' /\ Agreement(t)'
        BY <1>1, <1>5, <3>2 DEF RevertInv, ThreadInv, Progress, Agreement
      <4> QED
        BY <2>2, <3>1, <4>1 DEF ThreadInv
    <3>3. CASE journal'[t] = op /\ journal[t] = None /\ t \notin quarantined
      <4>1. op.phase = "prepared" /\ op.target = run[t].target /\ op.current = turns[t]
        BY DEF op
      <4>2. Progress(t)'
        BY <1>1, <1>2, <1>5, <3>3, <4>1 DEF RevertInv, ThreadInv, Progress
      <4>3. Agreement(t)'
        BY <1>1, <1>5, <3>3, <4>1 DEF RevertInv, ThreadInv, Agreement
      <4> QED
        BY <2>2, <3>1, <4>2, <4>3 DEF ThreadInv
    <3> QED
      BY <1>5, <3>2, <3>3
  <2> QED
    BY <2>1, <2>2
<1> QED
  BY <1>6, <1>7, <1>8, <1>9, <1>10 DEF RevertInv

-----------------------------------------------------------------------------
(* Restarts and the quarantine.                                             *)

\* After a crash no run is left, and what was unreadable is quarantined.
LEMMA CrashKeeps ==
  ASSUME RevertAssumption, RevertInv, Crash
  PROVE  RevertInv'
<1>1. PICK bad \in SUBSET {t \in Threads : journal[t] # None} :
        /\ quarantined' = quarantined \cup bad
        /\ journal' = [t \in Threads |-> IF t \in bad THEN None ELSE journal[t]]
        /\ todo' = {t \in Threads : journal'[t] # None}
  BY DEF Crash
<1>2. /\ provider' = [t \in Threads |-> IF run[t].pc = "turn" THEN Fresh ELSE provider[t]]
      /\ files' \in [Threads -> 0..MaxTurns \cup {Torn, Abandoned, Other}]
      /\ run' = [t \in Threads |-> [pc |-> "idle", target |-> 0]]
      /\ lease' = [t \in Threads |-> "none"]
      /\ up' = "recovering"
      /\ UNCHANGED <<turns, byHand, reverts>>
      /\ crashes' \in 0..MaxCrashes
  BY DEF Crash, RevertInv, TypeOK, RevertAssumption
<1>3. TypeOK'
  <2>1. journal' \in [Threads -> Operations \cup {None}]
    BY <1>1 DEF RevertInv, TypeOK
  <2>2. quarantined' \subseteq Threads /\ todo' \subseteq Threads
    BY <1>1 DEF RevertInv, TypeOK
  <2>3. /\ provider' \in [Threads -> 0..MaxTurns \cup {Fresh}]
        /\ run' \in [Threads -> [pc : Sync \cup Awaits, target : 0..MaxTurns]]
        /\ lease' \in [Threads -> {"none", "shared", "exclusive"}]
    BY <1>2 DEF RevertInv, TypeOK, RevertAssumption, Awaits
  <2> QED
    BY <1>2, <2>1, <2>2, <2>3 DEF RevertInv, TypeOK
<1>4. \A t \in Threads : run'[t] = [pc |-> "idle", target |-> 0] /\ lease'[t] = "none"
  BY <1>2
<1>5. LeaseInv'
  BY <1>4 DEF LeaseInv
<1>6. TodoInv'
  BY <1>1, <1>2, <1>4 DEF TodoInv
<1>7. FenceHolds'
  BY <1>4 DEF FenceHolds
<1>8. ASSUME NEW t \in Threads PROVE ThreadInv(t)'
  <2>1. /\ turns'[t] = turns[t] /\ provider'[t] \in {provider[t], Fresh}
        /\ run'[t].pc = "idle"
        /\ journal'[t] = journal[t] \/ (journal'[t] = None /\ t \in quarantined')
        /\ quarantined \cup byHand \subseteq quarantined' \cup byHand'
    BY <1>1, <1>2, <1>4
  <2>2. RunPhase(t)' /\ Progress(t)'
    BY <2>1 DEF RevertInv, ThreadInv, RunPhase, Progress, SagaPcs
  <2>3. Agreement(t)'
    BY <2>1 DEF RevertInv, ThreadInv, Agreement
  <2> QED
    BY <2>2, <2>3 DEF ThreadInv
<1> QED
  BY <1>3, <1>5, <1>6, <1>7, <1>8 DEF RevertInv

\* The recovery resumes one operation while every other run is idle.
LEMMA RecoverKeeps ==
  ASSUME RevertInv, NEW t \in Threads, Recover(t)
  PROVE  RevertInv'
<1>1. /\ run' = [run EXCEPT ![t] = At(t, "closing")]
      /\ lease' = [lease EXCEPT ![t] = "exclusive"]
      /\ todo' = todo \ {t}
      /\ UNCHANGED <<durable, up, bounds>>
      /\ up = "recovering" /\ t \in todo
  BY GotoRecord DEF Recover
<1>2. /\ run'[t].pc = "closing" /\ lease'[t] = "exclusive"
      /\ \A u \in Threads \ {t} : /\ run'[u] = run[u] /\ lease'[u] = lease[u]
                                  /\ run[u].pc = "idle" /\ lease[u] = "none"
  BY <1>1 DEF Recover, RevertInv, TypeOK, LeaseInv, At
<1>3. TypeOK'
  <2>1. At(t, "closing") \in [pc : Sync \cup Awaits, target : 0..MaxTurns]
    BY DEF RevertInv, TypeOK, At, Awaits
  <2> QED
    BY <1>1, <2>1 DEF RevertInv, TypeOK, durable, bounds
<1>4. LeaseInv'
  BY <1>2 DEF LeaseInv
<1>5. TodoInv'
  BY <1>1, <1>2 DEF RevertInv, TypeOK, TodoInv, durable
<1>6. FenceHolds'
  BY <1>2 DEF FenceHolds
<1>7. ASSUME NEW u \in Threads PROVE ThreadInv(u)'
  <2>1. CASE u # t
    BY <1>1, <1>2, <2>1, UntouchedThread DEF RevertInv, durable
  <2>2. CASE u = t
    <3>1. journal[t] # None
      BY <1>1 DEF RevertInv, TodoInv
    <3>2. RunPhase(t)'
      BY <1>1, <1>2, <3>1 DEF RunPhase, durable
    <3>3. Progress(t)' /\ Agreement(t)'
      BY <1>1, <1>2 DEF RevertInv, ThreadInv, Progress, Agreement, durable
    <3> QED
      BY <2>2, <3>2, <3>3 DEF ThreadInv
  <2> QED
    BY <2>1, <2>2
<1> QED
  BY <1>3, <1>4, <1>5, <1>6, <1>7 DEF RevertInv

\* Serving, resolving and stuttering change no thread's progress.
LEMMA QuietKeeps ==
  ASSUME RevertInv, Serve \/ (\E t \in Threads : Resolve(t)) \/ UNCHANGED vars
  PROVE  RevertInv'
<1>1. /\ UNCHANGED <<turns, provider, files, journal, run, lease, todo, bounds>>
      /\ quarantined' \subseteq quarantined
      /\ quarantined' \cup byHand' = quarantined \cup byHand
      /\ quarantined' \cup byHand' \subseteq Threads
      /\ up' = up \/ (up' = "serving" /\ todo = {})
  BY DEF Serve, Resolve, vars, durable, memory, RevertInv, TypeOK
<1>2. TypeOK'
  BY <1>1 DEF RevertInv, TypeOK, bounds
<1>3. LeaseInv' /\ FenceHolds'
  BY <1>1 DEF RevertInv, LeaseInv, FenceHolds, Blocked
<1>4. TodoInv'
  BY <1>1 DEF RevertInv, TodoInv
<1>5. ASSUME NEW u \in Threads PROVE ThreadInv(u)'
  BY <1>1, UntouchedThread DEF RevertInv
<1> QED
  BY <1>2, <1>3, <1>4, <1>5 DEF RevertInv

LEMMA InitIsSafe == RevertAssumption /\ Init => RevertInv
<1> SUFFICES ASSUME RevertAssumption, Init PROVE RevertInv
  OBVIOUS
<1>1. TypeOK
  BY DEF RevertAssumption, Init, TypeOK, Awaits
<1>2. LeaseInv /\ TodoInv /\ FenceHolds
  BY DEF Init, LeaseInv, TodoInv, FenceHolds
<1>3. ASSUME NEW t \in Threads PROVE ThreadInv(t)
  <2>1. /\ turns[t] \in 0..MaxTurns /\ provider[t] = turns[t]
        /\ journal[t] = None /\ run[t].pc = "idle"
    BY DEF Init
  <2> QED
    BY <2>1 DEF ThreadInv, RunPhase, Progress, Agreement, SagaPcs
<1> QED
  BY <1>1, <1>2, <1>3 DEF RevertInv

-----------------------------------------------------------------------------
\* RevertInv holds in every state: executeCheckpointRevertOperation meets its
\* journal, database and provider only in the combinations it provides for.
THEOREM RevertInductive == Spec => []RevertInv
<1>1. ASSUME RevertInv, [Next]_vars PROVE RevertInv'
  <2>1. ASSUME NEW t \in Threads,
               StartTurn(t) \/ EndTurn(t) \/ RequestRevert(t) \/ Revert(t) \/ Recover(t)
        PROVE  RevertInv'
    BY <1>1, <2>1, RevertAssumption, StartTurnKeeps, EndTurnKeeps, BeforeBeginKeeps, BeginKeeps,
       SagaIsSafe, RecoverKeeps, Zenon DEF Revert
  <2>2. CASE Crash
    BY <1>1, <2>2, RevertAssumption, CrashKeeps
  <2>3. CASE Serve \/ (\E t \in Threads : Resolve(t)) \/ UNCHANGED vars
    BY <1>1, <2>3, QuietKeeps
  <2> QED
    BY <1>1, <2>1, <2>2, <2>3, Zenon DEF Next
<1> QED
  BY <1>1, InitIsSafe, RevertAssumption, PTL DEF Spec

\* Every variable keeps its type, the turn counts within their bound.
THEOREM RevertTypeCorrect == Spec => []TypeOK
<1>1. RevertInv => TypeOK
  BY DEF RevertInv
<1> QED
  BY <1>1, RevertInductive, PTL

\* No turn runs in a workspace one of whose threads has an unfinished or a
\* quarantined revert (acquireCheckpointRecoveryMutationLease, begin).
THEOREM TheFenceHolds == Spec => []FenceHolds
<1>1. RevertInv => FenceHolds
  BY DEF RevertInv
<1> QED
  BY <1>1, RevertInductive, PTL

\* When no revert of a thread is pending, provider and database are at the same
\* turn (executeCheckpointRevertOperation, recoverPendingCheckpointReverts).
THEOREM NoRollbackTwiceOrNever == Spec => []ProviderAgrees
<1>1. RevertInv => ProviderAgrees
  BY DEF RevertInv, ThreadInv, Agreement, ProviderAgrees
<1> QED
  BY <1>1, RevertInductive, PTL

-----------------------------------------------------------------------------
(* Files and database                                                       *)

\* Half-restored files: the operation that will restore them is there still,
\* or another one of their workspace, or a row that cannot be read.
TornInv ==
  \A t \in Threads :
    files[t] = Torn /\ NobodyResolved(t) => \E u \in Neighbours(t) : Unrestored(u)

\* A thread with a revert; with one revert there is one such thread.
Engaged(t) == journal[t] # None \/ run[t].pc \in {"barrier", "inspecting"}
EngagedInv ==
  /\ reverts = 0 => \A t \in Threads : ~Engaged(t)
  /\ reverts <= 1 => \A t, u \in Threads : Engaged(t) /\ Engaged(u) => t = u

\* Restored files stay where they are until the database is cut.
Restored(t) ==
  /\ journal[t] # None
  /\ journal[t].phase \in {"filesystem_restored", "provider_rollback_started",
                           "provider_rollback_done"}
FilesInv ==
  /\ \A t \in Threads :
       Restored(t) /\ (AloneInWorkspace(t) \/ reverts <= 1) => files[t] = journal[t].target
  /\ \A t \in quarantined : journal[t] = None

\* What a step may do to an operation.
LEMMA JournalStep ==
  ASSUME RevertInv, [Next]_vars, NEW u \in Threads
  PROVE  \/ journal'[u] = journal[u]
         \/ /\ journal[u] = None /\ run[u].pc = "inspecting" /\ u \notin quarantined'
            /\ journal'[u].phase = "prepared"
         \/ journal'[u] = None /\ (u \in quarantined' \/ RestoreUnavailable(u) \/ Cleaned(u))
         \/ RestoreDone(u)
         \/ /\ run[u].pc \in {"restored", "rolledBack", "rotated", "truncated"}
            /\ journal'[u].target = journal[u].target
<1>1. journal \in [Threads -> Operations \cup {None}]
  BY DEF RevertInv, TypeOK
<1>2. CASE UNCHANGED journal
  BY <1>2
<1>3. CASE Crash
  BY <1>1, <1>3 DEF Crash
<1>4. ASSUME NEW t \in Threads, RestoreUnavailable(t) \/ RestoreDone(t) \/ Cleaned(t)
      PROVE  \/ journal'[u] = journal[u]
             \/ journal'[u] = None /\ (RestoreUnavailable(u) \/ Cleaned(u))
             \/ RestoreDone(u)
  <2>1. CASE t = u
    BY <1>1, <1>4, <2>1 DEF RestoreUnavailable, Cleaned, Delete
  <2>2. CASE t # u
    BY <1>1, <1>4, <2>2 DEF RestoreUnavailable, RestoreDone, Cleaned, Delete, SetPhase
  <2> QED
    BY <2>1, <2>2
<1>5. ASSUME NEW t \in Threads, Begin(t)
      PROVE  \/ journal'[u] = journal[u]
             \/ /\ journal[u] = None /\ run[u].pc = "inspecting" /\ u \notin quarantined'
                /\ journal'[u].phase = "prepared"
  BY <1>1, <1>5 DEF Begin
<1>6. ASSUME NEW t \in Threads,
             AfterRestore(t) \/ RollbackConfirmed(t) \/ AfterRotation(t) \/ AfterTruncate(t)
      PROVE  \/ journal'[u] = journal[u]
             \/ /\ run[u].pc \in {"restored", "rolledBack", "rotated", "truncated"}
                /\ journal'[u].target = journal[u].target
  <2>1. run[t].pc \in {"restored", "rolledBack", "rotated", "truncated"}
    BY <1>6 DEF AfterRestore, RollbackConfirmed, AfterRotation, AfterTruncate
  <2>2. PICK p : journal' = [journal EXCEPT ![t].phase = p]
    BY <1>6 DEF AfterRestore, RollbackConfirmed, AfterRotation, AfterTruncate, SetPhase
  <2>3. journal[t] \in Operations
    BY <1>1, <2>1 DEF RevertInv, ThreadInv, RunPhase, SagaPcs
  <2>4. CASE t = u
    BY <1>1, <2>1, <2>2, <2>3, <2>4 DEF Operations
  <2>5. CASE t # u
    BY <1>1, <2>2, <2>5
  <2> QED
    BY <2>4, <2>5
<1>7. CASE \E t \in Threads :
             \/ StartTurn(t) \/ EndTurn(t) \/ RequestRevert(t) \/ Recover(t) \/ Resolve(t)
             \/ GrantBarrier(t) \/ Refuse(t) \/ RefuseBegin(t) \/ OwnersClosed(t)
             \/ ProviderRollsBack(t) \/ RollbackUnconfirmed(t) \/ SessionStopped(t)
             \/ Truncate(t) \/ Throw(t)
  <2>1. UNCHANGED journal
    BY <1>7 DEF StartTurn, EndTurn, RequestRevert, Recover, Resolve, GrantBarrier, Refuse,
                RefuseBegin, OwnersClosed, ProviderRollsBack, RollbackUnconfirmed,
                SessionStopped, Truncate, Throw, durable
  <2> QED
    BY <2>1
<1>8. CASE Serve \/ UNCHANGED vars
  <2>1. UNCHANGED journal
    BY <1>8 DEF Serve, vars, durable
  <2> QED
    BY <2>1
<1> QED
  BY <1>3, <1>4, <1>5, <1>6, <1>7, <1>8, Zenon DEF Next, Revert, Saga

\* ... and to the files of a thread.
LEMMA FilesStep ==
  ASSUME RevertInv, [Next]_vars, NEW t \in Threads
  PROVE  \/ files'[t] = files[t]
         \/ \E u \in Neighbours(t) : run[u].pc = "turn" /\ files'[t] # Torn
         \/ \E u \in Neighbours(t) :
              OwnersClosed(u) /\ journal[u].phase = "prepared" /\ files'[t] = Torn
         \/ \E u \in Neighbours(t) :
              RestoreDone(u) /\ files'[t] # Torn /\ (u = t => files'[t] = journal[t].target)
         \/ files[t] = Torn /\ files'[t] = Abandoned
<1>1. /\ files \in [Threads -> 0..MaxTurns \cup {Torn, Abandoned, Other}]
      /\ turns \in [Threads -> 0..MaxTurns] /\ journal \in [Threads -> Operations \cup {None}]
      /\ MaxTurns \in Nat /\ Torn \notin Nat /\ Torn # Other
  BY RevertAssumption DEF RevertInv, TypeOK
<1>2. \A u \in Threads : t \in Neighbours(u) => u \in Neighbours(t)
  BY DEF Neighbours
<1>3. ASSUME NEW u \in Threads, EndTurn(u)
      PROVE  files'[t] = files[t] \/ (u \in Neighbours(t) /\ run[u].pc = "turn" /\ files'[t] # Torn)
  <2>1. turns[u] + 1 # Torn
    BY <1>1
  <2> QED
    BY <1>1, <1>2, <1>3, <2>1 DEF EndTurn, Wrote, Neighbours
<1>4. ASSUME NEW u \in Threads, RestoreDone(u)
      PROVE  \/ files'[t] = files[t]
             \/ /\ u \in Neighbours(t) /\ files'[t] # Torn
                /\ u = t => files'[t] = journal[t].target
  <2>1. journal[u].target # Torn
    <3>1. journal[u] # None
      BY <1>4 DEF RestoreDone, RevertInv, ThreadInv, RunPhase, SagaPcs
    <3> QED
      BY <1>1, <3>1 DEF Operations
  <2> QED
    BY <1>1, <1>2, <1>4, <2>1 DEF RestoreDone, Wrote, Neighbours
<1>5. ASSUME NEW u \in Threads, OwnersClosed(u)
      PROVE  \/ files'[t] = files[t]
             \/ u \in Neighbours(t) /\ journal[u].phase = "prepared" /\ files'[t] = Torn
  <2>1. journal[u] # None
    BY <1>5 DEF OwnersClosed, RevertInv, ThreadInv, RunPhase, SagaPcs
  <2>2. journal[u].phase \in Phases
    BY <1>1, <2>1 DEF Operations
  <2>3. ResumeAt(journal[u].phase) = "restoring" => journal[u].phase = "prepared"
    BY <2>2 DEF ResumeAt, Phases
  <2> QED
    BY <1>1, <1>2, <1>5, <2>3 DEF OwnersClosed
<1>6. CASE Crash
  BY <1>1, <1>6 DEF Crash
<1>7. CASE \E u \in Threads :
             \/ StartTurn(u) \/ RequestRevert(u) \/ Recover(u) \/ Resolve(u)
             \/ GrantBarrier(u) \/ Refuse(u) \/ RefuseBegin(u) \/ Begin(u)
             \/ AfterRestore(u) \/ ProviderRollsBack(u)
             \/ RollbackConfirmed(u) \/ RollbackUnconfirmed(u) \/ SessionStopped(u)
             \/ AfterRotation(u) \/ Truncate(u) \/ AfterTruncate(u) \/ Cleaned(u) \/ Throw(u)
  <2>1. UNCHANGED files
    BY <1>7 DEF StartTurn, RequestRevert, Recover, Resolve, GrantBarrier, Refuse, RefuseBegin,
                Begin, AfterRestore, ProviderRollsBack, RollbackConfirmed,
                RollbackUnconfirmed, SessionStopped, AfterRotation, Truncate, AfterTruncate,
                Cleaned, Throw, durable
  <2> QED
    BY <2>1
<1>8. CASE Serve \/ UNCHANGED vars
  <2>1. UNCHANGED files
    BY <1>8 DEF Serve, vars, durable
  <2> QED
    BY <2>1
<1>9. ASSUME NEW u \in Threads, RestoreUnavailable(u)
      PROVE  files'[t] = files[t] \/ (files[t] = Torn /\ files'[t] = Abandoned)
  BY <1>1, <1>9 DEF RestoreUnavailable
<1> QED
  BY <1>3, <1>4, <1>5, <1>6, <1>7, <1>8, <1>9, Zenon DEF Next, Revert, Saga

\* Quarantines are only lifted by hand.
LEMMA QuarantineStep ==
  ASSUME RevertInv, [Next]_vars
  PROVE  /\ byHand \subseteq byHand' /\ quarantined \subseteq quarantined' \cup byHand'
         /\ \A u \in quarantined' : u \in quarantined \/ journal'[u] = None
<1>1. CASE UNCHANGED <<quarantined, byHand>>
  BY <1>1
<1>2. CASE Crash
  BY <1>2 DEF Crash, RevertInv, TypeOK
<1>3. ASSUME NEW t \in Threads, Resolve(t)
      PROVE  /\ byHand \subseteq byHand' /\ quarantined \subseteq quarantined' \cup byHand'
             /\ quarantined' \subseteq quarantined
  BY <1>3 DEF Resolve
<1>4. CASE \E t \in Threads :
             \/ StartTurn(t) \/ EndTurn(t) \/ RequestRevert(t) \/ Recover(t)
             \/ GrantBarrier(t) \/ Refuse(t) \/ RefuseBegin(t) \/ Begin(t)
             \/ OwnersClosed(t) \/ RestoreUnavailable(t) \/ RestoreDone(t)
             \/ AfterRestore(t) \/ ProviderRollsBack(t) \/ RollbackConfirmed(t)
             \/ RollbackUnconfirmed(t) \/ SessionStopped(t) \/ AfterRotation(t)
             \/ Truncate(t) \/ AfterTruncate(t) \/ Cleaned(t) \/ Throw(t)
  <2>1. UNCHANGED <<quarantined, byHand>>
    BY <1>4 DEF StartTurn, EndTurn, RequestRevert, Recover, GrantBarrier, Refuse, RefuseBegin,
                Begin, OwnersClosed, RestoreUnavailable, RestoreDone, AfterRestore,
                ProviderRollsBack, RollbackConfirmed, RollbackUnconfirmed, SessionStopped,
                AfterRotation, Truncate, AfterTruncate, Cleaned, Throw, durable
  <2> QED
    BY <2>1
<1>5. CASE Serve \/ UNCHANGED vars
  <2>1. UNCHANGED <<quarantined, byHand>>
    BY <1>5 DEF Serve, vars, durable
  <2> QED
    BY <2>1
<1> QED
  BY <1>2, <1>3, <1>4, <1>5, Zenon DEF Next, Revert, Saga

\* A thread becomes engaged by a new request, and in no other way.
LEMMA EngagedStep ==
  ASSUME RevertInv, [Next]_vars, NEW u \in Threads
  PROVE  Engaged(u)' => Engaged(u) \/ RequestRevert(u)
<1>1. run \in [Threads -> [pc : Sync \cup Awaits, target : 0..MaxTurns]]
  BY DEF RevertInv, TypeOK
<1>2. journal'[u] # None => Engaged(u)
  <2>1. RestoreDone(u) \/ run[u].pc \in {"restored", "rolledBack", "rotated", "truncated"}
          => journal[u] # None
    BY DEF RevertInv, ThreadInv, RunPhase, RestoreDone, SagaPcs
  <2> QED
    BY <2>1, JournalStep DEF Engaged
<1>3. ASSUME NEW t \in Threads, NEW pc, Goto(t, pc), pc \notin {"barrier", "inspecting"}
      PROVE  run'[u].pc \in {"barrier", "inspecting"} => run[u].pc \in {"barrier", "inspecting"}
  BY <1>1, <1>3 DEF Goto
<1>4. ASSUME NEW t \in Threads, End(t)
      PROVE  run'[u].pc \in {"barrier", "inspecting"} => run[u].pc \in {"barrier", "inspecting"}
  BY <1>1, <1>4 DEF End
<1>5. ASSUME NEW t \in Threads, RequestRevert(t) \/ GrantBarrier(t)
      PROVE  run'[u].pc \in {"barrier", "inspecting"}
               => run[u].pc \in {"barrier", "inspecting"} \/ RequestRevert(u)
  <2>1. CASE t = u
    BY <1>1, <1>5, <2>1 DEF GrantBarrier
  <2>2. CASE t # u
    BY <1>1, <1>5, <2>2 DEF RequestRevert, GrantBarrier, Goto
  <2> QED
    BY <2>1, <2>2
<1>6. ASSUME NEW t \in Threads,
             \/ StartTurn(t) \/ Recover(t) \/ Begin(t) \/ RestoreDone(t)
             \/ ProviderRollsBack(t) \/ RollbackConfirmed(t) \/ RollbackUnconfirmed(t)
             \/ SessionStopped(t) \/ AfterRotation(t) \/ Truncate(t) \/ AfterTruncate(t)
             \/ AfterRestore(t)
      PROVE  \E pc : Goto(t, pc) /\ pc \notin {"barrier", "inspecting"}
  BY <1>6 DEF StartTurn, Recover, Begin, RestoreDone, ProviderRollsBack, RollbackConfirmed,
              RollbackUnconfirmed, SessionStopped, AfterRotation, Truncate, AfterTruncate,
              AfterRestore
<1>7. ASSUME NEW t \in Threads, OwnersClosed(t)
      PROVE  \E pc : Goto(t, pc) /\ pc \notin {"barrier", "inspecting"}
  <2>1. journal[t].phase \in Phases
    BY <1>7 DEF OwnersClosed, RevertInv, TypeOK, ThreadInv, RunPhase, SagaPcs, Operations
  <2>2. ResumeAt(journal[t].phase) \notin {"barrier", "inspecting"}
    BY <2>1 DEF ResumeAt, Phases
  <2> QED
    BY <1>7, <2>2 DEF OwnersClosed
<1>8. ASSUME NEW t \in Threads,
             \/ EndTurn(t) \/ Refuse(t) \/ RefuseBegin(t) \/ RestoreUnavailable(t)
             \/ Cleaned(t) \/ Throw(t)
      PROVE  End(t)
  BY <1>8 DEF EndTurn, Refuse, RefuseBegin, RestoreUnavailable, Cleaned, Throw
<1>9. Crash => run'[u].pc = "idle"
  BY DEF Crash
<1>10. Serve \/ (\E t \in Threads : Resolve(t)) \/ UNCHANGED vars => run' = run
  BY DEF Serve, Resolve, vars, memory
<1>11. ASSUME run'[u].pc \in {"barrier", "inspecting"}
       PROVE  run[u].pc \in {"barrier", "inspecting"} \/ RequestRevert(u)
  <2>1. ASSUME NEW t \in Threads,
               StartTurn(t) \/ EndTurn(t) \/ RequestRevert(t) \/ Revert(t) \/ Recover(t)
        PROVE  run[u].pc \in {"barrier", "inspecting"} \/ RequestRevert(u)
    BY <1>3, <1>4, <1>5, <1>6, <1>7, <1>8, <1>11, <2>1, Zenon DEF Revert, Saga
  <2>2. ~Crash
    BY <1>9, <1>11
  <2> QED
    BY <1>10, <1>11, <2>1, <2>2, Zenon DEF Next
<1> QED
  BY <1>2, <1>11 DEF Engaged

\* Requests are counted.
LEMMA RequestsCounted ==
  ASSUME RevertInv, [Next]_vars
  PROVE  /\ reverts \in Nat /\ reverts' \in Nat /\ reverts <= reverts'
         /\ \A u \in Threads : RequestRevert(u) => reverts' = reverts + 1
         /\ \A t, u \in Threads : RequestRevert(t) /\ RequestRevert(u) => t = u
<1>1. reverts \in Nat
  BY RevertAssumption DEF RevertInv, TypeOK
<1>2. \A u \in Threads : RequestRevert(u) => reverts' = reverts + 1
  BY DEF RequestRevert
<1>3. ASSUME NEW t \in Threads, NEW u \in Threads, RequestRevert(t), RequestRevert(u), t # u
      PROVE  FALSE
  <2>1. run'[u] = run[u] /\ run[u].pc = "idle"
    BY <1>3 DEF RequestRevert, RevertInv, TypeOK
  <2>2. run'[u].pc = "barrier"
    BY <1>3 DEF RequestRevert, RevertInv, TypeOK
  <2> QED
    BY <2>1, <2>2
<1>4. CASE UNCHANGED reverts
  BY <1>1, <1>2, <1>3, <1>4
<1>5. CASE \E u \in Threads : RequestRevert(u)
  BY <1>1, <1>2, <1>3, <1>5
<1>6. CASE \E t \in Threads :
             \/ StartTurn(t) \/ EndTurn(t) \/ Recover(t) \/ Resolve(t)
             \/ GrantBarrier(t) \/ Refuse(t) \/ RefuseBegin(t) \/ Begin(t)
             \/ OwnersClosed(t) \/ RestoreUnavailable(t) \/ RestoreDone(t)
             \/ AfterRestore(t) \/ ProviderRollsBack(t) \/ RollbackConfirmed(t)
             \/ RollbackUnconfirmed(t) \/ SessionStopped(t) \/ AfterRotation(t)
             \/ Truncate(t) \/ AfterTruncate(t) \/ Cleaned(t) \/ Throw(t)
  <2>1. UNCHANGED reverts
    BY <1>6 DEF StartTurn, EndTurn, Recover, Resolve, GrantBarrier, Refuse, RefuseBegin,
                Begin, OwnersClosed, RestoreUnavailable, RestoreDone, AfterRestore,
                ProviderRollsBack, RollbackConfirmed, RollbackUnconfirmed, SessionStopped,
                AfterRotation, Truncate, AfterTruncate, Cleaned, Throw, End, bounds
  <2> QED
    BY <1>4, <2>1
<1>7. CASE Crash \/ Serve \/ UNCHANGED vars
  <2>1. UNCHANGED reverts
    BY <1>7 DEF Crash, Serve, vars, bounds
  <2> QED
    BY <1>4, <2>1
<1> QED
  BY <1>5, <1>6, <1>7, Zenon DEF Next, Revert, Saga

LEMMA EngagedKeeps ==
  ASSUME RevertInv, EngagedInv, [Next]_vars
  PROVE  EngagedInv'
<1>1. CASE \E t \in Threads : RequestRevert(t)
  <2>1. PICK t \in Threads : RequestRevert(t)
    BY <1>1
  <2>2. \A u \in Threads : Engaged(u)' => Engaged(u) \/ u = t
    BY <2>1, EngagedStep, RequestsCounted
  <2>3. reverts \in Nat /\ reverts' = reverts + 1
    BY <2>1, RequestsCounted
  <2>4. reverts' # 0 /\ (reverts' <= 1 => reverts = 0)
    BY <2>3
  <2> QED
    BY <2>2, <2>4 DEF EngagedInv
<1>2. CASE \A t \in Threads : ~RequestRevert(t)
  <2>1. \A u \in Threads : Engaged(u)' => Engaged(u)
    BY <1>2, EngagedStep
  <2>2. reverts \in Nat /\ reverts' \in Nat /\ reverts <= reverts'
    BY RequestsCounted
  <2>3. (reverts' = 0 => reverts = 0) /\ (reverts' <= 1 => reverts <= 1)
    BY <2>2
  <2> QED
    BY <2>1, <2>3 DEF EngagedInv
<1> QED
  BY <1>1, <1>2

\* A finished restore leaves no file of the workspace half restored.
LEMMA RestoreWrites ==
  ASSUME RevertInv, NEW u \in Threads, RestoreDone(u), NEW t \in Neighbours(u)
  PROVE  /\ files'[t] # Torn /\ journal[u] # None /\ journal[u].phase = "prepared"
         /\ files'[u] = journal'[u].target
<1>1. journal[u] # None /\ journal[u].phase = "prepared" /\ journal[u] \in Operations
  BY DEF RestoreDone, RevertInv, TypeOK, ThreadInv, RunPhase, SagaPcs
<1>2. journal[u].target # Torn /\ Torn # Other
  BY <1>1, RevertAssumption DEF Operations
<1>3. files'[t] \in {journal[u].target, Other} /\ files'[u] = journal[u].target
  BY DEF RestoreDone, Wrote, Neighbours
<1>4. journal'[u].target = journal[u].target
  BY <1>1 DEF RestoreDone, SetPhase, RevertInv, TypeOK, Operations
<1> QED
  BY <1>1, <1>2, <1>3, <1>4

LEMMA TornKeeps ==
  ASSUME RevertInv, TornInv, [Next]_vars
  PROVE  TornInv'
<1> SUFFICES ASSUME NEW t \in Threads, files'[t] = Torn, NobodyResolved(t)'
             PROVE  \E u \in Neighbours(t) : Unrestored(u)'
  BY DEF TornInv, Neighbours
<1>1. \A u \in Neighbours(t) : u \in quarantined => u \in quarantined'
  BY QuarantineStep DEF Neighbours, NobodyResolved
\* A restore that is given up leaves torn files only where another one is left.
<1>2. ASSUME NEW u \in Neighbours(t), RestoreUnavailable(u)
      PROVE  \E w \in Neighbours(t) : Unrestored(w)'
  <2>1. u \in Threads /\ t \in Neighbours(u) /\ Neighbours(u) = Neighbours(t)
    BY DEF Neighbours
  <2>2. PICK w \in Neighbours(u) \ {u} : Unrestored(w)
    <3>1. files'[t] = IF /\ t \in Neighbours(u) /\ files[t] = Torn
                         /\ \A w \in Neighbours(u) \ {u} : ~Unrestored(w)
                        THEN Abandoned ELSE files[t]
      BY <1>2 DEF RestoreUnavailable
    <3>2. files[t] = Torn
      BY <3>1, RevertAssumption DEF RevertAssumption
    <3> QED
      BY <2>1, <3>1, <3>2, RevertAssumption DEF RevertAssumption
  <2>3. journal'[w] = journal[w] /\ quarantined' = quarantined
    BY <1>2, <2>2 DEF RestoreUnavailable, Delete, Neighbours, RevertInv, TypeOK
  <2> QED
    BY <2>1, <2>2, <2>3 DEF Unrestored
<1>4. CASE files'[t] = files[t] /\ \A u \in Neighbours(t) : ~RestoreUnavailable(u)
  <2>1. NobodyResolved(t)
    BY QuarantineStep DEF NobodyResolved
  <2>2. PICK u \in Neighbours(t) : Unrestored(u)
    BY <1>4, <2>1 DEF TornInv
  <2>3. u \in Threads /\ t \in Neighbours(u)
    BY DEF Neighbours
  <2>4. CASE u \in quarantined
    BY <1>1, <2>4 DEF Unrestored
  <2>5. CASE journal[u] # None /\ journal[u].phase = "prepared"
    <3>1. ~RestoreDone(u)
      BY <1>4, <2>3, RestoreWrites
    <3>2. ~Cleaned(u) /\ run[u].pc \notin {"restored", "rolledBack", "rotated", "truncated"}
      BY <2>3, <2>5 DEF Cleaned, RevertInv, ThreadInv, RunPhase
    <3>3. journal'[u] = journal[u] \/ u \in quarantined'
      BY <1>4, <2>3, <2>5, <3>1, <3>2, JournalStep
    <3> QED
      BY <2>5, <3>3 DEF Unrestored
  <2> QED
    BY <2>2, <2>4, <2>5 DEF Unrestored
<1>3. CASE \E u \in Neighbours(t) :
             OwnersClosed(u) /\ journal[u].phase = "prepared" /\ files'[t] = Torn
  <2>1. PICK u \in Neighbours(t) : OwnersClosed(u) /\ journal[u].phase = "prepared"
    BY <1>3
  <2>2. u \in Threads
    BY DEF Neighbours
  <2>3. journal[u] # None
    BY <2>1, <2>2 DEF OwnersClosed, RevertInv, ThreadInv, RunPhase, SagaPcs
  <2>4. journal' = journal
    BY <2>1 DEF OwnersClosed
  <2> QED
    BY <2>1, <2>3, <2>4 DEF Unrestored
<1>5. Torn # Abandoned
  BY RevertAssumption DEF RevertAssumption
<1> QED
  BY <1>2, <1>3, <1>4, <1>5, FilesStep

LEMMA FilesKeep ==
  ASSUME RevertInv, EngagedInv, FilesInv, [Next]_vars
  PROVE  FilesInv'
<1>1. ASSUME NEW t \in Threads, Restored(t)', AloneInWorkspace(t) \/ reverts' <= 1
      PROVE  files'[t] = journal'[t].target
  <2>1. AloneInWorkspace(t) \/ reverts <= 1
    <3>1. reverts \in Nat /\ reverts' \in Nat /\ reverts <= reverts'
      BY RequestsCounted
    <3>2. reverts' <= 1 => reverts <= 1
      BY <3>1
    <3> QED
      BY <1>1, <3>2
  <2>2. CASE RestoreDone(t)
    BY <2>2, RestoreWrites DEF Neighbours
  <2>3. CASE ~RestoreDone(t)
    <3>1. run[t].pc \in {"restored", "rolledBack", "rotated", "truncated"} => Restored(t)
      BY DEF RevertInv, ThreadInv, RunPhase, SagaPcs, Restored
    <3>2. Restored(t) /\ journal'[t].target = journal[t].target
      BY <1>1, <2>3, <3>1, JournalStep DEF Restored
    <3>3. files[t] = journal[t].target
      BY <2>1, <3>2 DEF FilesInv
    <3>4. \A u \in Neighbours(t) : run[u].pc # "turn"
      BY <3>2 DEF Restored, RevertInv, FenceHolds, Blocked, Neighbours
    <3>5. ASSUME NEW u \in Neighbours(t), journal[u] # None, journal[u].phase = "prepared"
          PROVE  FALSE
      <4>1. u \in Threads /\ u # t /\ Cwd[u] = Cwd[t]
        BY <3>2, <3>5 DEF Restored, Neighbours
      <4>2. reverts <= 1
        BY <2>1, <4>1 DEF AloneInWorkspace
      <4>3. Engaged(t) /\ Engaged(u)
        BY <3>2, <3>5 DEF Restored, Engaged
      <4> QED
        BY <4>1, <4>2, <4>3 DEF EngagedInv
    <3>6. \A u \in Neighbours(t) :
            OwnersClosed(u) \/ RestoreDone(u) => journal[u] # None
      BY DEF Neighbours, OwnersClosed, RestoreDone, RevertInv, ThreadInv, RunPhase, SagaPcs
    <3>7. \A u \in Neighbours(t) : RestoreDone(u) => journal[u].phase = "prepared"
      BY DEF Neighbours, RestoreDone, RevertInv, ThreadInv, RunPhase
    <3>8. files[t] # Torn
      BY <3>2, <3>3, RevertAssumption DEF RevertAssumption, Restored, RevertInv, TypeOK, Operations
    <3>9. files'[t] = files[t]
      BY <3>4, <3>5, <3>6, <3>7, <3>8, FilesStep
    <3> QED
      BY <3>2, <3>3, <3>9
  <2> QED
    BY <2>2, <2>3
<1>2. ASSUME NEW t \in quarantined' PROVE journal'[t] = None
  <2>1. CASE t \in quarantined
    <3>1. t \in Threads /\ journal[t] = None
      BY <2>1 DEF FilesInv, RevertInv, TypeOK
    <3>2. run[t].pc \notin SagaPcs
      BY <3>1 DEF RevertInv, ThreadInv, RunPhase
    <3>3. ~RestoreDone(t) /\ run[t].pc \notin {"restored", "rolledBack", "rotated", "truncated"}
      BY <3>2 DEF RestoreDone, SagaPcs
    <3> QED
      BY <1>2, <3>1, <3>3, JournalStep
  <2>2. CASE t \notin quarantined
    BY <1>2, <2>2, QuarantineStep
  <2> QED
    BY <2>1, <2>2
<1> QED
  BY <1>1, <1>2 DEF FilesInv, AloneInWorkspace

\* The database of a thread gets shorter by the saga's truncation alone.
LEMMA TurnsStep ==
  ASSUME RevertInv, [Next]_vars, NEW t \in Threads, turns'[t] < turns[t]
  PROVE  Truncate(t)
<1>1. turns \in [Threads -> 0..MaxTurns] /\ MaxTurns \in Nat
  BY RevertAssumption DEF RevertInv, TypeOK
<1>2. turns'[t] # turns[t]
  BY <1>1
<1>3. ASSUME NEW u \in Threads, EndTurn(u) PROVE FALSE
  BY <1>1, <1>3 DEF EndTurn
<1>4. ASSUME NEW u \in Threads, Truncate(u) PROVE u = t
  BY <1>1, <1>2, <1>4 DEF Truncate
<1>5. CASE UNCHANGED turns
  BY <1>2, <1>5
<1>6. CASE \E u \in Threads :
             \/ StartTurn(u) \/ RequestRevert(u) \/ Recover(u) \/ Resolve(u)
             \/ GrantBarrier(u) \/ Refuse(u) \/ RefuseBegin(u) \/ Begin(u)
             \/ OwnersClosed(u) \/ RestoreUnavailable(u) \/ RestoreDone(u)
             \/ AfterRestore(u) \/ ProviderRollsBack(u) \/ RollbackConfirmed(u)
             \/ RollbackUnconfirmed(u) \/ SessionStopped(u) \/ AfterRotation(u)
             \/ AfterTruncate(u) \/ Cleaned(u) \/ Throw(u)
  <2>1. UNCHANGED turns
    BY <1>6 DEF StartTurn, RequestRevert, Recover, Resolve, GrantBarrier, Refuse, RefuseBegin,
                Begin, OwnersClosed, RestoreUnavailable, RestoreDone, AfterRestore,
                ProviderRollsBack, RollbackConfirmed, RollbackUnconfirmed, SessionStopped,
                AfterRotation, AfterTruncate, Cleaned, Throw, durable
  <2> QED
    BY <1>5, <2>1
<1>7. CASE Crash \/ Serve \/ UNCHANGED vars
  <2>1. UNCHANGED turns
    BY <1>7 DEF Crash, Serve, vars, durable
  <2> QED
    BY <1>5, <2>1
<1> QED
  BY <1>3, <1>4, <1>6, <1>7, Zenon DEF Next, Revert, Saga

LEMMA InitFiles == RevertAssumption /\ Init => TornInv /\ EngagedInv /\ FilesInv
<1> SUFFICES ASSUME RevertAssumption, Init PROVE TornInv /\ EngagedInv /\ FilesInv
  OBVIOUS
<1>1. \A t \in Threads : files[t] # Torn
  BY DEF Init, RevertAssumption
<1>2. \A t \in Threads : ~Engaged(t) /\ ~Restored(t)
  BY DEF Init, Engaged, Restored
<1> QED
  BY <1>1, <1>2 DEF Init, TornInv, EngagedInv, FilesInv

-----------------------------------------------------------------------------
\* Half-restored files keep a fenced workspace until the restore is repeated or
\* given up: the journal row outlives the restore it announces, and an unreadable
\* row is quarantined (executeCheckpointRevertOperation, list).
THEOREM TornIsFenced == Spec => []TornFencedUnlessGivenUp
<1>1. RevertInv /\ TornInv /\ [Next]_vars => TornInv'
  BY TornKeeps
<1>2. TornInv => TornFencedUnlessGivenUp
  BY DEF TornInv, TornFencedUnlessGivenUp, Unrestored, Fenced, Blocked
<1> QED
  BY <1>1, <1>2, InitFiles, RevertAssumption, RevertInductive, PTL DEF Spec

\* When the database loses turns, provider and files are already where it goes
\* (the order of the phases in executeCheckpointRevertOperation).
THEOREM DatabaseIsLast == Spec => DatabaseLast
<1>1. RevertInv /\ EngagedInv /\ FilesInv /\ [Next]_vars => EngagedInv' /\ FilesInv'
  BY EngagedKeeps, FilesKeep
<1>2. ASSUME RevertInv, FilesInv, [Next]_vars,
             NEW t \in Threads, turns'[t] < turns[t], t \notin byHand
      PROVE  /\ provider[t] \in {turns'[t], Fresh}
             /\ AloneInWorkspace(t) \/ reverts = 1 => files[t] = turns'[t]
  <2>1. Truncate(t)
    BY <1>2, TurnsStep
  <2>2. journal[t] # None /\ journal[t].phase = "provider_rollback_done"
    BY <1>2, <2>1 DEF Truncate, RevertInv, ThreadInv, RunPhase, SagaPcs
  <2>3. turns'[t] = journal[t].target
    BY <1>2, <2>1 DEF Truncate, RevertInv, TypeOK
  <2>4. t \notin quarantined \cup byHand
    BY <1>2, <2>2 DEF FilesInv
  <2>5. provider[t] \in {journal[t].target, Fresh}
    BY <1>2, <2>2, <2>4 DEF RevertInv, ThreadInv, Agreement
  <2>6. AloneInWorkspace(t) \/ reverts <= 1 => files[t] = journal[t].target
    BY <1>2, <2>2 DEF FilesInv, Restored
  <2> QED
    BY <2>3, <2>5, <2>6
<1>3. RevertInv /\ FilesInv /\ [Next]_vars =>
        [\A t \in Threads : turns'[t] < turns[t] /\ t \notin byHand =>
           /\ provider[t] \in {turns'[t], Fresh}
           /\ AloneInWorkspace(t) \/ reverts = 1 => files[t] = turns'[t]]_vars
  BY <1>2
<1> QED
  BY <1>1, <1>3, InitFiles, RevertAssumption, RevertInductive, PTL DEF Spec, DatabaseLast

-----------------------------------------------------------------------------
(* The saga keeps the contract of RevertContract.  What the contract does   *)
(* not see is most of the saga: the phases, the files and the calls that    *)
(* fail leave its journal entry, its turns and its provider as they are.    *)

Reverts == [t \in Threads |-> Pending(t)]
Strays  == {t \in Threads : Apart(t)}
View    == <<turns, Reverts, Strays, quarantined>>

\* The contract does not see a step that leaves all this alone.
LEMMA Unseen ==
  ASSUME UNCHANGED <<turns, provider, quarantined, byHand>>,
         \A t \in Threads : Pending(t)' = Pending(t)
  PROVE  UNCHANGED View
<1>1. Reverts' = Reverts
  BY DEF Reverts
<1>2. Strays' = Strays
  BY DEF Strays, Apart
<1> QED
  BY <1>1, <1>2 DEF View

LEMMA SamePending ==
  ASSUME journal' = journal
  PROVE  \A t \in Threads : Pending(t)' = Pending(t)
BY DEF Pending

\* A new phase leaves a revert what it is.
LEMMA PhaseIsUnseen ==
  ASSUME RevertAssumption, RevertInv, NEW t \in Threads, run[t].pc \in SagaPcs,
         NEW phase \in Phases, SetPhase(t, phase),
         UNCHANGED <<turns, provider, quarantined, byHand>>
  PROVE  UNCHANGED View
<1>1. journal[t] # None /\ journal[t] \in Operations
  BY SagaOperation
<1>2. journal' = [journal EXCEPT ![t] = InPhase(t, phase)]
  BY <1>1, SetPhaseRecord
<1>3. InPhase(t, phase) # None
  BY <1>1 DEF RevertAssumption, InPhase, Operations
<1>4. Pending(t)' = Pending(t)
  BY <1>1, <1>2, <1>3 DEF RevertInv, TypeOK, Pending, InPhase
<1>5. \A u \in Threads \ {t} : Pending(u)' = Pending(u)
  BY <1>2 DEF RevertInv, TypeOK, Pending
<1> QED
  BY <1>4, <1>5, Unseen

\* One journal entry changes.
LEMMA OnePending ==
  ASSUME RevertInv, NEW t \in Threads, NEW j, journal' = [journal EXCEPT ![t] = j]
  PROVE  Reverts' = [Reverts EXCEPT ![t] = Pending(t)']
<1>1. \A u \in Threads \ {t} : Pending(u)' = Pending(u)
  BY DEF RevertInv, TypeOK, Pending
<1> QED
  BY <1>1 DEF Reverts

LEMMA EndsARevert ==
  ASSUME RevertAssumption, RevertInv, NEW t \in Threads, RestoreUnavailable(t) \/ Cleaned(t)
  PROVE  Contract!End(t)
<1>1. run[t].pc \in SagaPcs /\ journal[t] # None /\ journal[t] \in Operations
  <2>1. run[t].pc \in SagaPcs
    BY DEF RestoreUnavailable, Cleaned, SagaPcs
  <2> QED
    BY <2>1, SagaOperation
<1>2. /\ journal' = [journal EXCEPT ![t] = None]
      /\ UNCHANGED <<turns, provider, quarantined, byHand>>
  BY DEF RestoreUnavailable, Cleaned, Delete
<1>3. journal[t].phase \in {"prepared", "database_truncated"}
  BY <1>1 DEF RestoreUnavailable, Cleaned, RevertInv, ThreadInv, RunPhase
<1>4. turns[t] \in {journal[t].current, journal[t].target}
  BY <1>1, <1>3 DEF RevertInv, ThreadInv, Progress
<1>5. t \notin Strays
  <2>1. SUFFICES ASSUME t \notin quarantined \cup byHand PROVE provider[t] \in {turns[t], Fresh}
    BY DEF Strays, Apart
  <2>2. CASE journal[t].phase = "prepared"
    BY <1>1, <2>1, <2>2 DEF RevertInv, ThreadInv, Progress, Agreement
  <2>3. CASE journal[t].phase = "database_truncated"
    BY <1>1, <2>1, <2>3 DEF RevertInv, ThreadInv, Progress, Agreement
  <2> QED
    BY <1>3, <2>2, <2>3
<1>6. Reverts' = [Reverts EXCEPT ![t] = {}]
  <2>1. Pending(t)' = {}
    BY <1>2 DEF RevertInv, TypeOK, Pending
  <2> QED
    BY <1>2, <2>1, OnePending
<1>7. Strays' = Strays
  BY <1>2 DEF Strays, Apart
<1>8. \E op \in Reverts[t] : turns[t] \in {op.from, op.to}
  BY <1>1, <1>4 DEF Reverts, Pending
<1> QED
  BY <1>2, <1>5, <1>6, <1>7, <1>8 DEF Contract!End, Reverts, Strays

\* The provider drops turns or its session while the database has them still.
LEMMA ProviderForgets ==
  ASSUME RevertAssumption, RevertInv, NEW t \in Threads, ProviderRollsBack(t) \/ SessionStopped(t)
  PROVE  Contract!Forget(t)
<1>1. run[t].pc \in {"rolling", "stopping"} /\ run[t].pc \in SagaPcs
  BY DEF ProviderRollsBack, SessionStopped, SagaPcs
<1>2. journal[t] # None /\ journal[t].phase = "provider_rollback_started"
  BY <1>1, SagaOperation DEF RevertInv, ThreadInv, RunPhase
<1>3. turns[t] = journal[t].current
  BY <1>2 DEF RevertInv, ThreadInv, Progress
<1>4. /\ UNCHANGED <<turns, journal, quarantined, byHand>>
      /\ \A u \in Threads \ {t} : provider'[u] = provider[u]
  BY DEF ProviderRollsBack, SessionStopped, RevertInv, TypeOK
<1>5. \A u \in Threads \ {t} : Apart(u)' = Apart(u)
  BY <1>4 DEF Apart
<1>6. Strays' \in {Strays \cup {t}, Strays \ {t}}
  <2>1. CASE Apart(t)'
    <3>1. Strays' = Strays \cup {t}
      BY <1>5, <2>1 DEF Strays
    <3> QED
      BY <3>1
  <2>2. CASE ~Apart(t)'
    <3>1. Strays' = Strays \ {t}
      BY <1>5, <2>2 DEF Strays
    <3> QED
      BY <3>1
  <2> QED
    BY <2>1, <2>2
<1>7. Reverts' = Reverts
  BY <1>4, SamePending DEF Reverts
<1>8. \E op \in Reverts[t] : turns[t] = op.from
  BY <1>2, <1>3 DEF Reverts, Pending
<1> QED
  BY <1>4, <1>6, <1>7, <1>8 DEF Contract!Forget, Reverts, Strays

\* The database is cut, or it had been before a crash.
LEMMA CutsOrRepeats ==
  ASSUME RevertAssumption, RevertInv, NEW t \in Threads, Truncate(t)
  PROVE  Contract!Cut(t) \/ UNCHANGED View
<1>1. run[t].pc \in SagaPcs /\ journal[t] # None /\ journal[t] \in Operations
  <2>1. run[t].pc \in SagaPcs
    BY DEF Truncate, SagaPcs
  <2> QED
    BY <2>1, SagaOperation
<1>2. journal[t].phase = "provider_rollback_done"
  BY <1>1 DEF Truncate, RevertInv, ThreadInv, RunPhase
<1>3. turns[t] \in {journal[t].current, journal[t].target}
  BY <1>1, <1>2 DEF RevertInv, ThreadInv, Progress
<1>4. /\ turns' = [turns EXCEPT ![t] = journal[t].target]
      /\ UNCHANGED <<provider, journal, quarantined, byHand>>
  BY DEF Truncate
<1>5. CASE turns[t] = journal[t].target
  <2>1. turns' = turns
    BY <1>4, <1>5 DEF RevertInv, TypeOK
  <2> QED
    BY <1>4, <2>1, SamePending, Unseen
<1>6. CASE turns[t] = journal[t].current
  <2>1. Strays' = Strays \ {t}
    <3>1. ~Apart(t)'
      <4>1. t \notin quarantined \cup byHand => provider[t] \in {journal[t].target, Fresh}
        BY <1>1, <1>2 DEF RevertInv, ThreadInv, Agreement
      <4>2. turns'[t] = journal[t].target
        BY <1>4 DEF RevertInv, TypeOK
      <4> QED
        BY <1>4, <4>1, <4>2 DEF Apart
    <3>2. \A u \in Threads \ {t} : Apart(u)' = Apart(u)
      BY <1>4 DEF RevertInv, TypeOK, Apart
    <3> QED
      BY <3>1, <3>2 DEF Strays
  <2>2. Reverts' = Reverts
    BY <1>4, SamePending DEF Reverts
  <2>3. \E op \in Reverts[t] : turns[t] = op.from /\ turns' = [turns EXCEPT ![t] = op.to]
    BY <1>1, <1>4, <1>6 DEF Reverts, Pending
  <2>4. Contract!Cut(t)
    BY <1>4, <2>1, <2>2, <2>3 DEF Contract!Cut, Reverts, Strays
  <2> QED
    BY <2>4
<1> QED
  BY <1>3, <1>5, <1>6

\* A turn settles: no revert of its workspace is journaled or quarantined.
LEMMA TurnAdvances ==
  ASSUME RevertAssumption, RevertInv, NEW t \in Threads, EndTurn(t)
  PROVE  Contract!Advance(t)
<1>1. /\ run[t].pc = "turn"
      /\ turns' = [turns EXCEPT ![t] = @ + 1]
      /\ provider' = [provider EXCEPT ![t] = (IF @ = Fresh THEN turns[t] ELSE @) + 1]
      /\ UNCHANGED <<journal, quarantined, byHand>>
  BY DEF EndTurn
<1>2. \A u \in Threads : Cwd[u] = Cwd[t] => journal[u] = None /\ u \notin quarantined
  BY <1>1 DEF RevertInv, FenceHolds, Blocked
<1>3. \A u \in Threads : Cwd[u] = Cwd[t] => Reverts[u] = {} /\ u \notin quarantined
  BY <1>2 DEF Reverts, Pending
<1>4. Apart(t)' = Apart(t)
  <2>1. CASE t \in byHand
    BY <1>1, <2>1 DEF Apart
  <2>2. CASE t \notin byHand
    <3>1. t \notin quarantined \cup byHand /\ journal[t] = None
      BY <1>2, <2>2
    <3>2. provider[t] \in {turns[t], Fresh}
      BY <3>1 DEF RevertInv, ThreadInv, Agreement
    <3>3. provider'[t] = turns'[t]
      BY <1>1, <3>2 DEF RevertInv, TypeOK
    <3> QED
      BY <3>2, <3>3 DEF Apart
  <2> QED
    BY <2>1, <2>2
<1>5. \A u \in Threads \ {t} : Apart(u)' = Apart(u)
  BY <1>1 DEF RevertInv, TypeOK, Apart
<1>6. Strays' = Strays
  BY <1>4, <1>5 DEF Strays
<1>7. Reverts' = Reverts
  BY <1>1, SamePending DEF Reverts
<1> QED
  BY <1>1, <1>3, <1>6, <1>7 DEF Contract!Advance, Reverts, Strays

\* begin() journals a revert, or finds the one that is pending.
LEMMA BeginAccepts ==
  ASSUME RevertAssumption, RevertInv, NEW t \in Threads, Begin(t)
  PROVE  Contract!Accept(t) \/ UNCHANGED View
<1>1. run[t].pc = "inspecting" /\ UNCHANGED <<turns, provider, quarantined, byHand>>
  BY DEF Begin
<1>2. CASE UNCHANGED journal
  BY <1>1, <1>2, SamePending, Unseen
<1>3. CASE journal[t] = None /\ t \notin quarantined
           /\ journal' = [journal EXCEPT ![t] =
                [phase |-> "prepared", target |-> run[t].target, current |-> turns[t]]]
  <2> DEFINE op == [phase |-> "prepared", target |-> run[t].target, current |-> turns[t]]
  <2>1. run[t].target \in Nat /\ run[t].target <= turns[t] /\ turns[t] \in 0..MaxTurns
        /\ run[t].target \in 0..MaxTurns
    BY <1>1 DEF RevertAssumption, RevertInv, TypeOK, ThreadInv, Progress
  <2>2. op # None
    BY <2>1 DEF RevertAssumption, Operations, Phases
  <2>3. Pending(t)' = {[from |-> turns[t], to |-> run[t].target]}
    BY <1>3, <2>2 DEF RevertInv, TypeOK, Pending
  <2>4. Reverts' = [Reverts EXCEPT ![t] = {[from |-> turns[t], to |-> run[t].target]}]
    BY <1>3, <2>3, OnePending
  <2>5. Strays' = Strays
    BY <1>1 DEF Strays, Apart
  <2>6. Reverts[t] = {}
    BY <1>3 DEF Reverts, Pending
  <2>7. run[t].target \in 0..turns[t]
    BY <2>1 DEF RevertAssumption
  <2>8. Contract!Accept(t)
    BY <1>1, <1>3, <2>4, <2>5, <2>6, <2>7, Zenon DEF Contract!Accept, Reverts, Strays
  <2> QED
    BY <2>8
<1> QED
  BY <1>2, <1>3 DEF Begin

\* A crash loses no revert but those whose rows cannot be read.
LEMMA CrashLoses ==
  ASSUME RevertAssumption, RevertInv, Crash
  PROVE  \E S \in SUBSET Threads : Contract!Lose(S)
<1>1. PICK bad \in SUBSET {t \in Threads : journal[t] # None} :
        /\ quarantined' = quarantined \cup bad
        /\ journal' = [t \in Threads |-> IF t \in bad THEN None ELSE journal[t]]
  BY DEF Crash
<1>2. /\ provider' = [t \in Threads |-> IF run[t].pc = "turn" THEN Fresh ELSE provider[t]]
      /\ UNCHANGED <<turns, byHand>>
  BY DEF Crash
<1>3. bad \in SUBSET Threads /\ \A t \in bad : Reverts[t] # {}
  BY <1>1 DEF Reverts, Pending
<1>4. Reverts' = [t \in Threads |-> IF t \in bad THEN {} ELSE Reverts[t]]
  BY <1>1 DEF Reverts, Pending
<1>5. ASSUME NEW t \in Threads PROVE Apart(t)' <=> Apart(t) /\ t \notin bad
  <2>1. CASE run[t].pc = "turn"
    <3>1. journal[t] = None /\ t \notin quarantined
      BY <2>1 DEF RevertInv, FenceHolds, Blocked
    <3>2. ~Apart(t)
      BY <3>1 DEF RevertInv, ThreadInv, Agreement, Apart
    <3>3. ~Apart(t)'
      BY <1>2, <2>1 DEF Apart
    <3> QED
      BY <3>2, <3>3
  <2>2. CASE run[t].pc # "turn"
    BY <1>1, <1>2, <2>2 DEF Apart
  <2> QED
    BY <2>1, <2>2
<1>6. Strays' = Strays \ bad
  BY <1>5 DEF Strays
<1>7. Contract!Lose(bad)
  BY <1>1, <1>2, <1>3, <1>4, <1>6 DEF Contract!Lose, Reverts, Strays
<1> QED
  BY <1>3, <1>7

LEMMA ContractStep ==
  ASSUME RevertAssumption, RevertInv, [Next]_vars
  PROVE  [Contract!Next]_View
<1>1. ASSUME NEW t \in Threads, Resolve(t) PROVE [Contract!Next]_View
  <2>1. Strays' = Strays
    BY <1>1 DEF Resolve, Strays, Apart
  <2>2. Reverts' = Reverts
    BY <1>1, SamePending DEF Resolve, Reverts
  <2>3. Contract!Resolve(t)
    BY <1>1, <2>1, <2>2 DEF Resolve, Contract!Resolve, Reverts, Strays
  <2> QED
    BY <2>3 DEF Contract!Next
<1>2. ASSUME NEW t \in Threads,
             \/ EndTurn(t) \/ Begin(t) \/ RestoreUnavailable(t) \/ ProviderRollsBack(t)
             \/ SessionStopped(t) \/ Truncate(t) \/ Cleaned(t)
      PROVE  [Contract!Next]_View
  <2>1. \/ Contract!Advance(t) \/ Contract!Accept(t) \/ Contract!Forget(t) \/ Contract!Cut(t)
        \/ Contract!End(t) \/ UNCHANGED View
    BY <1>2, EndsARevert, ProviderForgets, CutsOrRepeats, TurnAdvances, BeginAccepts, Zenon
  <2> QED
    BY <2>1 DEF Contract!Next
<1>3. ASSUME NEW t \in Threads,
             \/ RestoreDone(t) \/ AfterRestore(t) \/ RollbackConfirmed(t) \/ AfterRotation(t)
             \/ AfterTruncate(t)
      PROVE  UNCHANGED View
  <2>1. run[t].pc \in SagaPcs /\ UNCHANGED <<turns, provider, quarantined, byHand>>
    BY <1>3 DEF RestoreDone, AfterRestore, RollbackConfirmed, AfterRotation, AfterTruncate, SagaPcs
  <2>2. PICK phase \in Phases : SetPhase(t, phase)
    BY <1>3 DEF RestoreDone, AfterRestore, RollbackConfirmed, AfterRotation, AfterTruncate, Phases
  <2> QED
    BY <2>1, <2>2, PhaseIsUnseen
<1>4. ASSUME NEW t \in Threads,
             \/ StartTurn(t) \/ RequestRevert(t) \/ GrantBarrier(t) \/ Refuse(t)
             \/ RefuseBegin(t) \/ OwnersClosed(t) \/ RollbackUnconfirmed(t) \/ Throw(t)
             \/ Recover(t)
      PROVE  UNCHANGED View
  <2>1. UNCHANGED <<turns, provider, journal, quarantined, byHand>>
    BY <1>4 DEF StartTurn, RequestRevert, GrantBarrier, Refuse, RefuseBegin, OwnersClosed,
                RollbackUnconfirmed, Throw, Recover, durable
  <2> QED
    BY <2>1, SamePending, Unseen
<1>5. CASE Serve \/ UNCHANGED vars
  <2>1. UNCHANGED <<turns, provider, journal, quarantined, byHand>>
    BY <1>5 DEF Serve, vars, durable
  <2> QED
    BY <2>1, SamePending, Unseen
<1>6. CASE Crash
  BY <1>6, CrashLoses DEF Contract!Next
<1> QED
  BY <1>1, <1>2, <1>3, <1>4, <1>5, <1>6, Zenon DEF Next, Revert, Saga

\* The saga implements RevertContract (revertThreadCheckpoint,
\* executeCheckpointRevertOperation, recoverPendingCheckpointReverts): a
\* journaled revert takes its thread to the turn asked for or leaves it alone,
\* through failed calls, retries and crashes, and no turn advances beside it.
THEOREM ContractKept == Spec => KeepsContract
<1>1. Init => Contract!Init
  <2> SUFFICES ASSUME Init PROVE Contract!Init
    OBVIOUS
  <2>1. \A t \in Threads : Pending(t) = {} /\ ~Apart(t)
    BY DEF Init, Pending, Apart
  <2>2. turns \in [Threads -> Nat]
    BY RevertAssumption DEF Init, RevertAssumption
  <2> QED
    BY <2>1, <2>2 DEF Init, Contract!Init
<1>2. RevertInv /\ [Next]_vars =>
        [Contract!Next]_<<turns, [t \in Threads |-> Pending(t)], {t \in Threads : Apart(t)}, quarantined>>
  BY RevertAssumption, ContractStep DEF View, Reverts, Strays
<1> QED
  BY <1>1, <1>2, RevertInductive, PTL DEF Spec, KeepsContract, Contract!Spec
=============================================================================
