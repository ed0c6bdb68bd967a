# BetterC0de backend: models, checks and proofs

This directory specifies the core of the BetterC0de backend
(`src/apps/backend/src`) in TLA+: what it keeps durable, how its concurrent
continuations interleave, and what survives a crash. TLC checks every property
on small instances; TLAPS proves the most important ones for all values of the
constants.

Paths below are relative to `src/apps/backend/src` unless they start with `apps/`
or `packages/`.

## The system

A desktop shell (`apps/shell`) supervises one Node process, the backend. Clients
(the desktop UI, the mobile app) talk to it over HTTP and a WebSocket. The
backend keeps conversations in SQLite and runs provider turns (Claude, Codex,
Cursor, ...) through adapters. It is one JavaScript thread: interleaving happens
only at `await`s, and each SQLite transaction is durable on its own, so a crash
can fall between any two of them.

| Component | State it keeps | Operations | Talks to | What makes it correct |
|---|---|---|---|---|
| Chat dispatch store (`services/chat-dispatch-store.ts`) | durable row per dispatch id | reserve, bind, accept, complete, fail, recover | dispatch, ingestion, Stop, recovery | outcome only moves forward; one turn per id |
| Chat admission (`services/chat/dispatch.ts`, `dispatch-lifecycle.ts`) | in-flight admissions | dispatchChatTurn | store, coordinator, hub, recovery gate | a retry never dispatches twice; every request answered |
| Thread turn coordinator (`provider/threadTurnCoordinator.ts`) | turn token, maintenance set, idle waiters per thread | reserve, release, maintenance, teardown, waitForIdle | admission, hub, revert, goals | one owner of a thread; no leaked token |
| Provider hub (`provider/runtime/ProviderHub.ts`) | turn admission per thread, watchdogs | startTurn, dispatchTurn, interrupt, timeouts, finalize | adapters, coordinator, journal | one terminal event per turn; admission cleared exactly once |
| Session registry, capacity, reaper (`ProviderSessionRegistry.ts`, `ProviderTurnCapacity.ts`, `ProviderSessionReaper.ts`) | live sessions, generations, leases | start, recover, rotate, reap | hub | no reaping under a turn; no session of an old generation |
| Provider event pipeline (`ProviderRuntimeIngestion.ts`, `ProviderRuntimeEventJournal.ts`, `ProviderRuntimeJournalReplayer.ts`, `ProviderRuntimeJournalRecoveryStore.ts`, `ProviderRuntimeProjectionReceiptStore.ts`) | journal rows, receipts, retry queue, spool | ingest, drain, spool, replay, discard | hub, projections, WebSocket | nothing visible before it is durable; order; no loss |
| Transcript snapshots (`AssistantTranscriptRecoveryStore.ts`) | text buffers, recovery files | delta, flush, recover | ingestion | text of a finished turn is complete |
| Workspace recovery gate (`services/workspace-recovery-gate.ts`, `checkpoint-recovery-fence.ts`) | active and waiting leases | acquire, try, quiesce, release | admission, revert, worktrees | exclusive means alone; no starvation |
| Checkpointing (`checkpointing/`), revert saga (`services/checkpoint-revert-saga.ts`) | turn slots, git refs, revert operations | baseline, capture, revert, cleanup | projected events, gate, threads | a revert completes or is visibly unfinished |
| Chat resume, goals, autonomy (`services/chat/resume-*.ts`, `goals*.ts`, `autonomy*.ts`) | durable resume rows, loops | note, fire, pause | admission, coordinator | a stopped chat does not restart itself |
| Orchestrator, automations | workers, runs | spawn, cancel, due | admission, worktrees | no orphan worker; each due run at most once |
| WebSocket and replay (`ws/server.ts`, `packages/schema/src/provider-replay.ts`) | cursors, ring of events | subscribe, replay, snapshot | ingestion, clients | a client misses nothing silently |
| Admission gate, shutdown (`lifecycle/AdmissionGate.ts`, `bootstrap/shutdown.ts`), supervisor (`apps/shell/shared/backend-supervisor.cjs`) | open leases, drain phases, restart budget | enter, drain, stop, restart | everything | drains in order; no work after the drain |
| Legacy provider service, adapters, routes, persistence, git, settings, UI, mobile | | | | not state machines of the core; see *Not modelled* |

What is hard here: retries that race their original; a Stop, a watchdog, a
terminal event and a dispatch rejection that all report on one turn; ownership
that moves between components (token, lease, remote owner) in code that can
throw; crashes between two transactions; replay of journaled events against rows
already settled; queues that reach their limit; work that must drain before the
process exits. The lines are listed in `PROJECT.json` under `hazards`.

## The modules

The order is that of the damage a mistake does: messages sent twice, workspaces
written by two owners, conversations and files that disagree, events lost, threads
left busy, clients that miss something, chats that run by themselves.

1. `ChatDispatchStore`, `ChatDispatch`: the outbox and the admission of a message,
   with the token, Stop, revert, taint, crash and startup recovery that write the
   same rows. `AtMostOnceDispatch` is what they promise a client; the run checks
   and `ChatDispatch_proofs` proves that `ChatDispatch` implements it.
2. `WorkspaceRecoveryGate`: leases of workspaces, barriers, registered processes.
3. `CheckpointRevert`: the revert saga, its journal, its recovery at startup. It
   uses the gate's isolation only. `RevertContract` is what it promises the user;
   checked and proved like the other two contracts.
4. `ProviderJournal`: the durable lane of provider events.
5. `HubTurn`: what may end a turn in `ProviderHub`, and the fences it holds until
   then. `HubContract` is what it promises whoever finalizes a turn or waits
   for its end; the run checks and `HubTurn_proofs` proves that `HubTurn` implements
   it. `ChatDispatch` sees of it the token and the terminal event (`TurnEnds`,
   `DispatchSettles`, `TurnCleared`).
6. `ProviderReplay`: the WebSocket's ring of events and the client's cursor.
7. `ChatResume`: the scheduler that continues a chat after a limit or a restart.

Each has an `MC` module with its instances and one `.cfg` per question, and its
theorems in a `_proofs` module; those of `ChatDispatch` that are about its rows
are in a second one, `ChatDispatchRows_proofs`.

What would come next, in this order: transcript snapshots (composed with
`ProviderJournal`'s receipts), checkpoint slots (composed with `CheckpointRevert`),
reaping and capacity of sessions, goals and autonomy on top of `ChatResume`'s
environment, the orchestrator, automations, the shell's supervisor. Their hazards,
beyond the ones in `PROJECT.json` (relative to `src/apps/backend/src`):

- `provider/runtime/AssistantTranscriptRecoveryStore.ts:183` a spooled message is
  written, and newer text of it spooled, before its file is removed.
- `checkpointing/CheckpointTurnSlotStore.ts:225` ordinals of the provider restart
  after a recovery; `:357` the order of the startup repair;
  `checkpointing/CheckpointReactor.ts:717` a capture that resumes after a revert.
- `provider/runtime/ProviderSessionReaper.ts:181` the sweep's list is old when used;
  `:246` the binding is marked stopped after the thread's maintenance has ended.
- `provider/runtime/ProviderTurnCapacity.ts:91` check and reservation of a place.
- `services/chat/requests.ts:244` answering an approval takes a shared lease, so it
  can wait behind a barrier that waits for its turn, until the barrier's timeout.
- `services/chat/goal-runtime.ts:66`, `:216`, `services/chat/goals.ts:189`: goals
  changed while their turn runs or their event waits for SQLite.
- `services/orchestrator/service.ts:827` places counted from two sources;
  `services/automations/service.ts:823` a run marked in memory first.
- `remote/providerTurnOwnership.ts:141` a revocation between launch and attachment;
  `bootstrap/shutdown.ts:341` the order of the drains.
- `apps/shell/shared/backend-supervisor.cjs:186` exit event and fallback count one
  failure; `:145` a probe of an older generation.

## How the models correspond to the code

`PROJECT.json`'s `map` gives the lines behind every definition. Three conventions
hold in all modules:

- An action is a stretch of code between two `await`s, with everything it calls.
- A transaction is durable alone. Where a stretch has several, a torn prefix is an
  action of its own (`Crash...`, `Torn...`), or the stretch is cut at them
  (`CheckpointRevert`).
- A definition whose comment begins with *Wrong* is not the code. It stands beside
  the definition it falsifies, and shows which property would notice that mistake.

### ChatDispatchStore, ChatDispatch, AtMostOnceDispatch

`ChatDispatchStore` holds the transactions of `chat-dispatch-store.ts` as operators
on a row: `CanBind`/`BindProviderTurn`, `MarkAccepted`, `MarkCompleted`,
`MarkFailed`, `SettleByProviderTurn`, `Recovered`, `CompleteRecovery`, `Reverted`.
Timestamps and messages are left out; `seq` keeps what "newest" means.

In `ChatDispatch` a request is one HTTP call. `pc` is its progress through
`dispatchChatTurn`: *new*, *preparing* (after the in-flight lookup, in the hooks),
*joined* (coalesced with an earlier one), *admitting* (it has the token),
*attaching* (launched, waiting for the owner), *answered*, or *lost* with its
process. A turn is named by the request that launched it: a request launches at
most one and the hub draws a fresh id for each. `token`, `maintenance`, `hub` are
the coordinator's and the hub's maps; `terminal` follows a turn's terminal event
from the queue through the journal to its receipt; `dispatching` holds the turns
whose hub promise is unsettled. `phase` is the order of startup: replay, recovery,
HTTP. The legacy provider branch of `dispatchChatTurn` has the shape of the hub
branch and is the same action.

### WorkspaceRecoveryGate

A client is one acquisition. `active`, `waiting` and `ahead` are the two maps and
the insertion order of the second. `drain` restarts its scan after each grant; the
actions use a characterisation of its result in one pass (`IsDrain`), which TLC
evaluates faster. `IsLoopOrder` describes the loop itself, grant by grant, and
`DrainIsTheLoop` says that both grant the same on every queue reached, also after
any of the leases or waiters have left it or a new one has come. A path is canonical
already and its Git common directory is `RepoOf`; `Under` is path containment. A
request keeps one path per repository, as `resolveWorkspaceRecoveryScopes` does;
`RepositoryIsolation` is what that leaves of an exclusive lease on several paths,
and `PathIsolation`, which the comment of the class promises, is violated.
`ListOwners`, `CloseOwner` and `AbandonBarrier` are the quiesce callback of
`workspace-exclusive-maintenance.ts` and the timeout.

### CheckpointRevert

The journal's phase runs *prepared*, *filesystem_restored*,
*provider_rollback_started*, *provider_rollback_done*, *database_truncated*. `run`
is where a turn or revert of a thread stands: at an `await` (`Awaits`) or inside a
stretch cut between two transactions (`Sync`), when nothing else runs (`Calm`) but
a crash may fall. `files` and `provider` say at which turn the workspace and the
conversation are; `Torn` is a restore a crash cut short, `Fresh` a session that
will be rebuilt from the database. Calls outside the backend's control (restore,
rollback, stop, ref cleanup) may throw, and a restore may find its ref missing or its
safety snapshot failing (`RestoreUnavailable`). If that was a repeated restore, and
no other thread of the workspace has one to do, the half-restored files are
`Abandoned`: nothing durable knows of them any more (finding 2).

`RevertContract` knows the turns of the database, the journaled revert (from which
turn to which), the threads whose provider remembers other turns than the database
(`Apart`), and the quarantined ones. A thread whose quarantine was resolved by hand
counts as never apart: the resolution promises no agreement.

### ProviderJournal

An event is its place in the order of arrival. `fate` is what the emitter was told
or how the event was given up; `rows` the journal in SQLite's order with receipts
and attempts; `queue`, `timer`, `intake` the retry queue; `spool` the recovery
files; `pass` the locals of `replayAll`. All of it is synchronous code; `mode` says
what it is in the middle of, and new events come only at *serving*. The byte limit
of the queue is its count limit. Whether SQLite takes a write is a choice at each.

### HubTurn

One thread, one adapter; a turn is an admission of `turnsByThread`. `phase`,
`cancelled`, `entered`, `observed`, `pending`, `claimed`, `idle`, `deadline`, `asked`
are fields of the admission (`settlementStarted`, `timeoutHandle`, ...). `dispatch`,
`interrupt`, `hardStop`, `finalizer`, `finish` are the async functions that work on
it, each at one of its `await`s; `Claim` is `claimTurnSettlement`, on which all
contenders meet. `upkeep` is the thread's maintenance or teardown. `running` is the
adapter: turns that may still run in it. A call with a budget returns, throws or
runs out of it. `promiseWithDeadline` cancels nothing: a `stopSession` past its
budget may still return late, and an `interruptTurn` past its budget
(`InterruptExpires`) stays in `calls` until it settles (`InterruptSettlesLate`),
whatever has been admitted by then. It names no turn, so a turn that runs when it
settles is in `hit`: the adapter may abort it, or report its end while it runs on.
`revived` remembers turns the adapter announced while the hub was interrupting them.

`HubContract` has a stage per turn, read off `dispatch` and `finish` (`StageOf`), the
set of turns that can still act (`Harmless`, negated), and the turns whose interrupt
overran its budget (`late`). The afterTurn hook takes the turn's last checkpoint, and
the end of the admission frees the thread's token: both must come after anything the
turn itself, its dispatch or the stop of its session can do. The contract does not
promise that an overrun interrupt has settled by then, since it need not have
(finding 3); it says that only an admitted turn begins or overruns a call. Turns in
`revived` and `hit` are not covered.

### ProviderReplay

The hub numbers events per journal (`total`), `kept` is its ring, `unavailable` the
last number it could not send. A client has a link (`up`, `ready`, `delivered`,
`authAt`, `timer`), a wire (`request`, `inbox`) and its cursor (`journal`, `last`,
`announced`). `ReplayProviderEvents` is the server's answer, to a request or to the
grace timer; `Negotiate`, `DeliverGap`, `DeliverComplete`, `DeliverEvent` are the
cursor's handlers, and `GapHandlerThrows`, `EventHandlerThrows` what comes of them
when the client's handler throws, the one that is told of a hole included. `applied`,
`excused`, `failed` and `lost` are histories: what the client applied, what it was
told to reload, what its handlers threw at, and what two faults lose (`RestartIsTold`
and `FailureIsTold` under *Findings*): the gap of a restart lost with the connection,
and a handler that throws at a gap or while one stands announced. An event still on the wire behind a gap whose handler
threw is not lost (`EventsOf`).

### ChatResume

One chat. `s` holds what `resume-store.ts` keeps with it (`record`, `running`,
`count`, `template`) and the scheduler's maps (`timer`, `holder`: whose generation is
current, `attempt`, `live`, `pending`, `recent`). An attempt is a fibre through
`dispatchChatTurn`, which asks its `Guard` when it has the token and once more before
the hub. `bus` carries the projected events, which trail behind the hub (`owner`,
`last`). `Arm`, `Drop`, `RecordLimit`, `OnTurnStarted`, `OnTurnEnded`, `Recovered` are
the functions of those names; crashes fall between two of their writes. The
distance of times (a limit's reset, grace periods) is left out, except that `Fire`
comes after the events of turns that are over, and `Settled` after its own. The user's
requests that were let in before a shutdown may be handled during it (`Choice`); a
Stop then drops the record and keeps the running marker, and `kept` remembers it. A
timer that finds its chat archived is spent (`Fire`, `archived`): retention archives
only a chat nothing of which is under way (`Unused`), no code restores it, and
recovery passes over it, so the behaviour ends there.

## What the runs check

| Run | Instance | Properties | Shows |
|---|---|---|---|
| `chat_retry` | a message and its retry, 2 crashes, 1 Stop, fair | `AtMostOneTurnPerDispatch` `RecoveryRotates` `KeepsPromise` `RetryNeverTurnActive` `EveryMessageSettles` `ThreadFreed` | one provider turn per id; outcomes move as promised; a retry is not refused because of its original; everything is answered and settles |
| `chat_rival` | a message, another content under its id, another message, 1 Stop | `TurnHoldsToken` `NoStrandedDispatch` `AnswerIsOwn` | the token follows the turn and comes back; no open row without someone to settle it; nobody is answered with another's turn |
| `gate` | 2 callers of all entry points, 1 terminal; a repository together with its worktree, that worktree together with a directory outside, a clone of another repository inside the worktree; fair | `ExclusiveIsolation` `NoLostWakeup` `RepositoryIsolation` `DrainIsTheLoop` `NoOvertaking` `SharedIsServed` | isolation by scope and by repository, paths dropped from a request included; fair queues, nothing left behind, no shared request starves behind a barrier or a terminal |
| `gate_nested` | the same | `PathIsolation` | **violated**, finding 4 |
| `revert` | two threads of a workspace, 2 turns and 2 reverts, 2 crashes, a missing ref, failing snapshots, unreadable rows, fair | `FenceHolds` `TornFencedUnlessGivenUp` `KeepsContract` `DatabaseLast` `RevertsEnd` | the fence holds, half-restored files stay fenced until a repeated restore is given up, the database is cut last, a journaled revert is done once or not at all with provider and database in agreement, runs and recovery end |
| `revert_overlap` | two threads of a workspace, no crash | `OneRestoreAtATime` | **violated**, finding 1 |
| `revert_torn` | two threads of a workspace, 1 revert, 1 crash | `TornStaysFenced` | **violated**, finding 2 |
| `journal` | 4 events, 2 threads, queue 2, batch 2, 2 attempts, 4 starts, fair | `NothingLost` `OneRow` `ReplayBudget` `InOrder` `ReplayInOrder` `PassIsComplete` `StartupEnds` `QueueDrains` | nothing is lost, doubled or overtaken through contention, overflow, stop and death |
| `hub` | 2 turns one after the other, 1 open request, fair | `FencesHeld` `Watched` `KeepsContract` `TurnEnds` | one contender settles a turn, fences stay up until nothing of it but an overrun interrupt is left, nothing is unwatched, its hook runs once when the turn can act no more and before the next turn; a turn ends, unless its backend is quarantined or a late interrupt of the other turn hit it |
| `hub_late` | 2 turns, up to 2 open requests | `ReleaseIsSafe` | **violated**, finding 3 |
| `replay` | ring of 2, 3 events, 1 restart, 2 lost connections, 1 handler that throws, fair | `NothingSilentlyMissed` `CaughtUp` `AppliedOnceInOrder` `EventuallyInformed` | once, in order, and never missed in silence |
| `resume` | 4 turns, 2 ends of the process, 2 choices of the user, 2 failures, 1 continuation, fair | `StopHolds` `CountedCrashesEnd` `GivesUp` `ResumeEnds` | a Stop holds unless it meets a shutdown or a late event, loops end, a resume ends |

Each module's `TypeOK` is proved, by itself or as a part of the inductive invariant.

Why the bounds are enough to be worth it:

- Chat: the races are between a request and one other, retry or rival; two crashes
  let a recovery itself be torn and repeated. The rival's run needs the third
  request, since an answer can only be somebody else's under a shared id while
  another message holds the thread.
- Gate: three clients are needed for an earlier waiter, a later one and the lease
  that blocks them; the four paths contain each relation of the conflict test:
  same repository, nested directories, a request for two places; and one request
  names two paths of a repository, so that the gate drops one.
- Revert: two turns allow a revert of a reverted thread, and the second thread of
  the workspace the races of the fence; two crashes interrupt the recovery of an
  interrupted operation.
- Journal: the queue must overflow (three events of one thread, one of which is
  never journaled) with one event to come, the batch must be
  full of blocked rows with a row of another thread behind it, an attempt budget of
  two must be used up, and each attempt may kill its start.
- Hub: what an old turn can still do to the next needs two turns; one request
  suffices to disarm a watchdog, and to be answered without arming it again. That
  only the last of several answers does so was checked once, with two.
- Replay: three events overflow a ring of two; two lost connections with a
  restart let each half of a negotiation be lost; one handler that throws leaves a
  hole for the next event or replay to announce.
- Resume: a limit, its resumed turn, and another limit need three turns and a
  fourth shows that no more come; two ends of the process cut off a continuation
  and the recovery of it; two attempts allow an old dispatch beside a new one.

Larger instances, too slow for a run, were checked once with safety properties of
the run and no error: `replay` with four events, two restarts, three lost connections
and a throwing handler (11.5 million states); `chat_rival` with a crash and a Stop
(10.9 million); `journal` with five events and four starts (8.3 million); `revert`
with three turns, reverts and crashes (7.3 million); `chat_retry` with three crashes
and two Stops (0.3 million); `hub` with two open requests, liveness included (1.0
million).

`CHECK_DEADLOCK FALSE` stands where the system comes to rest because requests,
reverts, turns, events or starts are bounded; the gate's run checks deadlock.

## Fairness

- `ChatDispatch`: the event loop runs every continuation (`Admission`, `Stopping`,
  `EndRevert`, `TurnCleared`, `DeliverTerminal`); every turn has a watchdog
  (`TurnEnds`) and an interrupted dispatch promise settles (`DispatchSettles`); the
  shell restarts a tainted backend (`EmergencyRestart`), which recovers
  (`Recovery`). A Stop, a crash, a revert and a request are never owed.
- `WorkspaceRecoveryGate`: promises resume, operations finish, a listed process is
  killed, a barrier's timeout fires. No terminal has to exit by itself.
- `CheckpointRevert`: an awaited call settles, by an answer or an exception; turns
  end; the startup recovery goes on.
- `ProviderJournal`: startup, timers and shutdown run. Strong fairness of `DrainHead`
  is the assumption that SQLite's contention passes: of a retry that is possible
  again and again, one succeeds.

- `HubTurn`: timers fire, a call with a budget returns or runs out of it
  (`InterruptReturns` or `InterruptExpires`), preflight and hook settle. `sendTurn` owes an answer only once its turn no longer runs. An
  adapter need not end a turn, send an event or return from a late `stopSession` or
  `interruptTurn`.
- `ProviderReplay`: the client reconnects, and what is on an open socket arrives.
- `ChatResume`: promises resume, timers fire, turns end, the shell starts the
  backend again. No user and no crash is ever owed.

## Findings

1. **The exclusive lease of a revert ends before its work** (`revert_overlap`).
   `checkpoint-revert-saga.ts:202` returns the operation's promise without `await`
   inside `try ... finally`. `services/git/checkpoints.ts:516` says the callers hold
   the fence throughout. Turns are still kept away by the durable fence
   (`FenceHolds`); another thread's revert is not.
2. **A repeated restore that cannot start gives half-restored files up**
   (`revert_torn`). `checkpoint-revert-saga.ts:287` deletes the journal when a restore
   reports that it did not start, also for the second attempt at one that a crash or an
   exception cut short: when its snapshot fails (`services/git/checkpoints.ts:415`) no
   row fences the workspace any more, against `bootstrap/recovery.ts:228`.
   `TornFencedUnlessGivenUp` is the property up to there.
3. **An interrupt past its budget outlives its turn's admission** (`hub_late`).
   `promiseWithDeadline` (`ProviderHubErrors.ts:142`) abandons `interruptTurn` and
   cancels nothing; a terminal event of the turn clears its admission, and the next
   turn is admitted beside the call. An adapter that looks its active turn up after
   its own await (`betterc0deCompat/BetterC0deCompatAdapter.ts:2041`) then aborts
   the wrong one. `ProviderHub.ts:2296` says the fences are held until a release is
   safe. `FencesHeld` says what does hold.
4. **A clone inside a linked worktree is not held with it** (`gate_nested`).
   `workspace-recovery-gate.ts:258` keeps one path per repository of a request, so a
   repository cloned inside the worktree can be written while a request for both
   checkouts is held exclusively. `workspace-recovery-gate.ts:32` says scopes conflict
   when their paths overlap. `RepositoryIsolation` is what holds.

Five more have no run of their own. Each is an invariant which TLC finds violated
when it takes the place of the properties in the named configuration; a property of
that run holds beside it, which excepts just this:

- `FencesAlwaysHeld` (`HubTurn.cfg`; `FencesHeld` excepts `revived`). A turn
  announced during its interrupt is let go too early: `ProviderHub.ts:1981` makes the
  admission active again, so that the rejected dispatch settles it while the interrupt
  or the hard stop is under way, and the next turn is admitted beside them.
  `ProviderHub.ts:2296` says the fences remain held.
- `RestartIsTold` (`Replay.cfg`; `CaughtUp` excepts `lost`). The gap of a restart is
  announced on one connection only: `provider-replay.ts:33` adopts the new journal
  when it asks, not when it is told, so a connection lost in between loses the gap,
  which `:28` says the server announces.
- `FailureIsTold` (`Replay.cfg`; `NothingSilentlyMissed` excepts `lost`). A gap whose
  handler throws counts as announced: `provider-replay.ts:39` sets the mark before it
  calls the handler, and the next event is then applied in silence; likewise an event
  whose handler throws while a gap stands announced.
  `apps/ui/src/services/backend/wsClient.ts:272` says the next event reports a gap.
- `StopAlwaysHolds` (`Resume.cfg`; `StopHolds` excepts `kept`). A Stop during a
  shutdown is undone by the next start: `resume-scheduler.ts:371` keeps the running
  marker once `beginShutdown` was called, and recovery continues the chat from it,
  although a marker counts only unless "the user had stopped it" (`:48-51`).
- `CrashLoopEnds` (`Resume.cfg`; `CountedCrashesEnd` excepts `unseen`). A continuation
  that kills the backend early is not counted: `resume-scheduler.ts:253` counts it
  only if the running marker was projected, against `resume-policy.ts:37`.

Also met on the way:

- With `auto_save_conversations` off no durable row exists
  (`services/chat/dispatch-lifecycle.ts:112`), so a retry is coalesced only until
  its original is answered, and may then be told `turn_active`, which
  `services/chat/dispatch.ts:52-61` calls "the one answer a retry must never get".
- `interruptChatTurn` awaits the interrupt and then marks whichever open dispatch
  of the thread is newest (`dispatch-lifecycle.ts:280`), which may have been
  admitted meanwhile (`StopInterruptsWhatItFails` of `ChatDispatch`).
- A limit or a `turn.started` observed after a Stop schedules or marks the stopped
  turn (`services/chat/sessions.ts:21`); `StopHolds` excepts it (`late`).
- A turn resumed at a limit and cut off by a restart is sent again uncounted;
  `GivesUp` counts from the last death, where `tries` is reset. It also excepts turns whose end event is
  lost, as the live turn is then an old one (`missed`).
- A client too slow for the hub's grace period may hear the new backend's events
  before the gap of its restart (`owed` in `NothingSilentlyMissed`).
- An overflow whose spool fails halfway leaves the spooled head to the next start
  and projects the rest now (`ProviderRuntimeIngestion.ts:1386`); `InOrder` excepts
  it by name (`late`).
- A terminal event that meets a closed intake is dropped with a normal return
  (`ProviderRuntimeIngestion.ts:762`), although a turn is to settle only once its
  terminal event is recorded; `fate` *rejected* stands for it.
- Resolving a quarantine by hand lifts the fence and leaves files, provider and
  database where they were (`http/routes/threads.ts:598`); `byHand` remembers the
  threads, and three properties except them.

## What is proved

TLAPS proves the following for any sets and bounds the assumptions allow. The
assumptions say that constants have their types, with three facts of the code:
turns are named by requests and an instance a request names is the one the hub
resolves (`RequestAssumption`, `InstanceAssumption`); a path is inside itself
(`GateAssumption`); the markers `Fresh`, `Torn`, `Abandoned`, `Other` are no turn counts
(`RevertAssumption`). `StoreAssumption` and `JournalAssumption` are types and
positive limits, as is `ReplayAssumption`; `HubTurnAssumption` and `ResumeAssumption`
add that `None` is no turn and no attempt, and `NoneIsNoRecord` that it is no record
of the scheduler. TLC evaluates them all in the runs.

**`ChatDispatch_proofs`.** `TypeCorrect` needs that a coalesced retry has an
original. `TokenSafety` is the invariant `TokenInv`: a token is held for a
request of its own thread, never beside maintenance; an admission holds it while it
needs it, and the hub's turn is past its admission, so that no admission can give
back what a turn still needs. `LaunchedOnce`, for auto-save on, is `LaunchInv`: a
launched turn is the one its row names, a row names no turn but one launched for
it, and a request that may still launch has not; `AtMostOneTurnPerDispatch`
follows, as two launched turns would both be the one the row names. `PromiseKept`
maps each row's status and the launched turns to `AtMostOnceDispatch`: every action
is a step of it or a stutter.

**`ChatDispatchRows_proofs`.** What a row says of the message it records. `OwnInv`: a
row that names a turn has the thread, content and instance of the request that
launched it, and with auto-save an admission has reserved a row of its own message.
With it `AnswerInv` is inductive: admissions in flight lie under their own key (`OwnInflight`),
and a coalesced retry waits for an admission of its own message that was not told
`turn_active` (`OwnLeader`). It contains `AnswerIsOwn` (`AnswersAreOwn`), and with
`LaunchedOnce` gives `RetriesToldTheSameTurn`. `RetriesNeverTurnActive` adds that whoever
holds a token has its row (`TokenRecorded`): the retry of a holder finds that row
before it asks for the token. These two assume `AutoSave`, without which there is no
row (see *Findings*); the others do not. `NobodyStranded` is inductive once
`NoStrandedDispatch` is freed of the taint, with what startup has marked as not open
(`StrandInv`). `RecoveryAlwaysRotates` needs for `RotateInv` that a session is never
of a later generation than its thread and always has a binding to rotate
(`SessionsBound`), and that no turn runs before the backend serves
(`RunsOnlyServing`), or a recovered row could get a session of the new generation.

**`WorkspaceRecoveryGate_proofs`.** The inductive invariant `GateInv` says who can
be waiting, active or idle, orders the waiters by `ahead`, and contains
`ExclusiveIsolation` and `NoLostWakeup`. All grants go through one operator, so
`DrainLemma` carries the argument: what drain grants conflicts with no lease, nor
with one another, and whoever still waits afterwards has someone to wait for.
`NobodyOvertakes` and `NoGhosts` follow from it. `ExclusiveLeaseIsAloneInRepositories`
adds that a dropped path has a kept one of its repository, and that the keys of a
scope decide its conflicts; it assumes nothing of the layout. `DrainIsAlwaysTheLoop` needs of the state
only `QueueInv`: the waiters are finitely many and `ahead` orders them strictly, so
that a set of them has a first. What the loop has granted when it ends solves
`IsDrain`, as each grant is tested against those before it; two solutions would
differ first at some waiter, whose test looks at earlier ones only (`OneDrain`); and
the loop ends, since each pass grants another waiter (`PassesBounded`, `LoopEnds`).

**`CheckpointRevert_proofs`.** `RevertInv` says which combinations of journal phase,
database, provider and `pc` can occur: `RunPhase` (the phase at each point of a
run), `Progress` (what holds already in each phase), `Agreement` (provider against
database in each phase), with the leases and the recovery's list. It is inductive
over crashes at every point, since the durable part alone determines where a
resumed run starts. `TheFenceHolds` and `NoRollbackTwiceOrNever` are read off it; so
is `TypeOK`, as a turn count below zero is excluded only by `Agreement`. The files
need three more invariants on top of it. `TornInv`: half-restored files have an
operation in the workspace that will restore them, or a quarantine, until the last
operation that would is given up (`Unrestored`). `EngagedInv`: one request engages
one thread. `FilesInv`: restored files stay at their turn until the database is
cut, where no other thread's restore can come between. With `Agreement` that gives
`DatabaseIsLast`. `ContractKept` needs no more than `RevertInv`: most steps leave
what the contract sees alone (`Unseen`, `PhaseIsUnseen`), and the rest are one
lemma each. `NoRollbackTwiceOrNever` is what the contract says of a thread at rest.

**`ProviderJournal_proofs`.** The invariant `Inv` says where an event can be
(`Placement`: memory, row, file, and which of them exclude each other), that
whoever takes the head of the queue finds one (`NeedsQueue`), that a replay is counted
before it runs (`Counted`), and that a batch skips no row of its thread
(`BatchIsNext`). The four theorems `NoEventLost`, `JournaledOnce`,
`ReplaysBounded`, `ReplayKeepsOrder` each use one part. `OrderInv` adds the order of
arrival: the queue is sorted and behind everything durable (`QueueOrder`), the spool
is behind the journal (`SpoolOrder`), and the journal is sorted (`RowsOrder`), each
but for what an overflow left to a later start; and while the backend serves only
what is queued or spooled is still to be shown (`Live`). So whatever is projected has
the earlier events of its thread behind it (`ProjectedInOrder`). `PassInv` is about a
pass: a blocked thread has a failed row (`BlockedFailed`), nothing lies behind a batch
that is not full (`LastBatch`, as a batch that leaves something behind has
`BatchSize` rows: `FullBatch`), and a full batch without progress is what the next
read would return (`Stuck`). That is what a pass has left when it ends
(`PassLeavesFailures`).

**`HubTurn_proofs`.** `HubInv` says per turn where an admission is in its life
(`Life`), that nothing is under way before its dispatch (`Early`), that what has
ended cannot run again (`Confined`), and how the fibres of an interrupt hand it on
to one another (`Chained`), so that whoever clears the admission is the last to
touch the adapter, but for an interrupt past its budget, which is left behind only
when the turn has its terminal receipt or its session is stopped. `SettledExactlyOnce` and `TheFencesHold` are read off it;
`NeverUnwatched` adds which watchdogs are armed in which phase. For `ContractKept`
that invariant has to speak of both sides of a step: whoever can act is admitted and
its hook has not run (`ActingInv`), so a step that leaves all stages alone lets only
admitted turns act; a turn is admitted only while no other is (`ThreadIsFree`). A
turn the adapter revived has been dispatched (`RevivedInv`), or a new turn would be
excepted from the contract before it began; so has one that a late interrupt hit,
as it ran.

**`ProviderReplay_proofs`.** `ReplayInv` ties the wire to what lies behind the
client's cursor: the frames on their way are the running journal's (`Wire`); the
cursor is never ahead of the hub (`Cursor`); what the client applied is behind it
(`Behind`); and whatever else is behind it was announced, is of an older journal
whose gap is still owed, or was lost to a named fault (`Covered`). `Skipped` and
`Awaited` make that inductive while an announced gap stands, when the cursor accepts
any next number: what the frames on the wire leave out is then known to be missing.
Where the gap's handler threw, that needs the events on the wire to be in order
(`InOrder`): one that is still to come must not be passed by a later one.
`AppliedOnce` and `NothingMissed` are read off it. `SettledHasAll` needs the other
direction, that what a client lacks is on its way (`CatchUpInv`): the ring has every
number after its first but the frames too large for it (`Ring`), a client asks for
no more than what is behind its cursor (`Asked`), the hub takes nothing for delivered
that the wire does not have (`Sent`), and the gap of a changed journal is asked for
or on the wire while it is owed (`OwedComes`). Then a client that was answered is
sent all it lacks (`Coming`), and with an empty wire lacks nothing.

**`ChatResume_proofs`.** A Stop has to reach everything that could resume the chat
later: `Heeded` lists it. A record, or an attempt that has the current generation,
stands for a later turn than the one stopped, and so does the running marker, of
which the next start would make a record, unless the Stop came during a shutdown and
left it (`kept`). The guard of `Launch` then gives
`StopIsHeeded`. It also needs that a dispatch in flight has a record to put back
(`Started`), and the bounds of the histories (`Counts`) for the types.
`ContinuationsAreCounted` compares deaths with the stored count: the two go together
(`Counted`), and only a message of the user starts the count again (`Renewed`), when
the row of deaths has been broken already. `LimitsGiveUp` follows a resumed turn
through its reports. While no end of a turn is missed, each turn that was tried is
either over and cannot be resumed by another report (`Over`), or in flight with a
record that will count it (`InFlight`), and what goes out next has failed as often as
turns were tried (`Out`, `Waiting`). `Ordered` and `LiveEnds` make that inductive: a
`turn.started` on the bus is followed by its turn's end, so that no old event finds a
live turn to count from; and `Token`, by which one attempt at a time is admitted.

## What is only model-checked

Of the properties the passing runs check, the liveness properties:
`EveryMessageSettles`, `ThreadFreed`, `SharedIsServed`, `RevertsEnd`, `StartupEnds`,
`QueueDrains`, `TurnEnds`, `EventuallyInformed`, `ResumeEnds`. The prover has no rules
for fairness and `ENABLED`.
Two invariants are proved and in no run, as a contract that is checked says more:
`SettledOnce` (`HubContract`) and `ProviderAgrees` (`RevertContract`).

What some theorems assume (auto-save) the runs assume as well.

## Not modelled

The repository has some 3900 files, most of them user interfaces, adapters, vendor
protocols and tooling. The models cover the state machines whose mistakes lose or
double work, and of these the ones listed above. Still open are the parts named
under *The modules*. Left out for good:

- The legacy provider service: its turn handling has the shape of the hub's and it
  is being replaced.
- Provider adapters and vendor protocols: translation of message formats.
- SQL, schema, migrations and read models: the transactions that the modelled
  components use are modelled with them.
- HTTP routes and middleware, Git and worktree commands, settings, themes, imports,
  search, usage statistics: parsing, external tools and presentation.
- The desktop UI and the mobile app, except for the retries and Stops they send.

Left out of modelled parts:

- Hub: `stopAll`, replacing instances and lifting a quarantine, capacity, several
  adapters at once.
- WebSocket: authentication, channels other than provider events, and the client's
  `ToolSnapshotBuffer`, which merges updates of a tool before they are applied.
- Resume: `forgetThread`, the windows that match a dispatch to its turn and merge
  reports of one limit, rate-limit reports, remote owners; an approval that turns a
  schedule off is a choice of the outcome.
- Chat: `rotateChatSession`; attachments and the preparation of a turn are a step
  that may fail.

Abstracted inside the models: texts, payloads, timestamps, error messages, and the
duration of timeouts, which may fire at any moment they are armed.

## Reproducing

    tlc -config ChatDispatchRetry.cfg MCChatDispatch
    tlapm ChatDispatch_proofs.tla

with the module and configuration of each run as listed in `PROJECT.json`. The
longest run takes a few minutes; no proof module takes more than three.
