------------------------ MODULE WorkspaceRecoveryGate ------------------------
(***************************************************************************)
(* services/workspace-recovery-gate.ts: the in-memory reader/writer gate   *)
(* that keeps filesystem and Git mutations (shared leases) apart from      *)
(* checkpoint recovery and destructive maintenance (exclusive leases).     *)
(*                                                                         *)
(* A client is one acquisition at a time.  The gate is single-threaded     *)
(* JavaScript: an acquire, a release or a failed barrier changes the maps  *)
(* and drains the queue in one step.  A caller resumes in a later step,    *)
(* since the lease reaches it through a promise.                           *)
(***************************************************************************)
EXTENDS Integers, FiniteSets, SequencesExt

CONSTANTS
  Clients,    \* the acquisitions competing for leases
  Processes,  \* those whose shared lease a PTY or shell keeps while it runs
  Paths,      \* canonical workspace paths
  RepoOf,     \* path -> the Git common directory it belongs to, or NoRepo
  NoRepo,
  Under,      \* the pairs <<root, path>> where path is root or inside it
  Requests,   \* the lists of workspaces a caller asks for
  Entries     \* the entry points in use: "shared", "exclusive", "quiesce", "try"

ASSUME GateAssumption ==
  /\ Processes \subseteq Clients
  /\ Under \subseteq Paths \X Paths
  /\ \A p \in Paths : <<p, p>> \in Under
  /\ Requests \subseteq Seq(Paths)
  /\ \A ws \in Requests : Len(ws) > 0

Modes == {"shared", "exclusive"}

VARIABLES
  active,   \* clients with a lease in the `active` map
  waiting,  \* clients in the `waiting` queue
  ahead,    \* c -> the waiters queued before c
  lease,    \* c -> the mode and workspaces c asked for last
  caller,   \* c -> what the code that called the gate is doing
  closing   \* c -> the workspaces c has still to drain and the processes it is closing

vars == <<active, waiting, ahead, lease, caller, closing>>

CallerStates ==
  {"idle",       \* no acquisition under way
   "awaiting",   \* awaits the promise of acquire()
   "quiescing",  \* acquireExclusiveAfterQuiesce, in its quiesce callback
   "quiesced",   \* ... awaits the lease, against the timeout
   "working",    \* has the lease
   "process"}    \* the lease is kept by a registered PTY or shell session

-----------------------------------------------------------------------------
(* Scopes.  A scope is the canonical path; its repository is RepoOf.       *)

Identity(p) == IF RepoOf[p] # NoRepo THEN <<"repository", RepoOf[p]>>
                                     ELSE <<"path", p>>

\* Wrong: only the first workspace of the list is fenced.
FirstScopeOnly(ws) == {ws[1]}

\* resolveWorkspaceRecoveryScopes keeps the first path of each identity.
Scopes(ws) ==
  {ws[i] : i \in {k \in DOMAIN ws :
                    \A j \in 1..(k - 1) : Identity(ws[j]) # Identity(ws[k])}}

Overlap(p, q) == <<p, q>> \in Under \/ <<q, p>> \in Under

ScopeConflict(p, q) ==
  \/ RepoOf[p] # NoRepo /\ RepoOf[p] = RepoOf[q]
  \/ Overlap(p, q)

ScopesConflict(v, w) ==
  \E p \in Scopes(v), q \in Scopes(w) : ScopeConflict(p, q)

Conflict(l, m) == ScopesConflict(l.paths, m.paths)

\* An active lease l keeps a request m waiting.
Blocks(l, m) == "exclusive" \in {l.mode, m.mode} /\ Conflict(l, m)

-----------------------------------------------------------------------------
(* drain().  The loop restarts after every grant, but a grant can free no  *)
(* waiter queued before it, so the loop grants exactly the waiters that    *)
(* nothing active blocks and before which no conflicting waiter is left.   *)

\* Wrong: what this drain has granted already is not looked at.
DrainAgainstOldLeases(G, w, a, ahd, ls) ==
  \A c \in w :
    c \in G <=> /\ \A x \in a : ~Blocks(ls[x], ls[c])
                /\ \A e \in ahd[c] \cap w : Conflict(ls[e], ls[c]) => e \in G

IsDrain(G, w, a, ahd, ls) ==
  \A c \in w :
    c \in G <=> /\ \A x \in a : ~Blocks(ls[x], ls[c])
                /\ \A e \in ahd[c] \cap w :
                     Conflict(ls[e], ls[c]) => e \in G /\ ~Blocks(ls[e], ls[c])

\* What the loop tests of a waiter, `done` being those it has granted before.
Grantable(c, done, w, a, ahd, ls) ==
  /\ c \in w \ done
  /\ \A x \in a \cup done : ~Blocks(ls[x], ls[c])
  /\ \A e \in ahd[c] \cap (w \ done) : ~Conflict(ls[e], ls[c])

\* r lists the waiters as the loop grants them: each pass of the queue grants
\* the first one it can, and the last pass finds none.
IsLoopOrder(r, w, a, ahd, ls) ==
  /\ \A k \in DOMAIN r :
       LET done == {r[j] : j \in 1..(k - 1)} IN
       /\ Grantable(r[k], done, w, a, ahd, ls)
       /\ \A d \in ahd[r[k]] : ~Grantable(d, done, w, a, ahd, ls)
  /\ \A c \in w : ~Grantable(c, Range(r), w, a, ahd, ls)

LoopResults(w, a, ahd, ls) ==
  {Range(r) : r \in {s \in SeqOf(w, Cardinality(w)) : IsLoopOrder(s, w, a, ahd, ls)}}

Drain(w, a, ahd, ls) ==
  \E G \in SUBSET w :
    /\ IsDrain(G, w, a, ahd, ls)
    /\ active' = a \cup G
    /\ waiting' = w \ G
    /\ ahead' = [c \in Clients |-> IF c \in w \ G THEN ahd[c] \cap (w \ G) ELSE {}]

Enqueue(c, m, ws) ==
  LET l == [mode |-> m, paths |-> ws] IN
  /\ lease' = [lease EXCEPT ![c] = l]
  /\ Drain(waiting \cup {c}, active, [ahead EXCEPT ![c] = waiting],
           [lease EXCEPT ![c] = l])

\* The release callback of a lease: idempotent, then drain.
ReleaseLease(c) == Drain(waiting, active \ {c}, ahead, lease)

-----------------------------------------------------------------------------
Init ==
  /\ active = {} /\ waiting = {}
  /\ ahead = [c \in Clients |-> {}]
  /\ lease \in [Clients -> [mode : {"shared"}, paths : Requests]]
  /\ \A c, d \in Clients : lease[c] = lease[d]
  /\ caller = [c \in Clients |-> "idle"]
  /\ closing = [c \in Clients |-> [left |-> <<>>, now |-> {}]]

Become(c, s) == caller' = [caller EXCEPT ![c] = s]

\* acquireShared / acquireExclusive.
Acquire(c, m, ws) ==
  /\ m \in Entries
  /\ caller[c] = "idle"
  /\ c \in Processes => m = "shared" /\ Len(ws) = 1
  /\ Enqueue(c, m, ws)
  /\ Become(c, "awaiting")
  /\ UNCHANGED closing

\* acquireExclusiveAfterQuiesce: the barrier is queued before the callback runs.
AcquireAfterQuiesce(c, ws) ==
  /\ "quiesce" \in Entries
  /\ caller[c] = "idle" /\ c \notin Processes
  /\ Enqueue(c, "exclusive", ws)
  /\ Become(c, "quiescing")
  /\ closing' = [closing EXCEPT ![c] = [left |-> ws, now |-> {}]]

\* Wrong: the waiters are not consulted.
TryAheadOfQueue(c, ws) ==
  LET l == [mode |-> "exclusive", paths |-> ws] IN
  /\ "try" \in Entries
  /\ caller[c] = "idle" /\ c \notin Processes
  /\ \A x \in active : ~Blocks(lease[x], l)
  /\ lease' = [lease EXCEPT ![c] = l]
  /\ active' = active \cup {c}
  /\ Become(c, "working")
  /\ UNCHANGED <<waiting, ahead, closing>>

\* Wrong: the active leases are not consulted.
TryPastLeases(c, ws) ==
  LET l == [mode |-> "exclusive", paths |-> ws] IN
  /\ "try" \in Entries
  /\ caller[c] = "idle" /\ c \notin Processes
  /\ \A w \in waiting : ~Conflict(lease[w], l)
  /\ lease' = [lease EXCEPT ![c] = l]
  /\ active' = active \cup {c}
  /\ Become(c, "working")
  /\ UNCHANGED <<waiting, ahead, closing>>

\* tryAcquireExclusive takes the lease at once, or returns null and changes nothing.
TryAcquireExclusive(c, ws) ==
  LET l == [mode |-> "exclusive", paths |-> ws] IN
  /\ "try" \in Entries
  /\ caller[c] = "idle" /\ c \notin Processes
  /\ \A x \in active : ~Blocks(lease[x], l)
  /\ \A w \in waiting : ~Conflict(lease[w], l)
  /\ lease' = [lease EXCEPT ![c] = l]
  /\ active' = active \cup {c}
  /\ Become(c, "working")
  /\ UNCHANGED <<waiting, ahead, closing>>

\* The promise of the lease resumes its caller.
Resume(c) ==
  /\ c \in active /\ caller[c] \in {"awaiting", "quiesced"}
  /\ Become(c, "working")
  /\ UNCHANGED <<active, waiting, ahead, lease, closing>>

\* The caller hands its lease to the PTY or shell it opens: from here on the
\* session is registered, and its exit releases the lease.
OpenProcess(c) ==
  /\ c \in Processes /\ caller[c] = "working"
  /\ Become(c, "process")
  /\ UNCHANGED <<active, waiting, ahead, lease, closing>>

\* The quiesce callback takes the next workspace and lists the sessions
\* registered at or below it, once the previous workspace's have ended.
ListOwners(c) ==
  LET q == closing[c] IN
  /\ caller[c] = "quiescing"
  /\ q.left # <<>> /\ q.now = {}
  /\ closing' = [closing EXCEPT ![c] =
       [left |-> Tail(q.left),
        now  |-> {p \in Processes :
                    /\ caller[p] = "process"
                    /\ <<Head(q.left), lease[p].paths[1]>> \in Under}]]
  /\ UNCHANGED <<active, waiting, ahead, lease, caller>>

\* A process ends, by itself or because a barrier terminates it.
Exit(p) ==
  /\ caller[p] = "process"
  /\ ReleaseLease(p)
  /\ Become(p, "idle")
  /\ closing' = [c \in Clients |-> [closing[c] EXCEPT !.now = @ \ {p}]]
  /\ UNCHANGED lease

\* The barrier's termination of a process it listed.
CloseOwner(p) == Exit(p) /\ \E c \in Clients : p \in closing[c].now

Quiesced(c) ==
  /\ caller[c] = "quiescing"
  /\ closing[c] = [left |-> <<>>, now |-> {}]
  /\ Become(c, "quiesced")
  /\ UNCHANGED <<active, waiting, ahead, lease, closing>>

\* Wrong: the waiter is spliced out without a drain.
AbandonWithoutDrain(c) ==
  /\ caller[c] \in {"quiescing", "quiesced"}
  /\ IF c \in waiting
       THEN /\ waiting' = waiting \ {c}
            /\ ahead' = [x \in Clients |-> IF x = c THEN {} ELSE ahead[x] \ {c}]
            /\ UNCHANGED active
       ELSE ReleaseLease(c)
  /\ Become(c, "idle")
  /\ closing' = [closing EXCEPT ![c] = [left |-> <<>>, now |-> {}]]
  /\ UNCHANGED lease

\* The callback throws, or the timeout wins one of the two races.  A queued
\* waiter is spliced out; a lease granted meanwhile is released.
AbandonBarrier(c) ==
  /\ caller[c] \in {"quiescing", "quiesced"}
  /\ IF c \in waiting
       THEN Drain(waiting \ {c}, active, ahead, lease)
       ELSE ReleaseLease(c)
  /\ Become(c, "idle")
  /\ closing' = [closing EXCEPT ![c] = [left |-> <<>>, now |-> {}]]
  /\ UNCHANGED lease

\* The operation under the lease settles: `finally { lease.release() }`.
Finish(c) ==
  /\ caller[c] = "working"
  /\ ReleaseLease(c)
  /\ Become(c, "idle")
  /\ UNCHANGED <<lease, closing>>

Next ==
  \E c \in Clients :
    \/ \E ws \in Requests :
         \/ \E m \in Modes : Acquire(c, m, ws)
         \/ AcquireAfterQuiesce(c, ws)
         \/ TryAcquireExclusive(c, ws)
    \/ Resume(c)
    \/ OpenProcess(c)
    \/ ListOwners(c)
    \/ Exit(c)
    \/ Quiesced(c)
    \/ AbandonBarrier(c)
    \/ Finish(c)

Spec == Init /\ [][Next]_vars

\* Promises resume, operations settle, a listed process is killed and the
\* timeout of a barrier fires.  Nothing obliges a terminal to exit by itself.
Fairness ==
  \A c \in Clients :
    /\ WF_vars(Resume(c)) /\ WF_vars(Finish(c)) /\ WF_vars(ListOwners(c))
    /\ WF_vars(Quiesced(c)) /\ WF_vars(CloseOwner(c))
    /\ WF_vars(AbandonBarrier(c))

FairSpec == Spec /\ Fairness

-----------------------------------------------------------------------------
Closing == [left : Seq(Paths), now : SUBSET Processes]

TypeOK ==
  /\ active \subseteq Clients
  /\ waiting \subseteq Clients
  /\ ahead \in [Clients -> SUBSET Clients]
  /\ lease \in [Clients -> [mode : Modes, paths : Requests]]
  /\ caller \in [Clients -> CallerStates]
  /\ closing \in [Clients -> Closing]

\* An exclusive lease is alone on its scopes: no other active lease, shared or
\* exclusive, conflicts with it (hasActiveConflict, drain, activate).
ExclusiveIsolation ==
  \A c, d \in active : c # d => ~Blocks(lease[c], lease[d])

\* The class comment's words: two leases conflict when any of the paths they
\* asked for overlap in either direction, or share a Git common directory.
PathsConflict(v, w) ==
  \E i \in DOMAIN v, j \in DOMAIN w : ScopeConflict(v[i], w[j])

\* An exclusive lease is alone on every path it was asked for.  Violated: a
\* request keeps one path per repository, so a foreign clone inside a linked
\* worktree is open to others while the worktree is asked for with its main one.
PathIsolation ==
  \A c, d \in active :
    c # d /\ lease[c].mode = "exclusive" => ~PathsConflict(lease[c].paths, lease[d].paths)

\* What the cut to one path per repository leaves: an exclusive lease is alone
\* in the repository of every path it was asked for, the dropped ones included,
\* whichever paths of it the others name and in whatever order.
RepositoryIsolation ==
  \A c, d \in active :
    c # d /\ lease[c].mode = "exclusive" =>
      \A i \in DOMAIN lease[c].paths, j \in DOMAIN lease[d].paths :
        Identity(lease[c].paths[i]) # Identity(lease[d].paths[j])

\* No lost wakeup: whoever waits is blocked by an active lease or stands behind
\* a conflicting waiter.  A release, or a barrier given up, that forgot to
\* drain would leave a waiter with no one to wake it.
NoLostWakeup ==
  \A c \in waiting :
    \/ \E x \in active : Blocks(lease[x], lease[c])
    \/ \E e \in ahead[c] : Conflict(lease[e], lease[c])

\* No ghost: a lease or a queued barrier belongs to a caller that still wants
\* it; a failed or timed-out barrier leaves neither behind.
NoGhostLease ==
  \A c \in active \cup waiting : caller[c] # "idle"

\* The one-pass characterisation of drain() has exactly one solution, and the
\* restarting loop grants those waiters and no others.
DrainsLikeTheLoop(w, a, ahd, ls) ==
  \E G \in SUBSET w :
    /\ {H \in SUBSET w : IsDrain(H, w, a, ahd, ls)} = {G}
    /\ LoopResults(w, a, ahd, ls) = {G}

\* drain() as the actions use it is the loop of the code, whatever it is called
\* for: some lease holders or waiters have left, or a new waiter has come.
DrainIsTheLoop ==
  /\ \A w \in SUBSET waiting, a \in SUBSET active : DrainsLikeTheLoop(w, a, ahead, lease)
  /\ \A c \in Clients \ (active \cup waiting), m \in Modes, ws \in Requests :
       DrainsLikeTheLoop(waiting \cup {c}, active, [ahead EXCEPT ![c] = waiting],
                         [lease EXCEPT ![c] = [mode |-> m, paths |-> ws]])

\* Fairness of the queue: a lease granted in a step overtakes no conflicting
\* waiter that was queued before it and is still waiting after the step.
NoOvertaking ==
  [][\A c \in active' \ active, e \in waiting \cap waiting' :
       (c \in waiting => e \in ahead[c]) => ~Conflict(lease[e], lease'[c])]_vars

\* No request for a shared lease is starved, unless an exclusive request that
\* closes nobody first is in the queue behind a terminal, which may live for ever.
BehindTerminal ==
  \E w \in waiting, p \in active :
    /\ caller[w] = "awaiting" /\ lease[w].mode = "exclusive"
    /\ caller[p] = "process" /\ Blocks(lease[p], lease[w])

SharedIsServed ==
  \A c \in Clients :
    caller[c] = "awaiting" /\ lease[c].mode = "shared"
      ~> caller[c] = "working" \/ BehindTerminal
=============================================================================
