--------------------- MODULE WorkspaceRecoveryGate_proofs ---------------------
(***************************************************************************)
(* Theorems about WorkspaceRecoveryGate, for every set of clients, layout  *)
(* of repositories and list of workspaces.  The argument is one lemma      *)
(* about drain(): from a queue that is totally ordered and active leases   *)
(* that do not block one another it reaches such a state again, in which   *)
(* every waiter left has a reason to wait.                                 *)
(***************************************************************************)
EXTENDS WorkspaceRecoveryGate, SequenceTheorems, FiniteSetTheorems, WellFoundedInduction, TLAPS

\* Of two waiters, one was queued before the other.
Ordered(w, ahd) ==
  \A c, d \in w : c # d => c \in ahd[d] \/ d \in ahd[c]

\* Only waiters stand ahead of a waiter.
Within(w, ahd) == \A c \in w : ahd[c] \subseteq w

Isolated(a, ls) ==
  \A c, d \in a : c # d => ~Blocks(ls[c], ls[d])

Reasons(w, a, ahd, ls) ==
  \A c \in w :
    \/ \E x \in a : Blocks(ls[x], ls[c])
    \/ \E e \in ahd[c] : Conflict(ls[e], ls[c])

\* The strengthening of ExclusiveIsolation that every step preserves: a client
\* is not active and waiting at once, the queue is an order, and a caller that
\* is idle has no entry in either map, and one that runs under its lease is no
\* longer queued.
GateInv ==
  /\ TypeOK
  /\ active \cap waiting = {}
  /\ Ordered(waiting, ahead)
  /\ Within(waiting, ahead)
  /\ Isolated(active, lease)
  /\ NoLostWakeup
  /\ NoGhostLease
  /\ \A c \in waiting : caller[c] \in {"awaiting", "quiescing", "quiesced"}

\* A set of numbers has a least one.
LEMMA LeastNat ==
  ASSUME NEW S \in SUBSET Nat, S # {}
  PROVE  \E n \in S : \A m \in S : n <= m
<1> DEFINE Less == OpToRel(<, Nat)
<1>1. Less = {ss \in Nat \X Nat : ss[1] < ss[2]}
  BY DEF OpToRel
<1>2. IsWellFoundedOn(Less, Nat)
  BY NatLessThanWellFounded
<1> HIDE DEF Less
<1>3. PICK n \in S : \A m \in S : ~ (<<m, n>> \in Less)
  BY <1>2, WFMin, Zenon
<1>4. \A m \in S : ~(m < n)
  BY <1>1, <1>3
<1> QED BY <1>3, <1>4

\* Whether two requests conflict does not depend on which came first
\* (scopeConflict tests both directions).
LEMMA ConflictSymmetric ==
  ASSUME NEW l, NEW m
  PROVE  /\ Conflict(l, m) <=> Conflict(m, l)
         /\ Blocks(l, m) <=> Blocks(m, l)
<1>1. \A p, q : ScopeConflict(p, q) <=> ScopeConflict(q, p)
  BY DEF ScopeConflict, Overlap
<1>2. Conflict(l, m) <=> Conflict(m, l)
  BY <1>1, Zenon DEF Conflict, ScopesConflict
<1>3. ("exclusive" \in {l.mode, m.mode}) <=> ("exclusive" \in {m.mode, l.mode})
  OBVIOUS
<1> QED BY <1>2, <1>3, Zenon DEF Blocks

\* What drain() does to any queue and any active leases: no client is lost,
\* the leases stay isolated, and whoever still waits has a reason.
LEMMA DrainLemma ==
  ASSUME NEW w \in SUBSET Clients, NEW a \in SUBSET Clients, NEW ls,
         NEW ahd \in [Clients -> SUBSET Clients],
         a \cap w = {}, Ordered(w, ahd), Isolated(a, ls),
         Drain(w, a, ahd, ls)
  PROVE  /\ active' \in SUBSET Clients /\ waiting' \in SUBSET Clients
         /\ ahead' \in [Clients -> SUBSET Clients]
         /\ a \subseteq active' /\ waiting' \subseteq w
         /\ active' \cup waiting' = a \cup w
         /\ active' \cap waiting' = {}
         /\ Ordered(waiting', ahead') /\ Within(waiting', ahead')
         /\ Isolated(active', ls)
         /\ Reasons(waiting', active', ahead', ls)
         /\ \A c \in active' \ a : \A e \in ahd[c] \cap waiting' : ~Conflict(ls[e], ls[c])
<1>1. PICK G \in SUBSET w :
        /\ IsDrain(G, w, a, ahd, ls)
        /\ active' = a \cup G
        /\ waiting' = w \ G
        /\ ahead' = [c \in Clients |-> IF c \in w \ G THEN ahd[c] \cap (w \ G) ELSE {}]
  BY Zenon DEF Drain
<1>2. \A c \in w :
        c \in G <=> /\ \A x \in a : ~Blocks(ls[x], ls[c])
                    /\ \A e \in ahd[c] \cap w :
                         Conflict(ls[e], ls[c]) => e \in G /\ ~Blocks(ls[e], ls[c])
  BY <1>1, Zenon DEF IsDrain
<1>3. \A c \in w \ G : ahead'[c] = ahd[c] \cap (w \ G)
  BY <1>1
<1>4. /\ active' \in SUBSET Clients /\ waiting' \in SUBSET Clients
      /\ a \subseteq active' /\ waiting' \subseteq w
      /\ active' \cup waiting' = a \cup w /\ active' \cap waiting' = {}
  BY <1>1
<1>5. ahead' \in [Clients -> SUBSET Clients]
  BY <1>1
<1>0. Within(waiting', ahead')
  BY <1>1, <1>3 DEF Within
<1>6. Ordered(waiting', ahead')
  <2> SUFFICES ASSUME NEW c \in w \ G, NEW d \in w \ G, c # d
               PROVE  c \in ahead'[d] \/ d \in ahead'[c]
    BY <1>1 DEF Ordered
  <2>1. c \in ahd[d] \/ d \in ahd[c]
    BY DEF Ordered
  <2> QED BY <2>1, <1>3
<1>7. Isolated(active', ls)
  <2>1. ASSUME NEW c \in a, NEW d \in G PROVE ~Blocks(ls[c], ls[d])
    BY <1>2, Zenon
  <2>2. ASSUME NEW c \in G, NEW d \in G, c \in ahd[d] PROVE ~Blocks(ls[c], ls[d])
    <3>1. CASE Conflict(ls[c], ls[d])
      BY <3>1, <1>2, <2>2, Zenon
    <3>2. CASE ~Conflict(ls[c], ls[d])
      BY <3>2, Zenon DEF Blocks
    <3> QED BY <3>1, <3>2, Zenon
  <2> SUFFICES ASSUME NEW c \in a \cup G, NEW d \in a \cup G, c # d
               PROVE  ~Blocks(ls[c], ls[d])
    BY <1>1, Zenon DEF Isolated
  <2>3. CASE c \in a /\ d \in a
    BY <2>3, Zenon DEF Isolated
  <2>4. CASE c \in a /\ d \in G
    BY <2>4, <2>1, Zenon
  <2>5. CASE c \in G /\ d \in a
    BY <2>5, <2>1, ConflictSymmetric, Zenon
  <2>6. CASE c \in G /\ d \in G
    <3>1. c \in ahd[d] \/ d \in ahd[c]
      BY <2>6 DEF Ordered
    <3> QED BY <3>1, <2>6, <2>2, ConflictSymmetric, Zenon
  <2> QED BY <2>3, <2>4, <2>5, <2>6, Zenon
<1>8. Reasons(waiting', active', ahead', ls)
  <2> SUFFICES ASSUME NEW c \in w \ G
               PROVE  \/ \E x \in active' : Blocks(ls[x], ls[c])
                      \/ \E e \in ahead'[c] : Conflict(ls[e], ls[c])
    BY <1>1, Zenon DEF Reasons
  <2>1. CASE \E x \in a : Blocks(ls[x], ls[c])
    BY <2>1, <1>4, Zenon
  <2>2. CASE \E e \in ahd[c] \cap w : Conflict(ls[e], ls[c]) /\ ~(e \in G /\ ~Blocks(ls[e], ls[c]))
    <3>1. PICK e \in ahd[c] \cap w : Conflict(ls[e], ls[c]) /\ ~(e \in G /\ ~Blocks(ls[e], ls[c]))
      BY <2>2, Zenon
    <3>2. CASE e \in G
      <4>1. e \in active'
        BY <3>2, <1>1
      <4> QED BY <4>1, <3>1, <3>2, Zenon
    <3>3. CASE e \notin G
      <4>1. e \in ahead'[c]
        BY <3>3, <3>1, <1>3
      <4> QED BY <4>1, <3>1, Zenon
    <3> QED BY <3>2, <3>3
  <2> QED BY <2>1, <2>2, <1>2, Zenon
<1>9. \A c \in active' \ a : \A e \in ahd[c] \cap waiting' : ~Conflict(ls[e], ls[c])
  <2> SUFFICES ASSUME NEW c \in G, NEW e \in ahd[c], e \in w, e \notin G
               PROVE  ~Conflict(ls[e], ls[c])
    BY <1>1, Zenon
  <2>1. e \in ahd[c] \cap w
    OBVIOUS
  <2> QED BY <2>1, <1>2, Zenon
<1> QED BY <1>0, <1>4, <1>5, <1>6, <1>7, <1>8, <1>9, Zenon

-----------------------------------------------------------------------------
\* What an acquire or a release owes the drain it ends in, and what it gets.
\* `w`, `a`, `ahd` and `lease'` are the queue, the leases and the requests the
\* drain starts from.
LEMMA DrainKeepsGate ==
  ASSUME NEW w \in SUBSET Clients, NEW a \in SUBSET Clients,
         NEW ahd \in [Clients -> SUBSET Clients],
         a \cap w = {}, Ordered(w, ahd), Isolated(a, lease'),
         Drain(w, a, ahd, lease'),
         lease' \in [Clients -> [mode : Modes, paths : Requests]],
         caller' \in [Clients -> CallerStates],
         closing' \in [Clients -> Closing],
         \A c \in a \cup w : caller'[c] # "idle",
         \A c \in w : caller'[c] \in {"awaiting", "quiescing", "quiesced"}
  PROVE  GateInv'
<1>1. /\ active' \in SUBSET Clients /\ waiting' \in SUBSET Clients
      /\ ahead' \in [Clients -> SUBSET Clients]
      /\ active' \cup waiting' = a \cup w
      /\ active' \cap waiting' = {}
      /\ waiting' \subseteq w
      /\ Ordered(waiting', ahead') /\ Within(waiting', ahead')
      /\ Isolated(active', lease')
      /\ Reasons(waiting', active', ahead', lease')
  BY DrainLemma, Zenon
<1>2. TypeOK'
  BY <1>1 DEF TypeOK
<1>3. NoLostWakeup'
  BY <1>1, Zenon DEF Reasons, NoLostWakeup
<1>4. NoGhostLease'
  BY <1>1 DEF NoGhostLease
<1>5. \A c \in waiting' : caller'[c] \in {"awaiting", "quiescing", "quiesced"}
  BY <1>1, Zenon
<1> QED BY <1>1, <1>2, <1>3, <1>4, <1>5, Zenon DEF GateInv

\* Giving an idle client a new request disturbs no active lease.
LEMMA RequestOfIdle ==
  ASSUME GateInv, NEW c \in Clients, caller[c] = "idle",
         NEW l \in [mode : Modes, paths : Requests],
         lease' = [lease EXCEPT ![c] = l]
  PROVE  /\ c \notin active /\ c \notin waiting
         /\ lease' \in [Clients -> [mode : Modes, paths : Requests]]
         /\ \A x \in active \cup waiting : lease'[x] = lease[x]
         /\ lease'[c] = l
         /\ Isolated(active, lease')
<1>1. c \notin active /\ c \notin waiting
  BY DEF GateInv, NoGhostLease
<1>2. /\ lease' \in [Clients -> [mode : Modes, paths : Requests]]
      /\ \A x \in active \cup waiting : lease'[x] = lease[x]
      /\ lease'[c] = l
  BY <1>1 DEF GateInv, TypeOK
<1>3. Isolated(active, lease')
  BY <1>2 DEF GateInv, Isolated
<1> QED BY <1>1, <1>2, <1>3

\* The queue seen by the drain of an acquire: the new waiter is last.
LEMMA EnqueueKeepsGate ==
  ASSUME GateInv, NEW c \in Clients, caller[c] = "idle",
         NEW m \in Modes, NEW ws \in Requests, Enqueue(c, m, ws),
         NEW s \in {"awaiting", "quiescing"}, Become(c, s),
         closing' \in [Clients -> Closing]
  PROVE  GateInv'
<1> DEFINE l == [mode |-> m, paths |-> ws]
           ahd == [ahead EXCEPT ![c] = waiting]
<1>1. l \in [mode : Modes, paths : Requests]
  OBVIOUS
<1>2. lease' = [lease EXCEPT ![c] = l] /\ Drain(waiting \cup {c}, active, ahd, lease')
  BY Zenon DEF Enqueue
<1>3. /\ c \notin active /\ c \notin waiting
      /\ lease' \in [Clients -> [mode : Modes, paths : Requests]]
      /\ Isolated(active, lease')
  BY <1>1, <1>2, RequestOfIdle
<1>4. ahd \in [Clients -> SUBSET Clients]
  BY DEF GateInv, TypeOK
<1>5. Ordered(waiting \cup {c}, ahd)
  <2>1. \A x, y \in waiting : x # y => x \in ahead[y] \/ y \in ahead[x]
    BY DEF GateInv, Ordered
  <2>2. \A x \in waiting : ahd[x] = ahead[x]
    BY <1>3 DEF GateInv, TypeOK
  <2>3. ahd[c] = waiting
    BY DEF GateInv, TypeOK
  <2> HIDE DEF ahd
  <2> QED BY <2>1, <2>2, <2>3 DEF Ordered
<1>6. /\ caller' \in [Clients -> CallerStates]
      /\ \A x \in active \cup (waiting \cup {c}) : caller'[x] # "idle"
      /\ \A x \in waiting \cup {c} : caller'[x] \in {"awaiting", "quiescing", "quiesced"}
  BY DEF Become, GateInv, TypeOK, NoGhostLease, CallerStates
<1>7. /\ waiting \cup {c} \in SUBSET Clients /\ active \in SUBSET Clients
      /\ active \cap (waiting \cup {c}) = {}
  BY <1>3 DEF GateInv, TypeOK
<1> HIDE DEF ahd, l
<1> QED BY <1>2, <1>3, <1>4, <1>5, <1>6, <1>7, DrainKeepsGate, Zenon

\* The queue seen by the drain after clients left it or gave up their leases.
LEMMA LeaveKeepsGate ==
  ASSUME GateInv, NEW c \in Clients, NEW w \in SUBSET waiting, NEW a \in SUBSET active,
         c \notin w, c \notin a, Drain(w, a, ahead, lease), UNCHANGED lease,
         Become(c, "idle"), closing' \in [Clients -> Closing]
  PROVE  GateInv'
<1>1. /\ w \in SUBSET Clients /\ a \in SUBSET Clients /\ a \cap w = {}
      /\ ahead \in [Clients -> SUBSET Clients]
  BY DEF GateInv, TypeOK
<1>2. Ordered(w, ahead)
  BY DEF GateInv, Ordered
<1>3. Isolated(a, lease')
  BY DEF GateInv, Isolated
<1>4. /\ lease' \in [Clients -> [mode : Modes, paths : Requests]]
      /\ caller' \in [Clients -> CallerStates]
      /\ \A x \in a \cup w : caller'[x] # "idle"
      /\ \A x \in w : caller'[x] \in {"awaiting", "quiescing", "quiesced"}
  BY DEF Become, GateInv, TypeOK, NoGhostLease, CallerStates
<1>5. Drain(w, a, ahead, lease')
  BY Zenon
<1> QED BY <1>1, <1>2, <1>3, <1>4, <1>5, DrainKeepsGate, Zenon

\* A step that moves only callers, towards a state that is not idle.
LEMMA CallerStep ==
  ASSUME GateInv, UNCHANGED <<active, waiting, ahead, lease>>,
         caller' \in [Clients -> CallerStates], closing' \in [Clients -> Closing],
         \A c \in Clients : caller[c] # "idle" => caller'[c] # "idle",
         \A c \in waiting : caller'[c] \in {"awaiting", "quiescing", "quiesced"}
  PROVE  GateInv'
BY DEF GateInv, TypeOK, Ordered, Within, Isolated, NoLostWakeup, NoGhostLease

LEMMA InitGate == ASSUME GateAssumption, Init PROVE GateInv
<1>1. TypeOK
  <2>1. lease \in [Clients -> [mode : Modes, paths : Requests]]
    BY DEF Init, Modes
  <2>2. caller \in [Clients -> CallerStates]
    BY DEF Init, CallerStates
  <2>3. closing \in [Clients -> Closing]
    BY DEF Init, Closing
  <2> QED BY <2>1, <2>2, <2>3 DEF Init, TypeOK
<1> QED BY <1>1 DEF Init, GateInv, Ordered, Within, Isolated, NoLostWakeup, NoGhostLease

LEMMA StepGate == ASSUME GateAssumption, GateInv, [Next]_vars PROVE GateInv'
<1> SUFFICES ASSUME Next PROVE GateInv'
  <2>1. CASE UNCHANGED vars
    BY <2>1, CallerStep DEF vars, GateInv, TypeOK
  <2> QED BY <2>1
<1> PICK c \in Clients :
      \/ \E ws \in Requests :
           \/ \E m \in Modes : Acquire(c, m, ws)
           \/ AcquireAfterQuiesce(c, ws)
           \/ TryAcquireExclusive(c, ws)
      \/ Resume(c) \/ OpenProcess(c) \/ ListOwners(c) \/ Exit(c)
      \/ Quiesced(c) \/ AbandonBarrier(c) \/ Finish(c)
  BY Zenon DEF Next
<1>11. /\ closing \in [Clients -> Closing] /\ caller \in [Clients -> CallerStates]
      /\ active \subseteq Clients
      /\ active \cap waiting = {}
      /\ \A x \in waiting : caller[x] \in {"awaiting", "quiescing", "quiesced"}
  BY DEF GateInv, TypeOK
<1>1. ASSUME NEW ws \in Requests, NEW m \in Modes, Acquire(c, m, ws) PROVE GateInv'
  <2>1. /\ caller[c] = "idle" /\ Enqueue(c, m, ws) /\ Become(c, "awaiting")
        /\ UNCHANGED closing
    BY <1>1 DEF Acquire
  <2> QED BY <2>1, <1>11, EnqueueKeepsGate, Zenon
<1>2. ASSUME NEW ws \in Requests, AcquireAfterQuiesce(c, ws) PROVE GateInv'
  <2>1. /\ caller[c] = "idle" /\ Enqueue(c, "exclusive", ws) /\ Become(c, "quiescing")
        /\ closing' = [closing EXCEPT ![c] = [left |-> ws, now |-> {}]]
    BY <1>2 DEF AcquireAfterQuiesce
  <2>2. "exclusive" \in Modes
    BY DEF Modes
  <2>3. closing' \in [Clients -> Closing]
    BY <2>1, <1>11 DEF Closing, GateAssumption
  <2> QED BY <2>1, <2>2, <2>3, EnqueueKeepsGate, Zenon
<1>3. ASSUME NEW ws \in Requests, TryAcquireExclusive(c, ws) PROVE GateInv'
  <2> DEFINE l == [mode |-> "exclusive", paths |-> ws]
  <2>1. /\ caller[c] = "idle"
        /\ \A x \in active : ~Blocks(lease[x], l)
        /\ \A w \in waiting : ~Conflict(lease[w], l)
        /\ lease' = [lease EXCEPT ![c] = l]
        /\ active' = active \cup {c}
        /\ Become(c, "working")
        /\ UNCHANGED <<waiting, ahead, closing>>
    BY <1>3 DEF TryAcquireExclusive
  <2>2. l \in [mode : Modes, paths : Requests]
    BY DEF Modes
  <2>3. /\ c \notin active /\ c \notin waiting
        /\ lease' \in [Clients -> [mode : Modes, paths : Requests]]
        /\ \A x \in active \cup waiting : lease'[x] = lease[x]
        /\ lease'[c] = l
        /\ Isolated(active, lease')
    BY <2>1, <2>2, RequestOfIdle
  <2> HIDE DEF l
  <2>4. TypeOK'
    BY <2>1, <2>3, <1>11 DEF GateInv, TypeOK, Become, CallerStates
  <2>5. Isolated(active', lease')
    <3> SUFFICES ASSUME NEW x \in active \cup {c}, NEW y \in active \cup {c}, x # y
                 PROVE  ~Blocks(lease'[x], lease'[y])
      BY <2>1, Zenon DEF Isolated
    <3>1. ASSUME NEW z \in active PROVE ~Blocks(lease'[z], lease'[c])
      BY <2>1, <2>3
    <3>2. CASE x \in active /\ y \in active
      BY <3>2, <2>3, Zenon DEF Isolated
    <3>3. CASE x \in active /\ y = c
      BY <3>3, <3>1, Zenon
    <3>4. CASE x = c /\ y \in active
      BY <3>4, <3>1, ConflictSymmetric, Zenon
    <3> QED BY <3>2, <3>3, <3>4
  <2>6. active' \cap waiting' = {} /\ Ordered(waiting', ahead') /\ Within(waiting', ahead')
    BY <2>1, <2>3 DEF GateInv, Ordered, Within
  <2>7. NoLostWakeup'
    <3> SUFFICES ASSUME NEW w \in waiting
                 PROVE  \/ \E x \in active' : Blocks(lease'[x], lease'[w])
                        \/ \E e \in ahead[w] : Conflict(lease'[e], lease'[w])
      BY <2>1, Zenon DEF NoLostWakeup
    <3>1. CASE \E x \in active : Blocks(lease[x], lease[w])
      BY <3>1, <2>1, <2>3
    <3>2. CASE \E e \in ahead[w] : Conflict(lease[e], lease[w])
      <4>1. ahead[w] \subseteq waiting
        BY DEF GateInv, Within
      <4> QED BY <3>2, <4>1, <2>3
    <3> QED BY <3>1, <3>2 DEF GateInv, NoLostWakeup
  <2>8. NoGhostLease'
    BY <2>1, <2>3, <1>11 DEF GateInv, NoGhostLease, Become
  <2>9. \A x \in waiting' : caller'[x] \in {"awaiting", "quiescing", "quiesced"}
    BY <2>1, <2>3, <1>11 DEF GateInv, Become
  <2> QED BY <2>4, <2>5, <2>6, <2>7, <2>8, <2>9, Zenon DEF GateInv
<1>4. CASE Resume(c)
  <2>1. /\ UNCHANGED <<active, waiting, ahead, lease>>
        /\ caller' \in [Clients -> CallerStates] /\ closing' \in [Clients -> Closing]
        /\ \A x \in Clients : caller[x] # "idle" => caller'[x] # "idle"
        /\ \A x \in waiting : caller'[x] \in {"awaiting", "quiescing", "quiesced"}
    BY <1>4, <1>11 DEF Resume, Become, CallerStates
  <2> QED BY <2>1, CallerStep, Zenon
<1>5. CASE OpenProcess(c)
  <2>1. /\ UNCHANGED <<active, waiting, ahead, lease>>
        /\ caller' \in [Clients -> CallerStates] /\ closing' \in [Clients -> Closing]
        /\ \A x \in Clients : caller[x] # "idle" => caller'[x] # "idle"
        /\ \A x \in waiting : caller'[x] \in {"awaiting", "quiescing", "quiesced"}
    BY <1>5, <1>11 DEF OpenProcess, Become, CallerStates
  <2> QED BY <2>1, CallerStep, Zenon
<1>6. CASE ListOwners(c)
  <2>1. closing' \in [Clients -> Closing]
    <3>1. closing[c].left \in Seq(Paths) /\ closing[c].left # <<>>
      BY <1>6, <1>11 DEF ListOwners, Closing
    <3>2. Tail(closing[c].left) \in Seq(Paths)
      BY <3>1
    <3> QED BY <1>6, <3>2, <1>11 DEF ListOwners, Closing
  <2>2. UNCHANGED <<active, waiting, ahead, lease>> /\ caller' = caller
    BY <1>6 DEF ListOwners
  <2> QED BY <2>1, <2>2, <1>11, CallerStep
<1>7. CASE Exit(c)
  <2>1. /\ Drain(waiting, active \ {c}, ahead, lease) /\ Become(c, "idle") /\ UNCHANGED lease
        /\ closing' = [x \in Clients |-> [closing[x] EXCEPT !.now = @ \ {c}]]
        /\ caller[c] = "process"
    BY <1>7 DEF Exit, ReleaseLease
  <2>2. closing' \in [Clients -> Closing]
    <3>1. ASSUME NEW x \in Clients
          PROVE  [closing[x] EXCEPT !.now = @ \ {c}] \in Closing
      <4>1. closing[x] \in Closing
        BY <1>11
      <4> QED BY <4>1 DEF Closing
    <3> QED BY <3>1, <2>1
  <2>3. c \notin waiting
    BY <2>1 DEF GateInv
  <2> QED BY <2>1, <2>2, <2>3, LeaveKeepsGate
<1>8. CASE Quiesced(c)
  <2>1. /\ UNCHANGED <<active, waiting, ahead, lease>>
        /\ caller' \in [Clients -> CallerStates] /\ closing' \in [Clients -> Closing]
        /\ \A x \in Clients : caller[x] # "idle" => caller'[x] # "idle"
        /\ \A x \in waiting : caller'[x] \in {"awaiting", "quiescing", "quiesced"}
    BY <1>8, <1>11 DEF Quiesced, Become, CallerStates
  <2> QED BY <2>1, CallerStep, Zenon
<1>9. CASE AbandonBarrier(c)
  <2>1. /\ Become(c, "idle") /\ UNCHANGED lease
        /\ closing' = [closing EXCEPT ![c] = [left |-> <<>>, now |-> {}]]
    BY <1>9 DEF AbandonBarrier
  <2>2. closing' \in [Clients -> Closing]
    BY <2>1, <1>11 DEF Closing
  <2>3. CASE c \in waiting
    <3>1. Drain(waiting \ {c}, active, ahead, lease) /\ c \notin active
      BY <2>3, <1>9 DEF AbandonBarrier, GateInv
    <3> QED BY <3>1, <2>1, <2>2, LeaveKeepsGate
  <2>4. CASE c \notin waiting
    <3>1. Drain(waiting, active \ {c}, ahead, lease)
      BY <2>4, <1>9 DEF AbandonBarrier, ReleaseLease
    <3> QED BY <3>1, <2>4, <2>1, <2>2, LeaveKeepsGate
  <2> QED BY <2>3, <2>4
<1>10. CASE Finish(c)
  <2>1. /\ Drain(waiting, active \ {c}, ahead, lease) /\ Become(c, "idle") /\ UNCHANGED lease
        /\ UNCHANGED closing
        /\ caller[c] = "working"
    BY <1>10 DEF Finish, ReleaseLease
  <2>2. c \notin waiting
    BY <2>1 DEF GateInv
  <2> QED BY <2>1, <2>2, <1>11, LeaveKeepsGate
<1> QED BY <1>1, <1>2, <1>3, <1>4, <1>5, <1>6, <1>7, <1>8, <1>9, <1>10, Zenon

-----------------------------------------------------------------------------
\* The invariant of the gate holds in every reachable state.
THEOREM GateInductive == Spec => []GateInv
<1>1. GateAssumption /\ Init => GateInv
  BY InitGate
<1>2. GateAssumption /\ GateInv /\ [Next]_vars => GateInv'
  BY StepGate
<1> QED BY <1>1, <1>2, GateAssumption, PTL DEF Spec

\* Every variable keeps its type.
THEOREM GateTypeCorrect == Spec => []TypeOK
<1>1. GateInv => TypeOK
  BY DEF GateInv
<1> QED BY <1>1, GateInductive, PTL

\* An exclusive lease never shares its scopes with another active lease.
THEOREM ExclusiveLeaseIsAlone == Spec => []ExclusiveIsolation
<1>1. GateInv => ExclusiveIsolation
  BY DEF GateInv, Isolated, ExclusiveIsolation
<1> QED BY <1>1, GateInductive, PTL

\* Every drain the code owes is done: no waiter is left that nothing blocks.
THEOREM NobodySleepsForever == Spec => []NoLostWakeup
<1>1. GateInv => NoLostWakeup
  BY DEF GateInv
<1> QED BY <1>1, GateInductive, PTL

\* A failed or timed-out barrier leaves neither a waiter nor a lease behind.
THEOREM NoGhosts == Spec => []NoGhostLease
<1>1. GateInv => NoGhostLease
  BY DEF GateInv
<1> QED BY <1>1, GateInductive, PTL

-----------------------------------------------------------------------------
\* Every path of a list is kept, or stood in for by a path of its repository.
\* The list is cut at its first path of that identity.
LEMMA ScopesCover ==
  ASSUME NEW ws \in Seq(Paths), NEW i \in DOMAIN ws
  PROVE  \E p \in Scopes(ws) : Identity(p) = Identity(ws[i])
<1> DEFINE Same == {k \in DOMAIN ws : Identity(ws[k]) = Identity(ws[i])}
<1>1. Same \subseteq Nat /\ i \in Same
  OBVIOUS
<1>2. PICK k \in Same : \A j \in Same : k <= j
  <2> HIDE DEF Same
  <2>1. Same \in SUBSET Nat /\ Same # {}
    BY <1>1
  <2> QED BY <2>1, LeastNat
<1>3. \A j \in 1..(k - 1) : Identity(ws[j]) # Identity(ws[k])
  BY <1>2
<1> QED BY <1>2, <1>3, Zenon DEF Scopes

\* Two lists that name one repository, or one directory of none, have scopes
\* that conflict, whatever else they name and in whatever order.
LEMMA ScopesSpeakForRepositories ==
  ASSUME GateAssumption, NEW v \in Seq(Paths), NEW w \in Seq(Paths),
         NEW i \in DOMAIN v, NEW j \in DOMAIN w, Identity(v[i]) = Identity(w[j])
  PROVE  ScopesConflict(v, w)
<1>1. PICK p \in Scopes(v) : Identity(p) = Identity(v[i])
  BY ScopesCover, Zenon
<1>2. PICK q \in Scopes(w) : Identity(q) = Identity(w[j])
  BY ScopesCover, Zenon
<1>3. p \in Paths /\ q \in Paths
  BY DEF Scopes
<1>4. \A x, y \in Paths : Identity(x) = Identity(y) =>
        x = y \/ (RepoOf[x] # NoRepo /\ RepoOf[x] = RepoOf[y])
  BY DEF Identity
<1>5. Identity(p) = Identity(q)
  BY <1>1, <1>2
<1>6. p = q \/ (RepoOf[p] # NoRepo /\ RepoOf[p] = RepoOf[q])
  BY <1>3, <1>4, <1>5, Zenon
<1>7. ScopeConflict(p, q)
  BY <1>3, <1>6 DEF ScopeConflict, Overlap, GateAssumption
<1> QED BY <1>1, <1>2, <1>7, Zenon DEF ScopesConflict

\* An exclusive lease is alone in the repository of every path it was asked for,
\* those the gate dropped for an earlier path of their repository included; for
\* any layout of repositories, worktrees and nested directories.
THEOREM ExclusiveLeaseIsAloneInRepositories == Spec => []RepositoryIsolation
<1>1. GateAssumption /\ GateInv => RepositoryIsolation
  <2> SUFFICES ASSUME GateAssumption, GateInv, NEW c \in active, NEW d \in active, c # d,
                      lease[c].mode = "exclusive",
                      NEW i \in DOMAIN lease[c].paths, NEW j \in DOMAIN lease[d].paths,
                      Identity(lease[c].paths[i]) = Identity(lease[d].paths[j])
               PROVE  FALSE
    BY Zenon DEF RepositoryIsolation
  <2>1. lease[c].paths \in Seq(Paths) /\ lease[d].paths \in Seq(Paths)
    BY DEF GateInv, TypeOK, GateAssumption
  <2>2. Conflict(lease[c], lease[d])
    BY <2>1, ScopesSpeakForRepositories, Zenon DEF Conflict
  <2>3. "exclusive" \in {lease[c].mode, lease[d].mode}
    OBVIOUS
  <2>4. ~Blocks(lease[c], lease[d])
    BY Zenon DEF GateInv, Isolated
  <2> QED BY <2>2, <2>3, <2>4, Zenon DEF Blocks
<1> QED BY <1>1, GateInductive, GateAssumption, PTL

-----------------------------------------------------------------------------
NoOvertake(c, e) == (c \in waiting => e \in ahead[c]) => ~Conflict(lease[e], lease'[c])

\* A drain that starts from the queue as it is, with clients taken out, grants
\* no waiter past a conflicting one that was queued before it.
LEMMA LeaveOvertakesNobody ==
  ASSUME GateInv, NEW w \in SUBSET waiting, NEW a \in SUBSET active,
         Drain(w, a, ahead, lease), UNCHANGED lease,
         NEW c \in active' \ active, NEW e \in waiting \cap waiting'
  PROVE  NoOvertake(c, e)
<1>1. /\ w \in SUBSET Clients /\ a \in SUBSET Clients /\ a \cap w = {}
      /\ ahead \in [Clients -> SUBSET Clients]
      /\ Ordered(w, ahead) /\ Isolated(a, lease)
  BY DEF GateInv, TypeOK, Ordered, Isolated
<1>2. /\ active' \cup waiting' = a \cup w
      /\ \A x \in active' \ a : \A y \in ahead[x] \cap waiting' : ~Conflict(lease[y], lease[x])
  BY <1>1, DrainLemma, Zenon
<1>3. c \in waiting /\ c \notin a
  BY <1>2
<1> QED BY <1>2, <1>3, Zenon DEF NoOvertake

\* Neither does the drain of an acquire: it grants at most the new waiter.
LEMMA EnqueueOvertakesNobody ==
  ASSUME GateInv, NEW n \in Clients, caller[n] = "idle",
         NEW m \in Modes, NEW ws \in Requests, Enqueue(n, m, ws),
         NEW c \in active' \ active, NEW e \in waiting \cap waiting'
  PROVE  NoOvertake(c, e)
<1> DEFINE l == [mode |-> m, paths |-> ws]
           ahd == [ahead EXCEPT ![n] = waiting]
           w == waiting \cup {n}
<1>1. l \in [mode : Modes, paths : Requests]
  OBVIOUS
<1>2. lease' = [lease EXCEPT ![n] = l] /\ Drain(w, active, ahd, lease')
  BY Zenon DEF Enqueue
<1>3. /\ n \notin active /\ n \notin waiting
      /\ \A x \in active \cup waiting : lease'[x] = lease[x]
      /\ Isolated(active, lease')
  BY <1>1, <1>2, RequestOfIdle
<1>4. /\ ahd \in [Clients -> SUBSET Clients] /\ ahd[n] = waiting
      /\ \A x \in waiting : ahd[x] = ahead[x]
  BY <1>3 DEF GateInv, TypeOK
<1> HIDE DEF ahd, l, w
<1>5. Ordered(w, ahd)
  BY <1>3, <1>4 DEF Ordered, GateInv, w
<1>6. /\ w \in SUBSET Clients /\ active \in SUBSET Clients /\ active \cap w = {}
  BY <1>3 DEF GateInv, TypeOK, w
<1>7. /\ active' \cup waiting' = active \cup w
      /\ \A x \in active' \ active : \A y \in ahd[x] \cap waiting' : ~Conflict(lease'[y], lease'[x])
  <2>1. ahd \in [Clients -> SUBSET Clients] /\ Isolated(active, lease') /\ Drain(w, active, ahd, lease')
    BY <1>2, <1>3, <1>4
  <2> QED
    BY <2>1, <1>5, <1>6, DrainLemma, Zenon
<1>8. lease'[e] = lease[e]
  BY <1>3
<1>9. CASE c = n
  BY <1>9, <1>4, <1>7, <1>8, Zenon DEF NoOvertake
<1>10. CASE c # n
  <2>1. c \in waiting
    BY <1>7, <1>10 DEF w
  <2> QED BY <2>1, <1>4, <1>7, <1>8, Zenon DEF NoOvertake
<1> QED BY <1>9, <1>10

\* The queue is fair: no step grants a lease past a conflicting waiter that was
\* queued earlier and waits on.
THEOREM NobodyOvertakes == Spec => NoOvertaking
<1>1. ASSUME GateAssumption, GateInv, [Next]_vars
      PROVE  [\A c \in active' \ active, e \in waiting \cap waiting' :
                (c \in waiting => e \in ahead[c]) => ~Conflict(lease[e], lease'[c])]_vars
  <2> SUFFICES ASSUME Next, NEW c \in active' \ active, NEW e \in waiting \cap waiting'
               PROVE  NoOvertake(c, e)
    BY <1>1, Zenon DEF NoOvertake
  <2> PICK n \in Clients :
        \/ \E ws \in Requests :
             \/ \E m \in Modes : Acquire(n, m, ws)
             \/ AcquireAfterQuiesce(n, ws)
             \/ TryAcquireExclusive(n, ws)
        \/ Resume(n) \/ OpenProcess(n) \/ ListOwners(n) \/ Exit(n)
        \/ Quiesced(n) \/ AbandonBarrier(n) \/ Finish(n)
    BY Zenon DEF Next
  <2>1. CASE \E ws \in Requests, m \in Modes : Acquire(n, m, ws)
    BY <1>1, <2>1, EnqueueOvertakesNobody, Zenon DEF Acquire
  <2>2. CASE \E ws \in Requests : AcquireAfterQuiesce(n, ws)
    <3>1. "exclusive" \in Modes
      BY DEF Modes
    <3> QED BY <1>1, <2>2, <3>1, EnqueueOvertakesNobody, Zenon DEF AcquireAfterQuiesce
  <2>3. CASE \E ws \in Requests : TryAcquireExclusive(n, ws)
    <3>1. PICK ws \in Requests : TryAcquireExclusive(n, ws)
      BY <2>3
    <3> DEFINE l == [mode |-> "exclusive", paths |-> ws]
    <3>2. /\ active' = active \cup {n} /\ lease' = [lease EXCEPT ![n] = l]
          /\ \A w \in waiting : ~Conflict(lease[w], l)
      BY <3>1 DEF TryAcquireExclusive
    <3>3. c = n /\ lease'[c] = l
      BY <1>1, <3>2 DEF GateInv, TypeOK
    <3> HIDE DEF l
    <3> QED BY <3>2, <3>3 DEF NoOvertake
  <2>4. CASE Resume(n) \/ OpenProcess(n) \/ ListOwners(n) \/ Quiesced(n)
    BY <2>4 DEF Resume, OpenProcess, ListOwners, Quiesced
  <2>5. CASE Exit(n) \/ Finish(n)
    <3>1. Drain(waiting, active \ {n}, ahead, lease) /\ UNCHANGED lease
      BY <2>5 DEF Exit, Finish, ReleaseLease
    <3> QED BY <1>1, <3>1, LeaveOvertakesNobody
  <2>6. CASE AbandonBarrier(n)
    <3>1. CASE n \in waiting
      <4>1. Drain(waiting \ {n}, active, ahead, lease) /\ UNCHANGED lease
        BY <3>1, <2>6 DEF AbandonBarrier
      <4> QED BY <1>1, <4>1, LeaveOvertakesNobody
    <3>2. CASE n \notin waiting
      <4>1. Drain(waiting, active \ {n}, ahead, lease) /\ UNCHANGED lease
        BY <3>2, <2>6 DEF AbandonBarrier, ReleaseLease
      <4> QED BY <1>1, <4>1, LeaveOvertakesNobody
    <3> QED BY <3>1, <3>2
  <2> QED BY <2>1, <2>2, <2>3, <2>4, <2>5, <2>6, Zenon
<1> QED BY <1>1, GateInductive, GateAssumption, PTL DEF Spec, NoOvertaking
-----------------------------------------------------------------------------
(* drain() and its loop.  The model lets a drain grant any set that solves *)
(* IsDrain; the loop of the code grants one waiter after the other.  Both  *)
(* name the same waiters: a set of waiters the loop ends with is a         *)
(* solution, the loop ends, and two solutions would differ first at a      *)
(* waiter on whose predecessors they agree.                                *)

\* No waiter is queued before itself, and who is queued before a waiter is
\* queued before everyone behind that waiter.
Strict(w, ahd) ==
  \A c \in w : c \notin ahd[c] /\ \A d \in ahd[c] \cap w : ahd[d] \cap w \subseteq ahd[c]

QueueInv == IsFiniteSet(waiting) /\ Strict(waiting, ahead)

\* Among any waiters of a finite queue there is one queued before the others.
LEMMA FirstWaiter ==
  ASSUME NEW w, IsFiniteSet(w), NEW ahd, Strict(w, ahd), NEW S \in SUBSET w, S # {}
  PROVE  \E c \in S : ahd[c] \cap S = {}
<1> DEFINE Before(c) == ahd[c] \cap w
           Ranks == {Cardinality(Before(c)) : c \in S}
<1>1. \A c \in w : IsFiniteSet(Before(c)) /\ Cardinality(Before(c)) \in Nat
  BY FS_Intersection, FS_CardinalityType, Zenon
<1>2. Ranks \in SUBSET Nat /\ Ranks # {}
  BY <1>1
<1>3. PICK n \in Ranks : \A m \in Ranks : n <= m
  <2> HIDE DEF Ranks
  <2> QED BY <1>2, LeastNat, Zenon
<1>4. PICK c \in S : n = Cardinality(Before(c))
  BY <1>3
<1>5. ASSUME NEW d \in ahd[c] \cap S PROVE FALSE
  <2>1. Before(d) \in SUBSET (Before(c) \ {d}) /\ d \in Before(c)
    BY <1>5 DEF Strict
  <2>2. IsFiniteSet(Before(c) \ {d}) /\ Cardinality(Before(c) \ {d}) = Cardinality(Before(c)) - 1
    <3> HIDE DEF Before
    <3> QED BY <1>1, <2>1, FS_RemoveElement
  <2>3. Cardinality(Before(d)) <= Cardinality(Before(c) \ {d})
    <3> HIDE DEF Before
    <3> QED BY <2>1, <2>2, FS_Subset
  <2>4. Cardinality(Before(c)) <= Cardinality(Before(d))
    <3>1. Cardinality(Before(d)) \in Ranks
      BY <1>5
    <3> QED BY <3>1, <1>3, <1>4
  <2>5. Cardinality(Before(c)) \in Nat /\ Cardinality(Before(d)) \in Nat
    BY <1>1, <1>5
  <2> HIDE DEF Before
  <2> QED BY <2>2, <2>3, <2>4, <2>5
<1> QED BY <1>5

\* At most one set of waiters solves the one-pass characterisation.
LEMMA OneDrain ==
  ASSUME NEW w, IsFiniteSet(w), NEW ahd, Strict(w, ahd), NEW a, NEW ls,
         NEW G \in SUBSET w, NEW H \in SUBSET w,
         IsDrain(G, w, a, ahd, ls), IsDrain(H, w, a, ahd, ls)
  PROVE  G = H
<1> DEFINE Apart == {c \in w : ~(c \in G <=> c \in H)}
<1> SUFFICES ASSUME Apart # {} PROVE FALSE
  OBVIOUS
<1>1. PICK c \in Apart : ahd[c] \cap Apart = {}
  <2>1. Apart \in SUBSET w
    OBVIOUS
  <2> HIDE DEF Apart
  <2> QED BY <2>1, FirstWaiter
<1>2. \A e \in ahd[c] \cap w : e \in G <=> e \in H
  BY <1>1
<1>3. c \in w /\ ~(c \in G <=> c \in H)
  OBVIOUS
<1> QED BY <1>2, <1>3, Zenon DEF IsDrain

\* The waiters the loop has granted when it comes to the k-th.
Done(r, k) == {r[j] : j \in 1..(k - 1)}

\* The loop is under way: every waiter of r was the first it could grant.
Passes(r, w, a, ahd, ls) ==
  \A k \in DOMAIN r :
    /\ Grantable(r[k], Done(r, k), w, a, ahd, ls)
    /\ \A d \in ahd[r[k]] : ~Grantable(d, Done(r, k), w, a, ahd, ls)

\* What the loop has granted when it ends solves the characterisation.
LEMMA LoopDrains ==
  ASSUME NEW w, NEW ahd, Ordered(w, ahd), NEW a, NEW ls,
         NEW r \in Seq(w), IsLoopOrder(r, w, a, ahd, ls)
  PROVE  Range(r) \in SUBSET w /\ IsDrain(Range(r), w, a, ahd, ls)
<1> DEFINE G == Range(r)
<1>1. /\ Passes(r, w, a, ahd, ls)
      /\ \A c \in w : ~Grantable(c, G, w, a, ahd, ls)
  BY Zenon DEF IsLoopOrder, Passes, Done
<1>2. /\ G \in SUBSET w
      /\ \A c \in G : \E k \in DOMAIN r : c = r[k]
      /\ \A k \in DOMAIN r : Done(r, k) \in SUBSET G
  BY DEF Range, Done
<1> HIDE DEF G
<1>3. ASSUME NEW c \in G
      PROVE  /\ \A x \in a : ~Blocks(ls[x], ls[c])
             /\ \A e \in ahd[c] \cap w : Conflict(ls[e], ls[c]) => e \in G /\ ~Blocks(ls[e], ls[c])
  <2>1. PICK k \in DOMAIN r : c = r[k]
    BY <1>2, <1>3, Zenon
  <2>2. Grantable(c, Done(r, k), w, a, ahd, ls)
    BY <1>1, <2>1, Zenon DEF Passes
  <2>3. Done(r, k) \in SUBSET G
    BY <1>2, <2>1
  <2>4. /\ \A x \in a \cup Done(r, k) : ~Blocks(ls[x], ls[c])
        /\ \A e \in ahd[c] \cap (w \ Done(r, k)) : ~Conflict(ls[e], ls[c])
    BY <2>2, Zenon DEF Grantable
  <2>5. ASSUME NEW e \in ahd[c] \cap w, Conflict(ls[e], ls[c]) PROVE e \in Done(r, k)
    <3>1. e \notin Done(r, k) => e \in ahd[c] \cap (w \ Done(r, k))
      BY <2>5
    <3> QED BY <3>1, <2>4, <2>5, Zenon
  <2> QED BY <2>3, <2>4, <2>5, Zenon
<1>4. ASSUME NEW c \in w, c \notin G,
             \A x \in a : ~Blocks(ls[x], ls[c]),
             \A e \in ahd[c] \cap w : Conflict(ls[e], ls[c]) => e \in G /\ ~Blocks(ls[e], ls[c])
      PROVE  FALSE
  <2>1. ~Grantable(c, G, w, a, ahd, ls)
    BY <1>1
  <2>2. \A e \in ahd[c] \cap (w \ G) : ~Conflict(ls[e], ls[c])
    BY <1>4, Zenon
  <2>3. PICK x \in G : Blocks(ls[x], ls[c])
    BY <2>1, <2>2, <1>4, Zenon DEF Grantable
  <2>4. Conflict(ls[x], ls[c]) /\ Conflict(ls[c], ls[x])
    BY <2>3, ConflictSymmetric, Zenon DEF Blocks
  <2>5. x \in w /\ x # c
    BY <1>2, <1>4
  <2>6. x \notin ahd[c]
    BY <2>3, <2>4, <2>5, <1>4, Zenon
  <2>7. c \in ahd[x]
    BY <2>5, <2>6 DEF Ordered
  <2>8. c \in ahd[x] \cap w
    BY <2>7
  <2> QED BY <2>4, <2>8, <1>3, <1>4, Zenon
<1> QED BY <1>2, <1>3, <1>4, Zenon DEF IsDrain, G

\* The waiters the loop grants are different ones.
LEMMA PassesBounded ==
  ASSUME NEW w, IsFiniteSet(w), NEW a, NEW ahd, NEW ls,
         NEW r \in Seq(w), Passes(r, w, a, ahd, ls)
  PROVE  Len(r) <= Cardinality(w)
<1>1. Cardinality(w) \in Nat /\ Len(r) \in Nat
  BY FS_CardinalityType
<1>2. ASSUME NEW j \in 1..Len(r), NEW k \in 1..Len(r), j < k PROVE r[j] # r[k]
  <2>1. r[k] \notin Done(r, k)
    BY <1>2 DEF Passes, Grantable
  <2>2. r[j] \in Done(r, k)
    BY <1>2 DEF Done
  <2> QED BY <2>1, <2>2
<1>3. \A j, k \in 1..Len(r) : j # k => r[j] # r[k]
  BY <1>1, <1>2
<1>4. SUFFICES ASSUME Cardinality(w) < Len(r) PROVE FALSE
  BY <1>1
<1>5. IsFiniteSet(1..Len(r)) /\ Cardinality(1..Len(r)) = Len(r)
  <2>1. /\ IsFiniteSet(1..Len(r))
        /\ Cardinality(1..Len(r)) = IF 1 > Len(r) THEN 0 ELSE (Len(r) - 1) + 1
    <3>1. 1 \in Int /\ Len(r) \in Int
      BY <1>1
    <3> QED BY <3>1, FS_Interval, Zenon
  <2> QED BY <2>1, <1>1
<1>6. r \in [1..Len(r) -> w]
  OBVIOUS
<1>7. \E j, k \in 1..Len(r) : j # k /\ r[j] = r[k]
  BY <1>4, <1>5, <1>6, FS_PigeonHole
<1> QED BY <1>3, <1>7

\* As long as somebody can be granted, the loop grants one more.
LEMMA LoopGoesOn ==
  ASSUME NEW w, IsFiniteSet(w), NEW ahd, Strict(w, ahd), NEW a, NEW ls,
         NEW r \in Seq(w), Passes(r, w, a, ahd, ls),
         \E c \in w : Grantable(c, Range(r), w, a, ahd, ls)
  PROVE  \E s \in Seq(w) : Len(s) = Len(r) + 1 /\ Passes(s, w, a, ahd, ls)
<1> DEFINE Can == {c \in w : Grantable(c, Range(r), w, a, ahd, ls)}
<1>1. PICK c \in Can : ahd[c] \cap Can = {}
  <2>1. Can \in SUBSET w /\ Can # {}
    OBVIOUS
  <2> HIDE DEF Can
  <2> QED BY <2>1, FirstWaiter
<1>2. /\ c \in w /\ Grantable(c, Range(r), w, a, ahd, ls)
      /\ \A d \in ahd[c] : ~Grantable(d, Range(r), w, a, ahd, ls)
  BY <1>1 DEF Grantable
<1> DEFINE s == Append(r, c)
<1>3. /\ s \in Seq(w) /\ Len(s) = Len(r) + 1
      /\ \A k \in 1..Len(r) : s[k] = r[k]
      /\ s[Len(r) + 1] = c
      /\ Len(r) \in Nat /\ DOMAIN r = 1..Len(r) /\ DOMAIN s = 1..(Len(r) + 1)
  BY <1>2
<1> HIDE DEF s
<1>4. \A k \in 1..Len(r) : Done(s, k) = Done(r, k)
  BY <1>3 DEF Done
<1>5. Done(s, Len(r) + 1) = Range(r)
  BY <1>3 DEF Done, Range
<1>6. ASSUME NEW k \in DOMAIN s
      PROVE  /\ Grantable(s[k], Done(s, k), w, a, ahd, ls)
             /\ \A d \in ahd[s[k]] : ~Grantable(d, Done(s, k), w, a, ahd, ls)
  <2>1. CASE k \in 1..Len(r)
    <3>1. k \in DOMAIN r /\ s[k] = r[k] /\ Done(s, k) = Done(r, k)
      BY <2>1, <1>3, <1>4
    <3> QED BY <3>1, Zenon DEF Passes
  <2>2. CASE k = Len(r) + 1
    <3>1. s[k] = c /\ Done(s, k) = Range(r)
      BY <2>2, <1>3, <1>5
    <3> QED BY <3>1, <1>2, Zenon
  <2> QED BY <2>1, <2>2, <1>3, <1>6
<1> QED BY <1>3, <1>6, Zenon DEF Passes

\* The loop ends.
LEMMA LoopEnds ==
  ASSUME NEW w, IsFiniteSet(w), NEW ahd, Strict(w, ahd), NEW a, NEW ls
  PROVE  \E r \in SeqOf(w, Cardinality(w)) : IsLoopOrder(r, w, a, ahd, ls)
<1> DEFINE N == Cardinality(w)
           Left == {n \in 0..N : \E r \in Seq(w) : Passes(r, w, a, ahd, ls) /\ n = N - Len(r)}
<1>1. N \in Nat
  BY FS_CardinalityType
<1>2. N \in Left
  <2>1. <<>> \in Seq(w) /\ Len(<<>>) = 0 /\ Passes(<<>>, w, a, ahd, ls)
    BY DEF Passes
  <2>2. N = N - Len(<<>>)
    BY <1>1, <2>1
  <2> HIDE DEF N
  <2>3. N \in 0..N
    BY <1>1
  <2> QED BY <2>1, <2>2, <2>3, Zenon
<1>3. PICK n \in Left : \A m \in Left : n <= m
  <2>1. Left \in SUBSET Nat /\ Left # {}
    BY <1>1, <1>2
  <2> HIDE DEF Left
  <2> QED BY <2>1, LeastNat
<1>4. PICK r \in Seq(w) : Passes(r, w, a, ahd, ls) /\ n = N - Len(r)
  BY <1>3
<1>5. ASSUME NEW c \in w, Grantable(c, Range(r), w, a, ahd, ls) PROVE FALSE
  <2>1. PICK s \in Seq(w) : Len(s) = Len(r) + 1 /\ Passes(s, w, a, ahd, ls)
    BY <1>4, <1>5, LoopGoesOn
  <2>2. Len(s) <= N /\ Len(r) \in Nat
    BY <2>1, PassesBounded
  <2> HIDE DEF N
  <2>3. N - Len(s) \in 0..N /\ N - Len(s) < n
    BY <1>1, <1>4, <2>1, <2>2
  <2>4. N - Len(s) \in Left
    BY <2>1, <2>3
  <2> HIDE DEF Left
  <2>5. n \in Int
    BY <1>1, <1>4, <2>2
  <2> QED BY <1>1, <1>3, <2>2, <2>3, <2>4, <2>5
<1>6. IsLoopOrder(r, w, a, ahd, ls)
  BY <1>4, <1>5, Zenon DEF IsLoopOrder, Passes, Done
<1>7. r \in SeqOf(w, N)
  <2>1. Len(r) \in 0..N /\ r \in [1..Len(r) -> w]
    BY <1>1, <1>4, PassesBounded
  <2> HIDE DEF N
  <2> QED BY <2>1 DEF SeqOf
<1> QED BY <1>6, <1>7

\* A finite queue in order: the drain of the model is the loop.
LEMMA OneResult ==
  ASSUME NEW w, IsFiniteSet(w), NEW ahd, Ordered(w, ahd), Strict(w, ahd), NEW a, NEW ls
  PROVE  DrainsLikeTheLoop(w, a, ahd, ls)
<1>1. PICK r \in SeqOf(w, Cardinality(w)) : IsLoopOrder(r, w, a, ahd, ls)
  BY LoopEnds
<1>2. SeqOf(w, Cardinality(w)) \subseteq Seq(w)
  <2>1. Cardinality(w) \in Nat
    BY FS_CardinalityType
  <2>2. \A n \in 0..Cardinality(w) : [1..n -> w] \subseteq Seq(w)
    BY <2>1, SeqDef
  <2> QED BY <2>2 DEF SeqOf
<1> DEFINE G == Range(r)
<1>3. G \in SUBSET w /\ IsDrain(G, w, a, ahd, ls)
  BY <1>1, <1>2, LoopDrains
<1>4. \A H \in SUBSET w : IsDrain(H, w, a, ahd, ls) => H = G
  <2> HIDE DEF G
  <2> QED BY <1>3, OneDrain
<1>5. \A s \in SeqOf(w, Cardinality(w)) : IsLoopOrder(s, w, a, ahd, ls) => Range(s) = G
  BY <1>2, <1>4, LoopDrains
<1>6. {H \in SUBSET w : IsDrain(H, w, a, ahd, ls)} = {G}
  <2> HIDE DEF G
  <2> QED BY <1>3, <1>4
<1>7. LoopResults(w, a, ahd, ls) = {G}
  <2>1. G \in LoopResults(w, a, ahd, ls)
    BY <1>1, Zenon DEF LoopResults
  <2> HIDE DEF G
  <2>2. \A H \in LoopResults(w, a, ahd, ls) : H = G
    BY <1>5 DEF LoopResults
  <2> QED BY <2>1, <2>2
<1> HIDE DEF G
<1> QED BY <1>3, <1>6, <1>7 DEF DrainsLikeTheLoop

-----------------------------------------------------------------------------
(* The queue stays finite and in order, so that every drain is the loop.   *)

LEMMA StrictPart ==
  ASSUME NEW w, NEW ahd, Strict(w, ahd), NEW v \in SUBSET w PROVE Strict(v, ahd)
BY DEF Strict

\* A drain takes waiters out of the queue and leaves the others in their order.
LEMMA DrainKeepsQueue ==
  ASSUME NEW w \in SUBSET Clients, IsFiniteSet(w), NEW a, NEW ahd, Strict(w, ahd), NEW ls,
         Drain(w, a, ahd, ls)
  PROVE  QueueInv'
<1>1. PICK G \in SUBSET w :
        /\ waiting' = w \ G
        /\ ahead' = [c \in Clients |-> IF c \in w \ G THEN ahd[c] \cap (w \ G) ELSE {}]
  BY Zenon DEF Drain
<1>2. \A c \in w \ G : ahead'[c] = ahd[c] \cap (w \ G)
  BY <1>1
<1>3. IsFiniteSet(waiting')
  BY <1>1, FS_Difference
<1>4. Strict(waiting', ahead')
  BY <1>1, <1>2 DEF Strict
<1> QED BY <1>3, <1>4 DEF QueueInv

\* A new waiter is queued behind all others.
LEMMA NewWaiterIsLast ==
  ASSUME GateInv, QueueInv, NEW c \in Clients \ waiting
  PROVE  LET w == waiting \cup {c}
             ahd == [ahead EXCEPT ![c] = waiting]
         IN /\ w \in SUBSET Clients /\ IsFiniteSet(w)
            /\ Ordered(w, ahd) /\ Strict(w, ahd)
<1> DEFINE w == waiting \cup {c}
           ahd == [ahead EXCEPT ![c] = waiting]
<1>1. w \in SUBSET Clients
  BY DEF GateInv, TypeOK
<1>2. IsFiniteSet(w)
  BY FS_AddElement DEF QueueInv
<1>3. /\ ahd[c] = waiting
      /\ \A x \in waiting : ahd[x] = ahead[x] /\ ahead[x] \subseteq waiting
  BY DEF GateInv, TypeOK, Within
<1> HIDE DEF ahd
<1>4. Ordered(w, ahd)
  BY <1>3 DEF GateInv, Ordered
<1>5. Strict(w, ahd)
  <2> SUFFICES ASSUME NEW x \in w
               PROVE  x \notin ahd[x] /\ \A d \in ahd[x] \cap w : ahd[d] \cap w \subseteq ahd[x]
    BY Zenon DEF Strict
  <2>1. CASE x = c
    BY <2>1, <1>3
  <2>2. CASE x \in waiting
    <3>1. x \notin ahead[x] /\ \A d \in ahead[x] \cap waiting : ahead[d] \cap waiting \subseteq ahead[x]
      BY <2>2, Zenon DEF QueueInv, Strict
    <3> QED BY <2>2, <3>1, <1>3
  <2> QED BY <2>1, <2>2
<1> QED BY <1>1, <1>2, <1>4, <1>5 DEF ahd

LEMMA InitQueue == ASSUME Init PROVE QueueInv
BY FS_EmptySet DEF Init, QueueInv, Strict

LEMMA StepQueue == ASSUME GateInv, QueueInv, [Next]_vars PROVE QueueInv'
<1>1. /\ waiting \in SUBSET Clients /\ IsFiniteSet(waiting) /\ Strict(waiting, ahead)
      /\ \A x \in Clients : caller[x] = "idle" => x \notin waiting
  BY DEF GateInv, TypeOK, NoGhostLease, QueueInv
<1>2. CASE UNCHANGED vars
  BY <1>2 DEF vars, QueueInv
<1>3. CASE Next
  <2> PICK n \in Clients :
        \/ \E ws \in Requests :
             \/ \E m \in Modes : Acquire(n, m, ws)
             \/ AcquireAfterQuiesce(n, ws)
             \/ TryAcquireExclusive(n, ws)
        \/ Resume(n) \/ OpenProcess(n) \/ ListOwners(n) \/ Exit(n)
        \/ Quiesced(n) \/ AbandonBarrier(n) \/ Finish(n)
    BY <1>3, Zenon DEF Next
  <2>1. ASSUME NEW ws \in Requests, NEW m \in Modes, caller[n] = "idle", Enqueue(n, m, ws)
        PROVE  QueueInv'
    <3> DEFINE w == waiting \cup {n}
               ahd == [ahead EXCEPT ![n] = waiting]
    <3>1. w \in SUBSET Clients /\ IsFiniteSet(w) /\ Strict(w, ahd)
      BY <2>1, <1>1, NewWaiterIsLast
    <3>2. PICK ls : Drain(w, active, ahd, ls)
      BY <2>1, Zenon DEF Enqueue
    <3> HIDE DEF w, ahd
    <3> QED BY <3>1, <3>2, DrainKeepsQueue
  <2>2. CASE \E ws \in Requests, m \in Modes : Acquire(n, m, ws)
    BY <2>1, <2>2, Zenon DEF Acquire
  <2>3. CASE \E ws \in Requests : AcquireAfterQuiesce(n, ws)
    <3>1. "exclusive" \in Modes
      BY DEF Modes
    <3> QED BY <2>1, <2>3, <3>1, Zenon DEF AcquireAfterQuiesce
  <2>4. CASE \/ \E ws \in Requests : TryAcquireExclusive(n, ws)
             \/ Resume(n) \/ OpenProcess(n) \/ ListOwners(n) \/ Quiesced(n)
    <3>1. UNCHANGED <<waiting, ahead>>
      BY <2>4 DEF TryAcquireExclusive, Resume, OpenProcess, ListOwners, Quiesced
    <3> QED BY <3>1 DEF QueueInv
  <2>5. CASE Exit(n) \/ Finish(n) \/ AbandonBarrier(n)
    <3>1. PICK v \in SUBSET waiting, a \in SUBSET active : Drain(v, a, ahead, lease)
      <4>1. /\ waiting \in SUBSET waiting /\ waiting \ {n} \in SUBSET waiting
            /\ active \in SUBSET active /\ active \ {n} \in SUBSET active
        OBVIOUS
      <4> QED BY <2>5, <4>1, Zenon DEF Exit, Finish, AbandonBarrier, ReleaseLease
    <3>2. v \in SUBSET Clients /\ IsFiniteSet(v) /\ Strict(v, ahead)
      BY <1>1, FS_Subset, StrictPart
    <3> QED BY <3>1, <3>2, DrainKeepsQueue
  <2> QED BY <2>2, <2>3, <2>4, <2>5, Zenon
<1> QED BY <1>2, <1>3

\* In every reachable state, whoever leaves or asks next: the drain of the
\* model has exactly one outcome, and the loop of the code ends with it.
THEOREM DrainIsAlwaysTheLoop == Spec => []DrainIsTheLoop
<1>1. GateAssumption /\ Init => GateInv /\ QueueInv
  BY InitGate, InitQueue
<1>2. GateAssumption /\ GateInv /\ QueueInv /\ [Next]_vars => GateInv' /\ QueueInv'
  BY StepGate, StepQueue
<1>3. GateInv /\ QueueInv => DrainIsTheLoop
  <2> SUFFICES ASSUME GateInv, QueueInv PROVE DrainIsTheLoop
    OBVIOUS
  <2>1. ASSUME NEW w \in SUBSET waiting, NEW a \in SUBSET active
        PROVE  DrainsLikeTheLoop(w, a, ahead, lease)
    <3>1. IsFiniteSet(w) /\ Strict(w, ahead)
      BY FS_Subset, StrictPart DEF QueueInv
    <3>2. Ordered(w, ahead)
      BY DEF GateInv, Ordered
    <3> QED BY <3>1, <3>2, OneResult, Zenon
  <2>2. ASSUME NEW c \in Clients \ (active \cup waiting), NEW ls
        PROVE  DrainsLikeTheLoop(waiting \cup {c}, active, [ahead EXCEPT ![c] = waiting], ls)
    <3> DEFINE w == waiting \cup {c}
               ahd == [ahead EXCEPT ![c] = waiting]
    <3>1. IsFiniteSet(w) /\ Ordered(w, ahd) /\ Strict(w, ahd)
      BY NewWaiterIsLast
    <3> HIDE DEF w, ahd
    <3>2. DrainsLikeTheLoop(w, active, ahd, ls)
      BY <3>1, OneResult, Zenon
    <3> QED BY <3>2 DEF w, ahd
  <2> QED BY <2>1, <2>2, Zenon DEF DrainIsTheLoop
<1> QED BY <1>1, <1>2, <1>3, GateAssumption, PTL DEF Spec

=============================================================================
