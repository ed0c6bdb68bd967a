---------------------------- MODULE ProviderReplay ----------------------------
(***************************************************************************)
(* The stream of provider events between the backend's WsHub               *)
(* (ws/server.ts) and one client's ProviderReplayCursor                    *)
(* (packages/schema/src/provider-replay.ts).                               *)
(*                                                                         *)
(* The hub numbers every event and keeps the latest few.  A client that    *)
(* connects is told the journal id and the latest number, asks for what    *)
(* came after its own last event, and is served from what is kept; where   *)
(* something is missing it is told of a gap, upon which it reloads its     *)
(* threads from the backend.  The wire may be lost at any moment, with     *)
(* everything on it; the backend may restart, with a journal of its own;   *)
(* an event may be too large to send; a handler of the client may throw.   *)
(***************************************************************************)
EXTENDS Naturals, Sequences, FiniteSets

CONSTANTS
  Capacity,     \* replayCapacity: events kept for replay
  MaxEvents,    \* bound: events published, by all backends together
  MaxRestarts,  \* bound: restarts of the backend
  MaxDrops,     \* bound: lost connections
  MaxThrows     \* bound: handlers that throw

ASSUME ReplayAssumption ==
  /\ Capacity \in Nat \ {0} /\ MaxEvents \in Nat
  /\ MaxRestarts \in Nat /\ MaxDrops \in Nat /\ MaxThrows \in Nat

None == 0        \* no journal; journals are numbered from one

VARIABLES
  total,         \* total[j]: events published under journal j; the last is the running one
  kept,          \* providerReplayJournal: the numbers retained, oldest first
  unavailable,   \* lastUnavailableProviderSequence
  up,            \* whether the client's socket is open
  ready,         \* its providerEventsReady
  delivered,     \* its lastDeliveredProviderSequence
  authAt,        \* its authenticatedAtSequence
  timer,         \* its replayTimer is armed
  request,       \* its provider_replay request on the wire, or {}
  inbox,         \* the frames on the wire to it
  journal,       \* cursor.journalId, or None
  last,          \* cursor.lastSequence
  announced,     \* cursor.gapAnnounced
  applied,       \* history: events the client applied, in that order
  excused,       \* history: events published before it was told of a gap
  failed,        \* history: events whose handler threw
  lost,          \* history: events the two known faults lose (see below)
  owed,          \* history: a changed journal's gap is still to be told
  drops, throws  \* history: connections lost, handlers thrown

hub     == <<total, kept, unavailable>>
link    == <<up, ready, delivered, authAt, timer>>
wire    == <<request, inbox>>
cursor  == <<journal, last, announced>>
history == <<applied, excused, failed, lost, owed>>
budget  == <<drops, throws>>
vars    == <<hub, link, wire, cursor, history, budget>>

JournalId == Len(total)              \* providerReplayJournalId
Latest    == total[JournalId]        \* providerSequence

Published == {e \in (1..JournalId) \X (1..MaxEvents) : e[2] <= total[e[1]]}
Earlier(e, f) == e[1] < f[1] \/ (e[1] = f[1] /\ e[2] < f[2])
heard == {applied[i] : i \in 1..Len(applied)}

\* Frames of the hub, by their type.
AuthOk        == [type |-> "auth_ok", journal |-> JournalId, seq |-> Latest]
Gap           == [type |-> "provider_replay_gap", journal |-> JournalId, seq |-> Latest]
Complete      == [type |-> "provider_replay_complete", journal |-> JournalId, seq |-> Latest]
Event(j, n)   == [type |-> "provider.runtimeEvent", journal |-> j, seq |-> n]

Init ==
  /\ total = <<0>> /\ kept = <<>> /\ unavailable = 0
  /\ up = FALSE /\ ready = FALSE /\ delivered = 0 /\ authAt = 0 /\ timer = FALSE
  /\ request = {} /\ inbox = <<>>
  /\ journal = None /\ last = 0 /\ announced = FALSE
  /\ applied = <<>> /\ excused = {} /\ failed = {} /\ lost = {} /\ owed = FALSE
  /\ drops = 0 /\ throws = 0

-----------------------------------------------------------------------------
(* The hub                                                                  *)

\* broadcastNow: the frame gets the next number, is kept, and the oldest ones
\* make room (the byte budget may take more of them than the capacity); a
\* client that is ready is sent the frame.
Publish ==
  /\ Cardinality(Published) < MaxEvents
  /\ LET n == Latest + 1
         all == Append(kept, n)
     IN /\ total' = [total EXCEPT ![JournalId] = n]
        /\ \E i \in 1..Len(all) + 1 :
             /\ Len(all) - i + 1 <= Capacity
             /\ kept' = SubSeq(all, i, Len(all))
        /\ IF up /\ ready
             THEN inbox' = Append(inbox, Event(JournalId, n)) /\ delivered' = n
             ELSE UNCHANGED <<inbox, delivered>>
  /\ UNCHANGED <<unavailable, up, ready, authAt, timer, request, cursor, history, budget>>

\* A frame over providerFrameMaxBytes takes a number and is dropped; a client
\* that is ready is told of the gap.
PublishOversized ==
  /\ Cardinality(Published) < MaxEvents
  /\ total' = [total EXCEPT ![JournalId] = Latest + 1]
  /\ unavailable' = Latest + 1
  /\ inbox' = IF up /\ ready THEN Append(inbox, Gap) ELSE inbox
  /\ UNCHANGED <<kept, link, request, cursor, history, budget>>

\* The client connects: registerAuthenticatedClient sends auth_ok and arms the
\* timer for clients that do not negotiate.
Connect ==
  /\ ~up
  /\ up' = TRUE /\ ready' = FALSE /\ delivered' = 0 /\ authAt' = Latest /\ timer' = TRUE
  /\ request' = {} /\ inbox' = <<AuthOk>>
  /\ UNCHANGED <<hub, cursor, history, budget>>

\* Wrong: an oversized frame is not looked for.
ReplayTruncatedOnly(j, after) ==
  LET changed == j # JournalId
      from == IF changed THEN 0 ELSE after
      earliest == IF kept = <<>> THEN Latest + 1 ELSE Head(kept)
      start == IF from > delivered THEN from ELSE delivered
      gap == IF changed \/ from + 1 < earliest THEN <<Gap>> ELSE <<>>
  IN \E i \in 0..Len(kept) :
       /\ \A k \in 1..Len(kept) : kept[k] > start <=> k > i
       /\ inbox' = inbox \o (gap \o [k \in 1..Len(kept) - i |-> Event(JournalId, kept[k + i])]
                              \o <<Complete>>)
       /\ delivered' = IF i < Len(kept) THEN kept[Len(kept)] ELSE delivered
       /\ ready' = TRUE /\ timer' = FALSE

\* replayProviderEvents: a gap if the journal is another one, if what follows
\* `after` is no longer kept, or if a frame after it was dropped; then what is
\* kept and not yet delivered; then live delivery.
ReplayProviderEvents(j, after) ==
  LET changed == j # JournalId
      from == IF changed THEN 0 ELSE after
      earliest == IF kept = <<>> THEN Latest + 1 ELSE Head(kept)
      start == IF from > delivered THEN from ELSE delivered
      gap == IF changed \/ from + 1 < earliest \/ unavailable > from THEN <<Gap>> ELSE <<>>
  IN \E i \in 0..Len(kept) :
       /\ \A k \in 1..Len(kept) : kept[k] > start <=> k > i
       /\ inbox' = inbox \o (gap \o [k \in 1..Len(kept) - i |-> Event(JournalId, kept[k + i])]
                              \o <<Complete>>)
       /\ delivered' = IF i < Len(kept) THEN kept[Len(kept)] ELSE delivered
       /\ ready' = TRUE /\ timer' = FALSE

\* Wrong: a request that comes after the grace period is ignored.
RequestedInTime ==
  /\ up
  /\ IF ready THEN UNCHANGED <<inbox, delivered, ready, timer>>
              ELSE \E r \in request : ReplayProviderEvents(r.journal, r.after)
  /\ request # {} /\ request' = {}
  /\ UNCHANGED <<hub, up, authAt, cursor, history, budget>>

\* The client's request arrives.
Requested ==
  /\ up
  /\ \E r \in request : ReplayProviderEvents(r.journal, r.after)
  /\ request' = {}
  /\ UNCHANGED <<hub, up, authAt, cursor, history, budget>>

\* No request came within the grace period.
ReplayTimer ==
  /\ up /\ timer
  /\ ReplayProviderEvents(JournalId, authAt)
  /\ UNCHANGED <<hub, up, authAt, request, cursor, history, budget>>

-----------------------------------------------------------------------------
(* The client                                                               *)

\* A gap was told: the client reloads its threads, so nothing published until
\* now is hidden from it.
Told == excused' = Published /\ owed' = FALSE

\* A client that starts has loaded its threads: it has no need of the events of
\* backends before the first it connects to.
Starts(f) ==
  excused' = IF journal = None THEN {e \in Published : e[1] < f.journal} ELSE excused

\* Wrong: the client starts every connection from the beginning.
NegotiateAfresh ==
  /\ inbox # <<>> /\ Head(inbox).type = "auth_ok"
  /\ LET f == Head(inbox)
         changed == journal # None /\ journal # f.journal
     IN /\ request' = {[journal |-> IF changed THEN journal ELSE f.journal, after |-> 0]}
        /\ last' = 0
        /\ journal' = f.journal
        /\ announced' = FALSE
        /\ owed' = (owed \/ changed)
        /\ Starts(f)
  /\ inbox' = Tail(inbox)
  /\ UNCHANGED <<hub, link, applied, failed, lost, budget>>

\* negotiate, on auth_ok: "Sending the old journal lets the server announce the
\* restart gap."
Negotiate ==
  /\ inbox # <<>> /\ Head(inbox).type = "auth_ok"
  /\ LET f == Head(inbox)
         changed == journal # None /\ journal # f.journal
         ahead == journal = f.journal /\ last > f.seq
     IN /\ request' = {[journal |-> IF changed THEN journal ELSE f.journal,
                        after |-> IF ahead THEN 0 ELSE last]}
        /\ last' = IF changed \/ ahead THEN 0 ELSE last
        /\ journal' = f.journal
        /\ announced' = FALSE
        /\ owed' = (owed \/ changed)
        /\ Starts(f)
  /\ inbox' = Tail(inbox)
  /\ UNCHANGED <<hub, link, applied, failed, lost, budget>>

\* deliver, of a gap frame.
DeliverGap ==
  /\ inbox # <<>> /\ Head(inbox).type = "provider_replay_gap"
  /\ announced' = TRUE
  /\ Told
  /\ inbox' = Tail(inbox)
  /\ UNCHANGED <<hub, link, request, journal, last, applied, failed, lost, budget>>

EventsOf(q) ==
  {<<q[k].journal, q[k].seq>> : k \in {i \in 1..Len(q) : q[i].type = "provider.runtimeEvent"}}

\* The handler of the gap throws.  The gap counts as announced already, so what
\* the frames behind it leave out is not told again.
GapHandlerThrows ==
  /\ throws < MaxThrows
  /\ throws' = throws + 1
  /\ inbox # <<>> /\ Head(inbox).type = "provider_replay_gap"
  /\ announced' = TRUE
  /\ lost' = lost \cup (Published \ EventsOf(Tail(inbox)))
  /\ owed' = FALSE
  /\ inbox' = Tail(inbox)
  /\ UNCHANGED <<hub, link, request, journal, last, applied, excused, failed, drops>>

DeliverComplete ==
  /\ inbox # <<>> /\ Head(inbox).type = "provider_replay_complete"
  /\ announced' = FALSE
  /\ inbox' = Tail(inbox)
  /\ UNCHANGED <<hub, link, request, journal, last, history, budget>>

\* deliver, of an event: what comes of it if `receive` returns.  One already
\* applied is ignored; one that leaves a hole nobody announced announces it.
EventFrame(f) ==
  /\ inbox # <<>> /\ f = Head(inbox) /\ f.type = "provider.runtimeEvent"
  /\ inbox' = Tail(inbox)
  /\ journal' = f.journal

Base(f) == IF journal # f.journal THEN 0 ELSE last
Hole(f) == f.seq > Base(f) + 1 /\ ~announced

DeliverEvent ==
  \E f \in {inbox[k] : k \in 1..Len(inbox)} :
    /\ EventFrame(f)
    /\ IF f.seq <= Base(f)
         THEN last' = Base(f) /\ UNCHANGED <<announced, applied, excused, owed>>
         ELSE /\ last' = f.seq
              /\ announced' = FALSE
              /\ applied' = Append(applied, <<f.journal, f.seq>>)
              /\ IF Hole(f) THEN Told ELSE UNCHANGED <<excused, owed>>
    /\ UNCHANGED <<hub, link, request, failed, lost, budget>>

\* The handler that throws is the store's, after a hole before the event was
\* told, or the one that is told of the hole.
Threw(f) ==
  \/ /\ IF Hole(f) THEN Told ELSE UNCHANGED <<excused, owed>>
     /\ failed' = failed \cup {<<f.journal, f.seq>>}
  \/ /\ Hole(f) /\ UNCHANGED <<excused, owed>>
     /\ failed' = failed \cup {<<f.journal, n>> : n \in Base(f) + 1..f.seq}

\* Wrong: the event is acknowledged before it is applied.
AcknowledgeFirst ==
  /\ throws < MaxThrows
  /\ throws' = throws + 1
  /\ \E f \in {inbox[k] : k \in 1..Len(inbox)} :
       /\ EventFrame(f) /\ f.seq > Base(f)
       /\ last' = f.seq
       /\ Threw(f)
       /\ lost' = IF announced THEN lost \cup {<<f.journal, f.seq>>} ELSE lost
  /\ UNCHANGED <<hub, link, request, announced, applied, drops>>

\* "Never acknowledge data that the receiving store failed to apply": the next
\* event announces the hole, unless a gap stands announced already.
EventHandlerThrows ==
  /\ throws < MaxThrows
  /\ throws' = throws + 1
  /\ \E f \in {inbox[k] : k \in 1..Len(inbox)} :
       /\ EventFrame(f) /\ f.seq > Base(f)
       /\ last' = Base(f)
       /\ Threw(f)
       /\ lost' = IF announced THEN lost \cup {<<f.journal, f.seq>>} ELSE lost
  /\ UNCHANGED <<hub, link, request, announced, applied, drops>>

-----------------------------------------------------------------------------
(* The environment                                                          *)

\* The gap of a changed journal that is lost with the connection is not told
\* again: the cursor has the new journal's id already.
Unannounced ==
  lost' = IF owed THEN lost \cup {e \in Published : e[1] < journal} ELSE lost

\* Either side closes the socket, or the network does; a client too slow for
\* its buffer is closed as well.  What is on the wire is lost.
Disconnect ==
  /\ up /\ drops < MaxDrops
  /\ drops' = drops + 1
  /\ up' = FALSE /\ timer' = FALSE
  /\ request' = {} /\ inbox' = <<>>
  /\ Unannounced /\ owed' = FALSE
  /\ UNCHANGED <<hub, ready, delivered, authAt, cursor, applied, excused, failed, throws>>

\* The backend restarts under a new journal.
Restart ==
  /\ JournalId <= MaxRestarts
  /\ total' = Append(total, 0) /\ kept' = <<>> /\ unavailable' = 0
  /\ up' = FALSE /\ timer' = FALSE
  /\ request' = {} /\ inbox' = <<>>
  /\ Unannounced /\ owed' = FALSE
  /\ UNCHANGED <<ready, delivered, authAt, cursor, applied, excused, failed, budget>>

Receive == Negotiate \/ DeliverGap \/ DeliverComplete \/ DeliverEvent

Next ==
  \/ Publish \/ PublishOversized
  \/ Connect \/ Requested \/ ReplayTimer
  \/ Negotiate \/ DeliverGap \/ GapHandlerThrows
  \/ DeliverComplete \/ DeliverEvent \/ EventHandlerThrows
  \/ Disconnect \/ Restart

Spec == Init /\ [][Next]_vars

\* The client reconnects for as long as it runs, and frames on an open socket
\* arrive.
FairSpec == Spec /\ WF_vars(Connect) /\ WF_vars(Requested) /\ WF_vars(Receive)

-----------------------------------------------------------------------------
Events == (1..MaxRestarts + 1) \X (1..MaxEvents)
FrameTypes == {"auth_ok", "provider_replay_gap", "provider_replay_complete",
               "provider.runtimeEvent"}
Frames == [type : FrameTypes, journal : 1..MaxRestarts + 1, seq : 0..MaxEvents]

TypeOK ==
  /\ total \in Seq(0..MaxEvents) /\ Len(total) \in 1..MaxRestarts + 1
  /\ kept \in Seq(1..MaxEvents) /\ unavailable \in 0..MaxEvents
  /\ up \in BOOLEAN /\ ready \in BOOLEAN /\ timer \in BOOLEAN
  /\ delivered \in 0..MaxEvents /\ authAt \in 0..MaxEvents
  /\ request \subseteq [journal : 1..MaxRestarts + 1, after : 0..MaxEvents]
  /\ inbox \in Seq(Frames)
  /\ journal \in 0..MaxRestarts + 1 /\ last \in 0..MaxEvents /\ announced \in BOOLEAN
  /\ applied \in Seq(Events) /\ excused \subseteq Events
  /\ failed \subseteq Events /\ lost \subseteq Events /\ owed \in BOOLEAN
  /\ drops \in 0..MaxDrops /\ throws \in 0..MaxThrows

\* A client that has applied an event has applied every earlier one, or was
\* told of a gap after it was published, through reconnects, truncation,
\* oversized frames, restarts and handlers that throw; but for what the two
\* known faults lose.  (A restart may be told only after the new backend's first
\* events, if the hub's grace period ends before the client negotiates.)
NothingSilentlyMissed ==
  \A e \in heard : \A p \in Published :
    Earlier(p, e) => \/ p \in heard \cup excused \cup lost
                     \/ owed /\ p[1] < journal

\* Nothing is under way between the hub and a connected client.
Settled == up /\ ready /\ request = {} /\ inbox = <<>>

\* A client whose connection is settled has everything that was published, was
\* told that it has not, or its handler threw; but for the two known faults.
CaughtUp == Settled => Published \subseteq heard \cup excused \cup failed \cup lost

\* The same, whenever a connection is lost: "Sending the old journal lets the
\* server announce the restart gap".
RestartIsTold == Settled => Published \subseteq heard \cup excused \cup failed

\* A client whose handler threw is told of what it missed, once it applies a later
\* event: "the next sequenced provider event reports a replay gap" (wsClient.ts).
\* For a connection that holds, to a backend that runs on.
FailureIsTold ==
  \A e \in heard : \A p \in Published : Earlier(p, e) => p \in heard \cup excused

\* An event is applied once, and never after a later one, however often it is
\* replayed.
AppliedOnceInOrder ==
  \A i, j \in 1..Len(applied) : i < j => Earlier(applied[i], applied[j])

\* Every event reaches the client in the end, or it is told.
EventuallyInformed ==
  \A e \in Events :
    e \in Published ~> e \in heard \cup excused \cup failed \cup lost
=============================================================================
