------------------------ MODULE ProviderReplay_proofs ------------------------
(***************************************************************************)
(* Theorems about ProviderReplay, for any ring and any bounds: a client    *)
(* applies an event once and in order, and misses none in silence but for  *)
(* what the two known faults lose.                                         *)
(***************************************************************************)
EXTENDS ProviderReplay, SequenceTheorems, FiniteSetTheorems, TLAPS

IsEvent(k) == inbox[k].type = "provider.runtimeEvent"
AuthFirst == inbox # <<>> /\ inbox[1].type = "auth_ok"

\* The frames on the wire are the running journal's; auth_ok comes first.
Wire ==
  /\ \A k \in 1..Len(inbox) :
       /\ inbox[k].journal = JournalId /\ inbox[k].seq <= Latest
       /\ inbox[k].type = "auth_ok" => k = 1
  /\ \A k \in 1..Len(kept) : kept[k] <= Latest
  /\ ~up => inbox = <<>>

\* The cursor is never ahead of the hub, and on its journal once it negotiated.
Cursor ==
  /\ journal <= JournalId
  /\ journal = None => last = 0
  /\ journal = JournalId => last <= Latest
  /\ AuthFirst /\ journal = JournalId => last <= inbox[1].seq
  /\ up /\ ~AuthFirst => journal = JournalId
  /\ up /\ ~ready => Len(inbox) <= 1 /\ (AuthFirst \/ (inbox = <<>> /\ ~announced))

Reached(e) == e[1] < journal \/ (e[1] = journal /\ e[2] <= last)

\* What the client applied is behind its cursor.
Behind == \A e \in heard : Reached(e)

\* Whatever is behind the cursor was applied, told of, or lost by a known fault.
Covered ==
  \A p \in Published : Reached(p) => \/ p \in heard \cup excused \cup lost
                                     \/ owed /\ p[1] < journal

\* While a gap stands announced, what the next events on the wire leave out is
\* known to be missing ...
Plain(k) == \A j \in 1..k : IsEvent(j)
Known(n) == <<JournalId, n>> \in excused \cup lost
Skipped ==
  announced => \A k \in 1..Len(inbox) : Plain(k) =>
    \A m \in 1..MaxEvents : last < m /\ m < inbox[k].seq =>
      Known(m) \/ \E j \in 1..(k - 1) : inbox[j].seq = m

\* ... and so is what the wire as a whole leaves out.
Awaited ==
  announced /\ up /\ ready /\ Plain(Len(inbox)) =>
    \A m \in 1..MaxEvents : last < m /\ m <= Latest =>
      Known(m) \/ \E j \in 1..Len(inbox) : inbox[j].seq = m

\* The ring is in order, and so are the events on the wire, up to the last one
\* the hub takes for delivered.
Rising == \A a, b \in 1..Len(kept) : a < b => kept[a] < kept[b]
IsEventFrame(x) == x.type = "provider.runtimeEvent"
Between(q, lo, hi) ==
  /\ \A k \in 1..Len(q) : IsEventFrame(q[k]) => lo < q[k].seq /\ q[k].seq <= hi
  /\ \A a, b \in 1..Len(q) :
       a < b /\ IsEventFrame(q[a]) /\ IsEventFrame(q[b]) => q[a].seq < q[b].seq
InOrder ==
  /\ Rising
  /\ up => delivered <= Latest
  /\ Between(inbox, 0, delivered)

ReplayInv ==
  /\ TypeOK /\ Wire /\ Cursor
  /\ Behind /\ AppliedOnceInOrder
  /\ InOrder /\ Covered /\ Skipped /\ Awaited
-----------------------------------------------------------------------------
(* Sequences                                                                *)

LEMMA Elements ==
  ASSUME NEW S, NEW q \in Seq(S)
  PROVE  Len(q) \in Nat /\ \A k \in 1..Len(q) : q[k] \in S
  OBVIOUS

LEMMA Appended ==
  ASSUME NEW S, NEW q \in Seq(S), NEW x \in S
  PROVE  /\ Append(q, x) \in Seq(S) /\ Len(Append(q, x)) = Len(q) + 1 /\ Len(q) \in Nat
         /\ \A k \in 1..Len(q) : Append(q, x)[k] = q[k] /\ q[k] \in S
         /\ Append(q, x)[Len(q) + 1] = x
  OBVIOUS

LEMMA Removed ==
  ASSUME NEW S, NEW q \in Seq(S), q # <<>>
  PROVE  /\ Tail(q) \in Seq(S) /\ Head(q) \in S /\ Head(q) = q[1]
         /\ Len(q) \in Nat /\ Len(q) >= 1 /\ Len(Tail(q)) = Len(q) - 1
         /\ \A k \in 1..(Len(q) - 1) : Tail(q)[k] = q[k + 1] /\ q[k + 1] \in S
  OBVIOUS

LEMMA Joined ==
  ASSUME NEW S, NEW q \in Seq(S), NEW r \in Seq(S)
  PROVE  /\ q \o r \in Seq(S) /\ Len(q \o r) = Len(q) + Len(r)
         /\ Len(q) \in Nat /\ Len(r) \in Nat
         /\ \A k \in 1..Len(q) : (q \o r)[k] = q[k]
         /\ \A k \in 1..Len(r) : (q \o r)[Len(q) + k] = r[k]
  OBVIOUS

LEMMA Cut ==
  ASSUME NEW S, NEW q \in Seq(S), NEW i \in 1..(Len(q) + 1)
  PROVE  /\ SubSeq(q, i, Len(q)) \in Seq(S)
         /\ \A k \in 1..Len(SubSeq(q, i, Len(q))) :
              \E j \in 1..Len(q) : SubSeq(q, i, Len(q))[k] = q[j]
<1>1. PICK n \in Nat : n = Len(q) /\ DOMAIN q = 1..n
  OBVIOUS
<1>2. \A k \in i..n : q[k] \in S /\ i + 0 \in Int
  BY <1>1
<1>3. /\ SubSeq(q, i, n) \in Seq(S)
      /\ Len(SubSeq(q, i, n)) = IF i <= n THEN n - i + 1 ELSE 0
      /\ \A k \in 1..(n - i + 1) : SubSeq(q, i, n)[k] = q[i + k - 1]
  BY <1>1, <1>2, SubSeqProperties
<1>4. ASSUME NEW k \in 1..Len(SubSeq(q, i, n))
      PROVE  \E j \in 1..n : SubSeq(q, i, n)[k] = q[j]
  <2>1. i <= n /\ k \in 1..(n - i + 1)
    BY <1>1, <1>3
  <2>2. i + k - 1 \in 1..n
    BY <1>1, <2>1
  <2> QED
    BY <1>3, <2>1, <2>2
<1>5. Len(q) = n /\ SubSeq(q, i, Len(q)) = SubSeq(q, i, n)
  BY <1>1
<1>6. \A k \in 1..Len(SubSeq(q, i, n)) : \E j \in 1..n : SubSeq(q, i, n)[k] = q[j]
  BY <1>4
<1>7. SubSeq(q, i, Len(q)) \in Seq(S)
  BY <1>3, <1>5
<1> QED
  BY <1>5, <1>6, <1>7

LEMMA JoinedFrames ==
  ASSUME NEW q \in Seq(Frames), NEW r \in Seq(Frames)
  PROVE  /\ q \o r \in Seq(Frames) /\ Len(q \o r) = Len(q) + Len(r) /\ Len(q) \in Nat
         /\ \A k \in 1..Len(r) : (q \o r)[Len(q) + k] = r[k]
  OBVIOUS

\* What holds of the frames of two sequences holds of the frames of both.
LEMMA JoinedAll ==
  ASSUME NEW q \in Seq(Frames), NEW r \in Seq(Frames),
         \A k \in 1..Len(q) : q[k].journal = JournalId /\ q[k].seq <= Latest /\ q[k].type # "auth_ok",
         \A k \in 1..Len(r) : r[k].journal = JournalId /\ r[k].seq <= Latest /\ r[k].type # "auth_ok"
  PROVE  /\ q \o r \in Seq(Frames)
         /\ \A k \in 1..Len(q \o r) :
              /\ (q \o r)[k].journal = JournalId /\ (q \o r)[k].seq <= Latest
              /\ (q \o r)[k].type # "auth_ok"
<1> DEFINE Good(f) == f.journal = JournalId /\ f.seq <= Latest /\ f.type # "auth_ok"
           b == q \o r
<1>1. /\ b \in Seq(Frames) /\ Len(b) = Len(q) + Len(r)
      /\ Len(q) \in Nat /\ Len(r) \in Nat
      /\ \A k \in 1..Len(q) : b[k] = q[k]
      /\ \A k \in 1..Len(r) : b[Len(q) + k] = r[k]
  BY Joined
<1>2. /\ \A k \in 1..Len(q) : Good(q[k])
      /\ \A k \in 1..Len(r) : Good(r[k])
  OBVIOUS
<1> HIDE DEF Good, b
<1>3. ASSUME NEW k \in 1..Len(b) PROVE Good(b[k])
  <2>1. CASE k \in 1..Len(q)
    BY <1>1, <1>2, <2>1
  <2>2. CASE k \notin 1..Len(q)
    <3>1. k - Len(q) \in 1..Len(r) /\ k = Len(q) + (k - Len(q))
      BY <1>1, <2>2
    <3>2. b[k] = r[k - Len(q)]
      BY <1>1, <3>1
    <3> QED
      BY <1>2, <3>1, <3>2
  <2> QED
    BY <2>1, <2>2
<1> QED
  BY <1>1, <1>3 DEF Good, b

-----------------------------------------------------------------------------
(* Types                                                                    *)

LEMMA Numbers ==
  ASSUME TypeOK
  PROVE  /\ JournalId \in 1..MaxRestarts + 1 /\ Latest \in 0..MaxEvents
         /\ MaxEvents \in Nat /\ MaxRestarts \in Nat
         /\ Published \subseteq Events
         /\ \A n \in 1..MaxEvents : <<JournalId, n>> \in Published <=> n <= Latest
         /\ AuthOk \in Frames /\ Gap \in Frames /\ Complete \in Frames
         /\ \A n \in 0..MaxEvents : Event(JournalId, n) \in Frames
<1>1. JournalId \in 1..MaxRestarts + 1 /\ Latest \in 0..MaxEvents /\ MaxEvents \in Nat /\ MaxRestarts \in Nat
  BY ReplayAssumption DEF TypeOK, JournalId, Latest
<1>2. \A j \in 1..JournalId : j \in 1..MaxRestarts + 1
  BY <1>1
<1>3. \A j \in 1..JournalId : total[j] \in 0..MaxEvents
  BY Elements DEF TypeOK, JournalId
<1>4. \A e \in Published : e[1] \in 1..JournalId /\ e[2] \in 1..MaxEvents /\ e = <<e[1], e[2]>>
  BY DEF Published
<1>5. Published \subseteq Events
  BY <1>2, <1>4 DEF Events
<1>6. ASSUME NEW n \in 1..MaxEvents
      PROVE  <<JournalId, n>> \in Published <=> n <= Latest
  BY <1>1 DEF Published, Latest
<1>7. AuthOk \in Frames /\ Gap \in Frames /\ Complete \in Frames
  BY <1>1 DEF AuthOk, Gap, Complete, Frames, FrameTypes
<1>8. \A n \in 0..MaxEvents : Event(JournalId, n) \in Frames
  BY <1>1 DEF Event, Frames, FrameTypes
<1> QED
  BY <1>1, <1>5, <1>6, <1>7, <1>8

\* What replayProviderEvents puts on the wire: frames of the running journal that
\* end with a frame that is no event.
Answer(r) ==
  /\ r \in Seq(Frames) /\ Len(r) \in Nat /\ Len(r) >= 1
  /\ inbox' = inbox \o r
  /\ \A k \in 1..Len(r) : /\ r[k].journal = JournalId /\ r[k].seq <= Latest
                          /\ r[k].type # "auth_ok"
  /\ r[Len(r)].type # "provider.runtimeEvent"

LEMMA Answered ==
  ASSUME TypeOK, Wire, NEW j, NEW after, ReplayProviderEvents(j, after)
  PROVE  /\ \E r : Answer(r)
         /\ delivered' \in 0..MaxEvents /\ ready' = TRUE /\ timer' = FALSE
<1> DEFINE changed == j # JournalId
           from == IF changed THEN 0 ELSE after
           earliest == IF kept = <<>> THEN Latest + 1 ELSE Head(kept)
           start == IF from > delivered THEN from ELSE delivered
           gap == IF changed \/ from + 1 < earliest \/ unavailable > from THEN <<Gap>> ELSE <<>>
           rest(i) == [k \in 1..Len(kept) - i |-> Event(JournalId, kept[k + i])]
<1>1. PICK i \in 0..Len(kept) :
        /\ inbox' = inbox \o (gap \o rest(i) \o <<Complete>>)
        /\ delivered' = IF i < Len(kept) THEN kept[Len(kept)] ELSE delivered
        /\ ready' = TRUE /\ timer' = FALSE
  BY Zenon DEF ReplayProviderEvents
<1>2. PICK n \in Nat : n = Len(kept) /\ \A k \in 1..n : kept[k] \in 1..MaxEvents /\ kept[k] <= Latest
  BY Elements DEF TypeOK, Wire
<1>3. i \in 0..n
  BY <1>1, <1>2
<1>4. delivered' \in 0..MaxEvents
  <2>1. i < n => kept[n] \in 1..MaxEvents
    BY <1>2, <1>3
  <2>2. 1..MaxEvents \subseteq 0..MaxEvents
    BY Numbers
  <2> QED
    BY <1>1, <1>2, <2>1, <2>2 DEF TypeOK
<1>5. rest(i) = [k \in 1..n - i |-> Event(JournalId, kept[k + i])]
  BY <1>2
<1>6. \A k \in 1..n - i : /\ Event(JournalId, kept[k + i]) \in Frames
                          /\ kept[k + i] <= Latest
  BY <1>2, <1>3, Numbers
<1>7. rest(i) \in Seq(Frames) /\ Len(rest(i)) = n - i
  BY <1>3, <1>5, <1>6
<1>8. \A k \in 1..Len(rest(i)) :
        rest(i)[k].journal = JournalId /\ rest(i)[k].seq <= Latest /\ rest(i)[k].type # "auth_ok"
  BY <1>5, <1>6, <1>7 DEF Event
<1>9. /\ gap \in Seq(Frames)
      /\ \A k \in 1..Len(gap) :
           gap[k].journal = JournalId /\ gap[k].seq <= Latest /\ gap[k].type # "auth_ok"
  BY Numbers DEF Gap
<1>10. /\ <<Complete>> \in Seq(Frames) /\ Len(<<Complete>>) = 1 /\ <<Complete>>[1] = Complete
       /\ Complete.journal = JournalId /\ Complete.seq <= Latest
       /\ Complete.type = "provider_replay_complete"
  BY Numbers DEF Complete
<1> HIDE DEF gap, rest
<1> DEFINE head == gap \o rest(i)
<1>11. /\ head \in Seq(Frames)
       /\ \A k \in 1..Len(head) :
            head[k].journal = JournalId /\ head[k].seq <= Latest /\ head[k].type # "auth_ok"
  BY <1>7, <1>8, <1>9, JoinedAll
<1> HIDE DEF head
<1> DEFINE end == <<Complete>>
           all == head \o end
<1>12. /\ all \in Seq(Frames) /\ Len(all) = Len(head) + 1 /\ Len(head) \in Nat
       /\ \A k \in 1..Len(all) :
            all[k].journal = JournalId /\ all[k].seq <= Latest /\ all[k].type # "auth_ok"
       /\ all[Len(head) + 1] = Complete
  <2>1. end \in Seq(Frames) /\ Len(end) = 1 /\ end[1] = Complete
    BY <1>10
  <2>2. \A k \in 1..Len(end) :
          end[k].journal = JournalId /\ end[k].seq <= Latest /\ end[k].type # "auth_ok"
    <3>1. Complete.type # "auth_ok"
      BY <1>10
    <3>2. \A k \in 1..Len(end) : end[k] = Complete
      BY <2>1
    <3> QED
      BY <1>10, <3>1, <3>2
  <2> HIDE DEF end
  <2>3. head \in Seq(Frames) /\ end \in Seq(Frames)
    BY <1>11, <2>1
  <2>4. /\ all \in Seq(Frames) /\ Len(all) = Len(head) + Len(end) /\ Len(head) \in Nat
        /\ \A k \in 1..Len(end) : all[Len(head) + k] = end[k]
    BY <2>3, JoinedFrames
  <2>5. \A k \in 1..Len(all) :
          all[k].journal = JournalId /\ all[k].seq <= Latest /\ all[k].type # "auth_ok"
    BY <2>2, <2>3, <1>11, JoinedAll, Zenon
  <2> HIDE DEF all
  <2>6. all[Len(head) + 1] = Complete
    BY <2>1, <2>4
  <2> QED
    BY <2>1, <2>4, <2>5, <2>6
<1>13. inbox' = inbox \o all
  BY <1>1 DEF head
<1> HIDE DEF all
<1>14. Answer(all)
  <2>1. Len(all) \in Nat /\ Len(all) >= 1 /\ all[Len(all)] = Complete
    BY <1>12
  <2> QED
    BY <1>10, <1>12, <1>13, <2>1 DEF Answer
<1> QED
  BY <1>1, <1>4, <1>14

\* A hub that may publish has a number left.
LEMMA NumberLeft ==
  ASSUME TypeOK, Cardinality(Published) < MaxEvents
  PROVE  Latest + 1 \in 1..MaxEvents
<1> DEFINE f == [n \in 1..Latest |-> <<JournalId, n>>]
<1>1. f \in Injection(1..Latest, Published)
  <2>1. \A n \in 1..Latest : f[n] \in Published
    BY Numbers
  <2>2. \A m, n \in 1..Latest : f[m] = f[n] => m = n
    OBVIOUS
  <2>3. f \in [1..Latest -> Published]
    BY <2>1
  <2> QED
    BY <2>2, <2>3 DEF Injection, IsInjective
<1>2. IsFiniteSet(Events)
  <2>1. 1 \in Int /\ MaxEvents \in Int /\ MaxRestarts + 1 \in Int
    BY Numbers
  <2>2. IsFiniteSet(1..MaxRestarts + 1) /\ IsFiniteSet(1..MaxEvents)
    BY <2>1, FS_Interval
  <2> QED
    BY <2>2, FS_Product DEF Events
<1>3. IsFiniteSet(Published)
  BY <1>2, Numbers, FS_Subset
<1>4. Cardinality(1..Latest) <= Cardinality(Published)
  BY <1>1, <1>3, FS_Injection
<1>5. Cardinality(1..Latest) = Latest
  BY Numbers, FS_Interval
<1>6. Cardinality(Published) \in Nat
  BY <1>3, FS_CardinalityType
<1> QED
  BY <1>4, <1>5, <1>6, Numbers

\* A new number is the running journal's next.
LEMMA OneMore ==
  ASSUME TypeOK, Cardinality(Published) < MaxEvents,
         total' = [total EXCEPT ![JournalId] = Latest + 1]
  PROVE  /\ total' \in Seq(0..MaxEvents) /\ Len(total') = Len(total)
         /\ JournalId' = JournalId /\ Latest' = Latest + 1
         /\ Published' = Published \cup {<<JournalId, Latest + 1>>}
<1>1. Latest + 1 \in 1..MaxEvents
  BY NumberLeft
<1>2. PICK n \in Nat : n = Len(total) /\ n >= 1 /\ \A j \in 1..n : total[j] \in 0..MaxEvents
  <2>1. total \in Seq(0..MaxEvents)
    BY DEF TypeOK
  <2>2. Len(total) \in Nat /\ Len(total) >= 1
    BY Numbers DEF JournalId
  <2>3. \A j \in 1..Len(total) : total[j] \in 0..MaxEvents
    BY <2>1, Elements
  <2> QED
    BY <2>2, <2>3
<1>3. JournalId = n /\ Latest = total[n]
  BY <1>2 DEF JournalId, Latest
<1>4. /\ total' \in Seq(0..MaxEvents) /\ Len(total') = n /\ total'[n] = Latest + 1
      /\ \A j \in 1..n : j # n => total'[j] = total[j]
  BY <1>1, <1>2, <1>3, ExceptSeq DEF TypeOK
<1>5. total' \in Seq(0..MaxEvents) /\ Len(total') = n
  BY <1>4
<1>6. JournalId' = n /\ Latest' = Latest + 1
  BY <1>4, <1>5 DEF JournalId, Latest
<1>7. Published = {e \in (1..n) \X (1..MaxEvents) : e[2] <= total[e[1]]}
  BY <1>3 DEF Published
<1>8. Published' = {e \in (1..n) \X (1..MaxEvents) : e[2] <= total'[e[1]]}
  BY <1>6 DEF Published
<1>9. ASSUME NEW j \in 1..n, NEW m \in 1..MaxEvents
      PROVE  m <= total'[j] <=> m <= total[j] \/ (j = n /\ m = Latest + 1)
  BY <1>2, <1>3, <1>4
<1>10. \A e \in (1..n) \X (1..MaxEvents) : e \in Published' <=> e \in Published \/ e = <<n, Latest + 1>>
  <2> SUFFICES ASSUME NEW j \in 1..n, NEW m \in 1..MaxEvents
               PROVE  <<j, m>> \in Published' <=> <<j, m>> \in Published \/ <<j, m>> = <<n, Latest + 1>>
    OBVIOUS
  <2> QED
    BY <1>7, <1>8, <1>9
<1>11. <<n, Latest + 1>> \in (1..n) \X (1..MaxEvents)
  BY <1>1, <1>2
<1>12. Published' = Published \cup {<<n, Latest + 1>>}
  BY <1>7, <1>8, <1>10, <1>11, Zenon
<1> QED
  BY <1>2, <1>3, <1>5, <1>6, <1>12

\* A restart begins an empty journal.
LEMMA Restarted ==
  ASSUME TypeOK, total' = Append(total, 0)
  PROVE  /\ total' \in Seq(0..MaxEvents) /\ Len(total') = Len(total) + 1
         /\ JournalId' = JournalId + 1 /\ Latest' = 0
         /\ Published' = Published
<1>1. PICK n \in Nat : n = Len(total) /\ n >= 1 /\ \A j \in 1..n : total[j] \in 0..MaxEvents
  <2>1. total \in Seq(0..MaxEvents)
    BY DEF TypeOK
  <2>2. Len(total) \in Nat /\ Len(total) >= 1
    BY Numbers DEF JournalId
  <2>3. \A j \in 1..Len(total) : total[j] \in 0..MaxEvents
    BY <2>1, Elements
  <2> QED
    BY <2>2, <2>3
<1>2. 0 \in 0..MaxEvents
  BY Numbers
<1>3. /\ total' \in Seq(0..MaxEvents) /\ Len(total') = n + 1 /\ total'[n + 1] = 0
      /\ \A j \in 1..n : total'[j] = total[j]
  BY <1>1, <1>2, Appended DEF TypeOK
<1>4. JournalId' = n + 1 /\ JournalId = n /\ Latest' = 0
  BY <1>1, <1>3 DEF JournalId, Latest
<1>5. Published = {e \in (1..n) \X (1..MaxEvents) : e[2] <= total[e[1]]}
  BY <1>4 DEF Published
<1>6. Published' = {e \in (1..n + 1) \X (1..MaxEvents) : e[2] <= total'[e[1]]}
  BY <1>4 DEF Published
<1>7. ASSUME NEW j \in 1..n + 1, NEW m \in 1..MaxEvents
      PROVE  m <= total'[j] <=> j \in 1..n /\ m <= total[j]
  BY <1>1, <1>3
<1> QED
  BY <1>1, <1>3, <1>4, <1>5, <1>6, <1>7

-----------------------------------------------------------------------------
(* Types                                                                    *)

\* The first frame is taken off the wire.
LEMMA Taken ==
  ASSUME TypeOK, inbox # <<>>, inbox' = Tail(inbox)
  PROVE  /\ inbox' \in Seq(Frames) /\ Head(inbox) \in Frames /\ Head(inbox) = inbox[1]
         /\ Len(inbox) \in Nat /\ Len(inbox) >= 1 /\ Len(inbox') = Len(inbox) - 1
         /\ \A k \in 1..(Len(inbox) - 1) : inbox'[k] = inbox[k + 1]
  BY Removed DEF TypeOK

LEMMA EventTaken ==
  ASSUME TypeOK, NEW f, EventFrame(f)
  PROVE  /\ inbox # <<>> /\ inbox' = Tail(inbox)
         /\ f = inbox[1] /\ f \in Frames /\ f.type = "provider.runtimeEvent"
         /\ journal' = f.journal
         /\ f.journal \in 1..MaxRestarts + 1 /\ f.seq \in 0..MaxEvents
         /\ Base(f) \in 0..MaxEvents
         /\ f.seq > Base(f) => <<f.journal, f.seq>> \in Events
<1>1. /\ inbox # <<>> /\ inbox' = Tail(inbox) /\ f = Head(inbox)
      /\ f.type = "provider.runtimeEvent" /\ journal' = f.journal
  BY DEF EventFrame
<1>2. f = inbox[1] /\ f \in Frames
  BY <1>1, Taken
<1>3. f.journal \in 1..MaxRestarts + 1 /\ f.seq \in 0..MaxEvents
  BY <1>2 DEF Frames
<1>4. Base(f) \in 0..MaxEvents
  BY Numbers DEF Base, TypeOK
<1>5. f.seq > Base(f) => f.seq \in 1..MaxEvents
  BY <1>3, <1>4, Numbers
<1> QED
  BY <1>1, <1>2, <1>3, <1>4, <1>5 DEF Events

\* What throws is the event's handler, or the gap's for all that it left out.
LEMMA ThrewEvents ==
  ASSUME TypeOK, NEW f, EventFrame(f), f.seq > Base(f), Threw(f)
  PROVE  failed' \subseteq failed \cup Events
<1>1. /\ f.journal \in 1..MaxRestarts + 1 /\ f.seq \in 0..MaxEvents
      /\ Base(f) \in 0..MaxEvents /\ <<f.journal, f.seq>> \in Events
  BY EventTaken
<1>2. ASSUME NEW n \in Base(f) + 1..f.seq PROVE <<f.journal, n>> \in Events
  <2>1. n \in 1..MaxEvents
    BY <1>1, <1>2, ReplayAssumption
  <2> QED
    BY <1>1, <2>1 DEF Events
<1> QED
  BY <1>1, <1>2 DEF Threw

\* The Booleans of TypeOK, and the rest of it.
Flags ==
  /\ up \in BOOLEAN /\ ready \in BOOLEAN /\ timer \in BOOLEAN
  /\ announced \in BOOLEAN /\ owed \in BOOLEAN
Data ==
  /\ total \in Seq(0..MaxEvents) /\ Len(total) \in 1..MaxRestarts + 1
  /\ kept \in Seq(1..MaxEvents) /\ unavailable \in 0..MaxEvents
  /\ delivered \in 0..MaxEvents /\ authAt \in 0..MaxEvents
  /\ request \subseteq [journal : 1..MaxRestarts + 1, after : 0..MaxEvents]
  /\ inbox \in Seq(Frames)
  /\ journal \in 0..MaxRestarts + 1 /\ last \in 0..MaxEvents
  /\ applied \in Seq(Events) /\ excused \subseteq Events
  /\ failed \subseteq Events /\ lost \subseteq Events
  /\ drops \in 0..MaxDrops /\ throws \in 0..MaxThrows

LEMMA TypeParts ==
  /\ TypeOK <=> Flags /\ Data
  /\ TypeOK' <=> Flags' /\ Data'
  BY Zenon DEF TypeOK, Flags, Data

LEMMA TypeInductive ==
  TypeOK /\ Wire /\ [Next]_vars => TypeOK'
<1> SUFFICES ASSUME TypeOK, Wire, [Next]_vars PROVE TypeOK'
  OBVIOUS
<1> USE Numbers, ReplayAssumption
<1>1. CASE Publish
  <2>1. /\ total' \in Seq(0..MaxEvents) /\ Len(total') = Len(total)
        /\ Latest + 1 \in 1..MaxEvents
    BY <1>1, OneMore, NumberLeft DEF Publish
  <2>2. kept' \in Seq(1..MaxEvents)
    <3> DEFINE all == Append(kept, Latest + 1)
    <3>1. all \in Seq(1..MaxEvents)
      BY <2>1, Appended DEF TypeOK
    <3>2. PICK i \in 1..Len(all) + 1 : kept' = SubSeq(all, i, Len(all))
      BY <1>1 DEF Publish
    <3> HIDE DEF all
    <3> QED
      BY <3>1, <3>2, Cut
  <2>3. inbox' \in Seq(Frames) /\ delivered' \in 0..MaxEvents
    <3>1. Event(JournalId, Latest + 1) \in Frames
      BY <2>1
    <3>2. CASE up /\ ready
      <4>1. inbox' = Append(inbox, Event(JournalId, Latest + 1)) /\ delivered' = Latest + 1
        BY <1>1, <3>2 DEF Publish
      <4>2. inbox' \in Seq(Frames)
        BY <3>1, <4>1, Appended DEF TypeOK
      <4> QED
        BY <2>1, <4>1, <4>2
    <3>3. CASE ~(up /\ ready)
      BY <1>1, <3>3 DEF Publish, TypeOK
    <3> QED
      BY <3>2, <3>3
  <2>8. Data'
    BY <1>1, <2>1, <2>2, <2>3 DEF Publish, Data, TypeOK, cursor, history, budget
  <2>9. Flags'
    BY <1>1, <2>1, <2>2, <2>3, Zenon DEF Publish, Flags, TypeOK, Told, cursor, history, budget
  <2> QED
    BY <2>8, <2>9, TypeParts
<1>2. CASE PublishOversized
  <2>1. /\ total' \in Seq(0..MaxEvents) /\ Len(total') = Len(total)
        /\ Latest + 1 \in 1..MaxEvents
    BY <1>2, OneMore, NumberLeft DEF PublishOversized
  <2>2. inbox' \in Seq(Frames)
    BY <1>2, Appended DEF PublishOversized, TypeOK
  <2>8. Data'
    BY <1>2, <2>1, <2>2 DEF PublishOversized, Data, TypeOK, link, cursor, history, budget
  <2>9. Flags'
    BY <1>2, <2>1, <2>2, Zenon DEF PublishOversized, Flags, TypeOK, Told, link, cursor, history, budget
  <2> QED
    BY <2>8, <2>9, TypeParts
<1>3. CASE Connect
  <2>1. inbox' \in Seq(Frames)
    BY <1>3 DEF Connect
  <2>8. Data'
    BY <1>3, <2>1 DEF Connect, Data, TypeOK, hub, cursor, history, budget
  <2>9. Flags'
    BY <1>3, <2>1, Zenon DEF Connect, Flags, TypeOK, Told, hub, cursor, history, budget
  <2> QED
    BY <2>8, <2>9, TypeParts
<1>4. CASE Requested
  <2>1. PICK r \in request : ReplayProviderEvents(r.journal, r.after)
    BY <1>4 DEF Requested
  <2>2. delivered' \in 0..MaxEvents /\ ready' = TRUE /\ timer' = FALSE /\ \E q : Answer(q)
    BY <2>1, Answered
  <2>3. inbox' \in Seq(Frames)
    BY <2>2, Joined DEF Answer, TypeOK
  <2>8. Data'
    BY <1>4, <2>2, <2>3 DEF Requested, Data, TypeOK, hub, cursor, history, budget
  <2>9. Flags'
    BY <1>4, <2>2, <2>3, Zenon DEF Requested, Flags, TypeOK, Told, hub, cursor, history, budget
  <2> QED
    BY <2>8, <2>9, TypeParts
<1>5. CASE ReplayTimer
  <2>1. delivered' \in 0..MaxEvents /\ ready' = TRUE /\ timer' = FALSE /\ \E q : Answer(q)
    BY <1>5, Answered DEF ReplayTimer
  <2>2. inbox' \in Seq(Frames)
    BY <2>1, Joined DEF Answer, TypeOK
  <2>8. Data'
    BY <1>5, <2>1, <2>2 DEF ReplayTimer, Data, TypeOK, hub, cursor, history, budget
  <2>9. Flags'
    BY <1>5, <2>1, <2>2, Zenon DEF ReplayTimer, Flags, TypeOK, Told, hub, cursor, history, budget
  <2> QED
    BY <2>8, <2>9, TypeParts
<1>6. CASE Negotiate
  <2> DEFINE f == Head(inbox)
  <2>1. inbox' \in Seq(Frames) /\ f \in Frames
    BY <1>6, Taken DEF Negotiate
  <2>2. f.journal \in 1..MaxRestarts + 1
    BY <2>1 DEF Frames
  <2>3. excused' \subseteq Events
    BY <1>6 DEF Negotiate, Starts, TypeOK
  <2>4. /\ request' \subseteq [journal : 1..MaxRestarts + 1, after : 0..MaxEvents]
        /\ last' \in 0..MaxEvents /\ journal' = f.journal /\ announced' = FALSE
    BY <1>6, <2>2 DEF Negotiate, TypeOK, None
  <2>8. Data'
    BY <1>6, <2>1, <2>2, <2>3, <2>4 DEF Negotiate, Data, TypeOK, hub, link, budget
  <2>9. Flags'
    BY <1>6, <2>1, <2>2, <2>3, <2>4, Zenon DEF Negotiate, Flags, TypeOK, Told, hub, link, budget
  <2> QED
    BY <2>8, <2>9, TypeParts
<1>7. CASE DeliverGap
  <2>1. inbox' \in Seq(Frames)
    BY <1>7, Taken DEF DeliverGap
  <2>8. Data'
    BY <1>7, <2>1 DEF DeliverGap, Told, Data, TypeOK, hub, link, budget
  <2>9. Flags'
    BY <1>7, <2>1, Zenon DEF DeliverGap, Told, Flags, TypeOK, hub, link, budget
  <2> QED
    BY <2>8, <2>9, TypeParts
<1>14. CASE GapHandlerThrows
  <2>1. inbox' \in Seq(Frames)
    BY <1>14, Taken DEF GapHandlerThrows
  <2>2. lost' \subseteq Events
    BY <1>14 DEF GapHandlerThrows, TypeOK
  <2>3. throws' \in 0..MaxThrows
    BY <1>14, ReplayAssumption DEF GapHandlerThrows, TypeOK
  <2>8. Data'
    BY <1>14, <2>1, <2>2, <2>3 DEF GapHandlerThrows, Data, TypeOK, hub, link
  <2>9. Flags'
    BY <1>14, Zenon DEF GapHandlerThrows, Flags, TypeOK, hub, link
  <2> QED
    BY <2>8, <2>9, TypeParts
<1>8. CASE DeliverComplete
  <2>1. inbox' \in Seq(Frames)
    BY <1>8, Taken DEF DeliverComplete
  <2>8. Data'
    BY <1>8, <2>1 DEF DeliverComplete, Data, TypeOK, hub, link, budget, history
  <2>9. Flags'
    BY <1>8, <2>1, Zenon DEF DeliverComplete, Flags, TypeOK, Told, hub, link, budget, history
  <2> QED
    BY <2>8, <2>9, TypeParts
<1>9. CASE DeliverEvent
  <2>1. PICK f : /\ EventFrame(f)
                 /\ IF f.seq <= Base(f)
                      THEN last' = Base(f) /\ UNCHANGED <<announced, applied, excused, owed>>
                      ELSE /\ last' = f.seq
                           /\ announced' = FALSE
                           /\ applied' = Append(applied, <<f.journal, f.seq>>)
                           /\ IF Hole(f) THEN Told ELSE UNCHANGED <<excused, owed>>
                 /\ UNCHANGED <<hub, link, request, failed, lost, budget>>
    BY <1>9, Zenon DEF DeliverEvent
  <2>2. inbox' \in Seq(Frames)
    BY <2>1, EventTaken, Taken
  <2>3. journal' \in 0..MaxRestarts + 1 /\ last' \in 0..MaxEvents
    <3>1. journal' = f.journal /\ (last' = Base(f) \/ last' = f.seq)
      BY <2>1, EventTaken, Zenon
    <3>2. /\ f.journal \in 1..MaxRestarts + 1 /\ f.seq \in 0..MaxEvents
          /\ Base(f) \in 0..MaxEvents
      BY <2>1, EventTaken, Zenon
    <3> QED
      BY <3>1, <3>2
  <2>5. excused' \subseteq Events
    BY <2>1 DEF TypeOK, Told
  <2>4. applied' \in Seq(Events)
    <3>1. CASE f.seq <= Base(f)
      BY <2>1, <3>1 DEF TypeOK
    <3>2. CASE ~(f.seq <= Base(f))
      <4>1. <<f.journal, f.seq>> \in Events
        <5>1. f.seq \in 0..MaxEvents /\ Base(f) \in 0..MaxEvents
          BY <2>1, EventTaken, Zenon
        <5>2. f.seq > Base(f)
          BY <3>2, <5>1
        <5> QED
          BY <2>1, <5>2, EventTaken, Zenon
      <4> QED
        <5>1. applied' = Append(applied, <<f.journal, f.seq>>)
          BY <2>1, <3>2, Zenon
        <5> QED
          BY <4>1, <5>1, Appended DEF TypeOK
    <3> QED
      BY <3>1, <3>2
  <2>8. Data'
    BY <2>1, <2>2, <2>3, <2>4, <2>5 DEF Data, TypeOK, hub, link, budget
  <2>9. Flags'
    BY <2>1, <2>2, <2>3, <2>4, <2>5, Zenon DEF Flags, TypeOK, Told, hub, link, budget
  <2> QED
    BY <2>8, <2>9, TypeParts
<1>10. CASE EventHandlerThrows
  <2>1. PICK f : /\ EventFrame(f) /\ f.seq > Base(f)
                 /\ last' = Base(f)
                 /\ Threw(f)
                 /\ lost' = IF announced THEN lost \cup {<<f.journal, f.seq>>} ELSE lost
    BY <1>10, Zenon DEF EventHandlerThrows
  <2>2. inbox' \in Seq(Frames)
    BY <2>1, EventTaken, Taken
  <2>3. /\ journal' \in 0..MaxRestarts + 1 /\ last' \in 0..MaxEvents
        /\ <<f.journal, f.seq>> \in Events
    BY <2>1, EventTaken
  <2>4. excused' \subseteq Events /\ lost' \subseteq Events
    BY <2>1, <2>3 DEF TypeOK, Told, Threw
  <2>5. failed' \subseteq Events
    BY <2>1, ThrewEvents DEF TypeOK
  <2>8. Data'
    <3>1. throws' \in 0..MaxThrows
      BY <1>10, ReplayAssumption DEF EventHandlerThrows, TypeOK
    <3>2. UNCHANGED <<hub, link, request, applied, drops>>
      BY <1>10 DEF EventHandlerThrows
    <3> QED
      BY <2>2, <2>3, <2>4, <2>5, <3>1, <3>2 DEF Data, TypeOK, hub, link
  <2>9. Flags'
    BY <1>10, <2>1, <2>2, <2>3, <2>4, Zenon DEF EventHandlerThrows, Flags, TypeOK, Told, Threw, hub, link
  <2> QED
    BY <2>8, <2>9, TypeParts
<1>11. CASE Disconnect
  <2>1. lost' \subseteq Events
    BY <1>11 DEF Disconnect, Unannounced, TypeOK
  <2>8. Data'
    BY <1>11, <2>1 DEF Disconnect, Data, TypeOK, hub, cursor
  <2>9. Flags'
    BY <1>11, <2>1, Zenon DEF Disconnect, Flags, TypeOK, Told, hub, cursor
  <2> QED
    BY <2>8, <2>9, TypeParts
<1>12. CASE Restart
  <2>1. lost' \subseteq Events
    BY <1>12 DEF Restart, Unannounced, TypeOK
  <2>2. total' \in Seq(0..MaxEvents) /\ Len(total') \in 1..MaxRestarts + 1
    BY <1>12, Restarted DEF Restart, JournalId
  <2>8. Data'
    BY <1>12, <2>1, <2>2 DEF Restart, Data, TypeOK, cursor, budget
  <2>9. Flags'
    BY <1>12, <2>1, <2>2, Zenon DEF Restart, Flags, TypeOK, Told, cursor, budget
  <2> QED
    BY <2>8, <2>9, TypeParts
<1>13. CASE UNCHANGED vars
  BY <1>13 DEF TypeOK, vars, hub, link, wire, cursor, history, budget
<1> QED
  BY <1>1, <1>2, <1>3, <1>4, <1>5, <1>6, <1>7, <1>8, <1>9, <1>10, <1>11, <1>12, <1>13, <1>14, Zenon DEF Next

-----------------------------------------------------------------------------
(* The wire                                                                 *)

LEMMA OnWire ==
  ASSUME TypeOK
  PROVE  /\ Len(inbox) \in Nat /\ Len(kept) \in Nat
         /\ \A k \in 1..Len(inbox) : inbox[k] \in Frames /\ inbox[k].seq \in Nat
         /\ \A k \in 1..Len(kept) : kept[k] \in 1..MaxEvents /\ kept[k] \in Nat
<1>1. inbox \in Seq(Frames) /\ kept \in Seq(1..MaxEvents)
  BY DEF TypeOK
<1>2. \A x \in Frames : x.seq \in Nat
  BY Numbers DEF Frames
<1>3. \A n \in 1..MaxEvents : n \in Nat
  BY Numbers
<1>4. Len(inbox) \in Nat /\ \A k \in 1..Len(inbox) : inbox[k] \in Frames
  BY <1>1, Elements
<1>5. Len(kept) \in Nat /\ \A k \in 1..Len(kept) : kept[k] \in 1..MaxEvents
  BY <1>1, Elements
<1> QED
  BY <1>2, <1>3, <1>4, <1>5

\* Frames of the running journal put on the wire leave it in order.
LEMMA FramesSent ==
  ASSUME TypeOK, Wire, Latest' \in Nat, Latest <= Latest', JournalId' = JournalId,
         NEW r \in Seq(Frames), inbox' = inbox \o r,
         \A k \in 1..Len(r) : /\ r[k].journal = JournalId /\ r[k].seq <= Latest'
                              /\ r[k].type # "auth_ok"
  PROVE  \A k \in 1..Len(inbox') : /\ inbox'[k].journal = JournalId' /\ inbox'[k].seq <= Latest'
                                   /\ inbox'[k].type = "auth_ok" => k = 1
<1>1. inbox \in Seq(Frames)
  BY DEF TypeOK
<1>2. /\ Len(inbox') = Len(inbox) + Len(r) /\ Len(inbox) \in Nat /\ Len(r) \in Nat
      /\ \A k \in 1..Len(inbox) : inbox'[k] = inbox[k]
      /\ \A k \in 1..Len(r) : inbox'[Len(inbox) + k] = r[k]
  BY <1>1, Joined
<1>3. \A k \in 1..Len(inbox) : inbox[k].seq \in Nat
  BY OnWire
<1> SUFFICES ASSUME NEW k \in 1..Len(inbox')
             PROVE  /\ inbox'[k].journal = JournalId' /\ inbox'[k].seq <= Latest'
                    /\ inbox'[k].type = "auth_ok" => k = 1
  OBVIOUS
<1>4. CASE k \in 1..Len(inbox)
  BY <1>2, <1>3, <1>4, Numbers DEF Wire
<1>5. CASE k \notin 1..Len(inbox)
  <2>1. k - Len(inbox) \in 1..Len(r) /\ k = Len(inbox) + (k - Len(inbox))
    BY <1>2, <1>5
  <2>2. inbox'[k] = r[k - Len(inbox)]
    BY <1>2, <2>1
  <2> QED
    BY <2>1, <2>2
<1> QED
  BY <1>4, <1>5

\* One frame at the end.
LEMMA FrameSent ==
  ASSUME TypeOK, Wire, Latest' \in Nat, Latest <= Latest', JournalId' = JournalId,
         NEW x \in Frames, inbox' = Append(inbox, x),
         x.journal = JournalId, x.seq <= Latest', x.type # "auth_ok"
  PROVE  \A k \in 1..Len(inbox') : /\ inbox'[k].journal = JournalId' /\ inbox'[k].seq <= Latest'
                                   /\ inbox'[k].type = "auth_ok" => k = 1
<1>1. /\ Len(inbox') = Len(inbox) + 1 /\ Len(inbox) \in Nat
      /\ \A k \in 1..Len(inbox) : inbox'[k] = inbox[k] /\ inbox[k] \in Frames
      /\ inbox'[Len(inbox) + 1] = x
  BY Appended DEF TypeOK
<1>2. \A k \in 1..Len(inbox) : inbox[k].seq \in Nat
  BY OnWire
<1> QED
  BY <1>1, <1>2, Numbers DEF Wire

\* The first frame off the wire.
LEMMA FrameTaken ==
  ASSUME TypeOK, Wire, inbox # <<>>, inbox' = Tail(inbox), JournalId' = JournalId, Latest' = Latest
  PROVE  \A k \in 1..Len(inbox') : /\ inbox'[k].journal = JournalId' /\ inbox'[k].seq <= Latest'
                                   /\ inbox'[k].type # "auth_ok"
  BY Taken DEF Wire

LEMMA SameHub ==
  ASSUME TypeOK, total' = total
  PROVE  JournalId' = JournalId /\ Latest' = Latest /\ Published' = Published
  BY DEF JournalId, Latest, Published

LEMMA WireInductive ==
  TypeOK /\ Wire /\ [Next]_vars => Wire'
<1> SUFFICES ASSUME TypeOK, Wire, [Next]_vars PROVE Wire'
  OBVIOUS
<1> USE Numbers
<1>1. CASE Publish
  <2>1. JournalId' = JournalId /\ Latest' = Latest + 1 /\ Latest + 1 \in 1..MaxEvents
    BY <1>1, OneMore, NumberLeft DEF Publish
  <2>2. \A k \in 1..Len(kept') : kept'[k] <= Latest'
    <3> DEFINE all == Append(kept, Latest + 1)
    <3>1. /\ all \in Seq(1..MaxEvents) /\ Len(all) = Len(kept) + 1 /\ Len(kept) \in Nat
          /\ \A k \in 1..Len(kept) : all[k] = kept[k] /\ kept[k] \in 1..MaxEvents
          /\ all[Len(kept) + 1] = Latest + 1
      <4>1. kept \in Seq(1..MaxEvents)
        BY DEF TypeOK
      <4> QED
        BY <2>1, <4>1, Appended, OnWire
    <3>2. \A k \in 1..Len(all) : all[k] <= Latest + 1
      <4>1. \A k \in 1..Len(kept) : kept[k] <= Latest /\ kept[k] \in Nat
        BY OnWire DEF Wire
      <4>2. Latest \in Nat
        OBVIOUS
      <4> HIDE Numbers DEF all
      <4> SUFFICES ASSUME NEW k \in 1..Len(all) PROVE all[k] <= Latest + 1
        OBVIOUS
      <4>3. CASE k \in 1..Len(kept)
        BY <3>1, <4>1, <4>2, <4>3
      <4>4. CASE k = Len(kept) + 1
        BY <3>1, <4>2, <4>4
      <4> QED
        BY <3>1, <4>3, <4>4
    <3>3. PICK i \in 1..Len(all) + 1 : kept' = SubSeq(all, i, Len(all))
      BY <1>1 DEF Publish
    <3> HIDE DEF all
    <3>4. \A k \in 1..Len(kept') : \E j \in 1..Len(all) : kept'[k] = all[j]
      BY <3>1, <3>3, Cut
    <3> QED
      BY <2>1, <3>2, <3>4
  <2>3. CASE up /\ ready
    <3>1. inbox' = Append(inbox, Event(JournalId, Latest + 1)) /\ up'
      BY <1>1, <2>3 DEF Publish
    <3>2. /\ Event(JournalId, Latest + 1) \in Frames
          /\ Event(JournalId, Latest + 1).journal = JournalId
          /\ Event(JournalId, Latest + 1).seq = Latest + 1
          /\ Event(JournalId, Latest + 1).type # "auth_ok"
      BY <2>1 DEF Event
    <3>3. \A k \in 1..Len(inbox') : /\ inbox'[k].journal = JournalId' /\ inbox'[k].seq <= Latest'
                                    /\ inbox'[k].type = "auth_ok" => k = 1
      <4>1. Latest' \in Nat /\ Latest <= Latest'
        BY <2>1
      <4>2. PICK x \in Frames : x = Event(JournalId, Latest + 1)
        BY <3>2
      <4>3. /\ inbox' = Append(inbox, x) /\ x.journal = JournalId
            /\ x.seq <= Latest' /\ x.type # "auth_ok"
        BY <2>1, <3>1, <3>2, <4>1, <4>2
      <4>4. JournalId' = JournalId
        BY <2>1
      <4> QED
        BY <4>1, <4>2, <4>3, <4>4, FrameSent
    <3> QED
      BY <2>2, <3>1, <3>3, Zenon DEF Wire
  <2>4. CASE ~(up /\ ready)
    <3>1. inbox' = inbox /\ up' = up
      BY <1>1, <2>4 DEF Publish
    <3>2. \A k \in 1..Len(inbox) : inbox[k].seq \in Nat
      BY OnWire
    <3> QED
      BY <2>1, <2>2, <3>1, <3>2 DEF Wire
  <2> QED
    BY <2>3, <2>4
<1>2. CASE PublishOversized
  <2>1. JournalId' = JournalId /\ Latest' = Latest + 1 /\ Latest + 1 \in 1..MaxEvents
    BY <1>2, OneMore, NumberLeft DEF PublishOversized
  <2>2. \A k \in 1..Len(kept) : kept[k] \in Nat
    BY OnWire
  <2>3. \A k \in 1..Len(kept') : kept'[k] <= Latest'
    BY <1>2, <2>1, <2>2 DEF PublishOversized, Wire
  <2>4. CASE up /\ ready
    <3>1. inbox' = Append(inbox, Gap) /\ up'
      BY <1>2, <2>4 DEF PublishOversized, link
    <3>2. Gap \in Frames /\ Gap.journal = JournalId /\ Gap.seq = Latest /\ Gap.type # "auth_ok"
      BY DEF Gap
    <3>3. \A k \in 1..Len(inbox') : /\ inbox'[k].journal = JournalId' /\ inbox'[k].seq <= Latest'
                                    /\ inbox'[k].type = "auth_ok" => k = 1
      <4>1. Latest' \in Nat /\ Latest <= Latest'
        BY <2>1
      <4>2. PICK x \in Frames : x = Gap
        BY <3>2
      <4>3. /\ inbox' = Append(inbox, x) /\ x.journal = JournalId
            /\ x.seq <= Latest' /\ x.type # "auth_ok"
        BY <2>1, <3>1, <3>2, <4>1, <4>2
      <4>4. JournalId' = JournalId
        BY <2>1
      <4> QED
        BY <4>1, <4>2, <4>3, <4>4, FrameSent
    <3> QED
      BY <2>3, <3>1, <3>3, Zenon DEF Wire
  <2>5. CASE ~(up /\ ready)
    <3>1. inbox' = inbox /\ up' = up
      BY <1>2, <2>5 DEF PublishOversized, link
    <3>2. \A k \in 1..Len(inbox) : inbox[k].seq \in Nat
      BY OnWire
    <3> QED
      BY <2>1, <2>3, <3>1, <3>2 DEF Wire
  <2> QED
    BY <2>4, <2>5
<1>3. CASE Connect
  <2>1. /\ JournalId' = JournalId /\ Latest' = Latest /\ kept' = kept
        /\ inbox' = <<AuthOk>> /\ up'
    BY <1>3, SameHub DEF Connect, hub
  <2> QED
    BY <2>1 DEF Wire, AuthOk
<1>4. CASE Requested \/ ReplayTimer
  <2>1. JournalId' = JournalId /\ Latest' = Latest /\ kept' = kept /\ up' = up /\ up
    BY <1>4, SameHub DEF Requested, ReplayTimer, hub
  <2>2. PICK r : Answer(r)
    BY <1>4, Answered DEF Requested, ReplayTimer
  <2> QED
    BY <2>1, <2>2, FramesSent DEF Wire, Answer
<1>5. CASE Negotiate \/ DeliverGap \/ GapHandlerThrows \/ DeliverComplete
  <2>1. /\ JournalId' = JournalId /\ Latest' = Latest /\ kept' = kept /\ up' = up
        /\ inbox # <<>> /\ inbox' = Tail(inbox)
    BY <1>5, SameHub DEF Negotiate, DeliverGap, GapHandlerThrows, DeliverComplete, hub, link
  <2> QED
    BY <2>1, FrameTaken DEF Wire
<1>6. CASE DeliverEvent \/ EventHandlerThrows
  <2>1. hub' = hub /\ link' = link /\ \E f : EventFrame(f)
    BY <1>6, Zenon DEF DeliverEvent, EventHandlerThrows
  <2>2. /\ JournalId' = JournalId /\ Latest' = Latest /\ kept' = kept /\ up' = up
        /\ inbox # <<>> /\ inbox' = Tail(inbox)
    BY <2>1, SameHub, EventTaken DEF hub, link
  <2> QED
    BY <2>2, FrameTaken DEF Wire
<1>7. CASE Disconnect
  BY <1>7, SameHub DEF Disconnect, hub, Wire
<1>8. CASE Restart
  BY <1>8 DEF Restart, Wire
<1>9. CASE UNCHANGED vars
  BY <1>9, SameHub DEF vars, hub, link, wire, Wire
<1> QED
  BY <1>1, <1>2, <1>3, <1>4, <1>5, <1>6, <1>7, <1>8, <1>9, Zenon DEF Next

-----------------------------------------------------------------------------
(* The cursor                                                               *)

\* What the hub puts on the wire does not change whether auth_ok is first.
LEMMA FirstStays ==
  ASSUME TypeOK, NEW r \in Seq(Frames), inbox' = inbox \o r,
         \A k \in 1..Len(r) : r[k].type # "auth_ok"
  PROVE  /\ AuthFirst' <=> AuthFirst
         /\ AuthFirst => inbox'[1] = inbox[1]
<1>1. inbox \in Seq(Frames)
  BY DEF TypeOK
<1>2. /\ inbox' \in Seq(Frames) /\ Len(inbox') = Len(inbox) + Len(r)
      /\ Len(inbox) \in Nat /\ Len(r) \in Nat
      /\ \A k \in 1..Len(inbox) : inbox'[k] = inbox[k]
      /\ \A k \in 1..Len(r) : inbox'[Len(inbox) + k] = r[k]
  BY <1>1, Joined
<1>3. /\ inbox = <<>> <=> Len(inbox) = 0
      /\ inbox' = <<>> <=> Len(inbox') = 0
  BY <1>1, <1>2, EmptySeq
<1>4. CASE Len(inbox) = 0
  <2>1. Len(r) = 0 \/ inbox'[1] = r[1]
    BY <1>2, <1>4
  <2>2. inbox' # <<>> => inbox'[1].type # "auth_ok"
    BY <1>2, <1>3, <1>4, <2>1
  <2> QED
    BY <1>3, <1>4, <2>2 DEF AuthFirst
<1>5. CASE Len(inbox) # 0
  <2>1. 1 \in 1..Len(inbox)
    BY <1>2, <1>5
  <2>2. inbox'[1] = inbox[1] /\ inbox # <<>> /\ inbox' # <<>>
    BY <1>2, <1>3, <1>5, <2>1
  <2> QED
    BY <2>2 DEF AuthFirst
<1> QED
  BY <1>4, <1>5

LEMMA OneFrame ==
  ASSUME NEW x \in Frames, inbox' = Append(inbox, x), TypeOK
  PROVE  /\ <<x>> \in Seq(Frames) /\ Len(<<x>>) = 1 /\ <<x>>[1] = x
         /\ inbox' = inbox \o <<x>>
<1>1. inbox \in Seq(Frames)
  BY DEF TypeOK
<1>2. /\ <<x>> \in Seq(Frames) /\ Len(<<x>>) = 1 /\ <<x>>[1] = x
  OBVIOUS
<1>3. Append(inbox, x) = inbox \o <<x>>
  BY <1>1, <1>2, AppendIsConcat
<1> QED
  BY <1>2, <1>3

LEMMA FirstStaysOne ==
  ASSUME TypeOK, NEW x \in Frames, inbox' = Append(inbox, x), x.type # "auth_ok"
  PROVE  /\ AuthFirst' <=> AuthFirst
         /\ AuthFirst => inbox'[1] = inbox[1]
<1>1. PICK r \in Seq(Frames) : r = <<x>> /\ Len(r) = 1 /\ r[1] = x /\ inbox' = inbox \o r
  BY OneFrame
<1>2. \A k \in 1..Len(r) : r[k].type # "auth_ok"
  BY <1>1
<1> QED
  BY <1>1, <1>2, FirstStays

\* The first frame is off the wire, and no auth_ok is on it any more.
LEMMA NoAuthLeft ==
  ASSUME TypeOK, Wire, inbox # <<>>, inbox' = Tail(inbox), total' = total
  PROVE  ~AuthFirst'
<1>1. \A k \in 1..Len(inbox') : inbox'[k].type # "auth_ok"
  BY SameHub, FrameTaken
<1>2. inbox' \in Seq(Frames)
  BY Taken
<1>3. inbox' # <<>> => 1 \in 1..Len(inbox')
  BY <1>2, EmptySeq, Elements
<1> QED
  BY <1>1, <1>3 DEF AuthFirst

\* A client that receives an event has negotiated, and is on the running journal.
LEMMA EventArrives ==
  ASSUME TypeOK, Wire, Cursor, NEW f, EventFrame(f)
  PROVE  /\ up /\ ready /\ ~AuthFirst /\ inbox # <<>> /\ inbox' = Tail(inbox)
         /\ journal = JournalId /\ journal' = JournalId /\ f.journal = JournalId
         /\ Base(f) = last /\ last \in Nat
         /\ f = inbox[1] /\ f.type = "provider.runtimeEvent"
         /\ f.seq \in 0..MaxEvents /\ f.seq \in Nat /\ f.seq <= Latest
<1>1. /\ inbox # <<>> /\ inbox' = Tail(inbox) /\ f = inbox[1]
      /\ f.type = "provider.runtimeEvent" /\ journal' = f.journal /\ f.seq \in 0..MaxEvents
  BY EventTaken
<1>2. f.seq \in Nat /\ last \in Nat
  <2>1. last \in 0..MaxEvents /\ MaxEvents \in Nat
    BY Numbers DEF TypeOK
  <2> QED
    BY <1>1, <2>1
<1>3. 1 \in 1..Len(inbox)
  BY <1>1, Taken
<1>4. f.journal = JournalId /\ f.seq <= Latest /\ ~AuthFirst
  BY <1>1, <1>3 DEF Wire, AuthFirst
<1>5. up
  BY <1>1, Zenon DEF Wire
<1>6. ready
  BY <1>1, <1>4, <1>5, Zenon DEF Cursor
<1>7. journal = JournalId
  BY <1>4, <1>5, Zenon DEF Cursor
<1> QED
  BY <1>1, <1>2, <1>4, <1>5, <1>6, <1>7 DEF Base

\* A step of the hub that leaves the cursor alone.
LEMMA CursorKept ==
  ASSUME TypeOK, Cursor, JournalId' = JournalId, Latest' \in Nat, Latest <= Latest',
         journal' = journal, last' = last, up' <=> up,
         AuthFirst' <=> AuthFirst, AuthFirst => inbox'[1] = inbox[1],
         ready' \/ ((ready' <=> ready) /\ inbox' = inbox /\ (announced' <=> announced))
  PROVE  Cursor'
<1>1. last \in Nat /\ Latest \in Nat
  BY Numbers DEF TypeOK
<1>2. /\ journal' <= JournalId'
      /\ journal' = None => last' = 0
      /\ journal' = JournalId' => last' <= Latest'
  BY <1>1 DEF Cursor
<1>3. AuthFirst' /\ journal' = JournalId' => last' <= inbox'[1].seq
  BY DEF Cursor
<1>4. up' /\ ~AuthFirst' => journal' = JournalId'
  BY DEF Cursor
<1>5. up' /\ ~ready' => Len(inbox') <= 1 /\ (AuthFirst' \/ (inbox' = <<>> /\ ~announced'))
  BY Zenon DEF Cursor
<1> QED
  BY <1>2, <1>3, <1>4, <1>5, Zenon DEF Cursor

\* The client takes a frame, and is on the running journal then.
LEMMA CursorTaken ==
  ASSUME TypeOK, Wire, Cursor, inbox # <<>>, inbox' = Tail(inbox), total' = total,
         journal' = JournalId, last' \in Nat, last' <= Latest, up' <=> up, ready' <=> ready,
         ready \/ (AuthFirst /\ ~announced')
  PROVE  Cursor'
<1>1. /\ JournalId' = JournalId /\ Latest' = Latest /\ ~AuthFirst'
  BY SameHub, NoAuthLeft
<1>2. up
  BY Zenon DEF Wire
<1>3. CASE ready
  BY <1>1, <1>2, <1>3, Numbers DEF Cursor, None
<1>4. CASE ~ready
  <2>1. Len(inbox) <= 1 /\ ~announced'
    BY <1>2, <1>4, Zenon DEF Cursor
  <2>2. inbox' \in Seq(Frames) /\ Len(inbox') = 0
    BY <2>1, Taken
  <2>3. inbox' = <<>> /\ Len(inbox') <= 1
    BY <2>2, EmptySeq
  <2> QED
    BY <1>1, <2>1, <2>3, Numbers DEF Cursor, None
<1> QED
  BY <1>3, <1>4

LEMMA CursorInductive ==
  TypeOK /\ Wire /\ Cursor /\ [Next]_vars => Cursor'
<1> SUFFICES ASSUME TypeOK, Wire, Cursor, [Next]_vars PROVE Cursor'
  OBVIOUS
<1>1. CASE Publish
  <2>1. JournalId' = JournalId /\ Latest' = Latest + 1 /\ Latest + 1 \in 1..MaxEvents
    BY <1>1, OneMore, NumberLeft DEF Publish
  <2>2. Latest' \in Nat /\ Latest <= Latest'
    BY <2>1, Numbers
  <2>3. journal' = journal /\ last' = last /\ announced' = announced /\ up' = up /\ ready' = ready
    BY <1>1 DEF Publish, cursor
  <2>4. CASE up /\ ready
    <3>1. PICK x \in Frames : x = Event(JournalId, Latest + 1) /\ x.type # "auth_ok"
      <4>1. Event(JournalId, Latest + 1) \in Frames
        BY <2>1, Numbers
      <4>2. Event(JournalId, Latest + 1).type # "auth_ok"
        BY DEF Event
      <4> QED
        BY <4>1, <4>2
    <3>2. inbox' = Append(inbox, x)
      BY <1>1, <2>4, <3>1 DEF Publish
    <3>3. /\ AuthFirst' <=> AuthFirst
          /\ AuthFirst => inbox'[1] = inbox[1]
      BY <3>1, <3>2, FirstStaysOne
    <3> QED
      BY <2>1, <2>2, <2>3, <2>4, <3>3, CursorKept, Zenon
  <2>5. CASE ~(up /\ ready)
    <3>1. inbox' = inbox
      BY <1>1, <2>5 DEF Publish
    <3>2. AuthFirst' <=> AuthFirst
      BY <3>1 DEF AuthFirst
    <3> QED
      BY <2>1, <2>2, <2>3, <3>1, <3>2, CursorKept, Zenon
  <2> QED
    BY <2>4, <2>5
<1>2. CASE PublishOversized
  <2>1. JournalId' = JournalId /\ Latest' = Latest + 1 /\ Latest + 1 \in 1..MaxEvents
    BY <1>2, OneMore, NumberLeft DEF PublishOversized
  <2>2. Latest' \in Nat /\ Latest <= Latest'
    BY <2>1, Numbers
  <2>3. journal' = journal /\ last' = last /\ announced' = announced /\ up' = up /\ ready' = ready
    BY <1>2 DEF PublishOversized, cursor, link
  <2>4. CASE up /\ ready
    <3>1. PICK x \in Frames : x = Gap /\ x.type # "auth_ok"
      BY <2>1, Numbers DEF Gap
    <3>2. inbox' = Append(inbox, x)
      BY <1>2, <2>4, <3>1 DEF PublishOversized
    <3>3. /\ AuthFirst' <=> AuthFirst
          /\ AuthFirst => inbox'[1] = inbox[1]
      BY <3>1, <3>2, FirstStaysOne
    <3> QED
      BY <2>1, <2>2, <2>3, <2>4, <3>3, CursorKept, Zenon
  <2>5. CASE ~(up /\ ready)
    <3>1. inbox' = inbox
      BY <1>2, <2>5 DEF PublishOversized
    <3>2. AuthFirst' <=> AuthFirst
      BY <3>1 DEF AuthFirst
    <3> QED
      BY <2>1, <2>2, <2>3, <3>1, <3>2, CursorKept, Zenon
  <2> QED
    BY <2>4, <2>5
<1>3. CASE Connect
  <2>1. /\ JournalId' = JournalId /\ Latest' = Latest /\ journal' = journal /\ last' = last
        /\ inbox' = <<AuthOk>>
    BY <1>3, SameHub DEF Connect, hub, cursor
  <2>2. AuthFirst' /\ inbox'[1].seq = Latest /\ Len(inbox') <= 1
    BY <2>1 DEF AuthFirst, AuthOk
  <2> QED
    BY <2>1, <2>2 DEF Cursor
<1>4. CASE Requested \/ ReplayTimer
  <2>1. /\ JournalId' = JournalId /\ Latest' = Latest /\ journal' = journal /\ last' = last
        /\ up' = up
    BY <1>4, SameHub DEF Requested, ReplayTimer, hub, cursor
  <2>2. PICK r : Answer(r)
    BY <1>4, Answered DEF Requested, ReplayTimer
  <2>3. ready'
    BY <1>4, Answered, Zenon DEF Requested, ReplayTimer
  <2>4. /\ AuthFirst' <=> AuthFirst
        /\ AuthFirst => inbox'[1] = inbox[1]
    BY <2>2, FirstStays DEF Answer
  <2>5. Latest' \in Nat /\ Latest <= Latest'
    BY <2>1, Numbers
  <2> QED
    BY <2>1, <2>3, <2>4, <2>5, CursorKept, Zenon
<1>5. CASE Negotiate
  <2> DEFINE f == Head(inbox)
             changed == journal # None /\ journal # f.journal
             ahead == journal = f.journal /\ last > f.seq
  <2>1. /\ inbox # <<>> /\ inbox' = Tail(inbox) /\ f.type = "auth_ok" /\ journal' = f.journal
        /\ last' = (IF changed \/ ahead THEN 0 ELSE last) /\ ~announced'
        /\ total' = total /\ up' = up /\ ready' = ready
    BY <1>5 DEF Negotiate, hub, link
  <2>2. f = inbox[1] /\ 1 \in 1..Len(inbox)
    BY <2>1, Taken
  <2>3. AuthFirst /\ f.journal = JournalId
    BY <2>1, <2>2 DEF AuthFirst, Wire
  <2>4. last \in Nat /\ Latest \in Nat
    BY Numbers DEF TypeOK
  <2>5. last' \in Nat /\ last' <= Latest
    BY <2>1, <2>3, <2>4 DEF Cursor, None
  <2> QED
    BY <2>1, <2>3, <2>5, CursorTaken, Zenon
<1>6. CASE DeliverGap \/ GapHandlerThrows \/ DeliverComplete
  <2>1. /\ inbox # <<>> /\ inbox' = Tail(inbox) /\ Head(inbox).type # "auth_ok"
        /\ journal' = journal /\ last' = last
        /\ total' = total /\ up' = up /\ ready' = ready
    BY <1>6 DEF DeliverGap, GapHandlerThrows, DeliverComplete, hub, link
  <2>2. Head(inbox) = inbox[1] /\ up
    BY <2>1, Taken DEF Wire
  <2>3. ~AuthFirst
    BY <2>1, <2>2 DEF AuthFirst
  <2>4. ready /\ journal = JournalId
    BY <2>1, <2>2, <2>3, Zenon DEF Cursor
  <2>5. last' \in Nat /\ last' <= Latest
    BY <2>1, <2>4, Numbers DEF TypeOK, Cursor
  <2>6. journal' = JournalId
    BY <2>1, <2>4
  <2> QED
    BY <2>1, <2>4, <2>5, <2>6, CursorTaken, Zenon
<1>7. CASE DeliverEvent \/ EventHandlerThrows
  <2>1. /\ hub' = hub /\ link' = link
        /\ \E f : EventFrame(f) /\ (last' = Base(f) \/ last' = f.seq)
    BY <1>7, Zenon DEF DeliverEvent, EventHandlerThrows
  <2>2. PICK f : EventFrame(f) /\ (last' = Base(f) \/ last' = f.seq)
    BY <2>1
  <2>3. /\ ready /\ inbox # <<>> /\ inbox' = Tail(inbox)
        /\ journal = JournalId /\ journal' = JournalId
        /\ Base(f) = last /\ last \in Nat /\ f.seq \in Nat /\ f.seq <= Latest
    BY <2>2, EventArrives
  <2>4. last' \in Nat /\ last' <= Latest
    BY <2>2, <2>3 DEF Cursor
  <2>5. total' = total /\ up' = up /\ ready' = ready
    BY <2>1 DEF hub, link
  <2> QED
    BY <2>3, <2>4, <2>5, CursorTaken, Zenon
<1>8. CASE Disconnect
  <2>1. /\ JournalId' = JournalId /\ Latest' = Latest /\ journal' = journal /\ last' = last
        /\ inbox' = <<>> /\ ~up'
    BY <1>8, SameHub DEF Disconnect, hub, cursor
  <2> QED
    BY <2>1 DEF Cursor, AuthFirst
<1>9. CASE Restart
  <2>1. /\ JournalId' = JournalId + 1 /\ journal' = journal /\ last' = last
        /\ inbox' = <<>> /\ ~up'
    BY <1>9, Restarted DEF Restart, cursor
  <2>2. journal \in Nat /\ JournalId \in Nat
    BY Numbers DEF TypeOK
  <2> QED
    BY <2>1, <2>2 DEF Cursor, AuthFirst
<1>10. CASE UNCHANGED vars
  <2>1. /\ JournalId' = JournalId /\ Latest' = Latest /\ journal' = journal /\ last' = last
        /\ up' = up /\ ready' = ready /\ inbox' = inbox /\ announced' = announced
    BY <1>10, SameHub DEF vars, hub, link, wire, cursor
  <2>2. AuthFirst' <=> AuthFirst
    BY <2>1 DEF AuthFirst
  <2>3. Latest' \in Nat /\ Latest <= Latest'
    BY <2>1, Numbers
  <2> QED
    BY <2>1, <2>2, <2>3, CursorKept, Zenon
<1> QED
  BY <1>1, <1>2, <1>3, <1>4, <1>5, <1>6, <1>7, <1>8, <1>9, <1>10, Zenon DEF Next

-----------------------------------------------------------------------------
(* What is applied                                                          *)

LEMMA Heard ==
  ASSUME TypeOK, NEW e \in Events, applied' = Append(applied, e)
  PROVE  heard' = heard \cup {e}
<1>1. /\ Len(applied) \in Nat /\ Len(applied') = Len(applied) + 1
      /\ \A k \in 1..Len(applied) : applied'[k] = applied[k]
      /\ applied'[Len(applied) + 1] = e
  BY Appended DEF TypeOK
<1>2. 1..Len(applied') = (1..Len(applied)) \cup {Len(applied) + 1}
  BY <1>1
<1> QED
  BY <1>1, <1>2 DEF heard

LEMMA HeardEvents ==
  ASSUME TypeOK
  PROVE  /\ \A e \in heard : e[1] \in Nat /\ e[2] \in Nat /\ e[1] >= 1
         /\ \A i \in 1..Len(applied) : applied[i] \in heard
         /\ heard \subseteq Events
<1>1. \A i \in 1..Len(applied) : applied[i] \in Events
  BY Elements DEF TypeOK
<1>2. \A e \in Events : e[1] \in Nat /\ e[2] \in Nat /\ e[1] >= 1
  BY Numbers DEF Events
<1> QED
  BY <1>1, <1>2 DEF heard

\* A step applies the running journal's next event for the cursor, or none.
LEMMA Applies ==
  ASSUME TypeOK, Wire, Cursor, [Next]_vars
  PROVE  \/ applied' = applied
         \/ \E n \in 1..MaxEvents :
              /\ last < n /\ journal = JournalId /\ journal' = JournalId /\ last' = n
              /\ applied' = Append(applied, <<JournalId, n>>)
<1>1. CASE DeliverEvent
  <2>1. PICK f : /\ EventFrame(f)
                 /\ \/ applied' = applied
                    \/ /\ ~(f.seq <= Base(f)) /\ last' = f.seq
                       /\ applied' = Append(applied, <<f.journal, f.seq>>)
    BY <1>1, Zenon DEF DeliverEvent
  <2>2. /\ journal = JournalId /\ journal' = JournalId /\ f.journal = JournalId
        /\ Base(f) = last /\ last \in Nat /\ f.seq \in Nat /\ f.seq \in 0..MaxEvents
    BY <2>1, EventArrives
  <2>3. ~(f.seq <= Base(f)) => last < f.seq /\ f.seq \in 1..MaxEvents
    BY <2>2
  <2> QED
    BY <2>1, <2>2, <2>3
<1>2. CASE EventHandlerThrows
  BY <1>2, Zenon DEF EventHandlerThrows
<1>3. ASSUME ~DeliverEvent, ~EventHandlerThrows
      PROVE  applied' = applied
  BY <1>3 DEF Next, Publish, PublishOversized, Connect, Requested, ReplayTimer, Negotiate,
              DeliverGap, GapHandlerThrows, DeliverComplete, Disconnect, Restart, vars, history
<1> QED
  BY <1>1, <1>2, <1>3

\* The cursor never moves back.
LEMMA CursorMoves ==
  ASSUME TypeOK, Wire, Cursor, [Next]_vars
  PROVE  /\ journal < journal' \/ (journal' = journal /\ last <= last')
         /\ {journal, journal', last, last'} \subseteq Nat
<1>1. /\ journal \in Nat /\ last \in Nat /\ Latest \in Nat
      /\ \A f \in Frames : f.seq \in Nat
  BY Numbers DEF TypeOK, Frames
<1>2. CASE DeliverEvent \/ EventHandlerThrows
  <2>1. PICK f : /\ EventFrame(f)
                 /\ (last' = Base(f) /\ f.seq > Base(f)) \/ (last' = Base(f) /\ f.seq <= Base(f))
                    \/ (last' = f.seq /\ ~(f.seq <= Base(f)))
    BY <1>2, Zenon DEF DeliverEvent, EventHandlerThrows
  <2>2. /\ journal' = journal /\ Base(f) = last /\ f.seq \in Nat
    BY <2>1, EventArrives
  <2> QED
    BY <1>1, <2>1, <2>2
<1>3. CASE Negotiate
  <2> DEFINE f == Head(inbox)
  <2>1. /\ inbox # <<>> /\ f.type = "auth_ok" /\ journal' = f.journal
        /\ last' = IF (journal # None /\ journal # f.journal) \/ (journal = f.journal /\ last > f.seq)
                   THEN 0 ELSE last
    BY <1>3 DEF Negotiate
  <2>2. f = inbox[1] /\ 1 \in 1..Len(inbox) /\ f \in Frames
    <3>1. inbox \in Seq(Frames)
      BY DEF TypeOK
    <3> QED
      BY <2>1, <3>1, Removed
  <2>3. AuthFirst /\ f.journal = JournalId
    BY <2>1, <2>2 DEF AuthFirst, Wire
  <2>4. journal <= JournalId /\ (journal = JournalId => last <= f.seq) /\ JournalId \in Nat
    BY <2>2, <2>3, Numbers DEF Cursor
  <2>5. f.seq \in Nat
    BY <1>1, <2>2
  <2> QED
    BY <1>1, <2>1, <2>3, <2>4, <2>5 DEF None
<1>4. ASSUME ~DeliverEvent, ~EventHandlerThrows, ~Negotiate
      PROVE  journal' = journal /\ last' = last
  BY <1>4 DEF Next, Publish, PublishOversized, Connect, Requested, ReplayTimer,
              DeliverGap, GapHandlerThrows, DeliverComplete, Disconnect, Restart, vars, cursor
<1> QED
  BY <1>1, <1>2, <1>3, <1>4

LEMMA BehindInductive ==
  TypeOK /\ Wire /\ Cursor /\ Behind /\ [Next]_vars => Behind'
<1> SUFFICES ASSUME TypeOK, Wire, Cursor, Behind, [Next]_vars PROVE Behind'
  OBVIOUS
<1>1. /\ journal < journal' \/ (journal' = journal /\ last <= last')
      /\ {journal, journal', last, last'} \subseteq Nat
  BY CursorMoves
<1>2. ASSUME NEW e \in heard PROVE Reached(e)'
  BY <1>1, <1>2, HeardEvents DEF Behind, Reached
<1>3. CASE applied' = applied
  BY <1>2, <1>3 DEF Behind, heard
<1>4. CASE applied' # applied
  <2>1. PICK n \in 1..MaxEvents :
          /\ last < n /\ journal = JournalId /\ journal' = JournalId /\ last' = n
          /\ applied' = Append(applied, <<JournalId, n>>)
    BY <1>4, Applies
  <2>2. PICK e \in Events : e = <<JournalId, n>>
    BY Numbers DEF Events
  <2>3. heard' = heard \cup {e}
    BY <2>1, <2>2, Heard
  <2>4. Reached(e)'
    BY <1>1, <2>1, <2>2 DEF Reached
  <2> QED
    BY <1>2, <2>3, <2>4 DEF Behind
<1> QED
  BY <1>3, <1>4

LEMMA AppliedInductive ==
  TypeOK /\ Wire /\ Cursor /\ Behind /\ AppliedOnceInOrder /\ [Next]_vars => AppliedOnceInOrder'
<1> SUFFICES ASSUME TypeOK, Wire, Cursor, Behind, AppliedOnceInOrder, [Next]_vars
             PROVE  AppliedOnceInOrder'
  OBVIOUS
<1>1. CASE applied' = applied
  BY <1>1 DEF AppliedOnceInOrder, Earlier
<1>2. CASE applied' # applied
  <2>1. PICK n \in 1..MaxEvents :
          /\ last < n /\ journal = JournalId /\ journal' = JournalId /\ last' = n
          /\ applied' = Append(applied, <<JournalId, n>>)
    BY <1>2, Applies
  <2>2. <<JournalId, n>> \in Events
    BY Numbers DEF Events
  <2>3. /\ Len(applied) \in Nat /\ Len(applied') = Len(applied) + 1
        /\ \A k \in 1..Len(applied) : applied'[k] = applied[k]
        /\ applied'[Len(applied) + 1] = <<JournalId, n>>
    BY <2>1, <2>2, Appended DEF TypeOK
  <2>4. ASSUME NEW e \in heard PROVE Earlier(e, <<JournalId, n>>)
    <3>1. e[1] \in Nat /\ e[2] \in Nat
      BY <2>4, HeardEvents
    <3>2. last \in Nat /\ n \in Nat
      BY Numbers DEF TypeOK
    <3>3. Reached(e)
      BY <2>4 DEF Behind
    <3> QED
      BY <2>1, <3>1, <3>2, <3>3 DEF Reached, Earlier
  <2>5. SUFFICES ASSUME NEW i \in 1..Len(applied'), NEW j \in 1..Len(applied'), i < j
                 PROVE  Earlier(applied'[i], applied'[j])
    BY DEF AppliedOnceInOrder, Earlier
  <2>6. i \in 1..Len(applied) /\ applied'[i] = applied[i] /\ applied[i] \in heard
    BY <2>3, <2>5, HeardEvents
  <2>7. CASE j \in 1..Len(applied)
    BY <2>3, <2>5, <2>6, <2>7 DEF AppliedOnceInOrder
  <2>8. CASE j \notin 1..Len(applied)
    <3>1. applied'[j] = <<JournalId, n>>
      BY <2>3, <2>8
    <3> QED
      BY <2>4, <2>6, <3>1
  <2> QED
    BY <2>7, <2>8
<1> QED
  BY <1>1, <1>2

-----------------------------------------------------------------------------
(* What is missed                                                           *)

\* The steps that leave the cursor and the histories alone.
LEMMA CoveredKept ==
  ASSUME Covered, Published' = Published, UNCHANGED <<journal, last, applied, excused, lost, owed>>
  PROVE  Covered'
  BY DEF Covered, Reached, heard

LEMMA EventParts ==
  ASSUME TypeOK
  PROVE  /\ \A p \in Published : /\ p[1] \in Nat /\ p[2] \in Nat /\ p[2] >= 1 /\ p[2] \in 1..MaxEvents
                                 /\ p = <<p[1], p[2]>> /\ p[1] <= JournalId
                                 /\ p[1] = JournalId => p[2] <= Latest
         /\ journal \in Nat /\ last \in Nat /\ JournalId \in Nat /\ Latest \in Nat
<1>1. journal \in Nat /\ last \in Nat /\ JournalId \in Nat /\ Latest \in Nat /\ MaxEvents \in Nat
  BY Numbers DEF TypeOK
<1>2. ASSUME NEW p \in Published
      PROVE  /\ p[1] \in 1..JournalId /\ p[2] \in 1..MaxEvents /\ p = <<p[1], p[2]>>
             /\ p[2] <= total[p[1]]
  BY <1>2 DEF Published
<1>3. ASSUME NEW p \in Published
      PROVE  /\ p[1] \in Nat /\ p[2] \in Nat /\ p[2] >= 1 /\ p[1] <= JournalId
             /\ p[1] = JournalId => p[2] <= Latest
  BY <1>1, <1>2 DEF Latest
<1> QED
  BY <1>1, <1>2, <1>3

\* The frame an event leaves out, while a gap stands announced, is known.
LEMMA FirstFrame ==
  ASSUME TypeOK, Skipped, announced, inbox # <<>>, IsEvent(1),
         NEW m \in 1..MaxEvents, last < m, m < inbox[1].seq
  PROVE  Known(m)
<1>1. 1 \in 1..Len(inbox)
  <2>1. inbox \in Seq(Frames)
    BY DEF TypeOK
  <2> QED
    BY <2>1, Removed
<1>2. Plain(1)
  BY DEF Plain
<1>3. Known(m) \/ \E j \in 1..(1 - 1) : inbox[j].seq = m
  BY <1>1, <1>2 DEF Skipped
<1> QED
  BY <1>3

LEMMA CoveredInductive ==
  TypeOK /\ Wire /\ Cursor /\ Covered /\ Skipped /\ [Next]_vars => Covered'
<1> SUFFICES ASSUME TypeOK, Wire, Cursor, Covered, Skipped, [Next]_vars PROVE Covered'
  OBVIOUS
<1>1. CASE Publish \/ PublishOversized
  <2>1. Published' = Published \cup {<<JournalId, Latest + 1>>}
    BY <1>1, OneMore DEF Publish, PublishOversized
  <2>2. UNCHANGED <<journal, last, applied, excused, lost, owed>>
    BY <1>1 DEF Publish, PublishOversized, cursor, history
  <2>3. ASSUME NEW p \in Published', Reached(p)' PROVE p \in Published /\ Reached(p)
    <3>1. Reached(p)
      BY <2>2, <2>3 DEF Reached
    <3>2. CASE p = <<JournalId, Latest + 1>>
      BY <3>1, <3>2, EventParts DEF Reached, Cursor
    <3> QED
      BY <2>1, <3>1, <3>2
  <2> QED
    BY <2>2, <2>3 DEF Covered, heard
<1>2. CASE Connect \/ Requested \/ ReplayTimer \/ DeliverComplete \/ UNCHANGED vars
  <2>1. total' = total /\ UNCHANGED <<journal, last, applied, excused, lost, owed>>
    BY <1>2 DEF Connect, Requested, ReplayTimer, DeliverComplete, vars, hub, cursor, history
  <2> QED
    BY <2>1, SameHub, CoveredKept
<1>3. CASE DeliverGap
  <2>1. excused' = Published /\ total' = total
    BY <1>3 DEF DeliverGap, Told, hub
  <2>2. Published' = Published
    BY <2>1, SameHub
  <2> QED
    BY <2>1, <2>2 DEF Covered
<1>8. CASE GapHandlerThrows
  <2>1. /\ lost' = lost \cup (Published \ EventsOf(inbox')) /\ total' = total
        /\ inbox # <<>> /\ inbox' = Tail(inbox)
        /\ UNCHANGED <<journal, last, applied, excused>>
    BY <1>8 DEF GapHandlerThrows, hub
  <2>2. Published' = Published /\ JournalId' = JournalId /\ Latest' = Latest
    BY <2>1, SameHub
  <2>3. \A k \in 1..Len(inbox') : inbox'[k].journal = JournalId
    BY <2>1, <2>2, FrameTaken
  <2>4. ASSUME NEW p \in Published, p[1] < journal PROVE p \in lost'
    <3>1. p[1] # JournalId
      BY <2>4, EventParts DEF Cursor
    <3>2. \A q \in EventsOf(inbox') : q[1] = JournalId
      BY <2>3 DEF EventsOf
    <3> QED
      BY <2>1, <3>1, <3>2
  <2> QED
    BY <2>1, <2>2, <2>4 DEF Covered, Reached, heard
<1>4. CASE Negotiate
  <2> DEFINE f == Head(inbox)
             changed == journal # None /\ journal # f.journal
             ahead == journal = f.journal /\ last > f.seq
  <2>1. /\ inbox # <<>> /\ f.type = "auth_ok" /\ journal' = f.journal
        /\ last' = (IF changed \/ ahead THEN 0 ELSE last)
        /\ owed' = (owed \/ changed)
        /\ excused' = (IF journal = None THEN {e \in Published : e[1] < f.journal} ELSE excused)
        /\ total' = total /\ applied' = applied /\ lost' = lost
    BY <1>4 DEF Negotiate, Starts, hub
  <2>2. f = inbox[1] /\ 1 \in 1..Len(inbox)
    <3>1. inbox \in Seq(Frames)
      BY DEF TypeOK
    <3> QED
      BY <2>1, <3>1, Removed
  <2>3. AuthFirst /\ f.journal = JournalId
    BY <2>1, <2>2 DEF AuthFirst, Wire
  <2>4. Published' = Published /\ heard' = heard
    BY <2>1, SameHub DEF heard
  <2>5. /\ journal \in Nat /\ last \in Nat /\ journal <= JournalId /\ JournalId \in Nat /\ JournalId >= 1
        /\ journal = None => last = 0
        /\ ~ahead
    <3>1. /\ journal \in Nat /\ last \in Nat /\ JournalId \in Nat /\ JournalId >= 1
      BY EventParts, Numbers
    <3>2. /\ journal <= JournalId
          /\ journal = None => last = 0
      BY DEF Cursor
    <3>3. journal = JournalId => last <= f.seq
      BY <2>2, <2>3 DEF Cursor
    <3>4. f.seq \in Nat
      BY <2>2, OnWire
    <3> QED
      BY <2>3, <3>1, <3>2, <3>3, <3>4
  <2> SUFFICES ASSUME NEW p \in Published, Reached(p)'
               PROVE  \/ p \in heard \cup excused' \cup lost
                      \/ owed' /\ p[1] < journal'
    BY <2>1, <2>4 DEF Covered
  <2>6. p[1] < JournalId \/ (p[1] = JournalId /\ p[2] <= last')
    BY <2>1, <2>3 DEF Reached
  <2>7. p[1] \in Nat /\ p[2] \in Nat /\ p[2] >= 1
    BY EventParts
  <2>8. CASE journal = None
    <3>1. last' = 0
      BY <2>1, <2>5, <2>8
    <3>2. p[1] < JournalId
      BY <2>6, <2>7, <3>1
    <3> QED
      BY <2>1, <2>3, <2>8, <3>2
  <2>9. CASE journal = JournalId
    <3>1. last' = last /\ ~changed /\ journal # None
      BY <2>1, <2>3, <2>5, <2>9 DEF None
    <3>2. Reached(p)
      BY <2>6, <2>9, <3>1 DEF Reached
    <3>3. p \in heard \cup excused \cup lost \/ (owed /\ p[1] < journal)
      BY <3>2 DEF Covered
    <3> QED
      BY <2>1, <2>3, <2>9, <3>1, <3>3
  <2>10. CASE journal # None /\ journal # JournalId
    <3>1. last' = 0 /\ owed'
      BY <2>1, <2>3, <2>10
    <3>2. p[1] < JournalId
      BY <2>6, <2>7, <3>1
    <3> QED
      BY <2>1, <2>3, <3>1, <3>2
  <2> QED
    BY <2>8, <2>9, <2>10
<1>5. CASE DeliverEvent
  <2>1. PICK f : /\ EventFrame(f)
                 /\ IF f.seq <= Base(f)
                      THEN last' = Base(f) /\ UNCHANGED <<announced, applied, excused, owed>>
                      ELSE /\ last' = f.seq
                           /\ announced' = FALSE
                           /\ applied' = Append(applied, <<f.journal, f.seq>>)
                           /\ IF Hole(f) THEN Told ELSE UNCHANGED <<excused, owed>>
    BY <1>5, Zenon DEF DeliverEvent
  <2>2. /\ journal = JournalId /\ journal' = JournalId /\ f.journal = JournalId
        /\ Base(f) = last /\ last \in Nat /\ f.seq \in Nat /\ f.seq \in 0..MaxEvents
        /\ inbox # <<>> /\ f = inbox[1] /\ f.type = "provider.runtimeEvent"
    BY <2>1, EventArrives
  <2>3. total' = total /\ lost' = lost
    BY <1>5 DEF DeliverEvent, hub
  <2>4. Published' = Published
    BY <2>3, SameHub
  <2>5. CASE f.seq <= Base(f)
    <3>1. UNCHANGED <<journal, last, applied, excused, lost, owed>>
      BY <2>1, <2>2, <2>3, <2>5
    <3> QED
      BY <2>4, <3>1, CoveredKept
  <2>6. CASE ~(f.seq <= Base(f)) /\ Hole(f)
    <3>1. excused' = Published
      BY <2>1, <2>6, Zenon DEF Told
    <3> QED
      BY <2>4, <3>1 DEF Covered
  <2>7. CASE ~(f.seq <= Base(f)) /\ ~Hole(f)
    <3>1. /\ last' = f.seq /\ excused' = excused /\ owed' = owed
          /\ applied' = Append(applied, <<f.journal, f.seq>>)
      BY <2>1, <2>7, Zenon
    <3>2. f.seq \in 1..MaxEvents /\ last < f.seq
      BY <2>2, <2>7
    <3>3. PICK e \in Events : e = <<JournalId, f.seq>>
      BY <3>2, Numbers DEF Events
    <3>4. heard' = heard \cup {e}
      BY <2>2, <3>1, <3>3, Heard
    <3>5. announced \/ f.seq = last + 1
      BY <2>2, <2>7, <3>2 DEF Hole
    <3>6. ASSUME NEW p \in Published, Reached(p)'
          PROVE  \/ p \in heard \cup {e} \cup excused \cup lost
                 \/ owed /\ p[1] < JournalId
      <4>1. p[1] < JournalId \/ (p[1] = JournalId /\ p[2] <= f.seq)
        BY <2>2, <3>1, <3>6 DEF Reached
      <4>2. p[2] \in 1..MaxEvents /\ p[2] \in Nat /\ p[1] \in Nat /\ p = <<p[1], p[2]>>
        BY EventParts
      <4>3. CASE Reached(p)
        BY <2>2, <4>3 DEF Covered
      <4>4. CASE p[1] = JournalId /\ p[2] = f.seq
        BY <3>3, <4>2, <4>4
      <4>5. CASE ~Reached(p) /\ ~(p[1] = JournalId /\ p[2] = f.seq)
        <5>1. p[1] = JournalId /\ last < p[2] /\ p[2] < f.seq
          BY <2>2, <4>1, <4>2, <4>5 DEF Reached
        <5>2. announced
          BY <2>2, <3>5, <4>2, <5>1
        <5>3. IsEvent(1)
          BY <2>2 DEF IsEvent
        <5>4. Known(p[2])
          BY <2>2, <4>2, <5>1, <5>2, <5>3, FirstFrame
        <5>5. p = <<JournalId, p[2]>>
          BY <4>2, <5>1
        <5> QED
          BY <5>4, <5>5 DEF Known
      <4> QED
        BY <4>3, <4>4, <4>5
    <3> QED
      BY <2>2, <2>3, <2>4, <3>1, <3>4, <3>6 DEF Covered
  <2> QED
    BY <2>5, <2>6, <2>7
<1>6. CASE EventHandlerThrows
  <2>1. PICK f : /\ EventFrame(f) /\ f.seq > Base(f)
                 /\ last' = Base(f)
                 /\ Threw(f)
                 /\ lost' = IF announced THEN lost \cup {<<f.journal, f.seq>>} ELSE lost
    BY <1>6, Zenon DEF EventHandlerThrows
  <2>2. journal' = journal /\ Base(f) = last
    BY <2>1, EventArrives
  <2>3. total' = total /\ applied' = applied
    BY <1>6 DEF EventHandlerThrows, hub
  <2>4. Published' = Published
    BY <2>3, SameHub
  <2>5. lost \subseteq lost' /\ last' = last
    BY <2>1, <2>2
  <2>6. CASE excused' = Published
    BY <2>4, <2>6 DEF Covered
  <2>7. CASE excused' = excused /\ owed' = owed
    BY <2>2, <2>3, <2>4, <2>5, <2>7 DEF Covered, Reached, heard
  <2>8. excused' = Published \/ (excused' = excused /\ owed' = owed)
    BY <2>1, Zenon DEF Threw, Told
  <2> QED
    BY <2>6, <2>7, <2>8
<1>7. CASE Disconnect \/ Restart
  <2>1. /\ journal' = journal /\ last' = last /\ applied' = applied /\ excused' = excused
        /\ lost' = IF owed THEN lost \cup {e \in Published : e[1] < journal} ELSE lost
    BY <1>7 DEF Disconnect, Restart, cursor, Unannounced
  <2>2. Published' = Published
    BY <1>7, SameHub, Restarted DEF Disconnect, Restart, hub
  <2> QED
    BY <2>1, <2>2 DEF Covered, Reached, heard
<1> QED
  BY <1>1, <1>2, <1>3, <1>4, <1>5, <1>6, <1>7, <1>8, Zenon DEF Next

-----------------------------------------------------------------------------
(* The order of the wire                                                    *)

\* What broadcastNow keeps is the end of the ring with the new number behind it.
LEMMA PublishedKept ==
  ASSUME TypeOK, Wire, Rising, Publish
  PROVE  \E n \in Nat, i \in Nat, all \in Seq(Nat) :
           /\ n = Len(kept) /\ Len(all) = n + 1 /\ all[n + 1] = Latest + 1 /\ i \in 1..n + 2
           /\ \A k \in 1..n : all[k] = kept[k] /\ kept[k] \in Nat /\ kept[k] <= Latest
           /\ \A a, b \in 1..n + 1 : a < b => all[a] < all[b]
           /\ Len(kept') = (IF i <= n + 1 THEN n + 2 - i ELSE 0) /\ kept' \in Seq(Nat)
           /\ \A k \in 1..n + 2 - i : kept'[k] = all[i + k - 1]
           /\ Rising'
<1>1. /\ Latest' = Latest + 1 /\ Latest \in Nat /\ unavailable \in Nat
  <2>1. Latest' = Latest + 1
    BY OneMore DEF Publish
  <2> QED
    BY <2>1, Numbers DEF TypeOK
<1> DEFINE all == Append(kept, Latest + 1)
<1>2. PICK i \in 1..Len(all) + 1 : kept' = SubSeq(all, i, Len(all)) /\ unavailable' = unavailable
  BY DEF Publish
<1>3. PICK n \in Nat :
        /\ n = Len(kept) /\ Len(all) = n + 1 /\ all[n + 1] = Latest + 1
        /\ \A k \in 1..n : all[k] = kept[k] /\ kept[k] \in Nat /\ kept[k] <= Latest
  <2>1. Latest + 1 \in 1..MaxEvents /\ kept \in Seq(1..MaxEvents)
    BY NumberLeft DEF Publish, TypeOK
  <2> QED
    BY <2>1, Appended, OnWire DEF Wire
<1>4. all \in Seq(Nat)
  <2>1. Latest + 1 \in Nat /\ kept \in Seq(Nat)
    <3>1. kept \in Seq(1..MaxEvents) /\ 1..MaxEvents \subseteq Nat
      BY Numbers DEF TypeOK
    <3>2. kept \in Seq(Nat)
      BY <3>1, SeqMonotonic
    <3>3. Latest + 1 \in Nat
      BY <1>1
    <3> QED
      BY <3>2, <3>3
  <2> QED
    BY <2>1, Appended
<1> HIDE DEF all
<1>5. \A a, b \in 1..n + 1 : a < b => all[a] < all[b]
  <2> SUFFICES ASSUME NEW a \in 1..n + 1, NEW b \in 1..n + 1, a < b PROVE all[a] < all[b]
    OBVIOUS
  <2>1. a \in 1..n
    BY <1>3
  <2>2. CASE b = n + 1
    BY <1>1, <1>3, <2>1, <2>2
  <2>3. CASE b # n + 1
    <3>1. b \in 1..n
      BY <1>3, <2>3
    <3>2. kept[a] < kept[b]
      BY <1>3, <2>1, <3>1 DEF Rising
    <3> QED
      BY <1>3, <2>1, <3>1, <3>2
  <2> QED
    BY <2>2, <2>3
<1>7. /\ Len(kept') = (IF i <= n + 1 THEN n + 2 - i ELSE 0) /\ i \in 1..n + 2
      /\ kept' \in Seq(Nat)
      /\ \A k \in 1..n + 2 - i : kept'[k] = all[i + k - 1]
  <2>1. \A k \in i..n + 1 : all[k] \in Nat
    BY <1>2, <1>3, <1>4, Elements
  <2>2. i \in 1..n + 2 /\ kept' = SubSeq(all, i, n + 1)
    BY <1>2, <1>3
  <2>3. i \in Int /\ n + 1 \in Int
    BY <1>3, <2>2
  <2>4. /\ SubSeq(all, i, n + 1) \in Seq(Nat)
        /\ Len(SubSeq(all, i, n + 1)) = IF i <= n + 1 THEN (n + 1) - i + 1 ELSE 0
        /\ \A k \in 1..((n + 1) - i + 1) : SubSeq(all, i, n + 1)[k] = all[i + k - 1]
    BY <2>1, <2>3, SubSeqProperties
  <2>5. (n + 1) - i + 1 = n + 2 - i
    BY <1>3, <2>2
  <2> QED
    BY <2>2, <2>4, <2>5
<1>8. \A a, b \in 1..Len(kept') : a < b => kept'[a] < kept'[b]
  <2> SUFFICES ASSUME NEW a \in 1..Len(kept'), NEW b \in 1..Len(kept'), a < b
               PROVE  kept'[a] < kept'[b]
    OBVIOUS
  <2>1. a \in 1..n + 2 - i /\ b \in 1..n + 2 - i
    BY <1>3, <1>7
  <2>2. i + a - 1 \in 1..n + 1 /\ i + b - 1 \in 1..n + 1 /\ i + a - 1 < i + b - 1
    BY <1>3, <1>7, <2>1
  <2> QED
    BY <1>5, <1>7, <2>1, <2>2
<1>9. Rising' /\ i \in Nat
  BY <1>3, <1>7, <1>8 DEF Rising
<1> WITNESS n \in Nat, i \in Nat, all \in Seq(Nat)
<1> QED
  BY <1>3, <1>5, <1>7, <1>9

LEMMA BetweenJoined ==
  ASSUME NEW q \in Seq(Frames), NEW r \in Seq(Frames),
         NEW lo \in Nat, NEW mid \in Nat, NEW hi \in Nat, lo <= mid, mid <= hi,
         Between(q, lo, mid), Between(r, mid, hi)
  PROVE  Between(q \o r, lo, hi)
<1> DEFINE b == q \o r
<1>1. /\ Len(b) = Len(q) + Len(r) /\ Len(q) \in Nat /\ Len(r) \in Nat
      /\ \A k \in 1..Len(q) : b[k] = q[k]
      /\ \A k \in 1..Len(r) : b[Len(q) + k] = r[k]
  BY Joined
<1>2. \A x \in Frames : x.seq \in Nat
  BY Numbers DEF Frames
<1>3. /\ \A k \in 1..Len(q) : q[k].seq \in Nat
      /\ \A k \in 1..Len(r) : r[k].seq \in Nat
  BY <1>2, Elements
<1> HIDE DEF b
<1>4. ASSUME NEW k \in 1..Len(b)
      PROVE  \/ k \in 1..Len(q) /\ b[k] = q[k]
             \/ k - Len(q) \in 1..Len(r) /\ b[k] = r[k - Len(q)] /\ k > Len(q)
  <2>1. CASE k \in 1..Len(q)
    BY <1>1, <2>1
  <2>2. CASE k \notin 1..Len(q)
    <3>1. k - Len(q) \in 1..Len(r) /\ Len(q) + (k - Len(q)) = k /\ k > Len(q)
      BY <1>1, <2>2
    <3> QED
      BY <1>1, <3>1
  <2> QED
    BY <2>1, <2>2
<1>5. ASSUME NEW k \in 1..Len(b), IsEventFrame(b[k]) PROVE lo < b[k].seq /\ b[k].seq <= hi
  <2>1. CASE k \in 1..Len(q) /\ b[k] = q[k]
    <3>1. lo < q[k].seq /\ q[k].seq <= mid /\ q[k].seq \in Nat
      BY <1>3, <1>5, <2>1 DEF Between
    <3> QED
      BY <2>1, <3>1
  <2>2. CASE k - Len(q) \in 1..Len(r) /\ b[k] = r[k - Len(q)]
    <3> DEFINE c == k - Len(q)
    <3>1. c \in 1..Len(r) /\ b[k] = r[c]
      BY <2>2
    <3> HIDE DEF c
    <3>2. mid < r[c].seq /\ r[c].seq <= hi /\ r[c].seq \in Nat
      BY <1>3, <1>5, <3>1 DEF Between
    <3> QED
      BY <3>1, <3>2
  <2> QED
    BY <1>4, <2>1, <2>2
<1>6. ASSUME NEW a \in 1..Len(b), NEW c \in 1..Len(b), a < c,
             IsEventFrame(b[a]), IsEventFrame(b[c])
      PROVE  b[a].seq < b[c].seq
  <2>1. CASE a \in 1..Len(q) /\ b[a] = q[a] /\ c \in 1..Len(q) /\ b[c] = q[c]
    BY <1>6, <2>1 DEF Between
  <2>2. CASE a \in 1..Len(q) /\ b[a] = q[a] /\ c - Len(q) \in 1..Len(r) /\ b[c] = r[c - Len(q)]
    <3> DEFINE d == c - Len(q)
    <3>1. d \in 1..Len(r) /\ b[c] = r[d]
      BY <2>2
    <3> HIDE DEF d
    <3>2. mid < r[d].seq /\ r[d].seq \in Nat
      BY <1>3, <1>6, <3>1 DEF Between
    <3>3. q[a].seq <= mid /\ q[a].seq \in Nat
      BY <1>3, <1>6, <2>2 DEF Between
    <3> QED
      BY <2>2, <3>1, <3>2, <3>3
  <2>3. CASE /\ a - Len(q) \in 1..Len(r) /\ b[a] = r[a - Len(q)]
             /\ c - Len(q) \in 1..Len(r) /\ b[c] = r[c - Len(q)]
    <3>1. a - Len(q) < c - Len(q)
      BY <1>1, <1>6
    <3> QED
      BY <1>6, <2>3, <3>1 DEF Between
  <2>4. CASE a > Len(q) /\ c \in 1..Len(q)
    BY <1>1, <1>6, <2>4
  <2> QED
    BY <1>4, <2>1, <2>2, <2>3, <2>4
<1> QED
  BY <1>5, <1>6 DEF b, Between

\* One frame at the end, an event after all that was delivered or no event.
LEMMA BetweenAppended ==
  ASSUME TypeOK, NEW x \in Frames, inbox' = Append(inbox, x), Between(inbox, 0, delivered),
         NEW hi \in Nat, delivered <= hi, IsEventFrame(x) => delivered < x.seq /\ x.seq <= hi
  PROVE  Between(inbox', 0, hi)
<1>1. PICK r \in Seq(Frames) : r = <<x>> /\ Len(r) = 1 /\ r[1] = x /\ inbox' = inbox \o r
  BY OneFrame
<1>2. Between(r, delivered, hi)
  BY <1>1 DEF Between
<1>3. inbox \in Seq(Frames) /\ delivered \in Nat /\ 0 \in Nat /\ 0 <= delivered
  BY Numbers DEF TypeOK
<1>4. Between(inbox \o r, 0, hi)
  BY <1>2, <1>3, BetweenJoined
<1> QED
  BY <1>1, <1>4

\* What replayProviderEvents sends comes after what was delivered, in order.
LEMMA ServedInOrder ==
  ASSUME TypeOK, Wire, InOrder, up, NEW j, NEW after \in Nat, ReplayProviderEvents(j, after)
  PROVE  delivered' <= Latest /\ Between(inbox', 0, delivered')
<1> DEFINE changed == j # JournalId
           from == IF changed THEN 0 ELSE after
           earliest == IF kept = <<>> THEN Latest + 1 ELSE Head(kept)
           start == IF from > delivered THEN from ELSE delivered
           gap == IF changed \/ from + 1 < earliest \/ unavailable > from THEN <<Gap>> ELSE <<>>
           rest(i) == [k \in 1..Len(kept) - i |-> Event(JournalId, kept[k + i])]
<1>1. PICK i \in 0..Len(kept) :
        /\ \A k \in 1..Len(kept) : kept[k] > start <=> k > i
        /\ inbox' = inbox \o (gap \o rest(i) \o <<Complete>>)
        /\ delivered' = IF i < Len(kept) THEN kept[Len(kept)] ELSE delivered
  BY Zenon DEF ReplayProviderEvents
<1>2. PICK n \in Nat : n = Len(kept) /\ \A k \in 1..n : /\ kept[k] \in 1..MaxEvents
                                                        /\ kept[k] \in Nat /\ kept[k] <= Latest
  BY OnWire DEF Wire
<1>3. i \in 0..n /\ delivered \in Nat /\ start \in Nat /\ delivered <= start
  BY <1>1, <1>2, Numbers DEF TypeOK
<1>4. /\ rest(i) \in Seq(Frames) /\ Len(rest(i)) = n - i
      /\ \A k \in 1..n - i : rest(i)[k] = Event(JournalId, kept[k + i])
  <2>1. rest(i) = [k \in 1..n - i |-> Event(JournalId, kept[k + i])]
    BY <1>2
  <2>2. \A k \in 1..n - i : Event(JournalId, kept[k + i]) \in Frames
    BY <1>2, <1>3, Numbers
  <2>3. rest(i) \in Seq(Frames) /\ Len(rest(i)) = n - i
    BY <1>3, <2>1, <2>2
  <2> HIDE DEF rest
  <2>4. \A k \in 1..n - i : rest(i)[k] = Event(JournalId, kept[k + i])
    BY <2>1
  <2> QED
    BY <2>3, <2>4
<1>5. /\ gap \in Seq(Frames) /\ Between(gap, delivered, delivered)
  <2>1. ~IsEventFrame(Gap) /\ Gap \in Frames
    BY Numbers DEF Gap, IsEventFrame
  <2>2. gap = <<Gap>> \/ gap = <<>>
    OBVIOUS
  <2> QED
    BY <2>1, <2>2 DEF Between
<1>6. <<Complete>> \in Seq(Frames) /\ Between(<<Complete>>, delivered', delivered')
  <2>1. ~IsEventFrame(Complete) /\ Complete \in Frames
    BY Numbers DEF Complete, IsEventFrame
  <2> QED
    BY <2>1 DEF Between
<1> HIDE DEF gap, rest
<1>7. /\ delivered' \in Nat /\ delivered <= delivered' /\ delivered' <= Latest
      /\ \A k \in 1..n - i : delivered < kept[k + i] /\ kept[k + i] <= delivered'
  <2>1. CASE i < n
    <3>1. delivered' = kept[n] /\ n \in 1..n /\ n > i
      BY <1>1, <1>2, <1>3, <2>1
    <3>2. ASSUME NEW k \in 1..n, k > i PROVE delivered < kept[k] /\ kept[k] <= kept[n]
      <4>1. kept[k] > start
        BY <1>1, <1>2, <3>2
      <4>2. k = n \/ kept[k] < kept[n]
        BY <1>2, <3>1 DEF InOrder, Rising
      <4> QED
        BY <1>2, <1>3, <3>1, <4>1, <4>2
    <3>3. \A k \in 1..n - i : k + i \in 1..n /\ k + i > i
      BY <1>3
    <3>4. delivered < kept[n] /\ kept[n] <= Latest /\ kept[n] \in Nat
      BY <1>2, <3>1, <3>2
    <3> QED
      BY <1>3, <3>1, <3>2, <3>3, <3>4
  <2>2. CASE ~(i < n)
    <3>1. delivered' = delivered
      BY <1>1, <1>2, <2>2
    <3> QED
      BY <1>3, <2>2, <3>1 DEF InOrder
  <2> QED
    BY <2>1, <2>2
<1>8. Between(rest(i), delivered, delivered')
  <2>1. \A k \in 1..n - i : rest(i)[k].seq = kept[k + i]
    <3> SUFFICES ASSUME NEW k \in 1..n - i PROVE rest(i)[k].seq = kept[k + i]
      OBVIOUS
    <3>1. Event(JournalId, kept[k + i]).seq = kept[k + i]
      BY DEF Event
    <3> QED
      BY <1>4, <3>1
  <2>2. ASSUME NEW a \in 1..n - i, NEW b \in 1..n - i, a < b PROVE kept[a + i] < kept[b + i]
    <3>1. a + i \in 1..n /\ b + i \in 1..n /\ a + i < b + i
      BY <1>3, <2>2
    <3> QED
      BY <1>2, <3>1 DEF InOrder, Rising
  <2> QED
    BY <1>4, <1>7, <2>1, <2>2 DEF Between
<1>9. gap \o rest(i) \in Seq(Frames) /\ Between(gap \o rest(i), delivered, delivered')
  <2> DEFINE q == gap
             r == rest(i)
  <2>1. q \in Seq(Frames) /\ r \in Seq(Frames)
    BY <1>4, <1>5
  <2>2. Between(q, delivered, delivered) /\ Between(r, delivered, delivered') /\ delivered <= delivered
    BY <1>3, <1>5, <1>8
  <2> HIDE DEF q, r
  <2>3. q \o r \in Seq(Frames) /\ Between(q \o r, delivered, delivered')
    BY <1>3, <1>7, <2>1, <2>2, BetweenJoined, JoinedFrames
  <2> QED
    BY <2>3 DEF q, r
<1>10. /\ gap \o rest(i) \o <<Complete>> \in Seq(Frames)
       /\ Between(gap \o rest(i) \o <<Complete>>, delivered, delivered')
  <2> DEFINE q == gap \o rest(i)
             r == <<Complete>>
  <2>1. q \in Seq(Frames) /\ r \in Seq(Frames)
    BY <1>6, <1>9
  <2>2. /\ Between(q, delivered, delivered') /\ Between(r, delivered', delivered')
        /\ delivered' <= delivered'
    BY <1>6, <1>7, <1>9
  <2> HIDE DEF q, r
  <2>3. q \o r \in Seq(Frames) /\ Between(q \o r, delivered, delivered')
    BY <1>3, <1>7, <2>1, <2>2, BetweenJoined, JoinedFrames
  <2> QED
    BY <2>3 DEF q, r
<1>11. inbox \in Seq(Frames) /\ 0 \in Nat /\ 0 <= delivered /\ Between(inbox, 0, delivered)
  BY <1>3 DEF TypeOK, InOrder
<1> QED
  BY <1>1, <1>3, <1>7, <1>10, <1>11, BetweenJoined

LEMMA InOrderInductive ==
  TypeOK /\ Wire /\ InOrder /\ [Next]_vars => InOrder'
<1> SUFFICES ASSUME TypeOK, Wire, InOrder, [Next]_vars PROVE InOrder'
  OBVIOUS
<1>1. delivered \in Nat /\ Latest \in Nat /\ authAt \in Nat
  BY Numbers DEF TypeOK
<1>2. CASE Publish
  <2>1. Latest' = Latest + 1 /\ Latest + 1 \in 1..MaxEvents /\ up' = up
    BY <1>2, OneMore, NumberLeft DEF Publish
  <2>2. Rising'
    BY <1>2, PublishedKept DEF InOrder
  <2>3. CASE up /\ ready
    <3>1. inbox' = Append(inbox, Event(JournalId, Latest + 1)) /\ delivered' = Latest + 1
      BY <1>2, <2>3 DEF Publish
    <3>2. /\ Event(JournalId, Latest + 1) \in Frames
          /\ Event(JournalId, Latest + 1).seq = Latest + 1
      BY <2>1, Numbers DEF Event
    <3>3. Between(inbox', 0, delivered')
      BY <1>1, <2>3, <3>1, <3>2, BetweenAppended DEF InOrder
    <3> QED
      BY <1>1, <2>1, <2>2, <3>1, <3>3 DEF InOrder
  <2>4. CASE ~(up /\ ready)
    <3>1. inbox' = inbox /\ delivered' = delivered
      BY <1>2, <2>4 DEF Publish
    <3> QED
      BY <1>1, <2>1, <2>2, <3>1 DEF InOrder
  <2> QED
    BY <2>3, <2>4
<1>3. CASE PublishOversized
  <2>1. Latest' = Latest + 1 /\ kept' = kept /\ up' = up /\ delivered' = delivered
    BY <1>3, OneMore DEF PublishOversized, link
  <2>2. Gap \in Frames /\ ~IsEventFrame(Gap)
    BY Numbers DEF Gap, IsEventFrame
  <2>3. inbox' = inbox \/ inbox' = Append(inbox, Gap)
    BY <1>3 DEF PublishOversized
  <2>4. Between(inbox', 0, delivered')
    BY <1>1, <2>1, <2>2, <2>3, BetweenAppended DEF InOrder
  <2> QED
    BY <1>1, <2>1, <2>4 DEF InOrder, Rising
<1>4. CASE Connect
  <2>1. inbox' = <<AuthOk>> /\ delivered' = 0 /\ kept' = kept /\ total' = total
    BY <1>4 DEF Connect, hub
  <2>2. Between(inbox', 0, delivered')
    BY <2>1 DEF Between, AuthOk, IsEventFrame
  <2> QED
    BY <1>1, <2>1, <2>2, SameHub DEF InOrder, Rising
<1>5. CASE Requested \/ ReplayTimer
  <2>2. up /\ up' = up /\ kept' = kept /\ total' = total
    BY <1>5 DEF Requested, ReplayTimer, hub
  <2>3. delivered' <= Latest /\ Between(inbox', 0, delivered')
    <3>1. CASE Requested
      <4>1. PICK r \in request : ReplayProviderEvents(r.journal, r.after)
        BY <3>1, Zenon DEF Requested
      <4>2. r.after \in Nat
        <5>1. r.after \in 0..MaxEvents
          BY <4>1 DEF TypeOK
        <5> QED
          BY <5>1
      <4> QED
        BY <2>2, <4>1, <4>2, ServedInOrder
    <3>2. CASE ReplayTimer
      <4>1. ReplayProviderEvents(JournalId, authAt)
        BY <3>2, Zenon DEF ReplayTimer
      <4> QED
        BY <1>1, <2>2, <4>1, ServedInOrder
    <3> QED
      BY <1>5, <3>1, <3>2
  <2> QED
    BY <2>2, <2>3, SameHub DEF InOrder, Rising
<1>6. CASE /\ inbox # <<>> /\ inbox' = Tail(inbox) /\ hub' = hub /\ link' = link
  <2>1. /\ Len(inbox) \in Nat /\ Len(inbox') = Len(inbox) - 1
        /\ \A k \in 1..(Len(inbox) - 1) : inbox'[k] = inbox[k + 1]
    BY <1>6, Taken
  <2>2. \A k \in 1..Len(inbox') : k + 1 \in 1..Len(inbox) /\ inbox'[k] = inbox[k + 1]
    BY <2>1
  <2>3. Between(inbox, 0, delivered)
    BY DEF InOrder
  <2>4. \A k \in 1..Len(inbox') : IsEventFrame(inbox'[k]) =>
          0 < inbox'[k].seq /\ inbox'[k].seq <= delivered
    BY <2>2, <2>3 DEF Between
  <2>5. ASSUME NEW a \in 1..Len(inbox'), NEW b \in 1..Len(inbox'), a < b,
               IsEventFrame(inbox'[a]), IsEventFrame(inbox'[b])
        PROVE  inbox'[a].seq < inbox'[b].seq
    <3>1. a + 1 < b + 1
      BY <2>5
    <3> QED
      BY <2>2, <2>3, <2>5, <3>1 DEF Between
  <2>6. Between(inbox', 0, delivered)
    BY <2>4, <2>5 DEF Between
  <2> QED
    BY <1>6, <2>6, SameHub DEF InOrder, Rising, hub, link
<1>7. CASE Disconnect \/ Restart
  <2>1. inbox' = <<>> /\ ~up' /\ (kept' = kept \/ kept' = <<>>)
    BY <1>7 DEF Disconnect, Restart, hub
  <2>2. Rising'
    BY <2>1 DEF InOrder, Rising
  <2> QED
    BY <2>1, <2>2 DEF InOrder, Between
<1>8. CASE UNCHANGED vars
  BY <1>8, SameHub DEF InOrder, Rising, vars, hub, link, wire
<1>9. CASE Negotiate \/ DeliverGap \/ GapHandlerThrows \/ DeliverComplete
  BY <1>6, <1>9 DEF Negotiate, DeliverGap, GapHandlerThrows, DeliverComplete
<1>10. CASE DeliverEvent \/ EventHandlerThrows
  <2>1. PICK f : EventFrame(f)
    BY <1>10, Zenon DEF DeliverEvent, EventHandlerThrows
  <2>2. hub' = hub /\ link' = link
    BY <1>10, Zenon DEF DeliverEvent, EventHandlerThrows
  <2> QED
    BY <1>6, <2>1, <2>2 DEF EventFrame
<1> QED
  BY <1>2, <1>3, <1>4, <1>5, <1>7, <1>8, <1>9, <1>10, Zenon DEF Next

-----------------------------------------------------------------------------
(* What the wire leaves out                                                 *)

\* Frames added at the end leave what comes before a frame as it is.
LEMMA SkippedKept ==
  ASSUME TypeOK, Skipped, JournalId' = JournalId, excused' = excused, lost' = lost, last' = last,
         announced' <=> announced, Len(inbox') \in Nat, Len(inbox) <= Len(inbox'),
         \A k \in 1..Len(inbox) : inbox'[k] = inbox[k],
         ASSUME announced, NEW k \in (Len(inbox) + 1)..Len(inbox'), Plain(Len(inbox)),
                inbox'[k].type = "provider.runtimeEvent",
                NEW m \in 1..MaxEvents, last < m, m < inbox'[k].seq
         PROVE  Known(m) \/ \E j \in 1..(k - 1) : inbox'[j].seq = m
  PROVE  Skipped'
<1> SUFFICES ASSUME announced, NEW k \in 1..Len(inbox'), Plain(k)',
                    NEW m \in 1..MaxEvents, last < m, m < inbox'[k].seq
             PROVE  Known(m) \/ \E j \in 1..(k - 1) : inbox'[j].seq = m
  BY DEF Skipped, Known
<1>1. Len(inbox) \in Nat
  BY OnWire
<1>2. \A j \in 1..k : inbox'[j].type = "provider.runtimeEvent"
  BY DEF Plain, IsEvent
<1>3. CASE k \in 1..Len(inbox)
  <2>1. Plain(k) /\ m < inbox[k].seq
    BY <1>1, <1>2, <1>3 DEF Plain, IsEvent
  <2>2. Known(m) \/ \E j \in 1..(k - 1) : inbox[j].seq = m
    BY <1>3, <2>1 DEF Skipped
  <2> QED
    BY <1>1, <1>3, <2>2
<1>4. CASE k \in (Len(inbox) + 1)..Len(inbox')
  <2>1. Plain(Len(inbox)) /\ inbox'[k].type = "provider.runtimeEvent"
    BY <1>1, <1>2, <1>4 DEF Plain, IsEvent
  <2> QED
    BY <1>4, <2>1
<1> QED
  BY <1>1, <1>3, <1>4

\* What the wire holds up to a frame, once the event in front of it is taken.
LEMMA Shifted ==
  ASSUME TypeOK, inbox # <<>>, IsEvent(1), inbox' = Tail(inbox)
  PROVE  /\ Len(inbox') \in Nat /\ Len(inbox) = Len(inbox') + 1
         /\ \A k \in 1..Len(inbox') : inbox'[k] = inbox[k + 1] /\ (Plain(k)' => Plain(k + 1))
         /\ Plain(Len(inbox))' => Plain(Len(inbox))
         /\ \A m : \A k \in 0..Len(inbox') :
              (\E j \in 1..(k + 1) : inbox[j].seq = m) =>
                inbox[1].seq = m \/ \E j \in 1..k : inbox'[j].seq = m
<1>1. /\ Len(inbox) \in Nat /\ Len(inbox) >= 1 /\ Len(inbox') = Len(inbox) - 1
      /\ \A k \in 1..(Len(inbox) - 1) : inbox'[k] = inbox[k + 1]
  BY Taken
<1>2. ASSUME NEW k \in 0..Len(inbox'), \A j \in 1..k : inbox'[j].type = "provider.runtimeEvent"
      PROVE  Plain(k + 1)
  <2> SUFFICES ASSUME NEW j \in 1..(k + 1) PROVE IsEvent(j)
    BY DEF Plain
  <2>1. CASE j = 1
    BY <2>1
  <2>2. CASE j # 1
    <3>1. j - 1 \in 1..k /\ j - 1 \in 1..(Len(inbox) - 1) /\ (j - 1) + 1 = j
      BY <1>1, <2>2
    <3> QED
      BY <1>1, <1>2, <3>1 DEF IsEvent
  <2> QED
    BY <2>1, <2>2
<1>3. ASSUME NEW m, NEW k \in 0..Len(inbox'), NEW j \in 1..(k + 1), inbox[j].seq = m
      PROVE  inbox[1].seq = m \/ \E i \in 1..k : inbox'[i].seq = m
  <2>1. CASE j = 1
    BY <1>3, <2>1
  <2>2. CASE j # 1
    <3>1. j - 1 \in 1..k /\ j - 1 \in 1..(Len(inbox) - 1) /\ (j - 1) + 1 = j
      BY <1>1, <2>2
    <3> QED
      BY <1>1, <1>3, <3>1
  <2> QED
    BY <2>1, <2>2
<1>4. ASSUME NEW k \in 1..Len(inbox'), Plain(k)' PROVE Plain(k + 1)
  BY <1>1, <1>2, <1>4 DEF Plain, IsEvent
<1>5. ASSUME Plain(Len(inbox))' PROVE Plain(Len(inbox))
  <2>1. \A j \in 1..Len(inbox') : inbox'[j].type = "provider.runtimeEvent"
    BY <1>5 DEF Plain, IsEvent
  <2>2. Plain(Len(inbox') + 1) /\ Len(inbox') + 1 = Len(inbox)
    BY <1>1, <1>2, <2>1
  <2> QED
    BY <2>2
<1> QED
  BY <1>1, <1>3, <1>4, <1>5

\* The client takes an event while the gap stays announced: what it leaves out is
\* behind the cursor, or lost.
LEMMA TakenWhileAnnounced ==
  ASSUME TypeOK, Wire, Cursor, Skipped, Awaited, [Next]_vars,
         DeliverEvent \/ EventHandlerThrows, announced'
  PROVE  Skipped' /\ Awaited'
<1>1. PICK f :
        /\ EventFrame(f) /\ last' = Base(f) /\ (announced' <=> announced)
        /\ excused' = excused \/ ~announced
        /\ lost \subseteq lost'
        /\ f.seq <= Base(f) \/ (announced => <<f.journal, f.seq>> \in lost')
  <2>1. CASE DeliverEvent
    <3>1. PICK f : /\ EventFrame(f)
                   /\ IF f.seq <= Base(f)
                        THEN last' = Base(f) /\ UNCHANGED <<announced, applied, excused, owed>>
                        ELSE /\ last' = f.seq
                             /\ announced' = FALSE
                             /\ applied' = Append(applied, <<f.journal, f.seq>>)
                             /\ IF Hole(f) THEN Told ELSE UNCHANGED <<excused, owed>>
      BY <2>1, Zenon DEF DeliverEvent
    <3>2. f.seq <= Base(f)
      BY <3>1, Zenon
    <3>3. last' = Base(f) /\ announced' = announced /\ excused' = excused
      BY <3>1, <3>2, Zenon
    <3>4. lost' = lost
      BY <2>1 DEF DeliverEvent
    <3> QED
      BY <3>1, <3>2, <3>3, <3>4
  <2>2. CASE EventHandlerThrows
    <3>1. PICK f : /\ EventFrame(f) /\ f.seq > Base(f)
                   /\ last' = Base(f)
                   /\ Threw(f)
                   /\ lost' = IF announced THEN lost \cup {<<f.journal, f.seq>>} ELSE lost
      BY <2>2, Zenon DEF EventHandlerThrows
    <3>2. announced' = announced
      BY <2>2 DEF EventHandlerThrows
    <3>3. announced => ~Hole(f)
      BY DEF Hole
    <3>4. announced => excused' = excused
      BY <3>1, <3>3, Zenon DEF Threw
    <3>5. lost \subseteq lost' /\ (announced => <<f.journal, f.seq>> \in lost')
      BY <3>1
    <3> QED
      BY <3>1, <3>2, <3>4, <3>5
  <2> QED
    BY <2>1, <2>2
<1>2. /\ up /\ ready /\ inbox # <<>> /\ inbox' = Tail(inbox)
      /\ journal = JournalId /\ f.journal = JournalId
      /\ Base(f) = last /\ last \in Nat
      /\ f = inbox[1] /\ f.type = "provider.runtimeEvent" /\ f.seq \in Nat
  BY <1>1, EventArrives
<1>3. announced /\ excused' = excused /\ last' = last
  BY <1>1, <1>2, Zenon
<1>4. hub' = hub /\ link' = link
  BY Zenon DEF DeliverEvent, EventHandlerThrows
<1>5. JournalId' = JournalId /\ Latest' = Latest /\ up' = up /\ ready' = ready
  BY <1>4, SameHub DEF hub, link
<1>6. IsEvent(1)
  BY <1>2 DEF IsEvent
<1>7. /\ Len(inbox') \in Nat /\ Len(inbox) = Len(inbox') + 1
      /\ \A k \in 1..Len(inbox') : inbox'[k] = inbox[k + 1] /\ (Plain(k)' => Plain(k + 1))
      /\ Plain(Len(inbox))' => Plain(Len(inbox))
      /\ \A m : \A k \in 0..Len(inbox') :
           (\E j \in 1..(k + 1) : inbox[j].seq = m) =>
             inbox[1].seq = m \/ \E j \in 1..k : inbox'[j].seq = m
  BY <1>2, <1>6, Shifted
<1>8. ASSUME NEW m \in 1..MaxEvents, last < m,
             NEW k \in 0..Len(inbox'),
             Known(m) \/ \E j \in 1..(k + 1) : inbox[j].seq = m
      PROVE  Known(m)' \/ \E j \in 1..k : inbox'[j].seq = m
  <2>1. m \in Nat
    BY Numbers
  <2>2. CASE Known(m)
    BY <1>1, <1>3, <1>5, <2>2 DEF Known
  <2>3. CASE inbox[1].seq = m
    <3>1. ~(f.seq <= Base(f))
      BY <1>2, <1>8, <2>1, <2>3
    <3>2. <<JournalId, m>> \in lost'
      BY <1>1, <1>2, <1>3, <2>3, <3>1
    <3> QED
      BY <1>5, <3>2 DEF Known
  <2>4. CASE \E j \in 1..k : inbox'[j].seq = m
    BY <2>4
  <2> QED
    BY <1>7, <1>8, <2>2, <2>3, <2>4
<1>9. Skipped'
  <2> SUFFICES ASSUME NEW k \in 1..Len(inbox'), Plain(k)',
                      NEW m \in 1..MaxEvents, last < m, m < inbox'[k].seq
               PROVE  Known(m)' \/ \E j \in 1..(k - 1) : inbox'[j].seq = m
    BY <1>3 DEF Skipped
  <2>1. k + 1 \in 1..Len(inbox) /\ Plain(k + 1) /\ inbox'[k] = inbox[k + 1]
    BY <1>7
  <2>2. Known(m) \/ \E j \in 1..((k + 1) - 1) : inbox[j].seq = m
    BY <1>3, <2>1 DEF Skipped
  <2>3. (k + 1) - 1 = (k - 1) + 1 /\ k - 1 \in 0..Len(inbox')
    BY <1>7
  <2> QED
    BY <1>8, <2>2, <2>3
<1>10. Awaited'
  <2> SUFFICES ASSUME Plain(Len(inbox))', NEW m \in 1..MaxEvents, last < m, m <= Latest
               PROVE  Known(m)' \/ \E j \in 1..Len(inbox') : inbox'[j].seq = m
    BY <1>3, <1>5 DEF Awaited
  <2>1. Plain(Len(inbox))
    BY <1>7
  <2>2. Known(m) \/ \E j \in 1..Len(inbox) : inbox[j].seq = m
    BY <1>2, <1>3, <2>1, Zenon DEF Awaited
  <2>3. Len(inbox) = Len(inbox') + 1 /\ Len(inbox') \in 0..Len(inbox')
    BY <1>7
  <2> QED
    BY <1>8, <2>2, <2>3
<1> QED
  BY <1>9, <1>10

\* The hub publishes: a client that is ready is sent the event, or a gap.
LEMMA WhenPublished ==
  ASSUME TypeOK, Wire, Cursor, Skipped, Awaited, Publish \/ PublishOversized
  PROVE  Skipped' /\ Awaited'
<1>1. /\ JournalId' = JournalId /\ Latest' = Latest + 1 /\ Latest + 1 \in 1..MaxEvents
      /\ Latest \in Nat
  BY OneMore, NumberLeft, Numbers DEF Publish, PublishOversized
<1>2. UNCHANGED <<last, excused, lost, announced, up, ready>>
  BY DEF Publish, PublishOversized, cursor, history, link
<1>3. CASE up /\ ready
  <2>1. PICK x \in Frames :
          /\ inbox' = Append(inbox, x)
          /\ x.type = "provider.runtimeEvent" => x.seq = Latest + 1
    <3>1. CASE Publish
      <4>1. inbox' = Append(inbox, Event(JournalId, Latest + 1))
        BY <1>3, <3>1 DEF Publish
      <4>2. Event(JournalId, Latest + 1) \in Frames
        BY <1>1, Numbers
      <4>3. Event(JournalId, Latest + 1).seq = Latest + 1
        BY DEF Event
      <4> QED
        BY <4>1, <4>2, <4>3
    <3>2. CASE PublishOversized
      <4>1. inbox' = Append(inbox, Gap)
        BY <1>3, <3>2 DEF PublishOversized
      <4>2. Gap \in Frames
        BY Numbers
      <4>3. Gap.type # "provider.runtimeEvent"
        BY DEF Gap
      <4> QED
        BY <4>1, <4>2, <4>3
    <3> QED
      BY <3>1, <3>2
  <2>2. /\ Len(inbox) \in Nat /\ Len(inbox') = Len(inbox) + 1
        /\ \A k \in 1..Len(inbox) : inbox'[k] = inbox[k]
        /\ inbox'[Len(inbox) + 1] = x
    <3>1. inbox \in Seq(Frames)
      BY DEF TypeOK
    <3> QED
      BY <2>1, <3>1, Appended
  <2>3. ASSUME announced, Plain(Len(inbox)), NEW m \in 1..MaxEvents, last < m, m <= Latest
        PROVE  Known(m) \/ \E j \in 1..Len(inbox) : inbox'[j].seq = m
    <3>1. Known(m) \/ \E j \in 1..Len(inbox) : inbox[j].seq = m
      BY <1>3, <2>3, Zenon DEF Awaited
    <3> QED
      BY <2>2, <3>1
  <2>4. ASSUME announced, NEW k \in (Len(inbox) + 1)..Len(inbox'), Plain(Len(inbox)),
               inbox'[k].type = "provider.runtimeEvent",
               NEW m \in 1..MaxEvents, last < m, m < inbox'[k].seq
        PROVE  Known(m) \/ \E j \in 1..(k - 1) : inbox'[j].seq = m
    <3>1. k = Len(inbox) + 1 /\ k - 1 = Len(inbox)
      BY <2>2, <2>4
    <3>2. m < Latest + 1
      BY <2>1, <2>2, <2>4, <3>1
    <3>3. m <= Latest
      BY <1>1, <3>2, Numbers
    <3> QED
      BY <2>3, <2>4, <3>1, <3>3
  <2>5. Skipped'
    <3>1. Len(inbox') \in Nat /\ Len(inbox) <= Len(inbox')
      BY <2>2
    <3>2. announced' <=> announced
      BY <1>2
    <3>3. JournalId' = JournalId /\ excused' = excused /\ lost' = lost /\ last' = last
      BY <1>1, <1>2
    <3>4. \A k \in 1..Len(inbox) : inbox'[k] = inbox[k]
      BY <2>2
    <3> QED
      BY <2>4, <3>1, <3>2, <3>3, <3>4, SkippedKept
  <2>6. Awaited'
    <3> SUFFICES ASSUME announced, Plain(Len(inbox))',
                        NEW m \in 1..MaxEvents, last < m, m <= Latest + 1
                 PROVE  Known(m) \/ \E j \in 1..Len(inbox') : inbox'[j].seq = m
      BY <1>1, <1>2 DEF Awaited, Known
    <3>1. \A j \in 1..Len(inbox') : inbox'[j].type = "provider.runtimeEvent"
      BY DEF Plain, IsEvent
    <3>2. Plain(Len(inbox)) /\ x.seq = Latest + 1
      BY <2>1, <2>2, <3>1 DEF Plain, IsEvent
    <3>3. CASE m <= Latest
      BY <2>2, <2>3, <3>2, <3>3
    <3>4. CASE ~(m <= Latest)
      <4>1. m = Latest + 1
        BY <1>1, <3>4, Numbers
      <4> QED
        BY <2>2, <3>2, <4>1
    <3> QED
      BY <3>3, <3>4
  <2> QED
    BY <2>5, <2>6
<1>4. CASE ~(up /\ ready)
  <2>1. inbox' = inbox
    BY <1>4 DEF Publish, PublishOversized
  <2>2. Skipped'
    BY <1>1, <1>2, <2>1 DEF Skipped, Plain, IsEvent, Known
  <2>3. ~(up' /\ ready')
    BY <1>2, <1>4
  <2>4. Awaited'
    BY <2>3, Zenon DEF Awaited
  <2> QED
    BY <2>2, <2>4
<1> QED
  BY <1>3, <1>4

\* The hub answers a request: what is on the wire then ends with no event.
LEMMA WhenAnswered ==
  ASSUME TypeOK, Wire, Cursor, Skipped, Awaited, Requested \/ ReplayTimer
  PROVE  Skipped' /\ Awaited'
<1>1. /\ JournalId' = JournalId /\ Latest' = Latest
      /\ UNCHANGED <<last, excused, lost, announced>> /\ up
  BY SameHub DEF Requested, ReplayTimer, hub, cursor, history
<1>2. PICK r : Answer(r)
  BY Answered DEF Requested, ReplayTimer
<1>3. /\ Len(inbox) \in Nat /\ Len(r) \in Nat /\ Len(r) >= 1 /\ Len(inbox') = Len(inbox) + Len(r)
      /\ \A k \in 1..Len(inbox) : inbox'[k] = inbox[k]
      /\ \A k \in 1..Len(r) : inbox'[Len(inbox) + k] = r[k]
      /\ \A k \in 1..Len(r) : r[k] \in Frames /\ r[k].seq <= Latest
      /\ r[Len(r)].type # "provider.runtimeEvent"
  <2>1. inbox \in Seq(Frames) /\ r \in Seq(Frames) /\ inbox' = inbox \o r
    BY <1>2 DEF TypeOK, Answer
  <2>2. \A k \in 1..Len(r) : r[k] \in Frames
    BY <2>1, Elements
  <2>3. /\ Len(inbox) \in Nat /\ Len(r) \in Nat /\ Len(inbox') = Len(inbox) + Len(r)
        /\ \A k \in 1..Len(inbox) : inbox'[k] = inbox[k]
        /\ \A k \in 1..Len(r) : inbox'[Len(inbox) + k] = r[k]
    BY <2>1, Joined
  <2>4. /\ Len(r) >= 1 /\ r[Len(r)].type # "provider.runtimeEvent"
        /\ \A k \in 1..Len(r) : r[k].seq <= Latest
    BY <1>2 DEF Answer
  <2> QED
    BY <2>2, <2>3, <2>4
<1>4. inbox'[Len(inbox')].type # "provider.runtimeEvent" /\ Len(inbox') \in 1..Len(inbox')
  BY <1>3
<1>5. ~Plain(Len(inbox))'
  BY <1>4 DEF Plain, IsEvent
<1>6. Awaited'
  BY <1>5, Zenon DEF Awaited
<1>7. ASSUME announced, NEW k \in (Len(inbox) + 1)..Len(inbox'), Plain(Len(inbox)),
             inbox'[k].type = "provider.runtimeEvent",
             NEW m \in 1..MaxEvents, last < m, m < inbox'[k].seq
      PROVE  Known(m) \/ \E j \in 1..(k - 1) : inbox'[j].seq = m
  <2>1. k - Len(inbox) \in 1..Len(r) /\ k = Len(inbox) + (k - Len(inbox))
    BY <1>3, <1>7
  <2>2. inbox'[k] = r[k - Len(inbox)]
    BY <1>3, <2>1
  <2>3. inbox'[k].seq <= Latest /\ inbox'[k] \in Frames
    BY <1>3, <2>1, <2>2
  <2>4. inbox'[k].seq \in Nat /\ m \in Nat /\ Latest \in Nat
    <3>1. \A x \in Frames : x.seq \in Nat
      BY Numbers DEF Frames
    <3>2. m \in Nat /\ Latest \in Nat
      BY Numbers
    <3> QED
      BY <2>3, <3>1, <3>2
  <2>5. m <= Latest
    BY <1>7, <2>3, <2>4
  <2>6. CASE ready
    <3>1. Known(m) \/ \E j \in 1..Len(inbox) : inbox[j].seq = m
      BY <1>1, <1>7, <2>5, <2>6, Zenon DEF Awaited
    <3>2. \A j \in 1..Len(inbox) : j \in 1..(k - 1) /\ inbox'[j] = inbox[j]
      BY <1>3, <1>7
    <3> QED
      BY <3>1, <3>2
  <2>7. CASE ~ready
    <3>1. AuthFirst \/ ~announced
      BY <1>1, <2>7, Zenon DEF Cursor
    <3>2. AuthFirst
      BY <1>7, <3>1
    <3>3. inbox # <<>> /\ inbox \in Seq(Frames)
      BY <3>2 DEF AuthFirst, TypeOK
    <3>4. 1 \in 1..Len(inbox)
      BY <3>3, Removed
    <3>5. inbox[1].type = "provider.runtimeEvent"
      BY <1>7, <3>4 DEF Plain, IsEvent
    <3> QED
      BY <3>2, <3>5 DEF AuthFirst
  <2> QED
    BY <2>6, <2>7
<1>8. Skipped'
  <2>1. Len(inbox') \in Nat /\ Len(inbox) <= Len(inbox')
    BY <1>3
  <2>2. announced' <=> announced
    BY <1>1
  <2>3. JournalId' = JournalId /\ excused' = excused /\ lost' = lost /\ last' = last
    BY <1>1
  <2>4. \A k \in 1..Len(inbox) : inbox'[k] = inbox[k]
    BY <1>3
  <2> QED
    BY <1>7, <2>1, <2>2, <2>3, <2>4, SkippedKept
<1> QED
  BY <1>6, <1>8

\* The client is told of a gap: nothing published is unknown to it.
LEMMA WhenTold ==
  ASSUME TypeOK, Wire, DeliverGap
  PROVE  Skipped' /\ Awaited'
<1>1. /\ JournalId' = JournalId /\ Latest' = Latest /\ excused' = Published
      /\ inbox # <<>> /\ inbox' = Tail(inbox)
  BY SameHub DEF DeliverGap, Told, hub
<1>2. \A m \in 1..MaxEvents : m <= Latest => Known(m)'
  BY <1>1, Numbers DEF Known
<1>3. Len(inbox') \in Nat /\ \A k \in 1..Len(inbox') : inbox'[k].seq \in Nat
  <2>1. inbox' \in Seq(Frames)
    BY <1>1, Taken
  <2>2. Len(inbox') \in Nat /\ \A k \in 1..Len(inbox') : inbox'[k] \in Frames
    BY <2>1, Elements
  <2>3. \A x \in Frames : x.seq \in Nat
    BY Numbers DEF Frames
  <2> QED
    BY <2>2, <2>3
<1>4. \A k \in 1..Len(inbox') : inbox'[k].seq <= Latest
  BY <1>1, FrameTaken
<1>5. Latest \in Nat /\ \A m \in 1..MaxEvents : m \in Nat
  BY Numbers
<1>6. Skipped'
  <2> SUFFICES ASSUME NEW k \in 1..Len(inbox'), NEW m \in 1..MaxEvents, m < inbox'[k].seq
               PROVE  Known(m)'
    BY DEF Skipped
  <2>1. m <= Latest
    BY <1>3, <1>4, <1>5
  <2> QED
    BY <1>2, <2>1
<1>7. Awaited'
  BY <1>1, <1>2 DEF Awaited
<1> QED
  BY <1>6, <1>7

\* The handler of the gap throws: what is published and not on the wire is lost,
\* and what is on the wire comes in order.
LEMMA WhenGapThrows ==
  ASSUME TypeOK, Wire, InOrder, [Next]_vars, GapHandlerThrows
  PROVE  Skipped' /\ Awaited'
<1>1. /\ JournalId' = JournalId /\ Latest' = Latest /\ inbox # <<>> /\ inbox' = Tail(inbox)
      /\ lost' = lost \cup (Published \ EventsOf(inbox'))
  BY SameHub DEF GapHandlerThrows, hub
<1>2. InOrder'
  BY InOrderInductive
<1>3. Len(inbox') \in Nat /\ \A k \in 1..Len(inbox') : inbox'[k].seq \in Nat
  <2>1. inbox' \in Seq(Frames)
    BY <1>1, Taken
  <2>2. Len(inbox') \in Nat /\ \A k \in 1..Len(inbox') : inbox'[k] \in Frames
    BY <2>1, Elements
  <2>3. \A x \in Frames : x.seq \in Nat
    BY Numbers DEF Frames
  <2> QED
    BY <2>2, <2>3
<1>4. \A k \in 1..Len(inbox') : inbox'[k].seq <= Latest
  BY <1>1, FrameTaken
<1>5. Latest \in Nat /\ \A m \in 1..MaxEvents : m \in Nat
  BY Numbers
<1>6. ASSUME NEW m \in 1..MaxEvents, m <= Latest
      PROVE  \/ Known(m)'
             \/ \E k \in 1..Len(inbox') : IsEventFrame(inbox'[k]) /\ inbox'[k].seq = m
  <2>1. <<JournalId, m>> \in Published
    BY <1>6, Numbers
  <2>2. CASE <<JournalId, m>> \in EventsOf(inbox')
    BY <2>2 DEF EventsOf, IsEventFrame
  <2>3. CASE <<JournalId, m>> \notin EventsOf(inbox')
    BY <1>1, <2>1, <2>3 DEF Known
  <2> QED
    BY <2>2, <2>3
<1>7. Skipped'
  <2> SUFFICES ASSUME NEW k \in 1..Len(inbox'), Plain(k)', NEW m \in 1..MaxEvents,
                      m < inbox'[k].seq, ~Known(m)'
               PROVE  \E j \in 1..(k - 1) : inbox'[j].seq = m
    BY DEF Skipped
  <2>1. m <= Latest
    BY <1>3, <1>4, <1>5
  <2>2. PICK j \in 1..Len(inbox') : IsEventFrame(inbox'[j]) /\ inbox'[j].seq = m
    BY <1>6, <2>1
  <2>3. IsEventFrame(inbox'[k])
    <3>1. k \in 1..k
      BY <1>3
    <3> QED
      BY <3>1 DEF Plain, IsEvent, IsEventFrame
  <2>4. k < j => inbox'[k].seq < inbox'[j].seq
    BY <1>2, <2>2, <2>3 DEF InOrder, Between
  <2>5. j \in 1..(k - 1)
    BY <1>3, <1>5, <2>2, <2>4
  <2> QED
    BY <2>2, <2>5
<1>8. Awaited'
  BY <1>1, <1>6 DEF Awaited
<1> QED
  BY <1>7, <1>8

LEMMA SkippedInductive ==
  TypeOK /\ Wire /\ Cursor /\ InOrder /\ Skipped /\ Awaited /\ [Next]_vars
    => Skipped' /\ Awaited'
<1> SUFFICES ASSUME TypeOK, Wire, Cursor, InOrder, Skipped, Awaited, [Next]_vars
             PROVE  Skipped' /\ Awaited'
  OBVIOUS
<1>1. CASE Publish \/ PublishOversized
  BY <1>1, WhenPublished
<1>2. CASE Requested \/ ReplayTimer
  BY <1>2, WhenAnswered
<1>3. CASE DeliverGap
  BY <1>3, WhenTold
<1>10. CASE GapHandlerThrows
  BY <1>10, WhenGapThrows
<1>4. CASE Connect
  <2>1. inbox' = <<AuthOk>> /\ ready' = FALSE
    BY <1>4 DEF Connect
  <2>2. Len(inbox') = 1 /\ inbox'[1].type = "auth_ok"
    BY <2>1 DEF AuthOk
  <2>3. \A k \in 1..Len(inbox') : ~Plain(k)'
    BY <2>2 DEF Plain, IsEvent
  <2>4. Skipped'
    BY <2>3 DEF Skipped
  <2>5. Awaited'
    BY <2>1, Zenon DEF Awaited
  <2> QED
    BY <2>4, <2>5
<1>5. CASE Negotiate \/ DeliverComplete
  <2>1. ~announced'
    BY <1>5 DEF Negotiate, DeliverComplete
  <2> QED
    BY <2>1, Zenon DEF Skipped, Awaited
<1>6. CASE (DeliverEvent \/ EventHandlerThrows) /\ announced'
  BY <1>6, TakenWhileAnnounced
<1>7. CASE ~announced'
  BY <1>7, Zenon DEF Skipped, Awaited
<1>8. CASE Disconnect \/ Restart
  <2>1. inbox' = <<>> /\ ~up'
    BY <1>8 DEF Disconnect, Restart
  <2>2. \A k \in 1..Len(inbox') : FALSE
    BY <2>1
  <2>3. Skipped'
    BY <2>2 DEF Skipped
  <2>4. Awaited'
    BY <2>1, Zenon DEF Awaited
  <2> QED
    BY <2>3, <2>4
<1>9. CASE UNCHANGED vars
  <2>1. /\ JournalId' = JournalId /\ Latest' = Latest
        /\ UNCHANGED <<inbox, last, excused, lost, announced, up, ready>>
    BY <1>9, SameHub DEF vars, hub, wire, cursor, history, link
  <2>2. Skipped'
    BY <2>1 DEF Skipped, Plain, IsEvent, Known
  <2>3. Awaited'
    BY <2>1 DEF Awaited, Plain, IsEvent, Known
  <2> QED
    BY <2>2, <2>3
<1> QED
  BY <1>1, <1>2, <1>3, <1>4, <1>5, <1>6, <1>7, <1>8, <1>9, <1>10, Zenon DEF Next

-----------------------------------------------------------------------------
(* The theorems                                                             *)

LEMMA ReplayInit ==
  Init => ReplayInv
<1> SUFFICES ASSUME Init PROVE ReplayInv
  OBVIOUS
<1>1. /\ total = <<0>> /\ JournalId = 1 /\ Latest = 0
      /\ applied = <<>> /\ heard = {}
  BY DEF Init, JournalId, Latest, heard
<1>2. /\ 0 \in 0..MaxEvents /\ 1 \in 1..MaxRestarts + 1 /\ 0 \in 0..MaxRestarts + 1
      /\ 0 \in 0..MaxDrops /\ 0 \in 0..MaxThrows
  BY ReplayAssumption
<1>3. Data
  <2>1. total \in Seq(0..MaxEvents) /\ Len(total) \in 1..MaxRestarts + 1
    BY <1>1, <1>2
  <2>2. kept \in Seq(1..MaxEvents) /\ inbox \in Seq(Frames) /\ applied \in Seq(Events)
    BY DEF Init
  <2>3. /\ unavailable \in 0..MaxEvents /\ delivered \in 0..MaxEvents /\ authAt \in 0..MaxEvents
        /\ journal \in 0..MaxRestarts + 1 /\ last \in 0..MaxEvents
        /\ drops \in 0..MaxDrops /\ throws \in 0..MaxThrows
    BY <1>2 DEF Init, None
  <2>4. /\ request \subseteq [journal : 1..MaxRestarts + 1, after : 0..MaxEvents]
        /\ excused \subseteq Events /\ failed \subseteq Events /\ lost \subseteq Events
    BY DEF Init
  <2> QED
    BY <2>1, <2>2, <2>3, <2>4, Zenon DEF Data
<1>4. Flags
  BY DEF Init, Flags
<1>5. TypeOK
  BY <1>3, <1>4, TypeParts
<1>6. Wire /\ Cursor
  BY <1>1 DEF Init, Wire, Cursor, AuthFirst, None
<1>7. Behind /\ AppliedOnceInOrder
  BY <1>1 DEF Behind, AppliedOnceInOrder
<1>10. InOrder
  BY DEF Init, InOrder, Rising, Between
<1>8. Covered
  <2>1. Published = {}
    BY <1>1, <1>5, EventParts DEF Published
  <2> QED
    BY <2>1 DEF Covered
<1>9. Skipped /\ Awaited
  BY DEF Init, Skipped, Awaited
<1> QED
  BY <1>5, <1>6, <1>7, <1>8, <1>9, <1>10 DEF ReplayInv

\* The types hold; the frames on the wire are the running journal's, the events
\* among them in order; the cursor of a client that negotiated is on that journal
\* and never ahead of it; what the client applied is behind its cursor, and what is
\* behind it was applied, told of, or lost by a known fault; while a gap stands
\* announced, whatever the wire leaves out is known to be missing.
THEOREM ReplayInductive ==
  Spec => []ReplayInv
<1>1. ReplayInv /\ [Next]_vars => ReplayInv'
  BY TypeInductive, WireInductive, CursorInductive, BehindInductive, AppliedInductive,
     InOrderInductive, CoveredInductive, SkippedInductive, Zenon DEF ReplayInv
<1> QED
  BY <1>1, ReplayInit, PTL DEF Spec

\* However often the hub replays, and whatever is lost with a connection, the
\* client applies an event once, and never after a later one.
THEOREM AppliedOnce ==
  Spec => []AppliedOnceInOrder
<1>1. ReplayInv => AppliedOnceInOrder
  BY Zenon DEF ReplayInv
<1> QED
  BY <1>1, ReplayInductive, PTL

\* A client that has applied an event has applied every earlier one, or was told
\* of a gap; but for what the two known faults lose.
THEOREM NothingMissed ==
  Spec => []NothingSilentlyMissed
<1>1. ASSUME ReplayInv PROVE NothingSilentlyMissed
  <2> SUFFICES ASSUME NEW e \in heard, NEW p \in Published, Earlier(p, e)
               PROVE  \/ p \in heard \cup excused \cup lost
                      \/ owed /\ p[1] < journal
    BY DEF NothingSilentlyMissed
  <2>1. TypeOK /\ Behind /\ Covered
    BY <1>1, Zenon DEF ReplayInv
  <2>2. Reached(e)
    BY <2>1 DEF Behind
  <2>3. /\ e[1] \in Nat /\ e[2] \in Nat /\ p[1] \in Nat /\ p[2] \in Nat
        /\ journal \in Nat /\ last \in Nat
    BY <2>1, HeardEvents, EventParts
  <2>4. Reached(p)
    BY <2>2, <2>3 DEF Reached, Earlier
  <2> QED
    BY <2>1, <2>4 DEF Covered
<1> QED
  BY <1>1, ReplayInductive, PTL

-----------------------------------------------------------------------------
(* A settled client has caught up                                           *)

\* The ring is in order, and has everything that came after its first frame, but
\* for the frames that were too large.
Ring ==
  /\ Rising
  /\ \A n \in 1..MaxEvents :
       n <= Latest /\ unavailable < n /\ kept # <<>> /\ kept[1] <= n
         => \E i \in 1..Len(kept) : kept[i] = n

Elems(q) == {q[k] : k \in 1..Len(q)}

Accounted  == heard \cup excused \cup failed \cup lost
IsGap(x)   == x.type = "provider_replay_gap"
Reaches(x, m) == x.type = "provider.runtimeEvent" /\ m <= x.seq

\* The client has number m, or knows that it has not, or will when it has
\* received what is on the wire.
Comes(m) ==
  \/ <<JournalId, m>> \in Accounted
  \/ \E x \in Elems(inbox) : IsGap(x) \/ Reaches(x, m)

\* A client asks once a connection, for what is behind its cursor at most; the
\* grace period ends with the hub's answer at the latest.
Asked ==
  /\ AuthFirst => request = {}
  /\ \A r \in request : r.journal = JournalId => r.after <= last
  /\ up /\ ~AuthFirst /\ request = {} => ~timer

\* What the hub takes for delivered is on its way.
Sent ==
  up => /\ delivered <= Latest
        /\ AuthFirst /\ delivered # 0 => \E x \in Elems(inbox) : Reaches(x, delivered)
        /\ ~AuthFirst => \A m \in 1..MaxEvents : last < m /\ m <= delivered => Comes(m)

\* The gap of a changed journal is asked for, or on its way.
OwedComes ==
  owed => /\ up /\ ~AuthFirst
          /\ \/ request # {} /\ \A r \in request : r.journal # JournalId
             \/ \E x \in Elems(inbox) : IsGap(x)

\* A client that was answered is sent whatever it lacks.
Coming ==
  up /\ ready /\ ~AuthFirst /\ request = {} =>
    \A m \in 1..MaxEvents : last < m /\ m <= Latest => Comes(m)

CatchUpInv == Ring /\ Asked /\ Sent /\ OwedComes /\ Coming

LEMMA JoinedElems ==
  ASSUME NEW q \in Seq(Frames), NEW r \in Seq(Frames)
  PROVE  Elems(q \o r) = Elems(q) \cup Elems(r)
<1> DEFINE b == q \o r
<1>1. /\ Len(b) = Len(q) + Len(r) /\ Len(q) \in Nat /\ Len(r) \in Nat
      /\ \A k \in 1..Len(q) : b[k] = q[k]
      /\ \A k \in 1..Len(r) : b[Len(q) + k] = r[k]
  BY Joined
<1> HIDE DEF b
<1>2. ASSUME NEW k \in 1..Len(b) PROVE b[k] \in Elems(q) \cup Elems(r)
  <2>1. CASE k \in 1..Len(q)
    BY <1>1, <2>1 DEF Elems
  <2>2. CASE k \notin 1..Len(q)
    <3>1. k - Len(q) \in 1..Len(r) /\ k = Len(q) + (k - Len(q))
      BY <1>1, <2>2
    <3>2. b[k] = r[k - Len(q)]
      BY <1>1, <3>1
    <3> QED
      BY <3>1, <3>2 DEF Elems
  <2> QED
    BY <2>1, <2>2
<1>3. ASSUME NEW k \in 1..Len(q) PROVE q[k] \in Elems(b)
  <2>1. k \in 1..Len(b) /\ b[k] = q[k]
    BY <1>1
  <2> QED
    BY <2>1 DEF Elems
<1>4. ASSUME NEW k \in 1..Len(r) PROVE r[k] \in Elems(b)
  <2>1. Len(q) + k \in 1..Len(b) /\ b[Len(q) + k] = r[k]
    BY <1>1
  <2> QED
    BY <2>1 DEF Elems
<1> QED
  BY <1>2, <1>3, <1>4 DEF b, Elems

LEMMA AppendedElems ==
  ASSUME TypeOK, NEW x \in Frames, inbox' = Append(inbox, x)
  PROVE  Elems(inbox') = Elems(inbox) \cup {x}
<1>1. PICK r \in Seq(Frames) : r = <<x>> /\ Len(r) = 1 /\ r[1] = x /\ inbox' = inbox \o r
  BY OneFrame
<1>2. Elems(r) = {x}
  BY <1>1 DEF Elems
<1>3. inbox \in Seq(Frames)
  BY DEF TypeOK
<1>4. Elems(inbox \o r) = Elems(inbox) \cup Elems(r)
  BY <1>3, JoinedElems
<1> QED
  BY <1>1, <1>2, <1>4

LEMMA TakenElems ==
  ASSUME TypeOK, inbox # <<>>, inbox' = Tail(inbox)
  PROVE  /\ Elems(inbox) = Elems(inbox') \cup {inbox[1]}
         /\ Head(inbox) = inbox[1]
<1>1. /\ Len(inbox) \in Nat /\ Len(inbox) >= 1 /\ Len(inbox') = Len(inbox) - 1
      /\ \A k \in 1..(Len(inbox) - 1) : inbox'[k] = inbox[k + 1]
      /\ Head(inbox) = inbox[1]
  BY Taken
<1>2. ASSUME NEW k \in 1..Len(inbox) PROVE inbox[k] \in Elems(inbox') \cup {inbox[1]}
  <2>1. CASE k = 1
    BY <2>1
  <2>2. CASE k # 1
    <3>1. k - 1 \in 1..Len(inbox') /\ inbox'[k - 1] = inbox[(k - 1) + 1] /\ (k - 1) + 1 = k
      BY <1>1, <2>2
    <3> QED
      BY <3>1 DEF Elems
  <2> QED
    BY <2>1, <2>2
<1>3. ASSUME NEW k \in 1..Len(inbox') PROVE inbox'[k] \in Elems(inbox)
  <2>1. k + 1 \in 1..Len(inbox) /\ inbox'[k] = inbox[k + 1]
    BY <1>1
  <2> QED
    BY <2>1 DEF Elems
<1>4. inbox[1] \in Elems(inbox)
  BY <1>1 DEF Elems
<1> QED
  BY <1>1, <1>2, <1>3, <1>4 DEF Elems

LEMMA WireElems ==
  ASSUME TypeOK, Wire
  PROVE  \A x \in Elems(inbox) : x \in Frames /\ x.seq \in Nat /\ x.seq <= Latest
  BY OnWire DEF Elems, Wire

\* What the hub answers: a gap where the client's numbers are another journal's;
\* otherwise every number it lacks, or a gap, or it was sent already.
LEMMA Served ==
  ASSUME TypeOK, Wire, Ring, NEW j, NEW after \in Nat, ReplayProviderEvents(j, after)
  PROVE  /\ Elems(inbox) \subseteq Elems(inbox')
         /\ j # JournalId => \E x \in Elems(inbox') : IsGap(x)
         /\ delivered' = delivered \/ /\ delivered' <= Latest
                                      /\ \E x \in Elems(inbox') : Reaches(x, delivered')
         /\ j = JournalId => \A m \in 1..MaxEvents : after < m /\ m <= Latest =>
              \/ \E x \in Elems(inbox') : IsGap(x) \/ Reaches(x, m)
              \/ m <= delivered
<1> DEFINE changed == j # JournalId
           from == IF changed THEN 0 ELSE after
           earliest == IF kept = <<>> THEN Latest + 1 ELSE Head(kept)
           start == IF from > delivered THEN from ELSE delivered
           late == changed \/ from + 1 < earliest \/ unavailable > from
           gap == IF late THEN <<Gap>> ELSE <<>>
           rest(i) == [k \in 1..Len(kept) - i |-> Event(JournalId, kept[k + i])]
<1>1. PICK i \in 0..Len(kept) :
        /\ \A k \in 1..Len(kept) : kept[k] > start <=> k > i
        /\ inbox' = inbox \o (gap \o rest(i) \o <<Complete>>)
        /\ delivered' = IF i < Len(kept) THEN kept[Len(kept)] ELSE delivered
  BY Zenon DEF ReplayProviderEvents
<1>2. PICK n \in Nat : n = Len(kept) /\ \A k \in 1..n : /\ kept[k] \in 1..MaxEvents
                                                        /\ kept[k] \in Nat /\ kept[k] <= Latest
  BY OnWire DEF Wire
<1>3. i \in 0..n
  BY <1>1, <1>2
<1>4. rest(i) = [k \in 1..n - i |-> Event(JournalId, kept[k + i])]
  BY <1>2
<1>5. \A k \in 1..n - i : Event(JournalId, kept[k + i]) \in Frames
  BY <1>2, <1>3, Numbers
<1>6. /\ rest(i) \in Seq(Frames) /\ Len(rest(i)) = n - i
      /\ \A k \in 1..n - i : rest(i)[k] = Event(JournalId, kept[k + i])
  <2>1. rest(i) \in Seq(Frames) /\ Len(rest(i)) = n - i
    BY <1>3, <1>4, <1>5
  <2> HIDE DEF rest
  <2>2. \A k \in 1..n - i : rest(i)[k] = Event(JournalId, kept[k + i])
    BY <1>4
  <2> QED
    BY <2>1, <2>2
<1>7. ASSUME NEW k \in 1..n, k > i PROVE Event(JournalId, kept[k]) \in Elems(rest(i))
  <2>1. k - i \in 1..n - i /\ (k - i) + i = k
    BY <1>3, <1>7
  <2>2. rest(i)[k - i] = Event(JournalId, kept[(k - i) + i])
    BY <1>6, <2>1
  <2>3. rest(i)[k - i] = Event(JournalId, kept[k])
    BY <2>1, <2>2
  <2> QED
    BY <1>6, <2>1, <2>3 DEF Elems
<1>8. /\ gap \in Seq(Frames) /\ (late => Gap \in Elems(gap))
  <2>1. CASE late
    <3>1. gap = <<Gap>> /\ Len(gap) = 1 /\ gap[1] = Gap
      BY <2>1
    <3> QED
      BY <3>1, Numbers DEF Elems
  <2>2. CASE ~late
    BY <2>2
  <2> QED
    BY <2>1, <2>2
<1>9. /\ <<Complete>> \in Seq(Frames)
  BY Numbers
<1> HIDE DEF gap, rest
<1>10. /\ gap \o rest(i) \in Seq(Frames)
       /\ Elems(gap \o rest(i)) = Elems(gap) \cup Elems(rest(i))
  BY <1>6, <1>8, JoinedElems, JoinedFrames
<1>11. /\ gap \o rest(i) \o <<Complete>> \in Seq(Frames)
       /\ Elems(gap \o rest(i) \o <<Complete>>) = Elems(gap \o rest(i)) \cup Elems(<<Complete>>)
  BY <1>9, <1>10, JoinedElems, JoinedFrames
<1>12. inbox \in Seq(Frames)
  BY DEF TypeOK
<1>13. Elems(inbox') = Elems(inbox) \cup Elems(gap \o rest(i) \o <<Complete>>)
  BY <1>1, <1>11, <1>12, JoinedElems
<1>14. Elems(inbox) \cup Elems(gap) \cup Elems(rest(i)) \subseteq Elems(inbox')
  BY <1>10, <1>11, <1>13
<1>15. IsGap(Gap) /\ (late => Gap \in Elems(inbox'))
  BY <1>8, <1>14 DEF Gap, IsGap
<1>16. ASSUME NEW k \in 1..n, k > i
       PROVE  Event(JournalId, kept[k]) \in Elems(inbox') /\ Reaches(Event(JournalId, kept[k]), kept[k])
  <2>1. Event(JournalId, kept[k]) \in Elems(inbox')
    BY <1>7, <1>14, <1>16
  <2>2. Event(JournalId, kept[k]).seq = kept[k] /\ kept[k] \in Nat
    BY <1>2 DEF Event
  <2>3. Event(JournalId, kept[k]).type = "provider.runtimeEvent"
    BY DEF Event
  <2> QED
    BY <2>1, <2>2, <2>3 DEF Reaches
<1>17. delivered' = delivered \/ /\ delivered' <= Latest
                                 /\ \E x \in Elems(inbox') : Reaches(x, delivered')
  <2>1. CASE i < n
    <3>1. delivered' = kept[n] /\ n \in 1..n
      BY <1>1, <1>2, <1>3, <2>1
    <3>2. n > i /\ kept[n] <= Latest
      BY <1>2, <2>1, <1>3, <3>1
    <3> QED
      BY <1>16, <3>1, <3>2
  <2>2. CASE ~(i < n)
    BY <1>1, <1>2, <2>2
  <2> QED
    BY <2>1, <2>2
<1>18. ASSUME j = JournalId, NEW m \in 1..MaxEvents, after < m, m <= Latest
       PROVE  \/ \E x \in Elems(inbox') : IsGap(x) \/ Reaches(x, m)
              \/ m <= delivered
  <2>1. CASE late
    BY <1>15, <2>1
  <2>2. CASE ~late
    <3>1. from = after /\ ~(after + 1 < earliest) /\ ~(unavailable > after)
      BY <1>18, <2>2
    <3>2. m \in Nat /\ Latest \in Nat /\ unavailable \in Nat /\ delivered \in Nat
      BY Numbers DEF TypeOK
    <3>3. kept # <<>>
      BY <1>18, <3>1, <3>2
    <3>4. Head(kept) = kept[1] /\ 1 \in 1..n
      BY <1>2, <3>3, Removed DEF TypeOK
    <3>5. kept[1] <= m /\ unavailable < m
      <4>1. kept[1] \in Nat /\ earliest = kept[1]
        BY <1>2, <3>3, <3>4
      <4> QED
        BY <1>18, <3>1, <3>2, <4>1
    <3>6. PICK k \in 1..n : kept[k] = m
      BY <1>2, <1>18, <3>3, <3>5 DEF Ring
    <3>7. CASE k > i
      BY <1>16, <3>6, <3>7
    <3>8. CASE ~(k > i)
      <4>1. ~(m > start)
        BY <1>1, <1>2, <3>6, <3>8
      <4> QED
        BY <1>18, <3>1, <3>2, <4>1
    <3> QED
      BY <3>7, <3>8
  <2> QED
    BY <2>1, <2>2
<1> QED
  BY <1>14, <1>15, <1>17, <1>18

LEMMA RingInductive ==
  ASSUME TypeOK, Wire, Ring, [Next]_vars
  PROVE  Ring'
<1>1. CASE Publish
  <2>1. /\ Latest' = Latest + 1 /\ Latest \in Nat /\ unavailable \in Nat
    <3>1. Latest' = Latest + 1
      BY <1>1, OneMore DEF Publish
    <3> QED
      BY <3>1, Numbers DEF TypeOK
  <2>2. unavailable' = unavailable
    BY <1>1 DEF Publish
  <2>3. PICK n \in Nat, i \in Nat, all \in Seq(Nat) :
          /\ n = Len(kept) /\ Len(all) = n + 1 /\ all[n + 1] = Latest + 1 /\ i \in 1..n + 2
          /\ \A k \in 1..n : all[k] = kept[k] /\ kept[k] \in Nat /\ kept[k] <= Latest
          /\ \A a, b \in 1..n + 1 : a < b => all[a] < all[b]
          /\ Len(kept') = (IF i <= n + 1 THEN n + 2 - i ELSE 0) /\ kept' \in Seq(Nat)
          /\ \A k \in 1..n + 2 - i : kept'[k] = all[i + k - 1]
          /\ Rising'
    BY <1>1, PublishedKept DEF Ring, Rising
  <2>4. all \in Seq(Nat)
    BY <2>3
  <2>5. \A a, b \in 1..n + 1 : a < b => all[a] < all[b]
    BY <2>3
  <2>6. \A m \in 1..MaxEvents : m <= Latest + 1 /\ unavailable < m /\ all[1] <= m
                                  => \E k \in 1..n + 1 : all[k] = m
    <3> SUFFICES ASSUME NEW m \in 1..MaxEvents, m <= Latest + 1, unavailable < m, all[1] <= m
                 PROVE  \E k \in 1..n + 1 : all[k] = m
      OBVIOUS
    <3>1. m \in Nat
      BY Numbers
    <3>2. CASE m = Latest + 1
      BY <2>3, <3>2
    <3>3. CASE m # Latest + 1
      <4>1. m <= Latest
        BY <2>1, <3>1, <3>3
      <4>2. kept # <<>>
        <5>1. CASE n = 0
          BY <2>1, <2>3, <3>1, <4>1, <5>1
        <5> QED
          BY <2>3, <5>1
      <4>3. n >= 1
        BY <2>3, <4>2, Removed DEF TypeOK
      <4>4. 1 \in 1..n
        BY <2>3, <4>3
      <4>5. kept[1] <= m
        BY <2>3, <4>4
      <4>6. PICK k \in 1..n : kept[k] = m
        BY <2>3, <4>1, <4>2, <4>5 DEF Ring, Rising
      <4> QED
        BY <2>3, <4>6
    <3> QED
      BY <3>2, <3>3
  <2>7. /\ Len(kept') = (IF i <= n + 1 THEN n + 2 - i ELSE 0) /\ i \in 1..n + 2
        /\ kept' \in Seq(Nat)
        /\ \A k \in 1..n + 2 - i : kept'[k] = all[i + k - 1]
    BY <2>3
  <2>8. Rising'
    BY <2>3
  <2>9. ASSUME NEW m \in 1..MaxEvents, m <= Latest', unavailable' < m, kept' # <<>>, kept'[1] <= m
        PROVE  \E k \in 1..Len(kept') : kept'[k] = m
    <3>1. Len(kept') # 0
      BY <2>7, <2>9
    <3>2. i <= n + 1 /\ Len(kept') = n + 2 - i /\ 1 \in 1..n + 2 - i
      BY <2>3, <2>7, <3>1
    <3>3. i + 1 - 1 = i /\ kept'[1] = all[i] /\ i \in 1..n + 1
      <4>1. i + 1 - 1 = i /\ i \in 1..n + 1
        BY <2>3, <2>7, <3>2
      <4>2. kept'[1] = all[i + 1 - 1]
        BY <2>7, <3>2
      <4> QED
        BY <4>1, <4>2
    <3>4. \A k \in 1..n + 1 : all[k] \in Nat
      BY <2>3, <2>4, Elements
    <3>5. all[1] <= all[i] /\ 1 \in 1..n + 1
      <4>1. 1 \in 1..n + 1
        BY <2>3
      <4>2. CASE i = 1
        BY <3>3, <3>4, <4>2
      <4>3. CASE i # 1
        <5>1. 1 < i
          BY <2>3, <3>3, <4>3
        <5>2. all[1] < all[i]
          BY <2>5, <3>3, <4>1, <5>1
        <5> QED
          BY <3>3, <3>4, <4>1, <5>2
      <4> QED
        BY <4>1, <4>2, <4>3
    <3>6. m \in Nat /\ all[1] <= m
      <4>1. m \in Nat /\ all[i] <= m
        BY <2>9, <3>3, Numbers
      <4> QED
        BY <3>3, <3>4, <3>5, <4>1
    <3>7. PICK k \in 1..n + 1 : all[k] = m
      BY <2>1, <2>2, <2>6, <2>9, <3>6
    <3>8. i <= k
      <4>1. CASE k < i
        <5>1. all[k] < all[i]
          BY <2>5, <3>3, <4>1
        <5> QED
          BY <2>9, <3>3, <3>4, <3>6, <3>7, <5>1
      <4> QED
        BY <2>3, <3>3, <4>1
    <3>9. k - i + 1 \in 1..n + 2 - i /\ i + (k - i + 1) - 1 = k
      BY <2>3, <3>3, <3>8
    <3>10. kept'[k - i + 1] = all[i + (k - i + 1) - 1]
      BY <2>7, <3>9
    <3>11. kept'[k - i + 1] = m
      BY <3>7, <3>9, <3>10
    <3> QED
      BY <3>2, <3>9, <3>11
  <2> QED
    BY <2>8, <2>9 DEF Ring, Rising
<1>2. CASE PublishOversized
  <2>1. kept' = kept /\ Latest' = Latest + 1 /\ unavailable' = Latest + 1 /\ Latest \in Nat
    BY <1>2, OneMore, Numbers DEF PublishOversized
  <2>2. \A m \in 1..MaxEvents : ~(m <= Latest' /\ unavailable' < m)
    BY <2>1, Numbers
  <2> QED
    BY <2>1, <2>2 DEF Ring, Rising
<1>3. CASE Restart
  <2>1. kept' = <<>>
    BY <1>3 DEF Restart
  <2> QED
    BY <2>1 DEF Ring, Rising
<1>4. CASE UNCHANGED hub
  <2>1. Latest' = Latest /\ kept' = kept /\ unavailable' = unavailable
    BY <1>4, SameHub DEF hub
  <2> QED
    BY <2>1 DEF Ring, Rising
<1>5. UNCHANGED hub \/ Publish \/ PublishOversized \/ Restart
  BY DEF Next, vars, Connect, Requested, ReplayTimer, Negotiate, DeliverGap, GapHandlerThrows,
         DeliverComplete, DeliverEvent, EventHandlerThrows, Disconnect
<1> QED
  BY <1>1, <1>2, <1>3, <1>4, <1>5

\* What is accounted for stays so once the client has negotiated.
LEMMA AccountedKept ==
  ASSUME TypeOK, Wire, Cursor, ~AuthFirst, [Next]_vars
  PROVE  \A p \in Published : p \in Accounted => p \in Accounted'
<1>1. heard \subseteq heard'
  <2>1. CASE applied' = applied
    BY <2>1 DEF heard
  <2>2. CASE \E n \in 1..MaxEvents : /\ journal = JournalId
                                     /\ applied' = Append(applied, <<JournalId, n>>)
    <3>1. PICK n \in 1..MaxEvents : applied' = Append(applied, <<JournalId, n>>)
      BY <2>2
    <3>2. <<JournalId, n>> \in Events
      BY Numbers DEF Events
    <3> QED
      BY <3>1, <3>2, Heard
  <2> QED
    BY <2>1, <2>2, Applies
<1>2. failed \subseteq failed' /\ lost \subseteq lost' /\ (excused' = excused \/ excused' = Published)
  <2>1. CASE Publish \/ PublishOversized \/ Connect \/ Requested \/ ReplayTimer \/ DeliverComplete
             \/ UNCHANGED vars
    BY <2>1 DEF Publish, PublishOversized, Connect, Requested, ReplayTimer, DeliverComplete, vars,
                history
  <2>2. CASE Negotiate
    <3>1. inbox # <<>> /\ Head(inbox).type = "auth_ok"
      BY <2>2 DEF Negotiate
    <3> QED
      BY <3>1, Taken, TakenElems DEF AuthFirst, TypeOK
  <2>3. CASE DeliverGap \/ GapHandlerThrows
    BY <2>3 DEF DeliverGap, GapHandlerThrows, Told
  <2>4. CASE DeliverEvent
    BY <2>4, Zenon DEF DeliverEvent, Told
  <2>5. CASE EventHandlerThrows
    BY <2>5 DEF EventHandlerThrows, Threw, Told
  <2>6. CASE Disconnect \/ Restart
    BY <2>6 DEF Disconnect, Restart, Unannounced
  <2> QED
    BY <2>1, <2>2, <2>3, <2>4, <2>5, <2>6 DEF Next
<1> QED
  BY <1>1, <1>2 DEF Accounted

\* What comes still comes when frames are put on the wire.
LEMMA ComesKept ==
  ASSUME TypeOK, Wire, Cursor, ~AuthFirst, [Next]_vars, JournalId' = JournalId,
         Elems(inbox) \subseteq Elems(inbox'),
         NEW m \in 1..MaxEvents, m <= Latest, Comes(m)
  PROVE  Comes(m)'
<1>1. <<JournalId, m>> \in Published
  BY Numbers
<1>2. <<JournalId, m>> \in Accounted => <<JournalId, m>> \in Accounted'
  BY <1>1, AccountedKept
<1> QED
  BY <1>2 DEF Comes, Reaches

Takes == DeliverGap \/ GapHandlerThrows \/ DeliverComplete \/ DeliverEvent \/ EventHandlerThrows

\* What a received frame leaves alone.
LEMMA TakesFrame ==
  ASSUME TypeOK, Wire, Cursor, Takes
  PROVE  /\ total' = total /\ JournalId' = JournalId /\ Latest' = Latest /\ Published' = Published
         /\ inbox # <<>> /\ inbox' = Tail(inbox)
         /\ UNCHANGED <<link, request>> /\ up
         /\ ~AuthFirst /\ ~AuthFirst'
         /\ last <= last' /\ last \in Nat /\ last' \in Nat
         /\ Elems(inbox) = Elems(inbox') \cup {inbox[1]}
         /\ owed' => (owed /\ ~IsGap(inbox[1]))
<1>1. /\ total' = total /\ UNCHANGED <<link, request>>
      /\ inbox # <<>> /\ inbox' = Tail(inbox) /\ Head(inbox).type # "auth_ok"
      /\ owed' => (owed /\ Head(inbox).type # "provider_replay_gap")
  <2>1. CASE DeliverGap \/ GapHandlerThrows
    BY <2>1 DEF DeliverGap, GapHandlerThrows, Told, hub
  <2>2. CASE DeliverComplete
    BY <2>2 DEF DeliverComplete, hub, history
  <2>3. CASE DeliverEvent
    <3>1. PICK f : /\ EventFrame(f) /\ (owed' = owed \/ owed' = FALSE)
                   /\ UNCHANGED <<hub, link, request>>
      BY <2>3, Zenon DEF DeliverEvent, Told
    <3> QED
      BY <3>1 DEF EventFrame, hub
  <2>4. CASE EventHandlerThrows
    <3>1. PICK f : /\ EventFrame(f) /\ (owed' = owed \/ owed' = FALSE)
      BY <2>4, Zenon DEF EventHandlerThrows, Threw, Told
    <3>2. UNCHANGED <<hub, link, request>>
      BY <2>4 DEF EventHandlerThrows
    <3> QED
      BY <3>1, <3>2 DEF EventFrame, hub
  <2> QED
    BY <2>1, <2>2, <2>3, <2>4 DEF Takes
<1>2. /\ JournalId' = JournalId /\ Latest' = Latest /\ Published' = Published
  BY <1>1, SameHub
<1>3. Elems(inbox) = Elems(inbox') \cup {inbox[1]} /\ Head(inbox) = inbox[1]
  BY <1>1, TakenElems
<1>4. ~AuthFirst /\ ~AuthFirst'
  BY <1>1, <1>3, NoAuthLeft DEF AuthFirst
<1>5. up
  BY <1>1 DEF Wire
<1>6. journal' = journal
  <2>1. CASE DeliverGap \/ GapHandlerThrows \/ DeliverComplete
    BY <2>1 DEF DeliverGap, GapHandlerThrows, DeliverComplete
  <2>2. CASE DeliverEvent \/ EventHandlerThrows
    <3>1. PICK f : EventFrame(f)
      BY <2>2, Zenon DEF DeliverEvent, EventHandlerThrows
    <3> QED
      BY <3>1, EventArrives
  <2> QED
    BY <2>1, <2>2 DEF Takes
<1>7. [Next]_vars
  BY DEF Next, Takes
<1>8. last <= last' /\ last \in Nat /\ last' \in Nat
  <2>1. /\ journal < journal' \/ (journal' = journal /\ last <= last')
        /\ {journal, journal', last, last'} \subseteq Nat
    BY <1>7, CursorMoves
  <2> QED
    BY <1>6, <2>1
<1> QED
  BY <1>1, <1>2, <1>3, <1>4, <1>5, <1>8 DEF IsGap

\* A frame the client receives brings what it promised.
LEMMA TakenComes ==
  ASSUME TypeOK, Wire, Cursor, Skipped, Takes,
         NEW m \in 1..MaxEvents, m <= Latest, last' < m, Comes(m)
  PROVE  Comes(m)'
<1>1. /\ total' = total /\ JournalId' = JournalId /\ Published' = Published /\ ~AuthFirst
      /\ inbox # <<>> /\ last <= last' /\ last \in Nat /\ last' \in Nat /\ m \in Nat
      /\ Elems(inbox) = Elems(inbox') \cup {inbox[1]} /\ [Next]_vars
  BY TakesFrame, Numbers DEF Next, Takes
<1>2. <<JournalId, m>> \in Published
  BY Numbers
<1>3. CASE <<JournalId, m>> \in Accounted
  BY <1>1, <1>2, <1>3, AccountedKept DEF Comes
<1>4. CASE excused' = Published
  BY <1>1, <1>2, <1>4 DEF Comes, Accounted
<1>5. CASE \E x \in Elems(inbox') : IsGap(x) \/ Reaches(x, m)
  BY <1>5 DEF Comes, Reaches
<1>6. CASE /\ <<JournalId, m>> \notin Accounted /\ excused' # Published
           /\ IsGap(inbox[1]) \/ Reaches(inbox[1], m)
  <2>1. Head(inbox) = inbox[1]
    BY <1>1, Removed DEF TypeOK
  <2>2. ~DeliverGap /\ ~DeliverComplete
    BY <1>6, <2>1 DEF DeliverGap, DeliverComplete, Told, IsGap, Reaches
  <2>3. CASE DeliverEvent
    <3>1. PICK f : /\ EventFrame(f)
                   /\ last' = Base(f) \/ last' = f.seq
                   /\ f.seq <= Base(f) \/ last' = f.seq
      BY <2>3, Zenon DEF DeliverEvent
    <3>2. f = inbox[1] /\ f.type = "provider.runtimeEvent" /\ Base(f) = last /\ f.seq \in Nat
      BY <3>1, EventArrives
    <3>3. m <= f.seq
      BY <1>6, <3>2 DEF IsGap, Reaches
    <3> QED
      BY <1>1, <3>1, <3>2, <3>3
  <2>5. CASE GapHandlerThrows
    <3>1. lost' = lost \cup (Published \ EventsOf(inbox'))
      BY <2>5 DEF GapHandlerThrows
    <3>2. CASE <<JournalId, m>> \in lost'
      BY <1>1, <3>2 DEF Comes, Accounted
    <3>3. CASE <<JournalId, m>> \in EventsOf(inbox')
      <4>1. PICK k \in 1..Len(inbox') : /\ inbox'[k].type = "provider.runtimeEvent"
                                        /\ inbox'[k].seq = m
        BY <3>3 DEF EventsOf
      <4> QED
        BY <1>1, <1>5, <4>1 DEF Elems, Reaches
    <3> QED
      BY <1>2, <3>1, <3>2, <3>3
  <2>4. CASE EventHandlerThrows
    <3>1. PICK f : /\ EventFrame(f) /\ f.seq > Base(f)
                   /\ last' = Base(f)
                   /\ Threw(f)
      BY <2>4, Zenon DEF EventHandlerThrows
    <3>2. /\ f = inbox[1] /\ f.type = "provider.runtimeEvent" /\ Base(f) = last /\ f.seq \in Nat
          /\ f.journal = JournalId
      BY <3>1, EventArrives
    <3>3. m <= f.seq
      BY <1>6, <3>2 DEF IsGap, Reaches
    <3>4. \/ \A n \in Base(f) + 1..f.seq : <<f.journal, n>> \in failed'
          \/ ~Hole(f) /\ <<f.journal, f.seq>> \in failed'
      <4>1. CASE failed' = failed \cup {<<f.journal, n>> : n \in Base(f) + 1..f.seq}
        BY <4>1
      <4>2. CASE ~Hole(f) /\ failed' = failed \cup {<<f.journal, f.seq>>}
        BY <4>2
      <4> QED
        BY <1>6, <3>1, <4>1, <4>2, Zenon DEF Threw, Told
    <3>7. m \in Base(f) + 1..f.seq
      BY <1>1, <3>1, <3>2, <3>3
    <3>5. ASSUME ~Hole(f) PROVE m = f.seq
      <4>1. CASE announced /\ m < f.seq
        <5>1. last < m
          BY <1>1
        <5>2. IsEvent(1)
          BY <3>2 DEF IsEvent
        <5>3. Known(m)
          BY <1>1, <3>2, <4>1, <5>1, <5>2, FirstFrame
        <5> QED
          BY <1>6, <5>3 DEF Known, Accounted
      <4>2. CASE ~announced
        <5>1. ~(f.seq > last + 1)
          BY <3>2, <3>5, <4>2 DEF Hole
        <5> QED
          BY <1>1, <3>1, <3>2, <3>3, <5>1
      <4> QED
        BY <1>1, <3>2, <3>3, <4>1, <4>2
    <3>6. <<JournalId, m>> \in failed'
      BY <3>2, <3>4, <3>5, <3>7
    <3> QED
      BY <1>1, <3>6 DEF Comes, Accounted
  <2> QED
    BY <2>2, <2>3, <2>4, <2>5 DEF Takes
<1> QED
  BY <1>1, <1>3, <1>4, <1>5, <1>6 DEF Comes

Catching == TypeOK /\ Wire /\ Cursor /\ Skipped /\ CatchUpInv

LEMMA CatchingWhenTaken ==
  ASSUME Catching, Takes
  PROVE  Asked' /\ Sent' /\ OwedComes' /\ Coming'
<1>1. TypeOK /\ Wire /\ Cursor /\ Skipped /\ Asked /\ Sent /\ OwedComes /\ Coming
  BY Zenon DEF Catching, CatchUpInv
<1>2. /\ JournalId' = JournalId /\ Latest' = Latest
      /\ UNCHANGED <<up, ready, delivered, timer, request>> /\ up
      /\ ~AuthFirst /\ ~AuthFirst'
      /\ last <= last' /\ last \in Nat /\ last' \in Nat
      /\ Elems(inbox) = Elems(inbox') \cup {inbox[1]}
      /\ owed' => (owed /\ ~IsGap(inbox[1]))
  BY <1>1, TakesFrame DEF link
<1>3. ASSUME NEW m \in 1..MaxEvents, m <= Latest, last' < m, Comes(m)
      PROVE  Comes(m)'
  BY <1>1, <1>3, TakenComes
<1>4. Asked'
  <2>1. \A r \in request : r.journal = JournalId => r.after <= last'
    <3>1. ASSUME NEW r \in request PROVE r.after \in Nat
      <4>1. request \subseteq [journal : 1..MaxRestarts + 1, after : 0..MaxEvents]
        BY <1>1 DEF TypeOK
      <4> QED
        BY <4>1
    <3> QED
      BY <1>1, <1>2, <3>1 DEF Asked
  <2>2. up' /\ ~AuthFirst' /\ request' = {} => ~timer'
    BY <1>1, <1>2, Zenon DEF Asked
  <2> QED
    BY <1>2, <2>1, <2>2 DEF Asked
<1>5. \A m \in 1..MaxEvents : m \in Nat
  BY Numbers
<1>6. delivered \in Nat /\ Latest \in Nat /\ delivered <= Latest
  BY <1>1, <1>2, Numbers DEF Sent, TypeOK
<1>7. Sent'
  <2>1. ASSUME NEW m \in 1..MaxEvents, last' < m, m <= delivered PROVE Comes(m)'
    <3>1. last < m /\ m <= Latest
      BY <1>2, <1>5, <1>6, <2>1
    <3>2. Comes(m)
      BY <1>1, <1>2, <2>1, <3>1 DEF Sent
    <3> QED
      BY <1>3, <2>1, <3>1, <3>2
  <2> QED
    BY <1>2, <1>6, <2>1 DEF Sent
<1>8. OwedComes'
  BY <1>1, <1>2 DEF OwedComes
<1>9. Coming'
  <2> SUFFICES ASSUME ready, request = {}, NEW m \in 1..MaxEvents, last' < m, m <= Latest
               PROVE  Comes(m)'
    BY <1>2 DEF Coming
  <2>1. last < m
    BY <1>2, <1>5
  <2>2. Comes(m)
    BY <1>1, <1>2, <2>1 DEF Coming
  <2> QED
    BY <1>3, <2>2
<1> QED
  BY <1>4, <1>7, <1>8, <1>9

\* A frame put on the wire, or none.
LEMMA CatchingWhenPublished ==
  ASSUME Catching, Publish \/ PublishOversized
  PROVE  Asked' /\ Sent' /\ OwedComes' /\ Coming'
<1>1. TypeOK /\ Wire /\ Cursor /\ Skipped /\ Asked /\ Sent /\ OwedComes /\ Coming
  BY Zenon DEF Catching, CatchUpInv
<1>2. /\ JournalId' = JournalId /\ Latest' = Latest + 1 /\ Latest \in Nat
      /\ Latest + 1 \in 1..MaxEvents
  BY <1>1, OneMore, NumberLeft, Numbers DEF Publish, PublishOversized
<1>3. UNCHANGED <<up, ready, timer, request, last, owed>> /\ [Next]_vars
  BY DEF Publish, PublishOversized, cursor, history, link, Next
<1>4. /\ Elems(inbox) \subseteq Elems(inbox')
      /\ AuthFirst' <=> AuthFirst
      /\ up /\ ready => \E x \in Elems(inbox') : IsGap(x) \/ Reaches(x, Latest + 1)
      /\ \/ delivered' = delivered
         \/ delivered' = Latest + 1 /\ \E x \in Elems(inbox') : Reaches(x, Latest + 1)
  <2>1. CASE Publish /\ up /\ ready
    <3>1. inbox' = Append(inbox, Event(JournalId, Latest + 1)) /\ delivered' = Latest + 1
      BY <2>1 DEF Publish
    <3>2. Event(JournalId, Latest + 1) \in Frames
      BY <1>1, <1>2, Numbers
    <3>3. /\ Event(JournalId, Latest + 1).seq = Latest + 1
          /\ Event(JournalId, Latest + 1).type = "provider.runtimeEvent"
      BY DEF Event
    <3>4. Elems(inbox') = Elems(inbox) \cup {Event(JournalId, Latest + 1)}
      BY <1>1, <3>1, <3>2, AppendedElems
    <3>5. AuthFirst' <=> AuthFirst
      BY <1>1, <3>1, <3>2, <3>3, FirstStaysOne
    <3>6. Reaches(Event(JournalId, Latest + 1), Latest + 1)
      BY <1>2, <3>3 DEF Reaches
    <3> QED
      BY <3>1, <3>4, <3>5, <3>6
  <2>2. CASE PublishOversized /\ up /\ ready
    <3>1. inbox' = Append(inbox, Gap) /\ delivered' = delivered
      BY <2>2 DEF PublishOversized, link
    <3>2. Gap \in Frames /\ Gap.type = "provider_replay_gap"
      BY <1>1, Numbers DEF Gap
    <3>3. Elems(inbox') = Elems(inbox) \cup {Gap}
      BY <1>1, <3>1, <3>2, AppendedElems
    <3>4. AuthFirst' <=> AuthFirst
      BY <1>1, <3>1, <3>2, FirstStaysOne
    <3> QED
      BY <3>1, <3>2, <3>3, <3>4 DEF IsGap
  <2>3. CASE ~(up /\ ready)
    <3>1. inbox' = inbox /\ delivered' = delivered
      BY <2>3 DEF Publish, PublishOversized, link
    <3> QED
      BY <2>3, <3>1 DEF AuthFirst
  <2> QED
    BY <2>1, <2>2, <2>3
<1>5. ASSUME ~AuthFirst, NEW m \in 1..MaxEvents, m <= Latest, Comes(m) PROVE Comes(m)'
  BY <1>1, <1>2, <1>3, <1>4, <1>5, ComesKept
<1>6. ASSUME NEW m \in 1..MaxEvents, m <= Latest + 1 PROVE m <= Latest \/ m = Latest + 1
  BY <1>2, <1>6, Numbers
<1>7. Asked'
  BY <1>1, <1>2, <1>3, <1>4 DEF Asked
<1>8. OwedComes'
  BY <1>1, <1>2, <1>3, <1>4 DEF OwedComes
<1>9. Coming'
  <2> SUFFICES ASSUME up, ready, ~AuthFirst, request = {},
                      NEW m \in 1..MaxEvents, last < m, m <= Latest + 1
               PROVE  Comes(m)'
    BY <1>2, <1>3, <1>4 DEF Coming
  <2>1. CASE m <= Latest
    BY <1>1, <1>5, <2>1 DEF Coming
  <2>2. CASE m = Latest + 1
    BY <1>4, <2>2 DEF Comes, Reaches
  <2> QED
    BY <1>6, <2>1, <2>2
<1>10. Sent'
  <2> SUFFICES ASSUME up PROVE Sent'
    BY <1>3 DEF Sent
  <2>1. delivered \in Nat /\ delivered <= Latest
    BY <1>1, Numbers DEF Sent, TypeOK
  <2>2. delivered' <= Latest'
    BY <1>2, <1>4, <2>1
  <2>3. AuthFirst /\ delivered' # 0 => \E x \in Elems(inbox') : Reaches(x, delivered')
    BY <1>1, <1>4 DEF Sent
  <2>4. ASSUME ~AuthFirst, NEW m \in 1..MaxEvents, last < m, m <= delivered'
        PROVE  Comes(m)'
    <3>1. m \in Nat
      BY Numbers
    <3>2. CASE delivered' = delivered
      <4>1. m <= Latest /\ Comes(m)
        BY <1>1, <1>2, <2>1, <2>4, <3>1, <3>2 DEF Sent
      <4> QED
        BY <1>5, <2>4, <4>1
    <3>3. CASE delivered' = Latest + 1 /\ \E x \in Elems(inbox') : Reaches(x, Latest + 1)
      <4>1. PICK x \in Elems(inbox') : Reaches(x, Latest + 1)
        BY <3>3
      <4>2. Reaches(x, m)
        <5>1. x.seq \in Nat
          <6>1. TypeOK'
            BY <1>1, <1>3, TypeInductive
          <6>2. \A y \in Elems(inbox') : y \in Frames
            BY <6>1, Elements DEF TypeOK, Elems
          <6>3. \A y \in Frames : y.seq \in Nat
            BY <1>1, Numbers DEF Frames
          <6> QED
            BY <6>2, <6>3
        <5> QED
          BY <1>2, <2>4, <3>1, <3>3, <4>1, <5>1 DEF Reaches
      <4> QED
        BY <4>2 DEF Comes, Reaches
    <3> QED
      BY <1>4, <3>2, <3>3
  <2> QED
    BY <1>3, <1>4, <2>2, <2>3, <2>4 DEF Sent
<1> QED
  BY <1>7, <1>8, <1>9, <1>10

\* The hub answers: to the client's request, or when its grace period ends.
LEMMA CatchingWhenAnswered ==
  ASSUME Catching, Requested \/ ReplayTimer
  PROVE  Asked' /\ Sent' /\ OwedComes' /\ Coming'
<1>1. TypeOK /\ Wire /\ Cursor /\ Skipped /\ Ring /\ Asked /\ Sent /\ OwedComes /\ Coming
  BY Zenon DEF Catching, CatchUpInv
<1>2. /\ JournalId' = JournalId /\ Latest' = Latest /\ Latest \in Nat /\ last \in Nat
      /\ UNCHANGED <<up, last, owed>> /\ up /\ [Next]_vars
  <2>1. total' = total /\ UNCHANGED <<up, last, owed>> /\ up /\ [Next]_vars
    BY DEF Requested, ReplayTimer, hub, cursor, history, Next
  <2>2. Latest \in Nat /\ last \in Nat
    BY <1>1, Numbers DEF TypeOK
  <2> QED
    BY <1>1, <2>1, <2>2, SameHub
<1>3. /\ timer' = FALSE /\ (AuthFirst' <=> AuthFirst)
  <2>1. \E q : Answer(q) /\ timer' = FALSE
    BY <1>1, Answered DEF Requested, ReplayTimer
  <2> QED
    BY <1>1, <2>1, FirstStays DEF Answer
<1>4. PICK j \in Nat, after \in Nat :
        /\ ReplayProviderEvents(j, after)
        /\ \/ ReplayTimer /\ request' = request /\ timer
           \/ /\ Requested /\ request' = {}
              /\ [journal |-> j, after |-> after] \in request
  <2>1. CASE ReplayTimer
    <3>1. JournalId \in Nat /\ authAt \in Nat
      BY <1>1, Numbers DEF TypeOK
    <3> QED
      BY <2>1, <3>1 DEF ReplayTimer
  <2>2. CASE Requested
    <3>1. PICK r \in request : ReplayProviderEvents(r.journal, r.after) /\ request' = {}
      BY <2>2 DEF Requested
    <3>2. r.journal \in Nat /\ r.after \in Nat /\ r = [journal |-> r.journal, after |-> r.after]
      <4>1. r \in [journal : 1..MaxRestarts + 1, after : 0..MaxEvents]
        BY <1>1 DEF TypeOK
      <4>2. MaxRestarts \in Nat /\ MaxEvents \in Nat
        BY <1>1, Numbers
      <4> QED
        BY <4>1, <4>2
    <3> QED
      BY <2>2, <3>1, <3>2
  <2> QED
    BY <2>1, <2>2
<1>5. /\ Elems(inbox) \subseteq Elems(inbox')
      /\ j # JournalId => \E x \in Elems(inbox') : IsGap(x)
      /\ delivered' = delivered \/ /\ delivered' <= Latest
                                   /\ \E x \in Elems(inbox') : Reaches(x, delivered')
      /\ j = JournalId => \A m \in 1..MaxEvents : after < m /\ m <= Latest =>
           \/ \E x \in Elems(inbox') : IsGap(x) \/ Reaches(x, m)
           \/ m <= delivered
  BY <1>1, <1>4, Served
<1>6. ASSUME ~AuthFirst, NEW m \in 1..MaxEvents, m <= Latest, Comes(m) PROVE Comes(m)'
  BY <1>1, <1>2, <1>5, <1>6, ComesKept
<1>7. Asked'
  <2>1. AuthFirst' => request' = {}
    BY <1>1, <1>3, <1>4 DEF Asked
  <2>2. \A r \in request' : r.journal = JournalId' => r.after <= last'
    BY <1>1, <1>2, <1>4 DEF Asked
  <2> QED
    BY <1>3, <2>1, <2>2 DEF Asked
<1>8. OwedComes'
  <2> SUFFICES ASSUME owed PROVE OwedComes'
    BY <1>2 DEF OwedComes
  <2>1. CASE \E x \in Elems(inbox) : IsGap(x)
    BY <1>1, <1>2, <1>3, <1>5, <2>1 DEF OwedComes
  <2>2. CASE request # {} /\ \A r \in request : r.journal # JournalId
    <3>1. CASE ReplayTimer /\ request' = request
      BY <1>1, <1>2, <1>3, <2>2, <3>1 DEF OwedComes
    <3>2. CASE [journal |-> j, after |-> after] \in request
      <4>1. j # JournalId
        BY <2>2, <3>2
      <4> QED
        BY <1>1, <1>2, <1>3, <1>5, <4>1 DEF OwedComes
    <3> QED
      BY <1>4, <3>1, <3>2
  <2> QED
    BY <1>1, <2>1, <2>2 DEF OwedComes
<1>9. Coming'
  <2> SUFFICES ASSUME ~AuthFirst, request' = {}, NEW m \in 1..MaxEvents, last < m, m <= Latest
               PROVE  Comes(m)'
    BY <1>2, <1>3 DEF Coming
  <2>1. Requested /\ [journal |-> j, after |-> after] \in request
    BY <1>1, <1>2, <1>4 DEF Asked
  <2>2. CASE j # JournalId
    BY <1>5, <2>2 DEF Comes
  <2>3. CASE j = JournalId
    <3>1. after <= last
      BY <1>1, <2>1, <2>3 DEF Asked
    <3>2. after < m
      BY <1>2, <3>1, Numbers
    <3>3. CASE \E x \in Elems(inbox') : IsGap(x) \/ Reaches(x, m)
      BY <3>3 DEF Comes, Reaches
    <3>4. CASE m <= delivered
      <4>1. Comes(m)
        BY <1>1, <1>2, <3>4 DEF Sent
      <4> QED
        BY <1>6, <4>1
    <3> QED
      BY <1>5, <2>3, <3>2, <3>3, <3>4
  <2> QED
    BY <2>2, <2>3
<1>10. Sent'
  <2>1. delivered \in Nat /\ delivered <= Latest
    BY <1>1, <1>2, Numbers DEF Sent, TypeOK
  <2>2. delivered' <= Latest'
    BY <1>2, <1>5, <2>1
  <2>3. AuthFirst /\ delivered' # 0 => \E x \in Elems(inbox') : Reaches(x, delivered')
    BY <1>1, <1>2, <1>5 DEF Sent
  <2>4. ASSUME ~AuthFirst, NEW m \in 1..MaxEvents, last < m, m <= delivered'
        PROVE  Comes(m)'
    <3>1. m \in Nat
      BY Numbers
    <3>2. CASE delivered' = delivered
      <4>1. m <= Latest /\ Comes(m)
        BY <1>1, <1>2, <2>1, <2>4, <3>1, <3>2 DEF Sent
      <4> QED
        BY <1>6, <2>4, <4>1
    <3>3. CASE \E x \in Elems(inbox') : Reaches(x, delivered')
      <4>1. PICK x \in Elems(inbox') : Reaches(x, delivered')
        BY <3>3
      <4>2. x.seq \in Nat /\ delivered' \in Nat
        <5>1. TypeOK'
          BY <1>1, <1>2, TypeInductive
        <5>2. delivered' \in 0..MaxEvents /\ inbox' \in Seq(Frames)
          BY <5>1 DEF TypeOK
        <5>3. \A y \in Elems(inbox') : y \in Frames
          BY <5>2, Elements DEF Elems
        <5>4. \A y \in Frames : y.seq \in Nat
          BY <1>1, Numbers DEF Frames
        <5> QED
          BY <1>1, <5>2, <5>3, <5>4, Numbers
      <4>3. Reaches(x, m)
        BY <2>4, <3>1, <4>1, <4>2 DEF Reaches
      <4> QED
        BY <4>3 DEF Comes, Reaches
    <3> QED
      BY <1>5, <3>2, <3>3
  <2> QED
    BY <1>2, <1>3, <2>2, <2>3, <2>4 DEF Sent
<1> QED
  BY <1>7, <1>8, <1>9, <1>10

\* The client asks for what is behind its cursor; of another journal, for the gap.
LEMMA CatchingWhenNegotiated ==
  ASSUME Catching, Negotiate
  PROVE  Asked' /\ Sent' /\ OwedComes' /\ Coming'
<1> DEFINE f == Head(inbox)
           changed == journal # None /\ journal # f.journal
           ahead == journal = f.journal /\ last > f.seq
<1>1. TypeOK /\ Wire /\ Cursor /\ Skipped /\ Asked /\ Sent /\ OwedComes
  BY Zenon DEF Catching, CatchUpInv
<1>2. /\ inbox # <<>> /\ f.type = "auth_ok" /\ inbox' = Tail(inbox)
      /\ request' = {[journal |-> IF changed THEN journal ELSE f.journal,
                      after |-> IF ahead THEN 0 ELSE last]}
      /\ last' = (IF changed \/ ahead THEN 0 ELSE last)
      /\ owed' = (owed \/ changed)
      /\ total' = total /\ UNCHANGED <<up, delivered>>
  BY DEF Negotiate, hub, link
<1>3. /\ f = inbox[1] /\ Elems(inbox) = Elems(inbox') \cup {inbox[1]}
      /\ JournalId' = JournalId /\ Latest' = Latest /\ ~AuthFirst'
  BY <1>1, <1>2, TakenElems, SameHub, NoAuthLeft
<1>4. AuthFirst /\ f.journal = JournalId /\ up
  <2>1. 1 \in 1..Len(inbox)
    BY <1>1, <1>2, Removed DEF TypeOK
  <2> QED
    BY <1>1, <1>2, <1>3, <2>1 DEF AuthFirst, Wire
<1>5. last \in Nat
  BY <1>1, Numbers DEF TypeOK
<1>6. ~owed
  BY <1>1, <1>4, Zenon DEF OwedComes
<1>7. Asked'
  <2>1. \A r \in request' : r.journal = JournalId => r.after <= last'
    BY <1>2, <1>4, <1>5
  <2>2. request' # {}
    BY <1>2
  <2> QED
    BY <1>3, <2>1, <2>2 DEF Asked
<1>8. OwedComes'
  <2> SUFFICES ASSUME owed' PROVE OwedComes'
    BY DEF OwedComes
  <2>1. changed
    BY <1>2, <1>6
  <2>2. request' # {} /\ \A r \in request' : r.journal # JournalId
    BY <1>2, <1>4, <2>1
  <2> QED
    BY <1>2, <1>3, <1>4, <2>2 DEF OwedComes
<1>9. Coming'
  <2>1. request' # {}
    BY <1>2
  <2> QED
    BY <2>1 DEF Coming
<1>10. Sent'
  <2>1. ASSUME NEW m \in 1..MaxEvents, m <= delivered PROVE Comes(m)'
    <3>1. m \in Nat /\ m >= 1 /\ delivered \in Nat
      BY <1>1, Numbers DEF TypeOK
    <3>2. PICK x \in Elems(inbox) : Reaches(x, delivered)
      BY <1>1, <1>4, <2>1, <3>1 DEF Sent
    <3>3. x \in Elems(inbox') /\ x.seq \in Nat
      BY <1>1, <1>2, <1>3, <3>2, WireElems DEF Reaches
    <3>4. Reaches(x, m)
      BY <2>1, <3>1, <3>2, <3>3 DEF Reaches
    <3> QED
      BY <3>3, <3>4 DEF Comes, Reaches
  <2> QED
    BY <1>1, <1>2, <1>3, <1>4, <2>1 DEF Sent
<1> QED
  BY <1>7, <1>8, <1>9, <1>10

LEMMA CatchingWhenConnected ==
  ASSUME Catching, Connect \/ Disconnect \/ Restart \/ UNCHANGED vars
  PROVE  Asked' /\ Sent' /\ OwedComes' /\ Coming'
<1>1. TypeOK /\ Wire /\ Asked /\ Sent /\ OwedComes /\ Coming
  BY Zenon DEF Catching, CatchUpInv
<1>2. CASE Connect
  <2>1. /\ inbox' = <<AuthOk>> /\ request' = {} /\ ready' = FALSE /\ delivered' = 0
        /\ owed' = owed /\ ~up /\ total' = total
    BY <1>2 DEF Connect, history, hub
  <2>2. AuthFirst'
    BY <2>1 DEF AuthFirst, AuthOk
  <2>3. Asked'
    BY <2>1, <2>2 DEF Asked
  <2>4. Sent'
    BY <1>1, <2>1, <2>2, SameHub, Numbers DEF Sent
  <2>5. OwedComes'
    BY <1>1, <2>1, Zenon DEF OwedComes
  <2>6. Coming'
    BY <2>1, Zenon DEF Coming
  <2> QED
    BY <2>3, <2>4, <2>5, <2>6
<1>3. CASE Disconnect \/ Restart
  <2>1. inbox' = <<>> /\ request' = {} /\ up' = FALSE /\ owed' = FALSE
    BY <1>3 DEF Disconnect, Restart
  <2>2. ~AuthFirst'
    BY <2>1 DEF AuthFirst
  <2> QED
    BY <2>1, <2>2, Zenon DEF Asked, Sent, OwedComes, Coming
<1>4. CASE UNCHANGED vars
  <2>1. /\ JournalId' = JournalId /\ Latest' = Latest
        /\ UNCHANGED <<inbox, request, up, ready, timer, delivered, last, owed>>
        /\ UNCHANGED <<applied, excused, failed, lost>>
    BY <1>1, <1>4, SameHub DEF vars, hub, wire, cursor, history, link
  <2>2. \A m \in 1..MaxEvents : Comes(m)' <=> Comes(m)
    BY <2>1 DEF Comes, Accounted, heard, Reaches
  <2>3. (AuthFirst' <=> AuthFirst) /\ Elems(inbox') = Elems(inbox)
    BY <2>1 DEF AuthFirst
  <2>4. Asked' /\ OwedComes'
    BY <1>1, <2>1, <2>3 DEF Asked, OwedComes
  <2>5. Sent'
    BY <1>1, <2>1, <2>2, <2>3 DEF Sent
  <2>6. Coming'
    BY <1>1, <2>1, <2>2, <2>3 DEF Coming
  <2> QED
    BY <2>4, <2>5, <2>6
<1> QED
  BY <1>2, <1>3, <1>4

LEMMA CatchUpInductive ==
  ReplayInv /\ CatchUpInv /\ [Next]_vars => CatchUpInv'
<1> SUFFICES ASSUME ReplayInv, CatchUpInv, [Next]_vars PROVE CatchUpInv'
  OBVIOUS
<1>1. Catching
  BY Zenon DEF ReplayInv, Catching
<1>2. Ring'
  BY <1>1, RingInductive, Zenon DEF Catching, CatchUpInv
<1>3. Asked' /\ Sent' /\ OwedComes' /\ Coming'
  BY <1>1, CatchingWhenTaken, CatchingWhenPublished, CatchingWhenAnswered,
     CatchingWhenNegotiated, CatchingWhenConnected, Zenon DEF Next, Takes
<1> QED
  BY <1>2, <1>3, Zenon DEF CatchUpInv

LEMMA CatchUpInit ==
  Init => CatchUpInv
<1> SUFFICES ASSUME Init PROVE CatchUpInv
  OBVIOUS
<1>1. Ring
  BY DEF Init, Ring, Rising
<1>2. ~AuthFirst
  BY DEF Init, AuthFirst
<1> QED
  BY <1>1, <1>2 DEF Init, CatchUpInv, Asked, Sent, OwedComes, Coming

\* A client whose connection is settled, with nothing under way to it, has applied
\* every number the hub gave out, was told that it misses it, or had its handler throw
\* over it; but for what the two known faults lose.  The hub never takes for delivered
\* what is not on its way, answers a request whenever it comes, and owes the gap
\* of a changed journal until it is on the wire.
THEOREM SettledHasAll ==
  Spec => []CaughtUp
<1>1. Spec => []CatchUpInv
  <2>1. Spec => []ReplayInv
    BY ReplayInductive
  <2> QED
    BY <2>1, CatchUpInit, CatchUpInductive, PTL DEF Spec
<1>2. ASSUME ReplayInv, CatchUpInv PROVE CaughtUp
  <2> SUFFICES ASSUME Settled, NEW p \in Published
               PROVE  p \in Accounted
    BY DEF CaughtUp, Accounted
  <2>1. TypeOK /\ Wire /\ Cursor /\ Covered /\ OwedComes /\ Coming
    BY <1>2, Zenon DEF ReplayInv, CatchUpInv
  <2>2. /\ up /\ ready /\ request = {} /\ inbox = <<>> /\ ~AuthFirst /\ Elems(inbox) = {}
    BY DEF Settled, AuthFirst, Elems
  <2>3. journal = JournalId /\ ~owed
    BY <2>1, <2>2 DEF Cursor, OwedComes
  <2>4. /\ p[1] \in Nat /\ p[2] \in Nat /\ p[2] \in 1..MaxEvents /\ p = <<p[1], p[2]>>
        /\ p[1] <= JournalId /\ (p[1] = JournalId => p[2] <= Latest)
        /\ JournalId \in Nat /\ last \in Nat
    BY <2>1, EventParts
  <2>5. CASE Reached(p)
    BY <2>1, <2>3, <2>5 DEF Covered, Accounted
  <2>6. CASE ~Reached(p)
    <3>1. p[1] = JournalId /\ last < p[2] /\ p[2] <= Latest
      BY <2>3, <2>4, <2>6 DEF Reached
    <3>2. Comes(p[2])
      BY <2>1, <2>2, <2>4, <3>1 DEF Coming
    <3> QED
      BY <2>2, <2>4, <3>1, <3>2 DEF Comes
  <2> QED
    BY <2>5, <2>6
<1> QED
  BY <1>1, <1>2, ReplayInductive, PTL

=============================================================================
