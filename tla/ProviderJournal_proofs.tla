------------------------ MODULE ProviderJournal_proofs ------------------------
(***************************************************************************)
(* Proofs about ProviderJournal, for any number of threads and events, any *)
(* limits and any number of starts.                                        *)
(*                                                                         *)
(* The inductive invariant says where an event can be.  An event is in at  *)
(* most one of the queue, the spool and the journal, save that a file may  *)
(* still lie beside the row that was made from it (Fresh, FilesOnce,       *)
(* FileRow), and an event that has not arrived is nowhere (Future).  Most  *)
(* actions move one event: the lemmas of the second section say what such  *)
(* a move does to the invariant, and the proof has one step per action.    *)
(*                                                                         *)
(* A section of its own adds where an event is in relation to the others:  *)
(* the journal, the spool and the queue are in the order of arrival, one   *)
(* behind the other (OrderInv), so that nothing is projected ahead of an   *)
(* earlier event of its thread.  The last section is about what a replay   *)
(* pass still has before it (PassInv) and leaves behind when it ends.      *)
(***************************************************************************)
EXTENDS ProviderJournal, SequenceTheorems, FiniteSetTheorems, TLAPS

Elems(q) == {q[i] : i \in DOMAIN q}
Injective(q) == \A i, j \in DOMAIN q : q[i] = q[j] => i = j

Files == spool \cup quarantined
Fresh == \A e \in Queued : ~HasRow(e) /\ ~InFile(e)
FilesOnce == \A f, g \in Files : f.event = g.event => f = g
FileRow ==
  \A f \in Files : \A i \in DOMAIN rows :
    rows[i].event = f.event => rows[i].version = f.version
Future ==
  \A e \in Events : e > arrived =>
    fate[e] = None /\ e \notin Queued /\ ~HasRow(e) /\ ~InFile(e)

\* Where the events are.
Placement ==
  /\ NothingLost /\ OneRow /\ Injective(queue)
  /\ Fresh /\ FilesOnce /\ FileRow /\ Future

\* Whoever takes the head of the queue finds one.
NeedsQueue ==
  /\ mode \in {"overflow", "draining", "stopping", "spooling"} => queue # <<>>
  /\ timer => mode = "serving" /\ queue # <<>>

\* A replay is counted before it runs.
Counted ==
  \A i \in DOMAIN rows : rows[i].replays <= rows[i].attempts /\ rows[i].replays <= MaxAttempts

\* What a pass has still to replay is in its batch or behind it.
BatchIsNext ==
  mode = "replaying" =>
    \A i \in Unreceipted(rows) : threadOf[rows[i].event] \notin pass.blocked =>
      i \in pass.batch \/ \A j \in pass.batch : j < i

Inv == TypeOK /\ Placement /\ NeedsQueue /\ Counted /\ BatchIsNext

-----------------------------------------------------------------------------
(* Sequences                                                                 *)

LEMMA Appended ==
  ASSUME NEW S, NEW q \in Seq(S), NEW x \in S
  PROVE  /\ Append(q, x) \in Seq(S)
         /\ DOMAIN q = 1..Len(q) /\ DOMAIN Append(q, x) = 1..(Len(q) + 1)
         /\ DOMAIN q \subseteq DOMAIN Append(q, x)
         /\ \A i \in DOMAIN q : Append(q, x)[i] = q[i]
         /\ Append(q, x)[Len(q) + 1] = x
         /\ \A i \in DOMAIN Append(q, x) : i \in DOMAIN q \/ i = Len(q) + 1
         /\ Len(q) + 1 \notin DOMAIN q
  OBVIOUS

LEMMA Removed ==
  ASSUME NEW S, NEW q \in Seq(S), q # <<>>
  PROVE  /\ Tail(q) \in Seq(S) /\ Head(q) \in S
         /\ Head(q) = q[1] /\ 1 \in DOMAIN q
         /\ Len(q) > 0 /\ Len(Tail(q)) = Len(q) - 1
         /\ \A i \in DOMAIN Tail(q) : i + 1 \in DOMAIN q /\ Tail(q)[i] = q[i + 1] /\ i + 1 # 1
         /\ \A i \in DOMAIN q : i # 1 => i - 1 \in DOMAIN Tail(q) /\ Tail(q)[i - 1] = q[i]
  OBVIOUS

LEMMA LongTail ==
  ASSUME NEW S, NEW q \in Seq(S), q # <<>>
  PROVE  /\ Len(q) # 1 => Tail(q) # <<>>
         /\ Len(q) > 1 => Tail(q) # <<>>
<1>1. PICK n \in Nat : n = Len(q) /\ n > 0 /\ DOMAIN q = 1..n
  BY Removed
<1>2. n > 1 => 1 \in DOMAIN Tail(q)
  <2>1. n > 1 => 2 \in DOMAIN q
    BY <1>1
  <2>2. 2 \in DOMAIN q => 2 - 1 \in DOMAIN Tail(q)
    BY Removed
  <2> QED
    BY <2>1, <2>2
<1>3. Tail(q) = <<>> => DOMAIN Tail(q) = {}
  OBVIOUS
<1>4. n # 1 => n > 1
  BY <1>1
<1>5. n > 1 => Tail(q) # <<>>
  BY <1>2, <1>3
<1> QED
  BY <1>1, <1>4, <1>5

LEMMA TailElems ==
  ASSUME NEW S, NEW q \in Seq(S), q # <<>>, Injective(q)
  PROVE  Injective(Tail(q)) /\ Elems(Tail(q)) = Elems(q) \ {Head(q)} /\ Head(q) \in Elems(q)
<1>1. Injective(Tail(q))
  <2> SUFFICES ASSUME NEW i \in DOMAIN Tail(q), NEW j \in DOMAIN Tail(q), Tail(q)[i] = Tail(q)[j]
               PROVE  i = j
    BY DEF Injective
  <2>1. i + 1 = j + 1
    BY Removed DEF Injective
  <2> QED
    BY <2>1, Removed
<1>2. Elems(Tail(q)) \subseteq Elems(q) \ {Head(q)}
  <2> SUFFICES ASSUME NEW i \in DOMAIN Tail(q) PROVE Tail(q)[i] \in Elems(q) /\ Tail(q)[i] # Head(q)
    BY DEF Elems
  <2> QED
    BY Removed DEF Elems, Injective
<1>3. Elems(q) \ {Head(q)} \subseteq Elems(Tail(q))
  <2> SUFFICES ASSUME NEW i \in DOMAIN q, q[i] # Head(q) PROVE q[i] \in Elems(Tail(q))
    BY DEF Elems
  <2> QED
    BY Removed DEF Elems
<1> QED
  BY <1>1, <1>2, <1>3, Removed DEF Elems

LEMMA AppendElems ==
  ASSUME NEW S, NEW q \in Seq(S), NEW x \in S, Injective(q), x \notin Elems(q)
  PROVE  Injective(Append(q, x)) /\ Elems(Append(q, x)) = Elems(q) \cup {x}
<1>1. Injective(Append(q, x))
  <2> SUFFICES ASSUME NEW i \in DOMAIN Append(q, x), NEW j \in DOMAIN Append(q, x),
                      Append(q, x)[i] = Append(q, x)[j]
               PROVE  i = j
    BY DEF Injective
  <2> QED
    BY Appended DEF Injective, Elems
<1>2. Elems(Append(q, x)) \subseteq Elems(q) \cup {x}
  <2> SUFFICES ASSUME NEW i \in DOMAIN Append(q, x) PROVE Append(q, x)[i] \in Elems(q) \cup {x}
    BY DEF Elems
  <2> QED
    BY Appended DEF Elems
<1>3. Elems(q) \cup {x} \subseteq Elems(Append(q, x))
  <2>1. Len(q) + 1 \in DOMAIN Append(q, x)
    BY Appended
  <2>2. ASSUME NEW i \in DOMAIN q PROVE q[i] \in Elems(Append(q, x))
    BY Appended DEF Elems
  <2>3. x \in Elems(Append(q, x))
    BY <2>1, Appended DEF Elems
  <2> QED
    BY <2>2, <2>3 DEF Elems
<1> QED
  BY <1>1, <1>2, <1>3

-----------------------------------------------------------------------------
(* Moves                                                                     *)

\* Nothing moves: rows may be receipted and their attempts counted.
LEMMA Stays ==
  ASSUME TypeOK, Placement,
         UNCHANGED <<arrived, fate, queue, spool, quarantined>>,
         projected \subseteq projected',
         DOMAIN rows' = DOMAIN rows,
         \A i \in DOMAIN rows :
           rows'[i].event = rows[i].event /\ rows'[i].version = rows[i].version
  PROVE  Placement'
<1>1. UNCHANGED Queued
  BY DEF Queued
<1>2. \A e \in Events : (HasRow(e)' <=> HasRow(e)) /\ (InFile(e)' <=> InFile(e))
  BY DEF HasRow, InFile
<1>3. NothingLost' /\ Fresh' /\ Future'
  <2>1. \A e \in Queued : e \in Events
    BY DEF TypeOK, Queued
  <2> QED
    BY <1>1, <1>2, <2>1 DEF Placement, NothingLost, Fresh, Future
<1>4. OneRow' /\ FileRow' /\ FilesOnce' /\ Injective(queue)'
  BY DEF Placement, OneRow, FileRow, FilesOnce, Files, Injective
<1> QED
  BY <1>3, <1>4 DEF Placement

\* A set of queued events is given up, nothing else changes.
LEMMA Drops ==
  ASSUME TypeOK, Placement,
         UNCHANGED <<arrived, spool, quarantined>>,
         projected \subseteq projected',
         DOMAIN rows' = DOMAIN rows,
         \A i \in DOMAIN rows :
           rows'[i].event = rows[i].event /\ rows'[i].version = rows[i].version,
         queue' = <<>>,
         NEW why \in GivenUp,
         fate' = [e \in Events |-> IF e \in Queued THEN why ELSE fate[e]]
  PROVE  Placement'
<1>1. Queued' = {}
  BY DEF Queued
<1>2. \A e \in Events : (HasRow(e)' <=> HasRow(e)) /\ (InFile(e)' <=> InFile(e))
  BY DEF HasRow, InFile
<1>3. NothingLost'
  <2> SUFFICES ASSUME NEW e \in Events, fate'[e] \in {"taken", "thrown"}
               PROVE  HasRow(e)' \/ InFile(e)' \/ e \in projected' \ Journaled
    BY DEF NothingLost
  <2>1. e \notin Queued /\ fate'[e] = fate[e]
    BY DEF GivenUp
  <2> QED
    BY <2>1, <1>2 DEF Placement, NothingLost
<1>4. Future'
  BY <1>1, <1>2 DEF Placement, Future
<1>5. OneRow' /\ FileRow' /\ FilesOnce' /\ Injective(queue)' /\ Fresh'
  BY <1>1 DEF Placement, OneRow, FileRow, FilesOnce, Files, Injective, Fresh
<1> QED
  BY <1>3, <1>4, <1>5 DEF Placement

\* One event, the next to arrive or one of the queue, is dealt with: it is
\* journaled, given up, or shown without a row; other queued events stay in the
\* queue or are given up.
LEMMA Settles ==
  ASSUME TypeOK, Placement, NEW e \in Events,
         \/ e \in Queued /\ arrived' = arrived
         \/ e = arrived + 1 /\ arrived' = e,
         UNCHANGED <<spool, quarantined>>,
         projected \subseteq projected',
         queue' \in Seq(Events), Injective(queue'), Queued' \subseteq Queued \ {e},
         \/ rows' = rows /\ (fate'[e] \in GivenUp \/ e \in projected' \ Journaled)
         \/ \E r \in RowType : r.event = e /\ rows' = Append(rows, r),
         fate' \in [Events -> GivenUp \cup {None, "taken", "thrown"}],
         \A f \in Events \ {e} :
           IF f \in Queued \ Queued' THEN fate'[f] \in GivenUp ELSE fate'[f] = fate[f]
  PROVE  Placement'
<1> USE DEF GivenUp
<1>0. \A f \in Queued : f \in Events
  BY DEF TypeOK, Queued
<1>1. \A f \in Events : f > arrived => f \notin Queued /\ ~HasRow(f) /\ ~InFile(f)
  BY DEF Placement, Future
<1>2. ~HasRow(e) /\ ~InFile(e)
  <2>1. arrived \in 0..Last
    BY DEF TypeOK
  <2>2. CASE e \in Queued
    BY <2>2 DEF Placement, Fresh
  <2>3. CASE e = arrived + 1
    BY <2>1, <2>3, <1>1 DEF Events
  <2> QED
    BY <2>2, <2>3
<1>3. \A f \in Events : InFile(f)' <=> InFile(f)
  BY DEF InFile
<1>4. /\ \A f \in Events : f # e => (HasRow(f)' <=> HasRow(f))
      /\ rows' # rows => HasRow(e)'
      /\ OneRow' /\ FileRow'
  <2>1. CASE rows' = rows
    BY <2>1 DEF HasRow, Placement, OneRow, FileRow, Files
  <2>2. CASE \E r \in RowType : r.event = e /\ rows' = Append(rows, r)
    <3>1. PICK r \in RowType : r.event = e /\ rows' = Append(rows, r)
      BY <2>2
    <3>2. rows \in Seq(RowType)
      BY DEF TypeOK
    <3>3. /\ DOMAIN rows \subseteq DOMAIN rows'
          /\ \A i \in DOMAIN rows : rows'[i] = rows[i]
          /\ rows'[Len(rows) + 1] = r
          /\ \A i \in DOMAIN rows' : i \in DOMAIN rows \/ i = Len(rows) + 1
          /\ Len(rows) + 1 \in DOMAIN rows'
      <4> HIDE DEF GivenUp
      <4> QED
        BY <3>1, <3>2, Appended
    <3>4. \A i \in DOMAIN rows : rows[i].event # e
      BY <1>2 DEF HasRow
    <3>5. \A f \in Events : f # e => (HasRow(f)' <=> HasRow(f))
      BY <3>1, <3>3 DEF HasRow
    <3>6. HasRow(e)'
      BY <3>1, <3>3 DEF HasRow
    <3>7. OneRow'
      BY <3>1, <3>3, <3>4 DEF Placement, OneRow
    <3>8. \A f \in Files : f.event # e
      BY <1>2 DEF InFile, Files
    <3>9. FileRow'
      BY <3>1, <3>3, <3>8 DEF Placement, FileRow, Files
    <3> QED
      BY <3>5, <3>6, <3>7, <3>9
  <2> QED
    BY <2>1, <2>2
<1>5. NothingLost'
  <2> SUFFICES ASSUME NEW f \in Events, fate'[f] \in {"taken", "thrown"}
               PROVE  f \in Queued' \/ HasRow(f)' \/ InFile(f)' \/ f \in projected' \ Journaled
    BY DEF NothingLost
  <2>1. CASE f = e
    BY <2>1, <1>4
  <2>2. CASE f # e
    <3>1. f \notin Queued \ Queued' /\ fate'[f] = fate[f]
      BY <2>2
    <3> QED
      BY <2>2, <3>1, <1>3, <1>4 DEF Placement, NothingLost
  <2> QED
    BY <2>1, <2>2
<1>6. Fresh'
  BY <1>0, <1>3, <1>4 DEF Placement, Fresh
<1>7. Future'
  <2> SUFFICES ASSUME NEW f \in Events, f > arrived'
               PROVE  fate'[f] = None /\ f \notin Queued' /\ ~HasRow(f)' /\ ~InFile(f)'
    BY DEF Future
  <2>1. arrived \in 0..Last /\ f \in Nat /\ e \in Nat
    BY DEF TypeOK, Events
  <2>2. f > arrived
    BY <2>1
  <2>3. f \notin Queued /\ ~HasRow(f) /\ ~InFile(f) /\ fate[f] = None
    BY <2>2 DEF Placement, Future
  <2>4. f # e
    BY <2>1, <2>3
  <2> QED
    BY <2>3, <2>4, <1>3, <1>4
<1>8. FilesOnce' /\ Injective(queue)'
  BY DEF Placement, FilesOnce, Files
<1> QED
  BY <1>4, <1>5, <1>6, <1>7, <1>8 DEF Placement

\* The next event joins the queue.
LEMMA Joins ==
  ASSUME TypeOK, Placement, NEW e \in Events,
         e = arrived + 1, arrived' = e,
         queue' = Append(queue, e),
         fate' = [fate EXCEPT ![e] = "taken"],
         UNCHANGED <<rows, spool, quarantined, projected>>
  PROVE  Placement'
<1>1. arrived \in 0..Last /\ queue \in Seq(Events) /\ fate \in [Events -> GivenUp \cup {None, "taken", "thrown"}]
  BY DEF TypeOK
<1>2. e \notin Queued /\ ~HasRow(e) /\ ~InFile(e)
  BY <1>1 DEF Placement, Future, Events
<1>3. Injective(queue') /\ Queued' = Queued \cup {e}
  BY <1>1, <1>2, AppendElems DEF Placement, Queued, Elems
<1>4. \A f \in Events : (HasRow(f)' <=> HasRow(f)) /\ (InFile(f)' <=> InFile(f))
  BY DEF HasRow, InFile
<1>5. \A f \in Events : f # e => fate'[f] = fate[f]
  BY <1>1
<1>6. NothingLost'
  BY <1>3, <1>4, <1>5 DEF Placement, NothingLost
<1>7. Fresh'
  BY <1>2, <1>3, <1>4 DEF Placement, Fresh, HasRow, InFile
<1>8. Future'
  <2> SUFFICES ASSUME NEW f \in Events, f > arrived'
               PROVE  fate'[f] = None /\ f \notin Queued' /\ ~HasRow(f)' /\ ~InFile(f)'
    BY DEF Future
  <2>1. f > arrived /\ f # e
    BY <1>1 DEF Events
  <2> QED
    BY <2>1, <1>3, <1>4, <1>5 DEF Placement, Future
<1>9. OneRow' /\ FileRow' /\ FilesOnce'
  BY DEF Placement, OneRow, FileRow, FilesOnce, Files
<1> QED
  BY <1>3, <1>6, <1>7, <1>8, <1>9 DEF Placement

\* The head of the queue is spooled.
LEMMA Spools ==
  ASSUME TypeOK, Placement, queue # <<>>, SpoolHead
  PROVE  Placement' /\ queue' \in Seq(Events) /\ sequence' \in Nat /\ spool' \subseteq FileType
<1> DEFINE e == Head(queue)
           file == [event |-> e, version |-> sequence + 1]
<1>1. queue \in Seq(Events) /\ sequence \in Nat /\ spool \subseteq FileType
  BY DEF TypeOK
<1>2. e \in Events /\ queue' \in Seq(Events)
  BY <1>1, Removed DEF SpoolHead
<1>3. sequence' \in Nat /\ spool' \subseteq FileType
  BY <1>1, <1>2 DEF SpoolHead, FileType
<1>4. Injective(queue') /\ Queued' = Queued \ {e} /\ e \in Queued
  BY <1>1, TailElems DEF Placement, SpoolHead, Queued, Elems
<1>5. ~HasRow(e) /\ ~InFile(e)
  BY <1>4 DEF Placement, Fresh
<1>6. Files' = Files \cup {file} /\ file.event = e
  BY DEF SpoolHead, Files
<1>7. \A f \in Events : (HasRow(f)' <=> HasRow(f)) /\ (InFile(f)' <=> InFile(f) \/ f = e)
  <2>1. \A f \in Events : (HasRow(f)' <=> HasRow(f))
    BY DEF HasRow, SpoolHead
  <2> HIDE DEF e, file
  <2> QED
    BY <2>1, <1>6 DEF InFile, Files
<1>8. UNCHANGED <<arrived, fate, projected, rows, quarantined>>
  BY DEF SpoolHead
<1> HIDE DEF e, file
<1>9. NothingLost'
  BY <1>4, <1>7, <1>8 DEF Placement, NothingLost
<1>10. Fresh'
  <2>1. \A f \in Queued : f \in Events
    BY <1>1 DEF Queued
  <2> QED
    BY <2>1, <1>4, <1>7 DEF Placement, Fresh
<1>11. Future'
  BY <1>4, <1>7, <1>8 DEF Placement, Future
<1>12. FilesOnce'
  <2>1. \A f \in Files : f.event # e
    BY <1>5 DEF InFile, Files
  <2> QED
    BY <2>1, <1>6 DEF Placement, FilesOnce
<1>13. FileRow' /\ OneRow'
  <2>1. \A i \in DOMAIN rows : rows[i].event # e
    BY <1>5 DEF HasRow
  <2> QED
    BY <2>1, <1>6, <1>8 DEF Placement, FileRow, OneRow
<1> QED
  BY <1>2, <1>3, <1>4, <1>9, <1>10, <1>11, <1>12, <1>13 DEF Placement

\* A file is journaled, and perhaps removed.
LEMMA Unspools ==
  ASSUME TypeOK, Placement, NEW file \in spool, Unspool(file),
         spool' \in {spool, spool \ {file}},
         UNCHANGED <<arrived, fate, queue, quarantined, projected>>
  PROVE  Placement' /\ rows' \in Seq(RowType)
                    /\ rows' \in {rows, Append(rows, Row(file.event, file.version))}
<1> DEFINE e == file.event
           r == Row(file.event, file.version)
<1>1. rows \in Seq(RowType) /\ queue \in Seq(Events) /\ file \in FileType
  BY DEF TypeOK
<1>2. e \in Events /\ r \in RowType /\ r.event = e /\ r.version = file.version
  BY <1>1 DEF FileType, RowType, Row
<1>3. InFile(e) /\ e \notin Queued /\ file \in Files
  BY DEF InFile, Placement, Fresh, Files
<1>4. Files' \subseteq Files /\ Files \subseteq Files' \cup {file}
  BY DEF Files
<1>5. \/ HasRow(e) /\ rows' = rows
      \/ ~HasRow(e) /\ rows' = Append(rows, r)
  <2>1. HasRow(e) <=> \E i \in DOMAIN rows : rows[i].event = file.event /\ rows[i].version = file.version
    BY <1>3 DEF HasRow, Placement, FileRow
  <2> QED
    BY <2>1 DEF Unspool
<1> HIDE DEF r
<1>6. /\ rows' \in Seq(RowType) /\ DOMAIN rows \subseteq DOMAIN rows'
      /\ \A i \in DOMAIN rows : rows'[i] = rows[i]
      /\ \A i \in DOMAIN rows' : i \in DOMAIN rows \/
           (i = Len(rows) + 1 /\ rows'[i] = r /\ ~HasRow(e) /\ i \notin DOMAIN rows)
      /\ HasRow(e)'
  <2>1. CASE HasRow(e) /\ rows' = rows
    BY <2>1, <1>1 DEF HasRow
  <2>2. CASE ~HasRow(e) /\ rows' = Append(rows, r)
    <3>1. /\ rows' \in Seq(RowType) /\ DOMAIN rows \subseteq DOMAIN rows'
          /\ \A i \in DOMAIN rows : rows'[i] = rows[i]
          /\ rows'[Len(rows) + 1] = r
          /\ \A i \in DOMAIN rows' : i \in DOMAIN rows \/ i = Len(rows) + 1
          /\ Len(rows) + 1 \in DOMAIN rows' /\ Len(rows) + 1 \notin DOMAIN rows
      BY <2>2, <1>1, <1>2, Appended
    <3>2. HasRow(e)'
      BY <3>1, <1>2 DEF HasRow
    <3> QED
      BY <3>1, <3>2, <2>2
  <2> QED
    BY <2>1, <2>2, <1>5
<1>7. \A f \in Events : f # e => (HasRow(f)' <=> HasRow(f)) /\ (InFile(f)' <=> InFile(f))
  <2> SUFFICES ASSUME NEW f \in Events, f # e
               PROVE  (HasRow(f)' <=> HasRow(f)) /\ (InFile(f)' <=> InFile(f))
    OBVIOUS
  <2>1. HasRow(f) => HasRow(f)'
    BY <1>6 DEF HasRow
  <2>2. HasRow(f)' => HasRow(f)
    BY <1>2, <1>6 DEF HasRow
  <2>3. InFile(f)' <=> InFile(f)
    BY <1>4 DEF InFile, Files
  <2> QED
    BY <2>1, <2>2, <2>3
<1>8. Queued' = Queued /\ \A f \in Queued : f \in Events
  BY <1>1 DEF Queued
<1>9. NothingLost'
  BY <1>6, <1>7, <1>8 DEF Placement, NothingLost
<1>10. Fresh'
  BY <1>3, <1>7, <1>8 DEF Placement, Fresh
<1>11. Future'
  <2>1. \A f \in Events : f > arrived => f # e
    BY <1>3 DEF Placement, Future
  <2> QED
    BY <2>1, <1>7, <1>8 DEF Placement, Future
<1>12. FilesOnce' /\ Injective(queue)'
  BY <1>4 DEF Placement, FilesOnce, Injective
<1>13. FileRow'
  <2> SUFFICES ASSUME NEW f \in Files', NEW i \in DOMAIN rows', rows'[i].event = f.event
               PROVE  rows'[i].version = f.version
    BY DEF FileRow
  <2>1. f \in Files
    BY <1>4
  <2>2. CASE i \in DOMAIN rows
    BY <2>1, <2>2, <1>6 DEF Placement, FileRow
  <2>3. CASE rows'[i] = r
    BY <2>1, <2>3, <1>2, <1>3 DEF Placement, FilesOnce
  <2> QED
    BY <2>2, <2>3, <1>6
<1>14. OneRow'
  <2> SUFFICES ASSUME NEW i \in DOMAIN rows', NEW j \in DOMAIN rows', rows'[i].event = rows'[j].event
               PROVE  i = j
    BY DEF OneRow
  <2>1. CASE i \in DOMAIN rows /\ j \in DOMAIN rows
    BY <2>1, <1>6 DEF Placement, OneRow
  <2>2. CASE i \notin DOMAIN rows \/ j \notin DOMAIN rows
    BY <2>2, <1>2, <1>6 DEF HasRow
  <2> QED
    BY <2>1, <2>2
<1> QED
  BY <1>5, <1>6, <1>9, <1>10, <1>11, <1>12, <1>13, <1>14 DEF Placement, r

-----------------------------------------------------------------------------
(* Rows                                                                      *)

\* What counting an attempt, a replay or a receipt leaves alone.
LEMMA RowUpdates ==
  ASSUME NEW r \in RowType, NEW status \in {"projected", "discarded"}
  PROVE  /\ Replayed(r) \in RowType /\ Replayed(r).event = r.event
         /\ Replayed(r).version = r.version /\ Replayed(r).receipt = r.receipt
         /\ Replayed(r).attempts = r.attempts + 1 /\ Replayed(r).replays = r.replays + 1
         /\ Attempted(r) \in RowType /\ Attempted(r).event = r.event
         /\ Attempted(r).version = r.version
         /\ Attempted(r).attempts = r.attempts + 1 /\ Attempted(r).replays = r.replays
         /\ Receipted(r, status) \in RowType /\ Receipted(r, status).event = r.event
         /\ Receipted(r, status).version = r.version
         /\ Receipted(r, status).attempts = r.attempts
         /\ Receipted(r, status).replays = r.replays
<1>1. Attempted(r) = [event |-> r.event, version |-> r.version, receipt |-> r.receipt,
                      attempts |-> r.attempts + 1, replays |-> r.replays]
  BY DEF Attempted, RowType
<1>2. Replayed(r) = [event |-> r.event, version |-> r.version, receipt |-> r.receipt,
                     attempts |-> r.attempts + 1, replays |-> r.replays + 1]
  BY <1>1 DEF Replayed
<1>3. Receipted(r, status) = [event |-> r.event, version |-> r.version, receipt |-> status,
                              attempts |-> r.attempts, replays |-> r.replays]
  BY DEF Receipted, RowType
<1>4. r.event \in Events /\ r.version \in Nat /\ r.attempts \in Nat /\ r.replays \in Nat
      /\ r.receipt \in {None, "projected", "discarded"}
  BY DEF RowType
<1> QED
  BY <1>1, <1>2, <1>3, <1>4 DEF RowType

\* One row is counted up or receipted.
LEMMA RowChanges ==
  ASSUME TypeOK, Counted, NEW i \in DOMAIN rows, NEW r \in RowType,
         r.event = rows[i].event, r.version = rows[i].version,
         r.replays <= r.attempts, r.replays <= MaxAttempts,
         Put(i, r)
  PROVE  /\ rows' \in Seq(RowType) /\ DOMAIN rows' = DOMAIN rows
         /\ \A j \in DOMAIN rows : rows'[j] = IF j = i THEN r ELSE rows[j]
         /\ \A j \in DOMAIN rows :
              rows'[j].event = rows[j].event /\ rows'[j].version = rows[j].version
         /\ Counted'
<1>1. rows \in Seq(RowType)
  BY DEF TypeOK
<1>2. /\ rows' \in Seq(RowType) /\ DOMAIN rows' = DOMAIN rows
      /\ \A j \in DOMAIN rows : rows'[j] = IF j = i THEN r ELSE rows[j]
  BY <1>1 DEF Put
<1> QED
  BY <1>2 DEF Counted

-----------------------------------------------------------------------------
(* processEvent                                                              *)

Fates == [Events -> GivenUp \cup {None, "taken", "thrown"}]
Passes(D) == [batch : SUBSET D, full : BOOLEAN, progressed : BOOLEAN, blocked : SUBSET Threads]

LEMMA RowTyped ==
  ASSUME NEW e \in Events, NEW v \in Nat
  PROVE  LET r == Row(e, v) IN r \in RowType /\ r.event = e /\ r.attempts = 0 /\ r.replays = 0
  BY DEF Row, RowType

LEMMA PassKept ==
  ASSUME NEW D, NEW E, D \subseteq E, NEW p \in Passes(D)
  PROVE  p \in Passes(E)
  BY DEF Passes

LEMMA NoPassTyped ==
  ASSUME NEW D
  PROVE  NoPass \in Passes(D)
  BY DEF NoPass, Passes

\* What processEvent does to event e, whether or not it survives it.
Settled(e) ==
  /\ \/ rows' = rows /\ (fate'[e] \in GivenUp \/ e \in projected' \ Journaled)
     \/ \E r \in RowType : r.event = e /\ r.attempts = 0 /\ r.replays = 0
                           /\ rows' = Append(rows, r)
  /\ fate' \in Fates
  /\ projected \subseteq projected' /\ projected' \subseteq Events
  /\ late' \subseteq Events /\ sequence' \in Nat
  /\ UNCHANGED <<spool, quarantined, boots>>

LEMMA ProcessSettles ==
  ASSUME TypeOK, NEW e \in Events, NEW emitting \in BOOLEAN, Process(e, emitting)
  PROVE  Settled(e) /\ UNCHANGED pass /\ \A f \in Events \ {e} : fate'[f] = fate[f]
<1>1. fate \in Fates /\ sequence \in Nat /\ projected \subseteq Events /\ late \subseteq Events
  BY DEF TypeOK, Fates
<1>2. UNCHANGED <<spool, quarantined, pass, boots>>
  BY DEF Process
<1>3. CASE Unserializable(e)
  BY <1>1, <1>2, <1>3 DEF Unserializable, Settled, Fates, GivenUp
<1>4. CASE Degraded(e, emitting)
  <2>1. /\ rows' = Append(rows, Row(e, sequence + 1)) /\ sequence' = sequence + 1
        /\ late' = late \cup {e} /\ projected' \in {projected, projected \cup {e}}
        /\ \/ fate' = [fate EXCEPT ![e] = "taken"]
           \/ fate' = [fate EXCEPT ![e] = "thrown"]
    BY <1>4, Zenon DEF Degraded
  <2>2. \E r \in RowType : r.event = e /\ r.attempts = 0 /\ r.replays = 0 /\ rows' = Append(rows, r)
    BY <2>1, <1>1, RowTyped
  <2>3. fate' \in Fates /\ \A f \in Events \ {e} : fate'[f] = fate[f]
    BY <2>1, <1>1 DEF Fates
  <2> QED
    BY <2>1, <2>2, <2>3, <1>1, <1>2 DEF Settled
<1>5. CASE Complete(e)
  <2> DEFINE r == [Row(e, sequence + 1) EXCEPT !.receipt = "projected"]
  <2>1. r \in RowType /\ r.event = e /\ r.attempts = 0 /\ r.replays = 0
    BY <1>1 DEF Row, RowType
  <2>2. fate' \in Fates /\ \A f \in Events \ {e} : fate'[f] = fate[f]
    BY <1>1, <1>5 DEF Complete, Fates
  <2>3. CASE e \in Journaled
    <3>1. rows' = Append(rows, r)
      BY <2>3, <1>5 DEF Complete
    <3>2. sequence' \in Nat /\ projected' = projected \cup {e} /\ late' = late
      BY <1>1, <1>5 DEF Complete
    <3> HIDE DEF r
    <3>3. \E x \in RowType : x.event = e /\ x.attempts = 0 /\ x.replays = 0
                             /\ rows' = Append(rows, x)
      BY <3>1, <2>1
    <3> QED
      BY <3>2, <3>3, <2>2, <1>1, <1>2 DEF Settled
  <2>4. CASE e \notin Journaled
    BY <2>2, <2>4, <1>1, <1>2, <1>5 DEF Complete, Settled
  <2> QED
    BY <2>3, <2>4
<1> QED
  BY <1>3, <1>4, <1>5 DEF Process

LEMMA TornSettles ==
  ASSUME TypeOK, NEW e \in Events, TornProcess(e)
  PROVE  /\ Settled(e)
         /\ \A f \in Events \ {e} : fate'[f] = IF f \in Queued THEN "crashed" ELSE fate[f]
<1>1. fate \in Fates /\ sequence \in Nat /\ projected \subseteq Events /\ late \subseteq Events
  BY DEF TypeOK, Fates
<1>2. fate' = [f \in Events |-> IF f \in Queued \ {e} THEN "crashed"
                                ELSE IF f \in {e} THEN "taken" ELSE fate[f]]
  BY DEF TornProcess, Lose
<1>3. fate' \in Fates /\ \A f \in Events \ {e} : fate'[f] = IF f \in Queued THEN "crashed" ELSE fate[f]
  BY <1>1, <1>2 DEF Fates, GivenUp
<1>4. \E r \in RowType : r.event = e /\ r.attempts = 0 /\ r.replays = 0 /\ rows' = Append(rows, r)
  BY <1>1, RowTyped DEF TornProcess
<1> QED
  BY <1>1, <1>3, <1>4 DEF TornProcess, Settled

\* The journal after a new row.
LEMMA RowsGrow ==
  ASSUME TypeOK, Counted,
         \/ rows' = rows
         \/ \E r \in RowType : r.attempts = 0 /\ r.replays = 0 /\ rows' = Append(rows, r)
  PROVE  rows' \in Seq(RowType) /\ DOMAIN rows \subseteq DOMAIN rows' /\ Counted'
<1>1. rows \in Seq(RowType)
  BY DEF TypeOK
<1>2. CASE rows' = rows
  BY <1>1, <1>2 DEF Counted
<1>3. CASE \E r \in RowType : r.attempts = 0 /\ r.replays = 0 /\ rows' = Append(rows, r)
  <2>1. PICK r \in RowType : r.attempts = 0 /\ r.replays = 0 /\ rows' = Append(rows, r)
    BY <1>3
  <2>2. /\ rows' \in Seq(RowType) /\ DOMAIN rows \subseteq DOMAIN rows'
        /\ \A i \in DOMAIN rows : rows'[i] = rows[i]
        /\ \A i \in DOMAIN rows' : i \in DOMAIN rows \/ rows'[i] = r
    BY <2>1, <1>1, Appended
  <2>3. MaxAttempts \in Nat
    BY JournalAssumption
  <2>4. Counted'
    BY <2>1, <2>2, <2>3 DEF Counted
  <2> QED
    BY <2>2, <2>4
<1> QED
  BY <1>2, <1>3

-----------------------------------------------------------------------------
(* The invariant                                                             *)

LEMMA Initially == Init => Inv
<1> SUFFICES ASSUME Init PROVE Inv
  OBVIOUS
<1>1. Last \in Nat /\ MaxBoots \in Nat
  BY JournalAssumption
<1>2. TypeOK
  <2>1. pass \in Passes(DOMAIN rows)
    BY NoPassTyped DEF Init
  <2>2. rows \in Seq(RowType) /\ queue \in Seq(Events)
    BY DEF Init
  <2>3. fate \in Fates /\ arrived \in 0..Last /\ boots \in 0..MaxBoots
    BY <1>1 DEF Init, Fates
  <2> QED
    BY <2>1, <2>2, <2>3 DEF Init, TypeOK, Passes, Fates
<1>3. DOMAIN rows = {} /\ DOMAIN queue = {} /\ Queued = {}
  BY DEF Init, Queued
<1>4. Placement
  <2>1. NothingLost
    BY JournalAssumption DEF Init, NothingLost
  <2>2. OneRow /\ Injective(queue) /\ Fresh /\ FilesOnce /\ FileRow
    BY <1>3 DEF Init, OneRow, Injective, Fresh, FilesOnce, FileRow, Files
  <2>3. Future
    BY <1>3 DEF Init, Future, HasRow, InFile
  <2> QED
    BY <2>1, <2>2, <2>3 DEF Placement
<1>5. NeedsQueue /\ Counted /\ BatchIsNext
  BY <1>3 DEF Init, NeedsQueue, Counted, BatchIsNext
<1> QED
  BY <1>2, <1>4, <1>5 DEF Inv

\* Steps that move no event and touch no row.
LEMMA QuietSteps ==
  ASSUME Inv,
         \/ OverflowStuck \/ RetryDue \/ Stop \/ DrainBlocked \/ Boot
         \/ SpoolReplayed \/ ReadBatch
  PROVE  Inv'
<1>1. TypeOK /\ Placement /\ NeedsQueue /\ Counted
  BY DEF Inv
<1>2. UNCHANGED <<arrived, fate, queue, sequence, spool, quarantined, rows, projected>>
  BY DEF OverflowStuck, RetryDue, Stop, DrainBlocked, Boot, SpoolReplayed, ReadBatch,
         memory, durable
<1>3. Placement'
  BY <1>1, <1>2, Stays
<1>4. Counted'
  BY <1>1, <1>2 DEF Counted
<1>5. ASSUME OverflowStuck \/ RetryDue \/ Stop \/ DrainBlocked \/ Boot \/ SpoolReplayed
      PROVE  TypeOK' /\ NeedsQueue' /\ BatchIsNext'
  <2>1. /\ mode' \in {"serving", "draining", "down", "stopping", "spooling", "unspooling", "reading"}
        /\ timer' \in BOOLEAN /\ intake' \in BOOLEAN /\ pass' = pass
    BY <1>1, <1>5 DEF OverflowStuck, RetryDue, Stop, DrainBlocked, Boot, SpoolReplayed,
                      TypeOK, memory
  <2>2. late' \subseteq Events
    <3>1. \A f \in spool : f.event \in Events
      BY <1>1 DEF TypeOK, FileType
    <3> QED
      BY <1>1, <1>5, <3>1 DEF OverflowStuck, RetryDue, Stop, DrainBlocked, Boot,
                              SpoolReplayed, TypeOK
  <2>3. boots' \in 0..MaxBoots
    BY <1>1, <1>5, JournalAssumption DEF OverflowStuck, RetryDue, Stop, DrainBlocked, Boot,
                                         SpoolReplayed, TypeOK
  <2>4. TypeOK'
    BY <1>1, <1>2, <2>1, <2>2, <2>3 DEF TypeOK
  <2>5. NeedsQueue'
    BY <1>1, <1>2, <1>5 DEF NeedsQueue, OverflowStuck, RetryDue, Stop, DrainBlocked, Boot,
                            SpoolReplayed, memory
  <2>6. BatchIsNext'
    BY <2>1 DEF BatchIsNext
  <2> QED
    BY <2>4, <2>5, <2>6
<1>6. ASSUME ReadBatch
      PROVE  TypeOK' /\ NeedsQueue' /\ BatchIsNext'
  <2>1. /\ mode' \in {"serving", "replaying"} /\ mode = "reading"
        /\ UNCHANGED <<timer, intake, late, boots>>
    BY <1>6 DEF ReadBatch, memory
  <2>2. Batch(rows) \subseteq Unreceipted(rows) /\ Unreceipted(rows) \subseteq DOMAIN rows
    BY DEF Batch, Unreceipted
  <2>3. pass \in Passes(DOMAIN rows)
    BY <1>1 DEF TypeOK, Passes
  <2>4. pass' \in Passes(DOMAIN rows)
    <3> DEFINE full == Cardinality(Batch(rows)) = BatchSize
    <3>1. \/ pass' = NoPass
          \/ pass' = [batch |-> Batch(rows), full |-> full, progressed |-> FALSE,
                      blocked |-> pass.blocked]
      BY <1>6 DEF ReadBatch
    <3>2. full \in BOOLEAN /\ Batch(rows) \in SUBSET (DOMAIN rows) /\ pass.blocked \in SUBSET Threads
      BY <2>2, <2>3 DEF Passes
    <3> HIDE DEF full
    <3>3. [batch |-> Batch(rows), full |-> full, progressed |-> FALSE, blocked |-> pass.blocked]
            \in Passes(DOMAIN rows)
      BY <3>2 DEF Passes
    <3>4. NoPass \in Passes(DOMAIN rows)
      BY NoPassTyped
    <3> QED
      BY <3>1, <3>3, <3>4, Zenon
  <2>5. TypeOK'
    BY <1>1, <1>2, <2>1, <2>4 DEF TypeOK, Passes
  <2>6. NeedsQueue'
    BY <1>1, <1>2, <2>1 DEF NeedsQueue
  <2>7. BatchIsNext'
    <3> SUFFICES ASSUME mode' = "replaying", NEW i \in Unreceipted(rows), i \notin Batch(rows)
                 PROVE  \A j \in Batch(rows) : j < i
      <4>1. mode' = "replaying" => pass'.batch = Batch(rows)
        BY <1>6, <2>3 DEF ReadBatch, Passes
      <4> QED
        BY <1>2, <4>1 DEF BatchIsNext, Unreceipted
    <3> DEFINE U == Unreceipted(rows)
               Below(k) == {j \in U : j < k}
    <3>1. U \subseteq Nat /\ IsFiniteSet(U)
      <4>1. DOMAIN rows = 1..Len(rows) /\ Len(rows) \in Nat
        BY <1>1 DEF TypeOK
      <4>2. IsFiniteSet(1..Len(rows))
        BY <4>1, FS_Interval
      <4> QED
        BY <2>2, <4>1, <4>2, FS_Subset
    <3>2. Cardinality(Below(i)) >= BatchSize
      <4>1. Cardinality(Below(i)) \in Nat
        BY <3>1, FS_Subset, FS_CardinalityType
      <4>2. ~(Cardinality(Below(i)) < BatchSize)
        BY DEF Batch
      <4> QED
        BY <4>1, <4>2, JournalAssumption
    <3> SUFFICES ASSUME NEW j \in Batch(rows), ~(j < i) PROVE FALSE
      OBVIOUS
    <3>3. j \in U /\ Cardinality(Below(j)) < BatchSize
      BY DEF Batch
    <3>4. Below(i) \subseteq Below(j)
      BY <3>1, <3>3
    <3>5. /\ Cardinality(Below(i)) <= Cardinality(Below(j))
          /\ Cardinality(Below(i)) \in Nat /\ Cardinality(Below(j)) \in Nat
      <4>1. IsFiniteSet(Below(j)) /\ IsFiniteSet(Below(i))
        BY <3>1, FS_Subset
      <4> HIDE DEF Below
      <4> QED
        BY <3>4, <4>1, FS_Subset, FS_CardinalityType
    <3> QED
      BY <3>2, <3>3, <3>5, JournalAssumption
  <2> QED
    BY <2>5, <2>6, <2>7
<1> QED
  BY <1>3, <1>4, <1>5, <1>6 DEF Inv

\* Steps that give up the queue: the process ends.
LEMMA EndingSteps ==
  ASSUME Inv, StopStuck \/ Crash \/ TornReplay
  PROVE  Inv'
<1>1. TypeOK /\ Placement /\ Counted
  BY DEF Inv
<1>2. PICK why \in {"crashed", "unspooled"} : Lose({}, why)
  BY DEF StopStuck, Crash, TornReplay
<1>3. /\ UNCHANGED <<arrived, sequence, spool, quarantined, late, boots>>
      /\ mode' = "down" /\ queue' = <<>> /\ timer' = FALSE /\ intake' = TRUE /\ pass' = NoPass
      /\ fate' = [e \in Events |-> IF e \in Queued THEN why ELSE fate[e]]
  BY <1>2 DEF Lose, StopStuck, Crash, TornReplay, durable
<1>4. /\ rows' \in Seq(RowType) /\ DOMAIN rows' = DOMAIN rows
      /\ \A i \in DOMAIN rows : rows'[i].event = rows[i].event /\ rows'[i].version = rows[i].version
      /\ projected \subseteq projected' /\ projected' \subseteq Events
      /\ Counted'
  <2>1. CASE StopStuck \/ Crash
    BY <1>1, <2>1 DEF StopStuck, Crash, durable, TypeOK, Counted
  <2>2. CASE TornReplay
    <3>1. PICK i \in pass.batch :
            /\ rows[i].attempts < MaxAttempts
            /\ Put(i, Replayed(rows[i]))
            /\ projected' \in {projected, projected \cup {rows[i].event}}
      BY <2>2, Zenon DEF TornReplay
    <3>2. rows[i] \in RowType /\ i \in DOMAIN rows /\ projected \subseteq Events
      BY <1>1 DEF TypeOK
    <3>3. /\ Replayed(rows[i]) \in RowType
          /\ Replayed(rows[i]).event = rows[i].event
          /\ Replayed(rows[i]).version = rows[i].version
          /\ Replayed(rows[i]).attempts = rows[i].attempts + 1
          /\ Replayed(rows[i]).replays = rows[i].replays + 1
      BY <3>2, RowUpdates
    <3>4. rows[i].replays + 1 <= rows[i].attempts + 1 /\ rows[i].replays + 1 <= MaxAttempts
      BY <3>1, <3>2, <1>1, JournalAssumption DEF Counted, RowType
    <3>5. /\ rows' \in Seq(RowType) /\ DOMAIN rows' = DOMAIN rows
          /\ \A j \in DOMAIN rows :
               rows'[j].event = rows[j].event /\ rows'[j].version = rows[j].version
          /\ Counted'
      BY <3>1, <3>2, <3>3, <3>4, <1>1, RowChanges
    <3> QED
      BY <3>1, <3>2, <3>5 DEF RowType
  <2> QED
    BY <2>1, <2>2
<1>5. Placement'
  BY <1>1, <1>3, <1>4, Drops DEF GivenUp
<1>6. fate' \in Fates
  BY <1>1, <1>3 DEF Fates, GivenUp, TypeOK
<1>7. pass' \in Passes(DOMAIN rows')
  BY <1>3, NoPassTyped
<1>8. TypeOK'
  <2>1. /\ arrived' \in 0..Last /\ queue' \in Seq(Events) /\ sequence' \in Nat
        /\ spool' \subseteq FileType /\ quarantined' \subseteq FileType
        /\ late' \subseteq Events /\ boots' \in 0..MaxBoots
    BY <1>1, <1>3 DEF TypeOK
  <2> QED
    BY <2>1, <1>3, <1>4, <1>6, <1>7 DEF TypeOK, Fates, Passes
<1> QED
  BY <1>3, <1>4, <1>5, <1>8 DEF Inv, NeedsQueue, BatchIsNext

\* Steps in which an event arrives.
LEMMA ArrivalSteps ==
  ASSUME Inv, NEW e \in Events, Reject(e) \/ IngestDirectly(e) \/ Enqueue(e)
  PROVE  Inv'
<1>1. TypeOK /\ Placement /\ NeedsQueue /\ Counted
  BY DEF Inv
<1>2. /\ e = arrived + 1 /\ arrived' = e /\ mode = "serving"
      /\ arrived' \in 0..Last
  <2>1. e = arrived + 1 /\ arrived' = e /\ mode = "serving"
    BY Zenon DEF Reject, IngestDirectly, Enqueue, Arrive
  <2> QED
    BY <2>1, JournalAssumption DEF Events
<1>3. pass \in Passes(DOMAIN rows) /\ queue \in Seq(Events) /\ fate \in Fates
      /\ rows \in Seq(RowType) /\ projected \subseteq Events
  BY <1>1 DEF TypeOK, Passes, Fates
<1>4. CASE Reject(e)
  <2>1. UNCHANGED <<mode, queue, timer, intake, sequence, spool, quarantined, rows, pass,
                    projected, late, boots>>
        /\ fate' = [fate EXCEPT ![e] = "rejected"]
    BY <1>4 DEF Reject, memory, durable
  <2>2. fate' \in Fates /\ fate'[e] \in GivenUp /\ \A f \in Events \ {e} : fate'[f] = fate[f]
    BY <2>1, <1>3 DEF Fates, GivenUp
  <2>3. Queued' = Queued /\ e \notin Queued /\ Injective(queue')
    <3>1. Future /\ Injective(queue) /\ arrived \in 0..Last
      BY <1>1 DEF Placement, TypeOK
    <3> QED
      BY <2>1, <3>1, <1>2 DEF Future, Queued, Events
  <2>4. Placement'
    BY <1>1, <1>2, <1>3, <2>1, <2>2, <2>3, Settles DEF Fates
  <2>5. TypeOK'
    BY <1>1, <1>2, <2>1, <2>2 DEF TypeOK, Fates
  <2> QED
    BY <2>1, <2>4, <2>5, <1>1, <1>2 DEF Inv, NeedsQueue, Counted, BatchIsNext
<1>5. CASE IngestDirectly(e)
  <2>1. queue = <<>> /\ Queued = {}
    BY <1>5 DEF IngestDirectly, Queued
  <2>2. /\ Settled(e) /\ \A f \in Events \ {e} : fate'[f] = fate[f]
        /\ queue' = <<>> /\ mode' \in {"serving", "down"} /\ pass' \in {pass, NoPass}
        /\ timer' \in BOOLEAN /\ intake' \in BOOLEAN
        /\ timer' => timer
    <3>1. CASE Process(e, TRUE) /\ UNCHANGED <<mode, memory>>
      BY <3>1, <1>1, <1>2, <2>1, ProcessSettles DEF memory, TypeOK
    <3>2. CASE TornProcess(e)
      <4>1. Settled(e) /\ \A f \in Events \ {e} : fate'[f] = fate[f]
        BY <3>2, <1>1, <2>1, TornSettles
      <4> QED
        BY <3>2, <4>1 DEF TornProcess, Lose
    <3> QED
      BY <1>5, <3>1, <3>2 DEF IngestDirectly
  <2>3. Queued' = {} /\ Injective(queue') /\ queue' \in Seq(Events)
    BY <2>2 DEF Queued, Injective
  <2>4. Placement'
    BY <1>1, <1>2, <2>1, <2>2, <2>3, Settles DEF Fates, Settled
  <2>5. rows' \in Seq(RowType) /\ DOMAIN rows \subseteq DOMAIN rows' /\ Counted'
    BY <1>1, <2>2, RowsGrow DEF Settled
  <2>6. pass' \in Passes(DOMAIN rows')
    BY <2>2, <2>5, <1>3, PassKept, NoPassTyped
  <2>7. TypeOK'
    BY <1>1, <1>2, <2>2, <2>3, <2>5, <2>6 DEF TypeOK, Fates, Settled, Passes
  <2>8. NeedsQueue'
    BY <1>1, <2>1, <2>2 DEF NeedsQueue
  <2> QED
    BY <2>2, <2>4, <2>5, <2>7, <2>8 DEF Inv, BatchIsNext
<1>6. CASE Enqueue(e)
  <2>1. /\ queue' = Append(queue, e) /\ fate' = [fate EXCEPT ![e] = "taken"]
        /\ UNCHANGED <<sequence, spool, quarantined, rows, pass, projected, late, boots>>
        /\ \/ mode' = "overflow" /\ intake' = FALSE /\ timer' = FALSE
           \/ timer' = TRUE /\ mode' = mode /\ intake' = intake
    BY <1>6 DEF Enqueue, durable
  <2>2. queue' \in Seq(Events) /\ queue' # <<>> /\ fate' \in Fates
    BY <2>1, <1>3 DEF Fates
  <2>3. Placement'
    BY <1>1, <1>2, <2>1, Joins
  <2>4. TypeOK'
    BY <1>1, <1>2, <2>1, <2>2 DEF TypeOK, Fates
  <2> QED
    BY <2>1, <2>2, <2>3, <2>4, <1>1, <1>2 DEF Inv, NeedsQueue, Counted, BatchIsNext
<1> QED
  BY <1>4, <1>5, <1>6

\* The head of the queue is processed.
LEMMA DrainStep ==
  ASSUME Inv, DrainHead
  PROVE  Inv'
<1> DEFINE e == Head(queue)
<1>1. TypeOK /\ Placement /\ NeedsQueue /\ Counted
  BY DEF Inv
<1>2. /\ mode \in {"draining", "stopping"} /\ arrived' = arrived
      /\ \/ /\ Process(e, FALSE) /\ queue' = Tail(queue)
            /\ mode' = IF Len(queue) > 1 THEN mode
                       ELSE IF mode = "draining" THEN "serving" ELSE "down"
            /\ UNCHANGED <<timer, intake>>
         \/ TornProcess(e)
  BY DEF DrainHead
<1>3. queue \in Seq(Events) /\ queue # <<>> /\ timer = FALSE /\ intake \in BOOLEAN
      /\ pass \in Passes(DOMAIN rows) /\ fate \in Fates
  BY <1>1, <1>2 DEF TypeOK, NeedsQueue, Passes, Fates
<1>4. /\ e \in Events /\ e \in Queued
      /\ Injective(Tail(queue)) /\ Elems(Tail(queue)) = Queued \ {e}
      /\ Tail(queue) \in Seq(Events)
      /\ Len(queue) > 1 => Tail(queue) # <<>>
  <2>1. Injective(queue) /\ Elems(queue) = Queued
    BY <1>1 DEF Placement, Elems, Queued
  <2>2. Len(queue) \in Nat
    BY <1>3
  <2>3. Injective(Tail(queue)) /\ Elems(Tail(queue)) = Elems(queue) \ {e} /\ e \in Elems(queue)
        /\ e \in Events /\ Tail(queue) \in Seq(Events)
    BY <2>1, <1>3, TailElems, Removed
  <2>4. Len(queue) > 1 => Tail(queue) # <<>>
    BY <1>3, LongTail
  <2> QED
    BY <2>1, <2>3, <2>4, Zenon
<1> HIDE DEF e
<1>5. /\ Settled(e) /\ timer' = FALSE /\ intake' \in BOOLEAN
      /\ queue' \in Seq(Events) /\ Injective(queue') /\ Queued' \subseteq Queued \ {e}
      /\ pass' \in {pass, NoPass}
      /\ mode' \in {"draining", "stopping", "serving", "down"}
      /\ mode' \in {"draining", "stopping"} => queue' # <<>>
      /\ \A f \in Events \ {e} :
           IF f \in Queued \ Queued' THEN fate'[f] \in GivenUp ELSE fate'[f] = fate[f]
  <2>1. CASE /\ Process(e, FALSE) /\ queue' = Tail(queue)
             /\ mode' = IF Len(queue) > 1 THEN mode
                        ELSE IF mode = "draining" THEN "serving" ELSE "down"
             /\ UNCHANGED <<timer, intake>>
    <3>1. Queued' = Queued \ {e}
      BY <2>1, <1>4 DEF Queued, Elems
    <3>2. Settled(e) /\ UNCHANGED pass /\ \A f \in Events \ {e} : fate'[f] = fate[f]
      BY <2>1, <1>1, <1>4, ProcessSettles
    <3> QED
      BY <2>1, <3>1, <3>2, <1>2, <1>3, <1>4
  <2>2. CASE TornProcess(e)
    <3>1. queue' = <<>> /\ Queued' = {} /\ mode' = "down" /\ pass' = NoPass
          /\ timer' = FALSE /\ intake' = TRUE
      BY <2>2 DEF TornProcess, Lose, Queued
    <3>2. /\ Settled(e)
          /\ \A f \in Events \ {e} : fate'[f] = IF f \in Queued THEN "crashed" ELSE fate[f]
      BY <2>2, <1>1, <1>4, TornSettles
    <3> QED
      BY <3>1, <3>2 DEF GivenUp, Injective
  <2> QED
    BY <1>2, <2>1, <2>2
<1>6. Placement'
  BY <1>1, <1>2, <1>4, <1>5, Settles DEF Fates, Settled
<1>7. rows' \in Seq(RowType) /\ DOMAIN rows \subseteq DOMAIN rows' /\ Counted'
  BY <1>1, <1>5, RowsGrow DEF Settled
<1>8. pass' \in Passes(DOMAIN rows')
  BY <1>3, <1>5, <1>7, PassKept, NoPassTyped
<1>9. TypeOK'
  BY <1>1, <1>2, <1>5, <1>7, <1>8 DEF TypeOK, Fates, Settled, Passes
<1> QED
  BY <1>5, <1>6, <1>7, <1>9 DEF Inv, NeedsQueue, BatchIsNext

\* Steps in which the head of the queue is spooled.
LEMMA SpoolSteps ==
  ASSUME Inv, Overflow \/ StopSpools
  PROVE  Inv'
<1>1. TypeOK /\ Placement /\ NeedsQueue /\ Counted
  BY DEF Inv
<1>2. /\ mode \in {"overflow", "spooling"} /\ SpoolHead /\ timer' = timer
      /\ mode' \in {"overflow", "spooling", "serving", "down"}
      /\ Len(queue) # 1 => mode' = mode
      /\ Len(queue) = 1 => mode' \in {"serving", "down"}
  BY DEF Overflow, StopSpools
<1>3. queue \in Seq(Events) /\ queue # <<>> /\ timer = FALSE
  BY <1>1, <1>2 DEF TypeOK, NeedsQueue
<1>4. Placement' /\ queue' \in Seq(Events) /\ sequence' \in Nat /\ spool' \subseteq FileType
  BY <1>1, <1>2, <1>3, Spools
<1>5. Len(queue) # 1 => queue' # <<>>
  BY <1>2, <1>3, LongTail DEF SpoolHead
<1>6. TypeOK'
  BY <1>1, <1>2, <1>4 DEF TypeOK, SpoolHead
<1> QED
  BY <1>1, <1>2, <1>3, <1>4, <1>5, <1>6 DEF Inv, NeedsQueue, Counted, BatchIsNext, SpoolHead

\* A file of the spool is journaled, or not.
LEMMA UnspoolStep ==
  ASSUME Inv, ReplaySpool
  PROVE  Inv'
<1>1. TypeOK /\ Placement /\ NeedsQueue /\ Counted
  BY DEF Inv
<1>2. /\ UNCHANGED <<arrived, fate, queue, timer, intake, sequence, pass, projected, late, boots>>
      /\ mode = "unspooling"
  BY DEF ReplaySpool, memory
<1>3. PICK file \in spool :
        \/ Unspool(file) /\ spool' = spool \ {file} /\ UNCHANGED <<mode, quarantined>>
        \/ Unspool(file) /\ mode' = "down" /\ UNCHANGED <<spool, quarantined>>
        \/ /\ spool' = spool \ {file} /\ quarantined' = quarantined \cup {file}
           /\ mode' = "down" /\ UNCHANGED rows
        \/ mode' = "down" /\ UNCHANGED <<spool, quarantined, rows>>
  BY Zenon DEF ReplaySpool
<1>4. mode' \in {"unspooling", "down"} /\ spool' \subseteq FileType /\ quarantined' \subseteq FileType
  BY <1>1, <1>2, <1>3 DEF TypeOK
<1>5. Placement' /\ rows' \in Seq(RowType) /\ DOMAIN rows \subseteq DOMAIN rows' /\ Counted'
  <2>1. CASE Unspool(file) /\ spool' \in {spool, spool \ {file}} /\ UNCHANGED quarantined
    <3>1. Placement' /\ rows' \in {rows, Append(rows, Row(file.event, file.version))}
      BY <2>1, <1>1, <1>2, Unspools
    <3>2. file.event \in Events /\ file.version \in Nat
      BY <1>1 DEF TypeOK, FileType
    <3> DEFINE r == Row(file.event, file.version)
    <3>3. r \in RowType /\ r.attempts = 0 /\ r.replays = 0
      BY <3>2, RowTyped
    <3> HIDE DEF r
    <3>4. rows' = rows \/ \E x \in RowType : x.attempts = 0 /\ x.replays = 0 /\ rows' = Append(rows, x)
      BY <3>1, <3>3 DEF r
    <3> QED
      BY <3>1, <3>4, <1>1, RowsGrow
  <2>2. CASE UNCHANGED <<spool, quarantined, rows>>
    BY <2>2, <1>1, <1>2, Stays DEF TypeOK, Counted
  <2>3. CASE /\ spool' = spool \ {file} /\ quarantined' = quarantined \cup {file}
             /\ UNCHANGED rows
    <3>1. Files' = Files
      BY <2>3 DEF Files
    <3>2. \A e \in Events : (HasRow(e)' <=> HasRow(e)) /\ (InFile(e)' <=> InFile(e))
      BY <2>3, <3>1 DEF HasRow, InFile, Files
    <3>3. Queued' = Queued /\ \A e \in Queued : e \in Events
      BY <1>1, <1>2 DEF Queued, TypeOK
    <3>4. NothingLost' /\ Fresh' /\ Future'
      BY <3>2, <3>3, <1>1, <1>2 DEF Placement, NothingLost, Fresh, Future
    <3>5. OneRow' /\ FilesOnce' /\ FileRow' /\ Injective(queue)'
      BY <2>3, <3>1, <1>1, <1>2 DEF Placement, OneRow, FilesOnce, FileRow, Injective
    <3> QED
      BY <2>3, <3>4, <3>5, <1>1 DEF Placement, TypeOK, Counted
  <2> QED
    BY <1>3, <2>1, <2>2, <2>3
<1>6. pass' \in Passes(DOMAIN rows')
  BY <1>1, <1>2, <1>5 DEF TypeOK, Passes
<1>7. TypeOK'
  BY <1>1, <1>2, <1>4, <1>5, <1>6 DEF TypeOK, Passes
<1> QED
  BY <1>1, <1>2, <1>4, <1>5, <1>7 DEF Inv, NeedsQueue, BatchIsNext

\* One row of the batch is done with: r is what becomes of it.
LEMMA PassGoesOn ==
  ASSUME Inv, mode = "replaying", NEW i \in pass.batch, IsFirst(i, pass.batch),
         NEW r \in RowType, r.event = rows[i].event, r.version = rows[i].version,
         r.replays <= r.attempts, r.replays <= MaxAttempts,
         Put(i, r),
         NEW progressed \in BOOLEAN, NEW blocked \in SUBSET Threads,
         pass.blocked \subseteq blocked,
         r.receipt # None \/ threadOf[rows[i].event] \in blocked,
         Advance(i, progressed, blocked),
         projected \subseteq projected', projected' \subseteq Events,
         UNCHANGED <<arrived, fate, queue, timer, intake, sequence, spool, quarantined, boots>>
  PROVE  Inv'
<1>1. TypeOK /\ Placement /\ NeedsQueue /\ Counted /\ BatchIsNext
  BY DEF Inv
<1>2. pass \in Passes(DOMAIN rows) /\ i \in DOMAIN rows /\ late \subseteq Events
  BY <1>1 DEF TypeOK, Passes
<1>3. /\ rows' \in Seq(RowType) /\ DOMAIN rows' = DOMAIN rows
      /\ \A j \in DOMAIN rows : rows'[j] = IF j = i THEN r ELSE rows[j]
      /\ \A j \in DOMAIN rows :
           rows'[j].event = rows[j].event /\ rows'[j].version = rows[j].version
      /\ Counted'
  BY <1>1, <1>2, RowChanges
<1>4. Placement'
  BY <1>1, <1>3, Stays
<1>5. /\ mode' \in {"replaying", "reading", "serving"}
      /\ pass' \in Passes(DOMAIN rows)
      /\ late' \subseteq Events
      /\ mode' = "replaying" => pass'.batch = pass.batch \ {i} /\ pass'.blocked = blocked
  <2>1. CASE pass.batch \ {i} # {}
    <3>1. /\ pass' = [pass EXCEPT !.batch = pass.batch \ {i}, !.progressed = progressed,
                                  !.blocked = blocked]
          /\ UNCHANGED <<mode, late>>
      BY <2>1 DEF Advance
    <3> QED
      BY <3>1, <1>2 DEF Passes
  <2>2. CASE pass.batch \ {i} = {} /\ pass.full /\ progressed
    <3>1. mode' = "reading" /\ UNCHANGED late /\ pass' = [NoPass EXCEPT !.blocked = blocked]
      BY <2>2 DEF Advance
    <3> QED
      BY <3>1, <1>2 DEF NoPass, Passes
  <2>3. CASE pass.batch \ {i} = {} /\ ~(pass.full /\ progressed)
    <3>1. mode' = "serving" /\ pass' = NoPass
          /\ late' = late \cup {rows'[k].event : k \in Unreceipted(rows')}
      BY <2>3 DEF Advance, Leave
    <3>2. \A k \in DOMAIN rows' : rows'[k] \in RowType
      BY <1>3
    <3>3. \A k \in Unreceipted(rows') : rows'[k].event \in Events
      BY <3>2 DEF Unreceipted, RowType
    <3> QED
      BY <3>1, <3>3, <1>2, NoPassTyped
  <2> QED
    BY <2>1, <2>2, <2>3
<1>6. TypeOK'
  <2>1. /\ arrived' \in 0..Last /\ queue' \in Seq(Events) /\ sequence' \in Nat
        /\ fate' \in Fates /\ timer' \in BOOLEAN /\ intake' \in BOOLEAN
        /\ spool' \subseteq FileType /\ quarantined' \subseteq FileType
        /\ boots' \in 0..MaxBoots
    BY <1>1 DEF TypeOK, Fates
  <2>2. mode' \in {"replaying", "reading", "serving"} /\ pass' \in Passes(DOMAIN rows')
    BY <1>3, <1>5
  <2> QED
    BY <2>1, <2>2, <1>3, <1>5 DEF TypeOK, Fates, Passes
<1>7. NeedsQueue'
  BY <1>1, <1>5 DEF NeedsQueue
<1>8. BatchIsNext'
  <2> SUFFICES ASSUME mode' = "replaying", NEW k \in Unreceipted(rows'),
                      threadOf[rows'[k].event] \notin pass'.blocked
               PROVE  k \in pass'.batch \/ \A j \in pass'.batch : j < k
    BY DEF BatchIsNext
  <2>1. k \in DOMAIN rows /\ rows'[k].event = rows[k].event /\ threadOf[rows[k].event] \notin blocked
    BY <1>3, <1>5 DEF Unreceipted
  <2>2. k # i
    BY <2>1, <1>3 DEF Unreceipted
  <2>3. k \in Unreceipted(rows) /\ threadOf[rows[k].event] \notin pass.blocked
    BY <2>1, <2>2, <1>3 DEF Unreceipted
  <2>4. k \in pass.batch \/ \A j \in pass.batch : j < k
    BY <2>3, <1>1 DEF BatchIsNext
  <2> QED
    BY <2>2, <2>4, <1>5
<1> QED
  BY <1>3, <1>4, <1>6, <1>7, <1>8 DEF Inv

\* The pass skips or replays the first row of its batch.
LEMMA PassSteps ==
  ASSUME Inv, SkipRow \/ ReplayRow
  PROVE  Inv'
<1>1. TypeOK /\ Counted
  BY DEF Inv
<1>2. /\ pass \in Passes(DOMAIN rows) /\ projected \subseteq Events
      /\ \A i \in pass.batch : rows[i] \in RowType /\ i \in DOMAIN rows
      /\ rows \in Seq(RowType)
  BY <1>1 DEF TypeOK, Passes
<1>3. /\ mode = "replaying"
      /\ UNCHANGED <<arrived, fate, queue, timer, intake, sequence, spool, quarantined, boots>>
  BY DEF SkipRow, ReplayRow, memory, durable
<1>4. pass.progressed \in BOOLEAN /\ pass.blocked \in SUBSET Threads
  BY <1>2 DEF Passes
<1>5. CASE SkipRow
  <2>1. PICK i \in pass.batch :
          /\ IsFirst(i, pass.batch) /\ threadOf[rows[i].event] \in pass.blocked
          /\ Advance(i, pass.progressed, pass.blocked)
    BY <1>5, Zenon DEF SkipRow
  <2>2. UNCHANGED <<rows, projected>>
    BY <1>5 DEF SkipRow, durable
  <2>3. Put(i, rows[i])
    BY <2>2, <1>2 DEF Put
  <2>4. rows[i].replays <= rows[i].attempts /\ rows[i].replays <= MaxAttempts
    BY <1>1, <1>2 DEF Counted
  <2> QED
    BY <2>1, <2>2, <2>3, <2>4, <1>2, <1>3, <1>4, PassGoesOn
<1>6. CASE ReplayRow
  <2>1. PICK i \in pass.batch :
          /\ IsFirst(i, pass.batch) /\ threadOf[rows[i].event] \notin pass.blocked
          /\ Replay(i)
    BY <1>6, Zenon DEF ReplayRow
  <2> DEFINE o == rows[i]
             t == threadOf[o.event]
  <2>2. o \in RowType /\ o.event \in Events /\ o.attempts \in Nat /\ o.replays \in Nat
        /\ MaxAttempts \in Nat /\ o.replays <= o.attempts /\ o.replays <= MaxAttempts
    BY <1>1, <1>2, JournalAssumption DEF RowType, Counted
  <2>3. t \in Threads /\ pass.blocked \cup {t} \in SUBSET Threads
    BY <2>2, <1>4, JournalAssumption
  <2>4. projected' \in {projected, projected \cup {o.event}} =>
          projected \subseteq projected' /\ projected' \subseteq Events
    BY <2>2, <1>2
  <2>5. Replayed(o).event = o.event
    BY <2>2, RowUpdates
  <2> HIDE DEF o, t
  <2>6. CASE /\ Put(i, Receipted(Attempted(o), "discarded")) /\ UNCHANGED projected
             /\ Advance(i, TRUE, pass.blocked)
    <3> DEFINE r == Receipted(Attempted(o), "discarded")
    <3>1. /\ r \in RowType /\ r.event = o.event /\ r.version = o.version
          /\ r.attempts = o.attempts + 1 /\ r.replays = o.replays
      BY <2>2, RowUpdates
    <3>2. r.receipt # None
      BY JournalAssumption, <2>2, RowUpdates DEF Receipted, RowType
    <3>3. r.replays <= r.attempts /\ r.replays <= MaxAttempts
      BY <3>1, <2>2
    <3> HIDE DEF r
    <3>4. Put(i, r)
      BY <2>6 DEF r
    <3> QED
      BY <2>1, <2>4, <2>6, <3>1, <3>2, <3>3, <3>4, <1>3, <1>4, PassGoesOn DEF o
  <2>7. CASE /\ Replayed(o).attempts <= MaxAttempts
             /\ projected' \in {projected, projected \cup {o.event}}
             /\ \E status \in {"projected", "discarded"} : Put(i, Receipted(Replayed(o), status))
             /\ Advance(i, TRUE, pass.blocked)
    <3>1. PICK status \in {"projected", "discarded"} : Put(i, Receipted(Replayed(o), status))
      BY <2>7
    <3> DEFINE r == Receipted(Replayed(o), status)
    <3>2. /\ r \in RowType /\ r.event = o.event /\ r.version = o.version
          /\ r.attempts = o.attempts + 1 /\ r.replays = o.replays + 1
          /\ Replayed(o) \in RowType /\ Replayed(o).attempts = o.attempts + 1
      BY <2>2, RowUpdates
    <3>3. r.receipt # None
      BY <3>2, JournalAssumption DEF Receipted, RowType
    <3>4. r.replays <= r.attempts /\ r.replays <= MaxAttempts
      BY <2>7, <3>2, <2>2
    <3> HIDE DEF r
    <3>5. Put(i, r)
      BY <3>1 DEF r
    <3> QED
      BY <2>1, <2>4, <2>7, <3>2, <3>3, <3>4, <3>5, <1>3, <1>4, PassGoesOn DEF o
  <2>8. CASE /\ Replayed(o).attempts < MaxAttempts
             /\ projected' \in {projected, projected \cup {o.event}}
             /\ Put(i, Replayed(o))
             /\ Advance(i, pass.progressed, pass.blocked \cup {t})
    <3> DEFINE r == Replayed(o)
    <3>1. /\ r \in RowType /\ r.event = o.event /\ r.version = o.version
          /\ r.attempts = o.attempts + 1 /\ r.replays = o.replays + 1
      BY <2>2, RowUpdates
    <3>2. r.replays <= r.attempts /\ r.replays <= MaxAttempts
      BY <2>8, <3>1, <2>2
    <3>3. threadOf[rows[i].event] \in pass.blocked \cup {t}
      BY DEF t, o
    <3> HIDE DEF r
    <3>4. Put(i, r)
      BY <2>8 DEF r
    <3> QED
      BY <2>1, <2>3, <2>4, <2>8, <3>1, <3>2, <3>3, <3>4, <1>3, <1>4, PassGoesOn DEF o
  <2>9. \/ /\ Put(i, Receipted(Attempted(o), "discarded")) /\ UNCHANGED projected
           /\ Advance(i, TRUE, pass.blocked)
        \/ /\ Replayed(o).attempts <= MaxAttempts
           /\ projected' \in {projected, projected \cup {o.event}}
           /\ \E status \in {"projected", "discarded"} : Put(i, Receipted(Replayed(o), status))
           /\ Advance(i, TRUE, pass.blocked)
        \/ /\ Replayed(o).attempts < MaxAttempts
           /\ projected' \in {projected, projected \cup {o.event}}
           /\ Put(i, Replayed(o))
           /\ Advance(i, pass.progressed, pass.blocked \cup {t})
    <3>1. Replayed(o).attempts = MaxAttempts => Replayed(o).attempts <= MaxAttempts
      BY <2>2
    <3> QED
      BY <2>1, <2>5, <3>1, Zenon DEF Replay, o, t
  <2> QED
    BY <2>6, <2>7, <2>8, <2>9
<1> QED
  BY <1>5, <1>6

-----------------------------------------------------------------------------
(* Theorems                                                                  *)

LEMMA StepKeepsInv == Inv /\ [Next]_vars => Inv'
<1> SUFFICES ASSUME Inv, [Next]_vars PROVE Inv'
  OBVIOUS
<1>1. CASE \E e \in Events : Reject(e) \/ IngestDirectly(e) \/ Enqueue(e)
  BY <1>1, ArrivalSteps
<1>2. CASE Overflow \/ StopSpools
  BY <1>2, SpoolSteps
<1>3. CASE OverflowStuck \/ RetryDue \/ Stop \/ DrainBlocked \/ Boot \/ SpoolReplayed \/ ReadBatch
  BY <1>3, QuietSteps
<1>4. CASE DrainHead
  BY <1>4, DrainStep
<1>5. CASE StopStuck \/ Crash \/ TornReplay
  BY <1>5, EndingSteps
<1>6. CASE ReplaySpool
  BY <1>6, UnspoolStep
<1>7. CASE SkipRow \/ ReplayRow
  BY <1>7, PassSteps
<1>8. CASE UNCHANGED vars
  <2>1. UNCHANGED <<mode, arrived, fate, queue, timer, intake, sequence, spool, quarantined,
                    rows, pass, projected, late, boots>>
    BY <1>8 DEF vars, memory, durable
  <2>2. TypeOK' /\ NeedsQueue' /\ Counted' /\ BatchIsNext'
    BY <2>1 DEF Inv, TypeOK, NeedsQueue, Counted, BatchIsNext, Unreceipted
  <2>3. Placement'
    BY <2>1, Stays DEF Inv
  <2> QED
    BY <2>2, <2>3 DEF Inv
<1> QED
  BY <1>1, <1>2, <1>3, <1>4, <1>5, <1>6, <1>7, <1>8, Zenon DEF Next, Startup, Retry

\* The inductive invariant: where every event is, that the head of the queue is
\* there when it is taken, that attempts are counted before they run, and that a
\* pass leaves no row of a sound thread behind.
THEOREM JournalInductive == Spec => []Inv
  BY Initially, StepKeepsInv, PTL DEF Spec

\* Every variable of the pipeline keeps its type; in particular a replay pass
\* never holds a row that is not in the journal.
THEOREM JournalTypeCorrect == Spec => []TypeOK
<1>1. Inv => TypeOK
  BY DEF Inv
<1> QED
  BY <1>1, JournalInductive, PTL

\* What ingestEvent or the queue took is queued, spooled, journaled or shown,
\* unless a death or a failed shutdown spool gave it up.
THEOREM NoEventLost == Spec => []NothingLost
<1>1. Inv => NothingLost
  BY DEF Inv, Placement
<1> QED
  BY <1>1, JournalInductive, PTL

\* Retry queue, spool and startup never journal an event twice.
THEOREM JournaledOnce == Spec => []OneRow
<1>1. Inv => OneRow
  BY DEF Inv, Placement
<1> QED
  BY <1>1, JournalInductive, PTL

\* No row is replayed more often than MAX_JOURNAL_REPLAY_ATTEMPTS allows, however
\* its replays end.
THEOREM ReplaysBounded == Spec => []ReplayBudget
<1>1. Inv => ReplayBudget
  BY DEF Inv, Counted, ReplayBudget
<1> QED
  BY <1>1, JournalInductive, PTL

\* Only the first row of a batch is receipted, and its thread is not one that
\* failed in this pass.
LEMMA ReplayReceiptsFirst ==
  ASSUME TypeOK, mode = "replaying", Next
  PROVE  \/ \A j \in DOMAIN rows : rows'[j] = rows[j]
         \/ \E i \in pass.batch :
              /\ IsFirst(i, pass.batch) /\ threadOf[rows[i].event] \notin pass.blocked
              /\ \A j \in DOMAIN rows : j # i => rows'[j] = rows[j]
<1>1. CASE ReplayRow \/ TornReplay
  <2>1. PICK i \in pass.batch :
          /\ IsFirst(i, pass.batch) /\ threadOf[rows[i].event] \notin pass.blocked
          /\ \E r : Put(i, r)
    BY <1>1, Zenon DEF ReplayRow, TornReplay, Replay
  <2>2. \A j \in DOMAIN rows : j # i => rows'[j] = rows[j]
    BY <2>1 DEF Put
  <2> QED
    BY <2>1, <2>2
<1>2. CASE SkipRow \/ Crash
  BY <1>2 DEF SkipRow, Crash, durable
<1> QED
  BY <1>1, <1>2 DEF Next, Startup, Retry, Reject, IngestDirectly, Enqueue, Arrive, Overflow,
     OverflowStuck, RetryDue, DrainHead, DrainBlocked, Stop, StopSpools, StopStuck, Boot,
     ReplaySpool, SpoolReplayed, ReadBatch

\* In a replay, no row is receipted while an earlier row of its thread waits: "its
\* later rows must not project ahead of the failed one".
THEOREM ReplayKeepsOrder == Spec => ReplayInOrder
<1> DEFINE Order ==
      mode = "replaying" =>
        \A j \in DOMAIN rows : rows'[j].receipt # rows[j].receipt =>
          \A i \in 1..(j - 1) :
            threadOf[rows[i].event] = threadOf[rows[j].event] => rows[i].receipt # None
<1>1. Inv /\ [Next]_vars => [Order]_vars
  <2> SUFFICES ASSUME Inv, Next, mode = "replaying",
                      NEW j \in DOMAIN rows, rows'[j].receipt # rows[j].receipt,
                      NEW i \in 1..(j - 1), threadOf[rows[i].event] = threadOf[rows[j].event],
                      rows[i].receipt = None
               PROVE  FALSE
    BY Zenon DEF Order
  <2>1. TypeOK /\ BatchIsNext /\ pass.batch \subseteq DOMAIN rows
        /\ DOMAIN rows = 1..Len(rows) /\ Len(rows) \in Nat
    BY DEF Inv, TypeOK
  <2>2. j \in pass.batch /\ IsFirst(j, pass.batch) /\ threadOf[rows[j].event] \notin pass.blocked
    BY <2>1, ReplayReceiptsFirst
  <2>3. i \in Unreceipted(rows) /\ i < j /\ i \in Nat /\ j \in Nat
    BY <2>1 DEF Unreceipted
  <2>4. i \in pass.batch \/ j < i
    BY <2>1, <2>2, <2>3 DEF BatchIsNext
  <2> QED
    BY <2>2, <2>3, <2>4 DEF IsFirst
<1> QED
  BY <1>1, JournalInductive, PTL DEF Spec, ReplayInOrder

-----------------------------------------------------------------------------
(* The order of projections                                                  *)

\* No event of the thread has to wait for this one any more.
Done(e) ==
  \/ e \in projected \cup late
  \/ fate[e] \in GivenUp
  \/ Discards(rows, e)

LiveModes == {"serving", "overflow", "draining", "stopping"}

\* What arrived has a fate; what waits was taken.
Fated ==
  /\ \A e \in Events : e <= arrived => fate[e] \in GivenUp \cup {"taken", "thrown"}
  /\ \A e \in Queued : fate[e] = "taken"

Sorted(q) == \A i, j \in DOMAIN q : i < j => q[i] < q[j]

\* The queue is in the order of arrival, behind everything that is durable.
QueueOrder ==
  /\ Sorted(queue)
  /\ \A e \in Queued : /\ \A i \in DOMAIN rows : rows[i].event < e
                       /\ \A f \in spool : f.event < e

\* So is the journal, but for what an overflow left to this start.
RowsOrder ==
  \A i, j \in DOMAIN rows : i < j /\ rows[j].event < rows[i].event => rows[j].event \in late

\* So is the spool, and it goes behind the journal.
SpoolOrder ==
  /\ \A f \in spool : /\ f.version <= sequence
                      /\ \A i \in DOMAIN rows : f.event < rows[i].event => f.event \in late
  /\ \A f, g \in spool : f.version <= g.version => f.event <= g.event

Receipts == \A i \in DOMAIN rows : rows[i].receipt = "projected" => rows[i].event \in projected

\* A start has no queue, and none of its files left when it replays.
Starting ==
  /\ mode \in {"down", "unspooling", "reading", "replaying"} => queue = <<>>
  /\ mode # "down" => quarantined = {}
  /\ mode \in {"reading", "replaying"} => spool = {}

\* While the backend serves, only what waits in the queue is still to be shown;
\* once an overflow has filled the spool, nothing more is.
Live ==
  mode \in LiveModes =>
    /\ mode = "overflow" => ~intake
    /\ \A f \in spool : ~intake /\ (f.event \in late \/ mode = "overflow" \/ queue = <<>>)
    /\ \A e \in Events : e <= arrived => e \in Queued \/ Done(e) \/ InFile(e)

OrderInv ==
  Fated /\ QueueOrder /\ RowsOrder /\ SpoolOrder /\ Receipts /\ Starting /\ Live

LEMMA OrderTypes ==
  ASSUME TypeOK
  PROVE  /\ rows \in Seq(RowType) /\ queue \in Seq(Events) /\ Last \in Nat /\ arrived \in Nat
         /\ arrived <= Last
         /\ \A e \in Events : e \in Nat /\ e >= 1
         /\ \A e \in Queued : e \in Events
         /\ \A i \in DOMAIN rows : /\ rows[i] \in RowType /\ rows[i].event \in Events /\ i \in Nat
                                   /\ rows[i].receipt \in {None, "projected", "discarded"}
         /\ \A f \in spool \cup quarantined : /\ f.event \in Events /\ f.event \in Nat
                                              /\ f.version \in Nat
         /\ sequence \in Nat
<1>1. /\ rows \in Seq(RowType) /\ queue \in Seq(Events) /\ Last \in Nat /\ arrived \in Nat
      /\ arrived <= Last /\ sequence \in Nat
  BY JournalAssumption DEF TypeOK
<1>2. \A e \in Events : e \in Nat /\ e >= 1
  BY <1>1 DEF Events
<1>3. \A e \in Queued : e \in Events
  BY <1>1 DEF Queued
<1>4. \A r \in RowType : r.event \in Events /\ r.receipt \in {None, "projected", "discarded"}
  BY DEF RowType
<1>5. \A i \in DOMAIN rows : rows[i] \in RowType /\ i \in Nat
  BY <1>1
<1>6. \A f \in FileType : f.event \in Events /\ f.version \in Nat
  BY DEF FileType
<1>7. \A f \in spool \cup quarantined : f \in FileType
  BY DEF TypeOK
<1> QED
  BY <1>1, <1>2, <1>3, <1>4, <1>5, <1>6, <1>7

\* What arrived is done with, or is in one of the three places.
LEMMA Whereabouts ==
  ASSUME TypeOK, NothingLost, Fated, NEW e \in Events, e <= arrived
  PROVE  Done(e) \/ e \in Queued \/ InFile(e) \/ HasRow(e)
  BY DEF Fated, NothingLost, Done

LEMMA RowDone ==
  ASSUME TypeOK, Receipts, NEW i \in DOMAIN rows, rows[i].receipt # None
  PROVE  Done(rows[i].event)
<1>1. rows[i].receipt \in {"projected", "discarded"}
  BY OrderTypes
<1> QED
  BY <1>1 DEF Receipts, Done, Discards

LEMMA DoneKept ==
  ASSUME NEW e, Done(e), projected \subseteq projected', late \subseteq late',
         fate[e] \in GivenUp => fate'[e] \in GivenUp,
         Discards(rows, e) => Discards(rows', e) \/ e \in projected'
  PROVE  Done(e)'
  BY DEF Done

\* The head leaves the queue, or the queue is gone.
LEMMA QueueShrinks ==
  ASSUME TypeOK, QueueOrder, queue # <<>>, queue' = Tail(queue) \/ queue' = <<>>
  PROVE  /\ Sorted(queue') /\ Queued' \subseteq Queued /\ Head(queue) \in Queued
         /\ \A e \in Queued' : Head(queue) < e
         /\ \A e \in Queued : e # Head(queue) => Head(queue) < e
<1>1. /\ queue \in Seq(Events) /\ Head(queue) = queue[1] /\ 1 \in DOMAIN queue
      /\ \A i \in DOMAIN queue : i \in Nat /\ (i # 1 => 1 < i)
  <2>1. queue \in Seq(Events)
    BY OrderTypes
  <2>2. \A i \in DOMAIN queue : i \in Nat /\ (i # 1 => 1 < i)
    BY <2>1
  <2> QED
    BY <2>1, <2>2, Removed
<1>2. \A e \in Queued : e # Head(queue) => Head(queue) < e
  BY <1>1 DEF Queued, QueueOrder, Sorted
<1>3. CASE queue' = <<>>
  <2>1. Queued' = {} /\ DOMAIN queue' = {}
    BY <1>3 DEF Queued
  <2> QED
    BY <1>1, <1>2, <2>1 DEF Sorted, Queued
<1>4. CASE queue' = Tail(queue)
  <2>1. \A i \in DOMAIN queue' : i \in Nat /\ i + 1 \in DOMAIN queue /\ queue'[i] = queue[i + 1] /\ 1 < i + 1
    <3>1. queue' \in Seq(Events)
      BY <1>1, <1>4, Removed
    <3>2. \A i \in DOMAIN queue' : i \in Nat /\ i >= 1
      BY <3>1
    <3> QED
      BY <1>1, <1>4, <3>2, Removed
  <2>2. Sorted(queue')
    <3> SUFFICES ASSUME NEW i \in DOMAIN queue', NEW j \in DOMAIN queue', i < j
                 PROVE  queue'[i] < queue'[j]
      BY DEF Sorted
    <3>1. i + 1 < j + 1
      BY <2>1
    <3> QED
      BY <2>1, <3>1 DEF QueueOrder, Sorted
  <2>3. Queued' \subseteq Queued /\ \A e \in Queued' : Head(queue) < e
    BY <1>1, <2>1 DEF Queued, QueueOrder, Sorted
  <2> QED
    BY <1>1, <1>2, <2>2, <2>3 DEF Queued
<1> QED
  BY <1>3, <1>4

\* The journal grows by a row that is not in the way of what was there.
LEMMA OrderAppended ==
  ASSUME TypeOK, RowsOrder, SpoolOrder, Receipts,
         NEW r \in RowType, rows' = Append(rows, r),
         projected \subseteq projected', late \subseteq late',
         spool' \subseteq spool, sequence' \in Nat, sequence <= sequence',
         \A i \in DOMAIN rows : r.event < rows[i].event => r.event \in late',
         \A f \in spool' : f.event < r.event => f.event \in late',
         r.receipt = "projected" => r.event \in projected'
  PROVE  /\ RowsOrder' /\ SpoolOrder' /\ Receipts'
         /\ \A e \in Events : Discards(rows, e) => Discards(rows', e)
<1>1. /\ DOMAIN rows = 1..Len(rows) /\ Len(rows) \in Nat /\ DOMAIN rows' = 1..(Len(rows) + 1)
      /\ \A i \in DOMAIN rows : rows'[i] = rows[i] /\ i \in DOMAIN rows'
      /\ rows'[Len(rows) + 1] = r
      /\ \A i \in DOMAIN rows' : i \in DOMAIN rows \/ i = Len(rows) + 1
  <2>1. rows \in Seq(RowType)
    BY OrderTypes
  <2> QED
    BY <2>1, Appended
<1>2. RowsOrder'
  <2> SUFFICES ASSUME NEW i \in DOMAIN rows', NEW j \in DOMAIN rows', i < j,
                      rows'[j].event < rows'[i].event
               PROVE  rows'[j].event \in late'
    BY DEF RowsOrder
  <2>1. i \in DOMAIN rows
    BY <1>1
  <2>2. CASE j \in DOMAIN rows
    BY <1>1, <2>1, <2>2 DEF RowsOrder
  <2>3. CASE j = Len(rows) + 1
    BY <1>1, <2>1, <2>3
  <2> QED
    BY <1>1, <2>2, <2>3
<1>3. SpoolOrder'
  <2>1. ASSUME NEW f \in spool', NEW i \in DOMAIN rows', f.event < rows'[i].event
        PROVE  f.event \in late'
    <3>1. CASE i \in DOMAIN rows
      BY <1>1, <2>1, <3>1 DEF SpoolOrder
    <3>2. CASE i = Len(rows) + 1
      BY <1>1, <2>1, <3>2
    <3> QED
      BY <1>1, <3>1, <3>2
  <2>2. ASSUME NEW f \in spool' PROVE f.version <= sequence'
    BY OrderTypes DEF SpoolOrder
  <2> QED
    BY <2>1, <2>2 DEF SpoolOrder
<1>4. Receipts'
  BY <1>1 DEF Receipts
<1>5. \A e \in Events : Discards(rows, e) => Discards(rows', e)
  BY <1>1 DEF Discards
<1> QED
  BY <1>2, <1>3, <1>4, <1>5

\* Receipts change, events do not.
LEMMA OrderKept ==
  ASSUME TypeOK, RowsOrder, SpoolOrder, Receipts,
         DOMAIN rows' = DOMAIN rows,
         \A i \in DOMAIN rows : rows'[i].event = rows[i].event,
         \A i \in DOMAIN rows : \/ rows'[i].receipt = rows[i].receipt
                                \/ rows'[i].receipt = "discarded"
                                \/ rows[i].event \in projected',
         projected \subseteq projected', late \subseteq late', spool' \subseteq spool,
         sequence' = sequence
  PROVE  /\ RowsOrder' /\ SpoolOrder' /\ Receipts'
         /\ \A e \in Events : Discards(rows, e) => Discards(rows', e) \/ e \in projected'
<1>1. RowsOrder'
  BY DEF RowsOrder
<1>2. SpoolOrder'
  BY DEF SpoolOrder
<1>3. Receipts'
  <2>1. "discarded" # "projected"
    OBVIOUS
  <2> QED
    BY <2>1 DEF Receipts
<1>4. \A e \in Events : Discards(rows, e) => Discards(rows', e) \/ e \in projected'
  BY DEF Discards
<1> QED
  BY <1>1, <1>2, <1>3, <1>4

\* What processEvent leaves of event e: it is done with, or it died with the row.
LEMMA ProcessMoves ==
  ASSUME TypeOK, NEW e \in Events, NEW emitting \in BOOLEAN,
         \/ Process(e, emitting)
         \/ TornProcess(e)
  PROVE  /\ \/ rows' = rows
            \/ \E r \in RowType : /\ r.event = e /\ rows' = Append(rows, r)
                                  /\ r.receipt = "projected" => e \in projected'
         /\ projected' \in {projected, projected \cup {e}} /\ late \subseteq late'
         /\ sequence' \in Nat /\ sequence <= sequence'
         /\ UNCHANGED <<spool, quarantined>>
         /\ fate'[e] \in GivenUp \cup {"taken", "thrown"}
         /\ \A f \in Events \ {e} : fate'[f] = fate[f] \/ fate'[f] \in GivenUp
         /\ queue' = <<>> \/ \A f \in Events \ {e} : fate'[f] = fate[f]
         /\ mode' # "down" => Done(e)'
<1>1. sequence \in Nat /\ fate \in Fates
  BY DEF TypeOK, Fates
<1>2. /\ Row(e, sequence + 1) \in RowType /\ Row(e, sequence + 1).event = e
      /\ Row(e, sequence + 1).receipt = None
  BY <1>1 DEF Row, RowType
<1>3. None # "projected"
  BY JournalAssumption
<1>4. CASE TornProcess(e)
  <2>1. /\ rows' = Append(rows, Row(e, sequence + 1)) /\ sequence' = sequence + 1
        /\ projected' \in {projected, projected \cup {e}}
        /\ UNCHANGED <<spool, quarantined, late>> /\ mode' = "down" /\ queue' = <<>>
    BY <1>4 DEF TornProcess, Lose
  <2>2. fate' = [f \in Events |-> IF f \in Queued \ {e} THEN "crashed"
                                ELSE IF f \in {e} THEN "taken" ELSE fate[f]]
    BY <1>4 DEF TornProcess, Lose
  <2>3. /\ fate'[e] = "taken"
        /\ \A f \in Events \ {e} : fate'[f] = fate[f] \/ fate'[f] \in GivenUp
    BY <2>2 DEF GivenUp
  <2>4. \E r \in RowType : /\ r.event = e /\ rows' = Append(rows, r)
                           /\ r.receipt = "projected" => e \in projected'
    BY <1>2, <1>3, <2>1, Zenon
  <2>5. sequence' \in Nat /\ sequence <= sequence' /\ late \subseteq late'
    BY <1>1, <2>1
  <2> QED
    BY <2>1, <2>3, <2>4, <2>5
<1>5. CASE Process(e, emitting)
  <2>1. UNCHANGED <<spool, quarantined>>
    BY <1>5 DEF Process
  <2>2. CASE Unserializable(e)
    <3>1. fate' = [fate EXCEPT ![e] = "unserializable"] /\ UNCHANGED <<sequence, rows, projected, late>>
      BY <2>2 DEF Unserializable
    <3>2. fate'[e] \in GivenUp /\ \A f \in Events \ {e} : fate'[f] = fate[f]
      BY <1>1, <3>1 DEF GivenUp, Fates
    <3> QED
      BY <1>1, <2>1, <3>1, <3>2 DEF Done
  <2>3. CASE Degraded(e, emitting)
    <3>1. fate' = [fate EXCEPT ![e] = "taken"] \/ fate' = [fate EXCEPT ![e] = "thrown"]
      BY <2>3, Zenon DEF Degraded
    <3>2. /\ rows' = Append(rows, Row(e, sequence + 1)) /\ sequence' = sequence + 1
          /\ late' = late \cup {e} /\ projected' \in {projected, projected \cup {e}}
      BY <2>3, Zenon DEF Degraded
    <3>3. fate'[e] \in {"taken", "thrown"} /\ \A f \in Events \ {e} : fate'[f] = fate[f]
      BY <1>1, <3>1 DEF Fates
    <3> QED
      BY <1>1, <1>2, <1>3, <2>1, <3>2, <3>3 DEF Done
  <2>4. CASE Complete(e)
    <3>1. /\ fate' = [fate EXCEPT ![e] = "taken"] /\ projected' = projected \cup {e}
          /\ late' = late /\ sequence' = sequence + 1
          /\ \/ rows' = rows
             \/ rows' = Append(rows, [Row(e, sequence + 1) EXCEPT !.receipt = "projected"])
      BY <2>4 DEF Complete
    <3>2. fate'[e] = "taken" /\ \A f \in Events \ {e} : fate'[f] = fate[f]
      BY <1>1, <3>1 DEF Fates
    <3>3. /\ [Row(e, sequence + 1) EXCEPT !.receipt = "projected"] \in RowType
          /\ [Row(e, sequence + 1) EXCEPT !.receipt = "projected"].event = e
      BY <1>1 DEF Row, RowType
    <3>4. /\ \/ rows' = rows
             \/ \E r \in RowType : /\ r.event = e /\ rows' = Append(rows, r)
                                   /\ r.receipt = "projected" => e \in projected'
          /\ e \in projected' /\ projected' \in {projected, projected \cup {e}}
      BY <3>1, <3>3, Zenon
    <3>5. late \subseteq late' /\ sequence' \in Nat /\ sequence <= sequence' /\ Done(e)'
      BY <1>1, <3>1, <3>4 DEF Done
    <3> QED
      BY <2>1, <3>2, <3>4, <3>5
  <2> QED
    BY <1>5, <2>2, <2>3, <2>4 DEF Process
<1> QED
  BY <1>4, <1>5

LEMMA ShortTail ==
  ASSUME NEW S, NEW q \in Seq(S), q # <<>>, ~(Len(q) > 1)
  PROVE  Tail(q) = <<>>
<1>1. Tail(q) \in Seq(S) /\ Len(Tail(q)) = Len(q) - 1 /\ Len(q) > 0 /\ Len(q) \in Nat
  BY Removed
<1>2. Len(Tail(q)) = 0
  BY <1>1
<1> QED
  BY <1>1, <1>2, EmptySeq

\* The five parts that do not look at the mode.
Arranged == Fated /\ QueueOrder /\ RowsOrder /\ SpoolOrder /\ Receipts

\* What is done with stays so.
Finished == \A e \in Events : Done(e) => Done(e)'

\* Nothing moves, or everything that waited in the queue is given up.
LEMMA Unmoved ==
  ASSUME TypeOK, Arranged,
         UNCHANGED <<arrived, sequence, spool>>,
         DOMAIN rows' = DOMAIN rows,
         \A i \in DOMAIN rows : rows'[i].event = rows[i].event,
         \A i \in DOMAIN rows : \/ rows'[i].receipt = rows[i].receipt
                                \/ rows'[i].receipt = "discarded"
                                \/ rows[i].event \in projected',
         projected \subseteq projected', late \subseteq late',
         \/ queue' = queue /\ fate' = fate
         \/ /\ queue' = <<>>
            /\ \E why \in GivenUp :
                 fate' = [e \in Events |-> IF e \in Queued THEN why ELSE fate[e]]
  PROVE  Arranged' /\ Finished
<1>1. RowsOrder /\ SpoolOrder /\ Receipts /\ Fated /\ QueueOrder
  BY DEF Arranged
<1>2. /\ RowsOrder' /\ SpoolOrder' /\ Receipts'
      /\ \A e \in Events : Discards(rows, e) => Discards(rows', e) \/ e \in projected'
  BY <1>1, OrderKept
<1>3. CASE queue' = queue /\ fate' = fate
  <2>1. Queued' = Queued
    BY <1>3 DEF Queued
  <2>2. Fated'
    BY <1>1, <1>3, <2>1 DEF Fated
  <2>3. QueueOrder'
    BY <1>1, <1>3, <2>1 DEF QueueOrder
  <2>4. Finished
    BY <1>2, <1>3, DoneKept DEF Finished
  <2> QED
    BY <1>2, <2>2, <2>3, <2>4 DEF Arranged
<1>4. CASE /\ queue' = <<>>
           /\ \E why \in GivenUp :
                fate' = [e \in Events |-> IF e \in Queued THEN why ELSE fate[e]]
  <2>1. Queued' = {} /\ DOMAIN queue' = {}
    BY <1>4 DEF Queued
  <2>2. \A e \in Events : fate'[e] = fate[e] \/ fate'[e] \in GivenUp
    BY <1>4
  <2>3. Fated'
    BY <1>1, <2>1, <2>2 DEF Fated
  <2>4. QueueOrder'
    BY <2>1 DEF QueueOrder, Sorted
  <2>5. Finished
    BY <1>2, <2>2, DoneKept DEF Finished
  <2> QED
    BY <1>2, <2>3, <2>4, <2>5 DEF Arranged
<1> QED
  BY <1>3, <1>4

LEMMA QuietOrder ==
  ASSUME Inv, OrderInv,
         \/ OverflowStuck \/ RetryDue \/ Stop \/ DrainBlocked \/ Boot
         \/ SpoolReplayed \/ ReadBatch \/ UNCHANGED vars
  PROVE  OrderInv' /\ Finished
<1>1. TypeOK /\ NothingLost /\ Arranged /\ Starting /\ Live
  BY DEF Inv, Placement, OrderInv, Arranged
<1>2. /\ UNCHANGED <<arrived, fate, queue, sequence, spool, quarantined, rows, projected>>
      /\ late \subseteq late'
  BY DEF OverflowStuck, RetryDue, Stop, DrainBlocked, Boot, SpoolReplayed, ReadBatch, vars,
         memory, durable
<1>3. Arranged' /\ Finished
  BY <1>1, <1>2, Unmoved
<1>4. Queued' = Queued /\ \A e \in Events : InFile(e)' = InFile(e)
  BY <1>2 DEF Queued, InFile
<1>5. CASE OverflowStuck
  <2>1. /\ mode = "overflow" /\ mode' = "serving" /\ intake' = intake
        /\ \A f \in spool : f.event \in late'
    BY <1>5 DEF OverflowStuck
  <2>2. Starting'
    BY <1>1, <1>2, <2>1 DEF Starting
  <2>3. Live'
    BY <1>1, <1>2, <1>3, <1>4, <2>1 DEF Live, LiveModes, Finished
  <2> QED
    BY <1>3, <2>2, <2>3 DEF OrderInv, Arranged
<1>6. CASE RetryDue \/ Stop \/ DrainBlocked
  <2>1. /\ intake' = intake /\ mode \in {"serving", "draining", "stopping"}
        /\ mode' \in {"draining", "stopping", "serving", "down", "spooling"}
        /\ mode' = "down" => queue = <<>>
    BY <1>6 DEF RetryDue, Stop, DrainBlocked
  <2>2. Starting'
    BY <1>1, <1>2, <2>1 DEF Starting
  <2>3. Live'
    BY <1>1, <1>2, <1>3, <1>4, <2>1 DEF Live, LiveModes, Finished
  <2> QED
    BY <1>3, <2>2, <2>3 DEF OrderInv, Arranged
<1>7. CASE Boot \/ SpoolReplayed \/ (ReadBatch /\ mode' = "replaying")
  <2>1. /\ mode \in {"down", "unspooling", "reading"}
        /\ mode' \in {"unspooling", "reading", "replaying"}
        /\ mode = "down" => quarantined = {}
        /\ mode' = "reading" => spool = {}
        /\ mode' = "replaying" => mode = "reading"
    BY <1>7 DEF Boot, SpoolReplayed, ReadBatch
  <2>2. Starting'
    BY <1>1, <1>2, <2>1 DEF Starting
  <2>3. Live'
    BY <2>1 DEF Live, LiveModes
  <2> QED
    BY <1>3, <2>2, <2>3 DEF OrderInv, Arranged
<1>8. CASE ReadBatch /\ mode' # "replaying"
  <2>1. mode = "reading" /\ mode' = "serving" /\ Unreceipted(rows) = {}
    BY <1>8 DEF ReadBatch
  <2>2. queue = <<>> /\ spool = {} /\ quarantined = {} /\ Queued = {}
    BY <1>1, <2>1 DEF Starting, Queued
  <2>3. \A i \in DOMAIN rows : rows[i].receipt # None
    BY <2>1 DEF Unreceipted
  <2>4. \A e \in Events : e <= arrived => Done(e)
    <3> SUFFICES ASSUME NEW e \in Events, e <= arrived PROVE Done(e)
      OBVIOUS
    <3>1. Done(e) \/ HasRow(e)
      BY <1>1, <2>2, Whereabouts DEF Arranged, InFile
    <3> QED
      BY <1>1, <2>3, <3>1, RowDone DEF Arranged, HasRow
  <2>5. Starting'
    BY <1>2, <2>1, <2>2 DEF Starting
  <2>6. Live'
    BY <1>2, <1>3, <2>1, <2>2, <2>4 DEF Live, LiveModes, Finished
  <2> QED
    BY <1>3, <2>5, <2>6 DEF OrderInv, Arranged
<1>9. CASE UNCHANGED vars
  <2>1. UNCHANGED <<mode, intake, late>>
    BY <1>9 DEF vars, memory
  <2>2. Starting'
    BY <1>1, <1>2, <2>1 DEF Starting
  <2>3. Live'
    BY <1>1, <1>2, <1>3, <1>4, <2>1 DEF Live, LiveModes, Finished
  <2> QED
    BY <1>3, <2>2, <2>3 DEF OrderInv, Arranged
<1> QED
  BY <1>5, <1>6, <1>7, <1>8, <1>9

LEMMA EndingOrder ==
  ASSUME Inv, OrderInv, StopStuck \/ Crash \/ TornReplay
  PROVE  OrderInv' /\ Finished
<1>1. TypeOK /\ Arranged
  BY DEF Inv, OrderInv, Arranged
<1>2. PICK why \in GivenUp : Lose({}, why)
  BY DEF StopStuck, Crash, TornReplay, GivenUp
<1>3. /\ UNCHANGED <<arrived, sequence, spool, quarantined, late>>
      /\ mode' = "down" /\ queue' = <<>>
      /\ fate' = [e \in Events |-> IF e \in Queued THEN why ELSE fate[e]]
  BY <1>2 DEF Lose, StopStuck, Crash, TornReplay, durable
<1>4. /\ DOMAIN rows' = DOMAIN rows
      /\ \A i \in DOMAIN rows : /\ rows'[i].event = rows[i].event
                                /\ rows'[i].receipt = rows[i].receipt
      /\ projected \subseteq projected'
  <2>1. CASE StopStuck \/ Crash
    BY <2>1 DEF StopStuck, Crash, durable
  <2>2. CASE TornReplay
    <3>1. PICK i \in pass.batch :
            /\ Put(i, Replayed(rows[i]))
            /\ projected' \in {projected, projected \cup {rows[i].event}}
      BY <2>2, Zenon DEF TornReplay
    <3>2. i \in DOMAIN rows /\ rows[i] \in RowType
      BY <1>1 DEF TypeOK
    <3>3. Replayed(rows[i]).event = rows[i].event /\ Replayed(rows[i]).receipt = rows[i].receipt
      BY <3>2, RowUpdates
    <3> QED
      BY <3>1, <3>2, <3>3 DEF Put
  <2> QED
    BY <2>1, <2>2
<1>5. Arranged' /\ Finished
  BY <1>1, <1>3, <1>4, Unmoved
<1>6. Starting' /\ Live'
  BY <1>3 DEF Starting, Live, LiveModes
<1> QED
  BY <1>5, <1>6 DEF OrderInv, Arranged

\* Only what arrived is anywhere.
LEMMA ArrivedOnly ==
  ASSUME TypeOK, Future
  PROVE  /\ \A i \in DOMAIN rows : rows[i].event <= arrived
         /\ \A f \in spool \cup quarantined : f.event <= arrived
         /\ \A e \in Queued : e <= arrived
<1>1. \A e \in Events : (e \in Queued \/ HasRow(e) \/ InFile(e)) => e <= arrived
  <2>1. arrived \in Nat /\ \A e \in Events : e \in Nat
    BY OrderTypes
  <2> QED
    BY <2>1 DEF Future
<1>2. \A i \in DOMAIN rows : rows[i].event \in Events
  BY OrderTypes
<1>3. \A f \in spool \cup quarantined : f.event \in Events
  BY OrderTypes
<1>4. \A e \in Queued : e \in Events
  BY OrderTypes
<1> QED
  BY <1>1, <1>2, <1>3, <1>4 DEF HasRow, InFile

\* processEvent deals with an event behind everything durable and ahead of all
\* that waits.
LEMMA SettlingOrder ==
  ASSUME TypeOK, Arranged, NEW e \in Events, NEW emitting \in BOOLEAN,
         \/ Process(e, emitting)
         \/ TornProcess(e),
         \A f \in Events : f <= arrived' => f <= arrived \/ f = e,
         \A i \in DOMAIN rows : rows[i].event < e,
         \A f \in spool : f.event < e => f.event \in late,
         Sorted(queue'), Queued' \subseteq Queued \ {e}, \A g \in Queued' : e < g
  PROVE  /\ Arranged' /\ UNCHANGED <<spool, quarantined>> /\ late \subseteq late'
         /\ \A f \in Events \ {e} : Done(f) => Done(f)'
         /\ mode' # "down" => Done(e)'
         /\ projected' \subseteq projected \cup {e}
<1>1. RowsOrder /\ SpoolOrder /\ Receipts /\ Fated /\ QueueOrder
  BY DEF Arranged
<1>2. /\ \/ rows' = rows
         \/ \E r \in RowType : /\ r.event = e /\ rows' = Append(rows, r)
                               /\ r.receipt = "projected" => e \in projected'
      /\ projected' \in {projected, projected \cup {e}} /\ late \subseteq late'
      /\ sequence' \in Nat /\ sequence <= sequence'
      /\ UNCHANGED <<spool, quarantined>>
      /\ fate'[e] \in GivenUp \cup {"taken", "thrown"}
      /\ \A f \in Events \ {e} : fate'[f] = fate[f] \/ fate'[f] \in GivenUp
      /\ queue' = <<>> \/ \A f \in Events \ {e} : fate'[f] = fate[f]
      /\ mode' # "down" => Done(e)'
  BY ProcessMoves
<1>3. projected \subseteq projected' /\ projected' \subseteq projected \cup {e}
  BY <1>2
<1>4. e \in Nat /\ \A g \in Queued : g \in Events
  BY OrderTypes
<1>5. /\ RowsOrder' /\ SpoolOrder' /\ Receipts'
      /\ \A f \in Events : Discards(rows, f) => Discards(rows', f)
      /\ \A i \in DOMAIN rows' : (i \in DOMAIN rows /\ rows'[i] = rows[i]) \/ rows'[i].event = e
  <2>1. CASE rows' = rows
    <3>1. RowsOrder'
      BY <1>1, <1>2, <2>1 DEF RowsOrder
    <3>2. SpoolOrder'
      <4>1. \A f \in spool : f.version <= sequence'
        <5>1. \A f \in spool : f.version \in Nat /\ f.version <= sequence
          BY <1>1, OrderTypes DEF SpoolOrder
        <5>2. sequence \in Nat
          BY OrderTypes
        <5> QED
          BY <1>2, <5>1, <5>2
      <4> QED
        BY <1>1, <1>2, <2>1, <4>1 DEF SpoolOrder
    <3>3. Receipts'
      BY <1>1, <1>3, <2>1 DEF Receipts
    <3> QED
      BY <2>1, <3>1, <3>2, <3>3
  <2>2. CASE rows' # rows
    <3>1. PICK r \in RowType : /\ r.event = e /\ rows' = Append(rows, r)
                               /\ r.receipt = "projected" => e \in projected'
      BY <1>2, <2>2
    <3>2. \A i \in DOMAIN rows : ~(r.event < rows[i].event)
      <4>1. \A i \in DOMAIN rows : rows[i].event \in Nat
        BY OrderTypes
      <4> QED
        BY <1>4, <3>1, <4>1
    <3>3. \A f \in spool' : f.event < r.event => f.event \in late'
      BY <1>2, <3>1
    <3>4. /\ RowsOrder' /\ SpoolOrder' /\ Receipts'
          /\ \A f \in Events : Discards(rows, f) => Discards(rows', f)
      BY <1>1, <1>2, <1>3, <3>1, <3>2, <3>3, OrderAppended
    <3>5. rows \in Seq(RowType)
      BY OrderTypes
    <3>6. \A i \in DOMAIN rows' : (i \in DOMAIN rows /\ rows'[i] = rows[i]) \/ rows'[i] = r
      BY <3>1, <3>5, Appended
    <3> QED
      BY <3>1, <3>4, <3>6
  <2> QED
    BY <2>1, <2>2
<1>6. Fated'
  <2>1. ASSUME NEW f \in Events, f <= arrived'
        PROVE  fate'[f] \in GivenUp \cup {"taken", "thrown"}
    BY <1>1, <1>2, <2>1 DEF Fated
  <2>2. ASSUME NEW g \in Queued' PROVE fate'[g] = "taken"
    <3>1. g \in Queued /\ g \in Events \ {e} /\ fate[g] = "taken"
      BY <1>1, <1>4 DEF Fated
    <3>2. queue' # <<>>
      BY DEF Queued
    <3> QED
      BY <1>2, <3>1, <3>2
  <2> QED
    BY <2>1, <2>2 DEF Fated
<1>7. QueueOrder'
  <2> SUFFICES ASSUME NEW g \in Queued'
               PROVE  /\ \A i \in DOMAIN rows' : rows'[i].event < g
                      /\ \A f \in spool' : f.event < g
    BY DEF QueueOrder
  <2>1. g \in Queued /\ e < g
    OBVIOUS
  <2> QED
    BY <1>1, <1>2, <1>5, <2>1 DEF QueueOrder
<1>8. \A f \in Events \ {e} : Done(f) => Done(f)'
  BY <1>2, <1>3, <1>5, DoneKept
<1> QED
  BY <1>1, <1>2, <1>3, <1>5, <1>6, <1>7, <1>8 DEF Arranged

LEMMA ArrivalOrder ==
  ASSUME Inv, OrderInv, NEW e \in Events, Reject(e) \/ IngestDirectly(e) \/ Enqueue(e)
  PROVE  /\ OrderInv'
         /\ \A f \in Events \ {e} : f <= arrived /\ Done(f) => Done(f)'
         /\ projected' # projected => /\ projected' \subseteq projected \cup {e}
                                      /\ \A f \in Events : f < e => Done(f)
<1>1. TypeOK /\ Future /\ Arranged /\ Starting /\ Live
  BY DEF Inv, Placement, OrderInv, Arranged
<1>2. /\ mode = "serving" /\ e = arrived + 1 /\ arrived' = e
      /\ arrived \in Nat /\ e \in Nat /\ quarantined = {}
      /\ \A f \in Events : f \in Nat
      /\ \A f \in Events : f <= e => f <= arrived \/ f = e
      /\ fate \in Fates
  <2>1. mode = "serving" /\ e = arrived + 1 /\ arrived' = e
    BY DEF Reject, IngestDirectly, Enqueue, Arrive
  <2>2. arrived \in Nat /\ \A f \in Events : f \in Nat
    BY <1>1, OrderTypes
  <2>3. quarantined = {}
    BY <1>1, <2>1 DEF Starting
  <2>4. fate \in Fates
    BY <1>1 DEF TypeOK, Fates
  <2> QED
    BY <2>1, <2>2, <2>3, <2>4
<1>3. /\ \A i \in DOMAIN rows : rows[i].event < e
      /\ \A f \in spool : f.event < e
      /\ \A g \in Queued : g < e /\ g \in Events
      /\ e \notin Queued
  <2>1. /\ \A i \in DOMAIN rows : rows[i].event <= arrived /\ rows[i].event \in Nat
        /\ \A f \in spool : f.event <= arrived /\ f.event \in Nat
        /\ \A g \in Queued : g <= arrived /\ g \in Nat /\ g \in Events
    BY <1>1, ArrivedOnly, OrderTypes
  <2> QED
    BY <1>2, <2>1
<1>4. CASE Reject(e)
  <2>1. /\ fate' = [fate EXCEPT ![e] = "rejected"]
        /\ UNCHANGED <<mode, queue, intake, sequence, spool, quarantined, rows, projected, late>>
    BY <1>4 DEF Reject, memory, durable
  <2>2. fate'[e] \in GivenUp /\ \A f \in Events \ {e} : fate'[f] = fate[f]
    BY <1>2, <2>1 DEF Fates, GivenUp
  <2>3. Queued' = Queued /\ \A f \in Events : InFile(f)' = InFile(f)
    BY <2>1 DEF Queued, InFile
  <2>4. Done(e)' /\ \A f \in Events \ {e} : Done(f) => Done(f)'
    BY <2>1, <2>2 DEF Done
  <2>5. Fated'
    BY <1>1, <1>2, <1>3, <2>2, <2>3 DEF Arranged, Fated
  <2>6. QueueOrder' /\ RowsOrder' /\ SpoolOrder' /\ Receipts' /\ Starting'
    BY <1>1, <2>1, <2>3 DEF Arranged, QueueOrder, RowsOrder, SpoolOrder, Receipts, Starting
  <2>7. Live'
    BY <1>1, <1>2, <2>1, <2>3, <2>4 DEF Live, LiveModes
  <2> QED
    BY <2>1, <2>4, <2>5, <2>6, <2>7 DEF OrderInv
<1>5. CASE IngestDirectly(e)
  <2>1. /\ intake /\ queue = <<>> /\ Queued = {}
        /\ Process(e, TRUE) \/ TornProcess(e)
        /\ mode' \in {"serving", "down"} /\ queue' = <<>> /\ Queued' = {} /\ DOMAIN queue' = {}
    <3>1. /\ intake /\ queue = <<>>
          /\ \/ Process(e, TRUE) /\ UNCHANGED <<mode, memory>>
             \/ TornProcess(e)
      BY <1>5 DEF IngestDirectly
    <3>2. mode' \in {"serving", "down"} /\ queue' = <<>>
      BY <1>2, <3>1 DEF TornProcess, Lose, memory
    <3>3. Queued = {} /\ Queued' = {} /\ DOMAIN queue' = {}
      BY <3>1, <3>2 DEF Queued
    <3>4. Process(e, TRUE) \/ TornProcess(e)
      BY <3>1, Zenon
    <3> QED
      BY <3>1, <3>2, <3>3, <3>4
  <2>2. spool = {} /\ \A f \in Events : f <= arrived => Done(f)
    <3>1. spool = {}
      BY <1>1, <1>2, <2>1 DEF Live, LiveModes
    <3> QED
      BY <1>1, <1>2, <2>1, <3>1 DEF Live, LiveModes, InFile
  <2>3. /\ Arranged' /\ UNCHANGED <<spool, quarantined>>
        /\ \A f \in Events \ {e} : Done(f) => Done(f)'
        /\ mode' # "down" => Done(e)'
        /\ projected' \subseteq projected \cup {e}
    <3>1. Sorted(queue')
      BY <2>1 DEF Sorted
    <3> QED
      BY <1>1, <1>2, <1>3, <2>1, <2>2, <3>1, SettlingOrder
  <2>4. Starting'
    BY <1>2, <2>1, <2>3 DEF Starting
  <2>5. Live'
    BY <1>2, <2>1, <2>2, <2>3 DEF Live, LiveModes
  <2>6. \A f \in Events : f < e => Done(f)
    BY <1>2, <2>2
  <2> QED
    BY <2>3, <2>4, <2>5, <2>6 DEF OrderInv, Arranged
<1>6. CASE Enqueue(e)
  <2>1. /\ intake /\ fate' = [fate EXCEPT ![e] = "taken"] /\ queue' = Append(queue, e)
        /\ mode' = "serving" \/ (mode' = "overflow" /\ ~intake')
        /\ UNCHANGED <<sequence, spool, quarantined, rows, projected, late>>
    BY <1>2, <1>6, Zenon DEF Enqueue, durable
  <2>2. fate'[e] = "taken" /\ \A f \in Events \ {e} : fate'[f] = fate[f]
    BY <1>2, <2>1 DEF Fates
  <2>3. /\ Queued' = Queued \cup {e} /\ Sorted(queue')
        /\ \A f \in Events : InFile(f)' = InFile(f)
    <3>1. queue \in Seq(Events)
      BY <1>1, OrderTypes
    <3>2. /\ DOMAIN queue' = 1..(Len(queue) + 1) /\ DOMAIN queue = 1..Len(queue)
          /\ Len(queue) \in Nat
          /\ \A i \in DOMAIN queue : queue'[i] = queue[i] /\ i \in DOMAIN queue'
          /\ queue'[Len(queue) + 1] = e
          /\ \A i \in DOMAIN queue' : i \in DOMAIN queue \/ i = Len(queue) + 1
      BY <2>1, <3>1, Appended
    <3>3. Queued' = Queued \cup {e}
      BY <3>2 DEF Queued
    <3>4. Sorted(queue')
      <4> SUFFICES ASSUME NEW i \in DOMAIN queue', NEW j \in DOMAIN queue', i < j
                   PROVE  queue'[i] < queue'[j]
        BY DEF Sorted
      <4>1. i \in DOMAIN queue
        BY <3>2
      <4>2. CASE j \in DOMAIN queue
        BY <1>1, <3>2, <4>1, <4>2 DEF Arranged, QueueOrder, Sorted
      <4>3. CASE j = Len(queue) + 1
        <5>1. queue[i] < e
          BY <1>3, <4>1 DEF Queued
        <5> QED
          BY <3>2, <4>1, <4>3, <5>1
      <4> QED
        BY <3>2, <4>2, <4>3
    <3> QED
      BY <2>1, <3>3, <3>4 DEF InFile
  <2>4. \A f \in Events \ {e} : Done(f) => Done(f)'
    BY <2>1, <2>2 DEF Done
  <2>5. Fated'
    BY <1>1, <1>2, <1>3, <2>2, <2>3 DEF Arranged, Fated
  <2>6. QueueOrder'
    BY <1>1, <1>3, <2>1, <2>3 DEF Arranged, QueueOrder
  <2>7. RowsOrder' /\ SpoolOrder' /\ Receipts' /\ Starting'
    BY <1>1, <1>2, <2>1 DEF Arranged, RowsOrder, SpoolOrder, Receipts, Starting
  <2>8. Live'
    <3>1. spool' = {}
      BY <1>1, <1>2, <2>1 DEF Live, LiveModes
    <3>2. \A f \in Events : f <= arrived' => f \in Queued' \/ Done(f)' \/ InFile(f)'
      BY <1>1, <1>2, <2>3, <2>4 DEF Live, LiveModes
    <3> QED
      BY <2>1, <3>1, <3>2 DEF Live, LiveModes
  <2> QED
    BY <2>1, <2>4, <2>5, <2>6, <2>7, <2>8 DEF OrderInv
<1> QED
  BY <1>4, <1>5, <1>6

LEMMA DrainOrder ==
  ASSUME Inv, OrderInv, DrainHead
  PROVE  /\ OrderInv'
         /\ \A f \in Events \ {Head(queue)} : Done(f) => Done(f)'
         /\ projected' \subseteq projected \cup {Head(queue)}
         /\ Head(queue) \in Events
         /\ \A f \in Events : f < Head(queue) => Done(f)
<1>1. TypeOK /\ Placement /\ Future /\ NeedsQueue /\ Arranged /\ Starting /\ Live
  BY DEF Inv, Placement, OrderInv, Arranged
<1>2. /\ mode \in {"draining", "stopping"} /\ arrived' = arrived /\ quarantined = {}
      /\ queue \in Seq(Events) /\ queue # <<>>
  <2>1. mode \in {"draining", "stopping"} /\ arrived' = arrived
    BY DEF DrainHead
  <2> QED
    BY <1>1, <2>1, OrderTypes DEF NeedsQueue, Starting
<1>0. PICK h \in Events : h = Head(queue)
  BY <1>2, Removed
<1>3. \/ /\ Process(h, FALSE) /\ queue' = Tail(queue) /\ UNCHANGED intake
         /\ mode' = IF Len(queue) > 1 THEN mode
                    ELSE IF mode = "draining" THEN "serving" ELSE "down"
      \/ TornProcess(h)
  BY <1>0 DEF DrainHead
<1>4. PICK emitting \in BOOLEAN : Process(h, emitting) \/ TornProcess(h)
  BY <1>3, Zenon
<1>5. /\ queue' = Tail(queue) \/ queue' = <<>>
      /\ mode' \in {"draining", "stopping", "serving", "down"}
      /\ mode' = "down" => queue' = <<>>
      /\ mode' # "down" => queue' = Tail(queue) /\ intake' = intake
  <2>1. CASE /\ Process(h, FALSE) /\ queue' = Tail(queue) /\ UNCHANGED intake
             /\ mode' = IF Len(queue) > 1 THEN mode
                        ELSE IF mode = "draining" THEN "serving" ELSE "down"
    <3>1. ~(Len(queue) > 1) => Tail(queue) = <<>>
      BY <1>2, ShortTail
    <3> QED
      BY <1>2, <2>1, <3>1
  <2>2. CASE TornProcess(h)
    BY <2>2 DEF TornProcess, Lose
  <2> QED
    BY <1>3, <2>1, <2>2, Zenon
<1>6. /\ Sorted(queue') /\ Queued' \subseteq Queued /\ h \in Queued
      /\ \A g \in Queued' : h < g
      /\ \A g \in Queued : g # h => h < g
  BY <1>0, <1>1, <1>2, <1>5, QueueShrinks DEF Arranged
<1>7. h \in Events /\ h \in Nat /\ \A f \in Events : f \in Nat
  BY <1>1, <1>6, OrderTypes
<1>8. queue' = Tail(queue) => Queued' = Queued \ {h}
  <2>1. Injective(queue) /\ Elems(queue) = Queued
    BY <1>1 DEF Placement, Elems, Queued
  <2>2. Elems(Tail(queue)) = Queued \ {h}
    BY <1>0, <1>2, <2>1, TailElems
  <2> QED
    BY <2>2 DEF Elems, Queued
<1>9. \A f \in spool : f.event \in late /\ ~intake
  BY <1>1, <1>2 DEF Live, LiveModes
<1>10. arrived \in Nat /\ h <= arrived
  BY <1>1, <1>6, ArrivedOnly, OrderTypes
<1>11. /\ Arranged' /\ UNCHANGED <<spool, quarantined>> /\ late \subseteq late'
       /\ \A f \in Events \ {h} : Done(f) => Done(f)'
       /\ mode' # "down" => Done(h)'
       /\ projected' \subseteq projected \cup {h}
  <2>1. \A i \in DOMAIN rows : rows[i].event < h
    BY <1>1, <1>6 DEF Arranged, QueueOrder
  <2>2. Queued' \subseteq Queued \ {h}
    BY <1>6, <1>7
  <2>3. \A f \in Events : f <= arrived' => f <= arrived \/ f = h
    BY <1>2
  <2> QED
    BY <1>1, <1>4, <1>6, <1>7, <1>9, <2>1, <2>2, <2>3, SettlingOrder
<1>12. Starting'
  BY <1>2, <1>5, <1>11 DEF Starting
<1>13. \A f \in Events : f <= arrived => f \in Queued \/ Done(f)
  <2>1. \A f \in Events : InFile(f) => Done(f)
    BY <1>2, <1>9 DEF InFile, Done
  <2> QED
    BY <1>1, <1>2, <2>1 DEF Live, LiveModes
<1>14. Live'
  <2>1. SUFFICES ASSUME mode' # "down" PROVE Live'
    BY DEF Live, LiveModes
  <2>2. \A f \in Events : f <= arrived' => f \in Queued' \/ Done(f)'
    <3>1. Queued' = Queued \ {h} /\ arrived' = arrived
      BY <1>2, <1>5, <1>8, <2>1
    <3>2. CASE mode' # "down"
      <4>1. \A f \in Events : Done(f) => Done(f)'
        BY <1>11, <3>2
      <4> QED
        BY <1>11, <1>13, <3>1, <3>2, <4>1
    <3> QED
      BY <2>1, <3>2
  <2>3. \A f \in spool' : ~intake' /\ f.event \in late'
    BY <1>5, <1>9, <1>11, <2>1
  <2> QED
    BY <1>5, <2>2, <2>3 DEF Live, LiveModes
<1>15. \A f \in Events : f < h => Done(f)
  BY <1>6, <1>7, <1>10, <1>13
<1> QED
  BY <1>0, <1>7, <1>11, <1>12, <1>14, <1>15 DEF OrderInv, Arranged

LEMMA SpoolOrders ==
  ASSUME Inv, OrderInv, Overflow \/ StopSpools
  PROVE  OrderInv' /\ Finished
<1> DEFINE h == Head(queue)
           file == [event |-> h, version |-> sequence + 1]
<1>1. TypeOK /\ Placement /\ NeedsQueue /\ Arranged /\ Starting /\ Live
  BY DEF Inv, OrderInv, Arranged
<1>2. /\ queue' = Tail(queue) /\ sequence' = sequence + 1 /\ spool' = spool \cup {file}
      /\ UNCHANGED <<arrived, fate, intake, quarantined, rows, projected, late>>
  BY DEF Overflow, StopSpools, SpoolHead
<1>3. /\ mode \in {"overflow", "spooling"}
      /\ mode' = IF Len(queue) = 1 THEN IF mode = "overflow" THEN "serving" ELSE "down"
                 ELSE mode
  BY DEF Overflow, StopSpools
<1>4. queue \in Seq(Events) /\ queue # <<>> /\ quarantined = {} /\ sequence \in Nat
  BY <1>1, <1>3, OrderTypes DEF NeedsQueue, Starting
<1>5. Len(queue) = 1 => Tail(queue) = <<>>
  <2>1. Len(queue) = 1 => ~(Len(queue) > 1)
    OBVIOUS
  <2> QED
    BY <1>4, <2>1, ShortTail
<1>6. /\ Sorted(queue') /\ Queued' \subseteq Queued /\ h \in Queued
      /\ \A g \in Queued' : h < g
  BY <1>1, <1>2, <1>4, QueueShrinks DEF Arranged
<1>7. Queued' = Queued \ {h}
  <2>1. Injective(queue) /\ Elems(queue) = Queued
    BY <1>1 DEF Placement, Elems, Queued
  <2>2. Elems(Tail(queue)) = Queued \ {h}
    BY <1>4, <2>1, TailElems
  <2> QED
    BY <1>2, <2>2 DEF Elems, Queued
<1>8. file.event = h /\ file.version = sequence + 1
  OBVIOUS
<1> HIDE DEF h, file
<1>9. /\ h \in Events /\ h \in Nat
      /\ \A i \in DOMAIN rows : rows[i].event < h /\ rows[i].event \in Nat
      /\ \A f \in spool : f.event < h /\ f.event \in Nat /\ f.version \in Nat
                          /\ f.version <= sequence
  <2>1. h \in Events /\ h \in Nat
    BY <1>1, <1>6, OrderTypes
  <2>2. \A i \in DOMAIN rows : rows[i].event < h /\ rows[i].event \in Nat
    BY <1>1, <1>6, OrderTypes DEF Arranged, QueueOrder
  <2>3. \A f \in spool : f.event < h /\ f.version <= sequence
    BY <1>1, <1>6 DEF Arranged, QueueOrder, SpoolOrder
  <2>4. \A f \in spool : f.event \in Nat /\ f.version \in Nat
    BY <1>1, OrderTypes
  <2> QED
    BY <2>1, <2>2, <2>3, <2>4
<1>10. Fated' /\ RowsOrder' /\ Receipts' /\ Finished
  BY <1>1, <1>2, <1>6 DEF Arranged, Fated, RowsOrder, Receipts, Finished, Done
<1>11. QueueOrder'
  BY <1>1, <1>2, <1>6, <1>8 DEF Arranged, QueueOrder
<1>12. SpoolOrder'
  <2>1. ASSUME NEW f \in spool' PROVE f.version <= sequence'
    BY <1>2, <1>4, <1>8, <1>9
  <2>2. ASSUME NEW f \in spool', NEW i \in DOMAIN rows, f.event < rows[i].event
        PROVE  f.event \in late
    <3>1. CASE f \in spool
      BY <1>1, <2>2, <3>1 DEF Arranged, SpoolOrder
    <3>2. CASE f = file
      BY <1>8, <1>9, <2>2, <3>2
    <3> QED
      BY <1>2, <3>1, <3>2
  <2>3. ASSUME NEW f \in spool', NEW g \in spool', f.version <= g.version
        PROVE  f.event <= g.event
    <3>1. CASE f \in spool /\ g \in spool
      BY <1>1, <2>3, <3>1 DEF Arranged, SpoolOrder
    <3>2. CASE f = file /\ g \in spool
      BY <1>4, <1>8, <1>9, <2>3, <3>2
    <3>3. CASE g = file
      BY <1>2, <1>8, <1>9, <3>3
    <3> QED
      BY <1>2, <3>1, <3>2, <3>3
  <2> QED
    BY <1>2, <2>1, <2>2, <2>3 DEF SpoolOrder
<1>13. Starting'
  BY <1>2, <1>3, <1>4, <1>5 DEF Starting
<1>14. Live'
  <2>1. SUFFICES ASSUME mode = "overflow", mode' \in {"overflow", "serving"} PROVE Live'
    BY <1>3 DEF Live, LiveModes
  <2>2. ~intake' /\ (mode' = "serving" => queue' = <<>>)
    BY <1>1, <1>2, <1>3, <1>5, <2>1 DEF Live, LiveModes
  <2>3. \A e \in Events : InFile(e) \/ e = h => InFile(e)'
    BY <1>2, <1>8 DEF InFile
  <2>4. \A e \in Events : e <= arrived' => e \in Queued' \/ Done(e)' \/ InFile(e)'
    BY <1>1, <1>2, <1>7, <1>10, <2>1, <2>3 DEF Live, LiveModes, Finished
  <2> QED
    BY <2>1, <2>2, <2>4 DEF Live, LiveModes
<1> QED
  BY <1>10, <1>11, <1>12, <1>13, <1>14 DEF OrderInv

LEMMA UnspoolOrder ==
  ASSUME Inv, OrderInv, ReplaySpool
  PROVE  OrderInv' /\ Finished
<1>1. TypeOK /\ Arranged /\ Starting
  BY DEF Inv, OrderInv, Arranged
<1>2. /\ mode = "unspooling" /\ mode' \in {"unspooling", "down"}
      /\ UNCHANGED <<arrived, fate, queue, sequence, projected, late>>
      /\ spool' \subseteq spool
      /\ mode' # "down" => quarantined' = quarantined
  BY DEF ReplaySpool, memory
<1>3. queue = <<>> /\ quarantined = {} /\ Queued = {} /\ Queued' = {} /\ DOMAIN queue' = {}
  BY <1>1, <1>2 DEF Starting, Queued
<1>4. PICK file \in spool :
        /\ \A f \in spool : file.version <= f.version
        /\ rows' = rows \/ rows' = Append(rows, Row(file.event, file.version))
  BY Zenon DEF ReplaySpool, Unspool
<1>5. RowsOrder /\ SpoolOrder /\ Receipts
  BY <1>1 DEF Arranged
<1>6. /\ RowsOrder' /\ SpoolOrder' /\ Receipts'
      /\ \A e \in Events : Discards(rows, e) => Discards(rows', e)
  <2>1. CASE rows' = rows
    BY <1>2, <1>5, <2>1 DEF RowsOrder, SpoolOrder, Receipts
  <2>2. CASE rows' = Append(rows, Row(file.event, file.version))
    <3> DEFINE r == Row(file.event, file.version)
    <3>1. file.event \in Events /\ file.version \in Nat
      BY <1>1, OrderTypes
    <3>2. r \in RowType /\ r.event = file.event /\ r.receipt = None
      BY <3>1 DEF Row, RowType
    <3>3. r.receipt # "projected"
      BY <3>2, JournalAssumption
    <3> HIDE DEF r
    <3>4. \A i \in DOMAIN rows : r.event < rows[i].event => r.event \in late'
      BY <1>2, <1>5, <3>2 DEF SpoolOrder
    <3>5. \A f \in spool' : f.event < r.event => f.event \in late'
      <4>1. \A f \in spool' : f.event \in Nat /\ file.event <= f.event
        BY <1>1, <1>2, <1>4, <1>5, OrderTypes DEF SpoolOrder
      <4>2. file.event \in Nat
        BY <1>1, OrderTypes
      <4> QED
        BY <3>2, <4>1, <4>2
    <3>6. sequence' \in Nat /\ sequence <= sequence'
      BY <1>1, <1>2, OrderTypes
    <3>7. rows' = Append(rows, r)
      BY <2>2 DEF r
    <3>8. projected \subseteq projected' /\ late \subseteq late'
      BY <1>2
    <3> QED
      BY <1>1, <1>2, <1>5, <3>2, <3>3, <3>4, <3>5, <3>6, <3>7, <3>8, OrderAppended
  <2> QED
    BY <1>4, <2>1, <2>2
<1>7. Fated' /\ QueueOrder'
  BY <1>1, <1>2, <1>3 DEF Arranged, Fated, QueueOrder, Sorted
<1>8. Starting' /\ Live'
  BY <1>2, <1>3 DEF Starting, Live, LiveModes
<1>9. Finished
  BY <1>2, <1>6 DEF Finished, Done
<1> QED
  BY <1>6, <1>7, <1>8, <1>9 DEF OrderInv

\* What the pass does to the first row of its batch, and what it leaves at its end.
LEMMA PassMoves ==
  ASSUME TypeOK, SkipRow \/ ReplayRow
  PROVE  /\ \E i \in pass.batch :
              /\ IsFirst(i, pass.batch) /\ projected' \subseteq projected \cup {rows[i].event}
              /\ projected' # projected => threadOf[rows[i].event] \notin pass.blocked
         /\ DOMAIN rows' = DOMAIN rows
         /\ \A j \in DOMAIN rows : rows'[j].event = rows[j].event
         /\ \A j \in DOMAIN rows : \/ rows'[j].receipt = rows[j].receipt
                                   \/ rows'[j].receipt = "discarded"
                                   \/ rows[j].event \in projected'
         /\ projected \subseteq projected' /\ late \subseteq late'
         /\ mode' \in {"replaying", "reading", "serving"}
         /\ mode' = "serving" => \A j \in Unreceipted(rows') : rows'[j].event \in late'
<1>1. mode = "replaying" /\ \A i \in pass.batch : i \in DOMAIN rows /\ rows[i] \in RowType
  BY DEF TypeOK, SkipRow, ReplayRow
<1>2. PICK i \in pass.batch :
        /\ IsFirst(i, pass.batch)
        /\ \E progressed, blocked : Advance(i, progressed, blocked)
        /\ \/ UNCHANGED <<rows, projected>>
           \/ threadOf[rows[i].event] \notin pass.blocked /\ Replay(i)
  <2>1. CASE SkipRow
    BY <2>1, Zenon DEF SkipRow, durable
  <2>2. CASE ReplayRow
    <3>1. PICK i \in pass.batch :
            /\ IsFirst(i, pass.batch)
            /\ threadOf[rows[i].event] \notin pass.blocked
            /\ Replay(i)
      BY <2>2, Zenon DEF ReplayRow
    <3>2. \E progressed, blocked : Advance(i, progressed, blocked)
      BY <3>1, Zenon DEF Replay
    <3> QED
      BY <3>1, <3>2, Zenon
  <2> QED
    BY <2>1, <2>2
<1>3. /\ mode' \in {"replaying", "reading", "serving"} /\ late \subseteq late'
      /\ mode' = "serving" => \A j \in Unreceipted(rows') : rows'[j].event \in late'
  <2>1. PICK progressed, blocked : Advance(i, progressed, blocked)
    BY <1>2
  <2> QED
    BY <1>1, <2>1 DEF Advance, Leave
<1>4. CASE UNCHANGED <<rows, projected>>
  BY <1>2, <1>3, <1>4
<1>5. CASE threadOf[rows[i].event] \notin pass.blocked /\ Replay(i)
  <2> DEFINE o == rows[i]
  <2>1. i \in DOMAIN rows /\ o \in RowType
    BY <1>1
  <2>2. PICK r :
          /\ Put(i, r)
          /\ \/ r = Receipted(Attempted(o), "discarded") /\ UNCHANGED projected
             \/ r = Receipted(Replayed(o), "projected")
                /\ projected' = projected \cup {Replayed(o).event}
             \/ r \in {Replayed(o), Receipted(Replayed(o), "discarded")}
                /\ projected' \in {projected, projected \cup {Replayed(o).event}}
    BY <1>5, Zenon DEF Replay
  <2>3. /\ Replayed(o) \in RowType /\ Replayed(o).event = o.event
        /\ Replayed(o).receipt = o.receipt
        /\ Attempted(o) \in RowType /\ Attempted(o).event = o.event
    BY <2>1, RowUpdates
  <2>4. /\ Receipted(Attempted(o), "discarded").event = o.event
        /\ Receipted(Replayed(o), "discarded").event = o.event
        /\ Receipted(Replayed(o), "projected").event = o.event
        /\ Receipted(Attempted(o), "discarded").receipt = "discarded"
        /\ Receipted(Replayed(o), "discarded").receipt = "discarded"
    BY <2>3, RowUpdates DEF Receipted, RowType
  <2> HIDE DEF o
  <2>5. /\ r.event = o.event
        /\ r.receipt = o.receipt \/ r.receipt = "discarded" \/ o.event \in projected'
        /\ projected' \in {projected, projected \cup {o.event}}
    BY <2>2, <2>3, <2>4
  <2>6. /\ DOMAIN rows' = DOMAIN rows
        /\ \A j \in DOMAIN rows : rows'[j] = IF j = i THEN r ELSE rows[j]
    BY <2>1, <2>2 DEF Put
  <2>7. projected \subseteq projected' /\ projected' \subseteq projected \cup {o.event}
    BY <2>5
  <2>8. \A j \in DOMAIN rows : /\ rows'[j].event = rows[j].event
                               /\ \/ rows'[j].receipt = rows[j].receipt
                                  \/ rows'[j].receipt = "discarded"
                                  \/ rows[j].event \in projected'
    BY <2>5, <2>6 DEF o
  <2> QED
    BY <1>2, <1>3, <1>5, <2>6, <2>7, <2>8 DEF o
<1> QED
  BY <1>2, <1>4, <1>5

LEMMA PassOrder ==
  ASSUME Inv, OrderInv, SkipRow \/ ReplayRow
  PROVE  OrderInv' /\ Finished
<1>1. TypeOK /\ NothingLost /\ Arranged /\ Starting
  BY DEF Inv, Placement, OrderInv, Arranged
<1>2. /\ mode = "replaying"
      /\ UNCHANGED <<arrived, fate, queue, sequence, spool, quarantined>>
  BY DEF SkipRow, ReplayRow, memory, durable
<1>3. /\ DOMAIN rows' = DOMAIN rows
      /\ \A j \in DOMAIN rows : rows'[j].event = rows[j].event
      /\ \A j \in DOMAIN rows : \/ rows'[j].receipt = rows[j].receipt
                                \/ rows'[j].receipt = "discarded"
                                \/ rows[j].event \in projected'
      /\ projected \subseteq projected' /\ late \subseteq late'
      /\ mode' \in {"replaying", "reading", "serving"}
      /\ mode' = "serving" => \A j \in Unreceipted(rows') : rows'[j].event \in late'
  BY <1>1, PassMoves
<1>4. Arranged' /\ Finished
  BY <1>1, <1>2, <1>3, Unmoved
<1>5. queue = <<>> /\ spool = {} /\ quarantined = {} /\ Queued = {}
  BY <1>1, <1>2 DEF Starting, Queued
<1>6. Starting'
  BY <1>2, <1>3, <1>5 DEF Starting
<1>7. Live'
  <2>1. SUFFICES ASSUME mode' = "serving" PROVE Live'
    BY <1>3 DEF Live, LiveModes
  <2>2. ASSUME NEW e \in Events, e <= arrived PROVE Done(e)'
    <3>1. CASE Done(e)
      BY <1>4, <3>1 DEF Finished
    <3>2. CASE HasRow(e)
      <4>1. PICK j \in DOMAIN rows : rows[j].event = e
        BY <3>2 DEF HasRow
      <4>2. j \in DOMAIN rows' /\ rows'[j].event = e
        BY <1>3, <4>1
      <4>3. CASE rows'[j].receipt = None
        <5>1. e \in late'
          BY <1>3, <2>1, <4>2, <4>3 DEF Unreceipted
        <5> QED
          BY <5>1 DEF Done
      <4>4. CASE rows'[j].receipt # None
        <5>1. TypeOK'
          BY PassSteps DEF Inv
        <5>2. rows'[j] \in RowType
          <6>1. rows' \in Seq(RowType)
            BY <5>1 DEF TypeOK
          <6> QED
            BY <4>2, <6>1
        <5>3. rows'[j].receipt \in {"projected", "discarded"}
          BY <4>4, <5>2 DEF RowType
        <5> QED
          BY <1>4, <4>2, <5>3 DEF Arranged, Receipts, Done, Discards
      <4> QED
        BY <4>3, <4>4
    <3> QED
      BY <1>1, <1>5, <2>2, <3>1, <3>2, Whereabouts DEF Arranged, InFile
  <2> QED
    BY <1>2, <1>5, <2>1, <2>2 DEF Live, LiveModes
<1> QED
  BY <1>4, <1>6, <1>7 DEF OrderInv, Arranged

\* A replay projects the first row of its batch: what came before it in its
\* thread is receipted, or was left to this start by an overflow.
LEMMA ReplayFollows ==
  ASSUME Inv, OrderInv, mode = "replaying", NEW i \in pass.batch, IsFirst(i, pass.batch),
         threadOf[rows[i].event] \notin pass.blocked,
         NEW e \in Before(rows[i].event)
  PROVE  Done(e)
<1>1. TypeOK /\ NothingLost /\ Future /\ BatchIsNext /\ Starting
      /\ Fated /\ RowsOrder /\ Receipts
  BY DEF Inv, Placement, OrderInv
<1>2. i \in DOMAIN rows /\ i \in Nat /\ rows[i].event \in Events
  BY <1>1, OrderTypes DEF TypeOK
<1>3. e \in Events /\ e < rows[i].event /\ threadOf[e] = threadOf[rows[i].event]
  BY DEF Before
<1>4. e <= arrived
  <2>1. rows[i].event <= arrived /\ rows[i].event \in Nat /\ e \in Nat /\ arrived \in Nat
    BY <1>1, <1>2, <1>3, ArrivedOnly, OrderTypes
  <2> QED
    BY <1>3, <2>1
<1>5. ~InFile(e) /\ e \notin Queued
  BY <1>1 DEF Starting, InFile, Queued
<1>6. CASE HasRow(e)
  <2>1. PICK j \in DOMAIN rows : rows[j].event = e
    BY <1>6 DEF HasRow
  <2>2. j \in Nat
    BY <1>1, <2>1, OrderTypes
  <2>3. CASE rows[j].receipt # None
    BY <1>1, <2>1, <2>3, RowDone
  <2>4. CASE rows[j].receipt = None /\ i < j
    BY <1>1, <1>2, <1>3, <2>1, <2>4 DEF RowsOrder, Done
  <2>5. CASE rows[j].receipt = None /\ ~(i < j)
    <3>1. j \in Unreceipted(rows) /\ threadOf[rows[j].event] \notin pass.blocked
      BY <1>3, <2>1, <2>5 DEF Unreceipted
    <3>2. j \in pass.batch \/ i < j
      BY <1>1, <3>1 DEF BatchIsNext
    <3>3. j = i
      BY <1>2, <2>2, <2>5, <3>2 DEF IsFirst
    <3>4. e = rows[i].event /\ e \in Nat
      BY <1>1, <1>3, <2>1, <3>3, OrderTypes
    <3> QED
      BY <1>3, <3>4
  <2> QED
    BY <2>3, <2>4, <2>5
<1> QED
  BY <1>1, <1>3, <1>4, <1>5, <1>6, Whereabouts

\* What is projected is projected behind its thread.
LEMMA ProjectsInOrder ==
  ASSUME Inv, OrderInv, Next, NEW f \in projected' \ projected, NEW e \in Before(f)
  PROVE  Done(e)'
<1>1. /\ e \in Events /\ e < f /\ threadOf[e] = threadOf[f] /\ e \in Nat
  <2>1. TypeOK
    BY DEF Inv
  <2> QED
    BY <2>1, OrderTypes DEF Before
<1>2. CASE \E g \in Events : Reject(g) \/ IngestDirectly(g) \/ Enqueue(g)
  <2>1. PICK g \in Events : Reject(g) \/ IngestDirectly(g) \/ Enqueue(g)
    BY <1>2
  <2>2. /\ \A d \in Events \ {g} : d <= arrived /\ Done(d) => Done(d)'
        /\ projected' \subseteq projected \cup {g}
        /\ \A d \in Events : d < g => Done(d)
    BY <2>1, ArrivalOrder
  <2>3. f = g /\ g = arrived + 1 /\ arrived \in Nat
    <3>1. TypeOK
      BY DEF Inv
    <3>2. g = arrived + 1
      BY <2>1 DEF Reject, IngestDirectly, Enqueue, Arrive
    <3> QED
      BY <2>2, <3>1, <3>2, OrderTypes
  <2>4. e <= arrived /\ e # g
    BY <1>1, <2>3
  <2> QED
    BY <1>1, <2>2, <2>3, <2>4
<1>3. CASE DrainHead
  <2>1. /\ \A d \in Events \ {Head(queue)} : Done(d) => Done(d)'
        /\ projected' \subseteq projected \cup {Head(queue)}
        /\ \A d \in Events : d < Head(queue) => Done(d)
    BY <1>3, DrainOrder
  <2>2. f = Head(queue)
    BY <2>1
  <2>3. e # f
    BY <1>1
  <2> QED
    BY <1>1, <2>1, <2>2, <2>3
<1>4. CASE SkipRow \/ ReplayRow
  <2>1. PICK i \in pass.batch :
              /\ IsFirst(i, pass.batch) /\ projected' \subseteq projected \cup {rows[i].event}
              /\ projected' # projected => threadOf[rows[i].event] \notin pass.blocked
    BY <1>4, PassMoves DEF Inv
  <2>2. f = rows[i].event /\ threadOf[rows[i].event] \notin pass.blocked
    BY <2>1
  <2>3. mode = "replaying" /\ e \in Before(rows[i].event)
    BY <1>4, <2>2 DEF SkipRow, ReplayRow
  <2>4. Done(e)
    BY <2>1, <2>2, <2>3, ReplayFollows
  <2> QED
    BY <1>1, <1>4, <2>4, PassOrder DEF Finished
<1>5. CASE TornReplay
  <2>1. PICK i \in pass.batch :
              /\ IsFirst(i, pass.batch) /\ threadOf[rows[i].event] \notin pass.blocked
              /\ projected' \in {projected, projected \cup {rows[i].event}}
    BY <1>5, Zenon DEF TornReplay
  <2>2. f = rows[i].event
    BY <2>1
  <2>3. mode = "replaying" /\ e \in Before(rows[i].event)
    BY <1>5, <2>2 DEF TornReplay
  <2>4. Done(e)
    BY <2>1, <2>3, ReplayFollows
  <2> QED
    BY <1>1, <1>5, <2>4, EndingOrder DEF Finished
<1>6. CASE \/ Overflow \/ StopSpools \/ OverflowStuck \/ RetryDue \/ Stop \/ DrainBlocked
           \/ StopStuck \/ Crash \/ Boot \/ ReplaySpool \/ SpoolReplayed \/ ReadBatch
  <2>1. projected' = projected
    BY <1>6 DEF Overflow, StopSpools, SpoolHead, OverflowStuck, RetryDue, Stop, DrainBlocked,
       StopStuck, Crash, Boot, ReplaySpool, SpoolReplayed, ReadBatch
  <2> QED
    BY <2>1
<1> QED
  BY <1>2, <1>3, <1>4, <1>5, <1>6, Zenon DEF Next, Startup, Retry

LEMMA InitiallyOrdered == Init => OrderInv
<1> SUFFICES ASSUME Init PROVE OrderInv
  OBVIOUS
<1>1. /\ mode = "down" /\ arrived = 0 /\ queue = <<>> /\ rows = <<>> /\ spool = {}
      /\ DOMAIN rows = {} /\ DOMAIN queue = {} /\ Queued = {}
  BY DEF Init, Queued
<1>2. Fated
  <2>1. \A e \in Events : ~(e <= arrived)
    BY <1>1, JournalAssumption DEF Events
  <2> QED
    BY <1>1, <2>1 DEF Fated
<1>3. QueueOrder /\ RowsOrder /\ SpoolOrder /\ Receipts
  BY <1>1 DEF QueueOrder, Sorted, RowsOrder, SpoolOrder, Receipts
<1>4. Starting /\ Live
  BY <1>1 DEF Starting, Live, LiveModes
<1> QED
  BY <1>2, <1>3, <1>4 DEF OrderInv

LEMMA StepKeepsOrder == Inv /\ OrderInv /\ [Next]_vars => OrderInv'
<1> SUFFICES ASSUME Inv, OrderInv, [Next]_vars PROVE OrderInv'
  OBVIOUS
<1>1. CASE \E e \in Events : Reject(e) \/ IngestDirectly(e) \/ Enqueue(e)
  BY <1>1, ArrivalOrder
<1>2. CASE Overflow \/ StopSpools
  BY <1>2, SpoolOrders
<1>3. CASE OverflowStuck \/ RetryDue \/ Stop \/ DrainBlocked \/ Boot \/ SpoolReplayed
           \/ ReadBatch \/ UNCHANGED vars
  BY <1>3, QuietOrder
<1>4. CASE DrainHead
  BY <1>4, DrainOrder
<1>5. CASE StopStuck \/ Crash \/ TornReplay
  BY <1>5, EndingOrder
<1>6. CASE ReplaySpool
  BY <1>6, UnspoolOrder
<1>7. CASE SkipRow \/ ReplayRow
  BY <1>7, PassOrder
<1> QED
  BY <1>1, <1>2, <1>3, <1>4, <1>5, <1>6, <1>7, Zenon DEF Next, Startup, Retry

\* Queue, spool and journal stay in the order of arrival, one behind the other,
\* save for what an overflow left to a later start; while the backend serves, only
\* what is queued is still to be shown.
THEOREM OrderInductive == Spec => []OrderInv
  BY InitiallyOrdered, StepKeepsOrder, JournalInductive, PTL DEF Spec

\* Live, by a retry or by a replay of some later start, an event is projected
\* behind every earlier event of its thread, except those given up, discarded or
\* left behind by a failure.
THEOREM ProjectedInOrder == Spec => InOrder
<1> DEFINE Order ==
      \A f \in projected' \ projected : \A e \in Before(f) :
         \/ e \in projected' \cup late'
         \/ fate'[e] \in GivenUp \/ Discards(rows', e)
<1>1. Inv /\ OrderInv /\ [Next]_vars => [Order]_vars
  <2> SUFFICES ASSUME Inv, OrderInv, Next,
                      NEW f \in projected' \ projected, NEW e \in Before(f)
               PROVE  \/ e \in projected' \cup late'
                      \/ fate'[e] \in GivenUp \/ Discards(rows', e)
    BY Zenon DEF Order
  <2>1. Done(e)'
    BY ProjectsInOrder
  <2> QED
    BY <2>1, Zenon DEF Done
<1> QED
  BY <1>1, JournalInductive, OrderInductive, PTL DEF Spec, InOrder

-----------------------------------------------------------------------------
(* What a pass leaves                                                        *)

ThreadAt(i) == threadOf[rows[i].event]
Skips(i) == ThreadAt(i) \in pass.blocked

\* A thread is blocked because of a row of its own that failed.
BlockedFailed ==
  \A t \in pass.blocked :
    /\ mode \in {"reading", "replaying"}
    /\ \E i \in Unreceipted(rows) : ThreadAt(i) = t /\ rows[i].attempts > 0

BatchWaits == mode = "replaying" => pass.batch \subseteq Unreceipted(rows)

\* Behind a batch that is not full there is nothing.
LastBatch ==
  mode = "replaying" /\ ~pass.full =>
    \A i \in Unreceipted(rows) : i \in pass.batch \/ Skips(i)

\* A full batch without progress is the one the next read would return.
Stuck ==
  mode = "replaying" /\ pass.full /\ ~pass.progressed =>
    /\ Cardinality(Batch(rows)) = BatchSize
    /\ \A i \in Batch(rows) : i \in pass.batch \/ Skips(i)

PassInv == BlockedFailed /\ BatchWaits /\ LastBatch /\ Stuck

\* What is left when a pass ends.
NothingMissed ==
  LET failed == {threadOf[rows'[i].event] : i \in {k \in Unreceipted(rows') :
                                                   rows'[k].attempts > 0}}
      Waits(i) == threadOf[rows'[i].event] \in failed
  IN \A i \in Unreceipted(rows') :
       \/ Waits(i)
       \/ Cardinality({j \in Unreceipted(rows') : j < i /\ Waits(j)}) >= BatchSize

\* A set of natural numbers has a least one.
LEMMA LeastNat ==
  ASSUME NEW S \in SUBSET Nat, S # {}
  PROVE  \E m \in S : \A n \in S : m <= n
<1>1. PICK m \in S : \A n \in Nat : <<n, m>> \in OpToRel(<, Nat) => n \notin S
  BY NatLessThanWellFounded, WFMin, Zenon
<1>2. \A n \in S : ~(n < m)
  BY <1>1 DEF OpToRel
<1> QED
  BY <1>2

\* The unreceipted rows ahead of row i.
Ahead(rs, i) == {j \in Unreceipted(rs) : j < i}

\* Sets of rows can be counted, and more is ahead of a later row.
LEMMA AheadFinite ==
  ASSUME NEW rs \in Seq(RowType)
  PROVE  /\ IsFiniteSet(Unreceipted(rs)) /\ Unreceipted(rs) \subseteq Nat
         /\ \A i : IsFiniteSet(Ahead(rs, i)) /\ Cardinality(Ahead(rs, i)) \in Nat
         /\ IsFiniteSet(Batch(rs)) /\ Cardinality(Batch(rs)) \in Nat
         /\ \A i, j \in Nat : i <= j => Cardinality(Ahead(rs, i)) <= Cardinality(Ahead(rs, j))
<1>1. DOMAIN rs = 1..Len(rs) /\ Len(rs) \in Nat
  OBVIOUS
<1>2. IsFiniteSet(Unreceipted(rs)) /\ Unreceipted(rs) \subseteq Nat
  <2>1. IsFiniteSet(1..Len(rs))
    BY <1>1, FS_Interval
  <2>2. Unreceipted(rs) \in SUBSET (1..Len(rs))
    BY <1>1 DEF Unreceipted
  <2> QED
    BY <2>1, <2>2, FS_Subset
<1>3. \A S \in SUBSET Unreceipted(rs) : IsFiniteSet(S) /\ Cardinality(S) \in Nat
  BY <1>2, FS_Subset, FS_CardinalityType
<1>4. \A i : Ahead(rs, i) \in SUBSET Unreceipted(rs)
  BY DEF Ahead
<1>5. Batch(rs) \in SUBSET Unreceipted(rs)
  BY DEF Batch
<1>6. ASSUME NEW i \in Nat, NEW j \in Nat, i <= j
      PROVE  Cardinality(Ahead(rs, i)) <= Cardinality(Ahead(rs, j))
  <2>1. Ahead(rs, i) \in SUBSET Ahead(rs, j)
    BY <1>2, <1>6 DEF Ahead
  <2> QED
    BY <1>3, <1>4, <2>1, FS_Subset
<1> QED
  BY <1>2, <1>3, <1>4, <1>5, <1>6

\* What is behind a batch is behind all of it.
LEMMA BatchAhead ==
  ASSUME NEW rs \in Seq(RowType), NEW i \in Unreceipted(rs), i \notin Batch(rs)
  PROVE  Batch(rs) \subseteq Ahead(rs, i) /\ Cardinality(Ahead(rs, i)) >= BatchSize
<1>1. BatchSize \in Nat /\ i \in Nat /\ Cardinality(Ahead(rs, i)) \in Nat
  BY AheadFinite, JournalAssumption
<1>2. Cardinality(Ahead(rs, i)) >= BatchSize
  BY <1>1 DEF Batch, Ahead
<1>3. ASSUME NEW k \in Batch(rs) PROVE k < i
  <2>1. k \in Unreceipted(rs) /\ k \in Nat /\ Cardinality(Ahead(rs, k)) < BatchSize
        /\ Cardinality(Ahead(rs, k)) \in Nat
    BY AheadFinite DEF Batch, Ahead
  <2>2. i <= k => Cardinality(Ahead(rs, i)) <= Cardinality(Ahead(rs, k))
    BY <1>1, <2>1, AheadFinite
  <2> QED
    BY <1>1, <1>2, <2>1, <2>2
<1> QED
  BY <1>2, <1>3 DEF Batch, Ahead

\* A batch that leaves something behind is full.
LEMMA FullBatch ==
  ASSUME NEW rs \in Seq(RowType), Batch(rs) # Unreceipted(rs)
  PROVE  Cardinality(Batch(rs)) = BatchSize
<1> DEFINE U == Unreceipted(rs)
           B == Batch(rs)
<1>1. BatchSize \in Nat \ {0} /\ U \subseteq Nat /\ B \subseteq U
  BY AheadFinite, JournalAssumption DEF Batch
<1>2. IsFiniteSet(B) /\ Cardinality(B) \in Nat
  BY AheadFinite
<1>3. Cardinality(B) >= BatchSize
  <2>1. PICK i \in U \ B : \A n \in U \ B : i <= n
    <3>1. U \ B \in SUBSET Nat /\ U \ B # {}
      BY <1>1
    <3> HIDE DEF U, B
    <3> QED
      BY <3>1, LeastNat
  <2>2. B \subseteq Ahead(rs, i) /\ Cardinality(Ahead(rs, i)) >= BatchSize
    BY BatchAhead
  <2>3. Ahead(rs, i) \subseteq B
    BY <2>1, <1>1 DEF Ahead
  <2>4. Ahead(rs, i) = B
    BY <2>2, <2>3
  <2> QED
    BY <2>2, <2>4
<1>4. PICK m \in B : \A n \in B : n <= m
  <2> DEFINE S == {Len(rs) - b : b \in B}
  <2>1. Len(rs) \in Nat /\ \A b \in B : b \in Nat /\ Len(rs) - b \in Nat
    BY DEF Batch, Unreceipted
  <2>2. B # {}
    <3>1. Cardinality(B) # 0
      BY <1>1, <1>2, <1>3
    <3> QED
      BY <3>1, FS_EmptySet
  <2>3. S \in SUBSET Nat /\ S # {}
    <3> HIDE DEF B
    <3> QED
      BY <2>1, <2>2
  <2> HIDE DEF S
  <2>4. PICK s \in S : \A n \in S : s <= n
    BY <2>3, LeastNat
  <2>5. PICK m \in B : s = Len(rs) - m
    BY DEF S
  <2>6. ASSUME NEW n \in B PROVE n <= m
    <3>1. s <= Len(rs) - n
      BY <2>4 DEF S
    <3> QED
      BY <2>1, <2>5, <3>1
  <2> QED
    BY <2>5, <2>6
<1>5. B \ {m} \subseteq Ahead(rs, m)
  BY <1>1, <1>4 DEF Ahead
<1>6. IsFiniteSet(Ahead(rs, m)) /\ Cardinality(Ahead(rs, m)) \in Nat
      /\ Cardinality(Ahead(rs, m)) < BatchSize
  BY AheadFinite DEF Batch, Ahead
<1>7. Cardinality(B \ {m}) <= Cardinality(Ahead(rs, m))
  BY <1>5, <1>6, FS_Subset
<1>8. Cardinality(B \ {m}) = Cardinality(B) - 1
  BY <1>2, <1>4, FS_RemoveElement
<1> QED
  BY <1>1, <1>2, <1>3, <1>6, <1>7, <1>8

\* The three things a step of a pass does with row i: it skips it, it fails it or
\* it is done with it.
Dealt(i, r, progressed, blocked) ==
  \/ /\ r = rows[i] /\ Skips(i)
     /\ progressed = pass.progressed /\ blocked = pass.blocked
  \/ /\ r.receipt = rows[i].receipt /\ r.attempts > 0
     /\ progressed = pass.progressed /\ blocked = pass.blocked \cup {ThreadAt(i)}
  \/ /\ r.receipt # None /\ ~Skips(i)
     /\ progressed = TRUE /\ blocked = pass.blocked

\* Every step of a pass is one of the three, and the loop goes on from there.
LEMMA PassDeals ==
  ASSUME TypeOK, SkipRow \/ ReplayRow
  PROVE  \E i \in pass.batch, r \in RowType, progressed \in BOOLEAN, blocked \in SUBSET Threads :
           /\ i \in DOMAIN rows /\ r.event = rows[i].event
           /\ Put(i, r) /\ Dealt(i, r, progressed, blocked) /\ Advance(i, progressed, blocked)
<1>1. /\ rows \in Seq(RowType)
      /\ \A i \in pass.batch : i \in DOMAIN rows /\ rows[i] \in RowType
      /\ pass.progressed \in BOOLEAN /\ pass.blocked \in SUBSET Threads
  BY DEF TypeOK
<1>2. CASE SkipRow
  <2>1. PICK i \in pass.batch :
          threadOf[rows[i].event] \in pass.blocked /\ Advance(i, pass.progressed, pass.blocked)
    BY <1>2, Zenon DEF SkipRow
  <2>2. Put(i, rows[i])
    BY <1>1, <1>2 DEF SkipRow, durable, Put
  <2>3. Dealt(i, rows[i], pass.progressed, pass.blocked)
    BY <2>1 DEF Dealt, Skips, ThreadAt
  <2> QED
    BY <1>1, <2>1, <2>2, <2>3
<1>3. CASE ReplayRow
  <2>1. PICK i \in pass.batch : threadOf[rows[i].event] \notin pass.blocked /\ Replay(i)
    BY <1>3, Zenon DEF ReplayRow
  <2> DEFINE o == rows[i]
             t == threadOf[o.event]
             lost == Receipted(Attempted(o), "discarded")
             shown == Receipted(Replayed(o), "projected")
             dropped == Receipted(Replayed(o), "discarded")
  <2>2. i \in DOMAIN rows /\ o \in RowType /\ o.attempts \in Nat /\ o.event \in Events
    BY <1>1 DEF RowType
  <2>3. /\ Replayed(o) \in RowType /\ Replayed(o).event = o.event
        /\ Replayed(o).receipt = o.receipt /\ Replayed(o).attempts = o.attempts + 1
        /\ Attempted(o) \in RowType /\ Attempted(o).event = o.event
    BY <2>2, RowUpdates
  <2>4. /\ lost \in RowType /\ shown \in RowType /\ dropped \in RowType
        /\ lost.event = o.event /\ shown.event = o.event /\ dropped.event = o.event
    BY <2>3, RowUpdates
  <2>5. lost.receipt # None /\ shown.receipt # None /\ dropped.receipt # None
    BY <2>3, JournalAssumption DEF Receipted, RowType
  <2>6. pass.blocked \cup {t} \in SUBSET Threads
    BY <2>2, <1>1, JournalAssumption
  <2>7. ~Skips(i) /\ ThreadAt(i) = t
    BY <2>1 DEF Skips, ThreadAt
  <2>8. Replayed(o).attempts > 0
    BY <2>2, <2>3
  <2>9. \/ /\ \E r \in {lost, shown, dropped} : Put(i, r)
           /\ Advance(i, TRUE, pass.blocked)
        \/ Put(i, Replayed(o)) /\ Advance(i, pass.progressed, pass.blocked \cup {t})
    <3>1. threadOf[Replayed(rows[i]).event] = t
      BY <2>3
    <3> QED
      BY <2>1, <3>1, Zenon DEF Replay
  <2> HIDE DEF lost, shown, dropped, t
  <2>10. CASE /\ \E r \in {lost, shown, dropped} : Put(i, r)
              /\ Advance(i, TRUE, pass.blocked)
    <3>1. PICK r \in {lost, shown, dropped} : Put(i, r)
      BY <2>10
    <3>2. r \in RowType /\ r.event = o.event /\ r.receipt # None
      BY <2>4, <2>5
    <3>3. Dealt(i, r, TRUE, pass.blocked)
      BY <2>7, <3>2 DEF Dealt
    <3> QED
      BY <1>1, <2>2, <2>10, <3>1, <3>2, <3>3
  <2>11. CASE Put(i, Replayed(o)) /\ Advance(i, pass.progressed, pass.blocked \cup {t})
    <3>1. Dealt(i, Replayed(o), pass.progressed, pass.blocked \cup {t})
      BY <2>3, <2>7, <2>8 DEF Dealt
    <3> QED
      BY <1>1, <2>2, <2>3, <2>6, <2>11, <3>1
  <2> QED
    BY <2>9, <2>10, <2>11
<1> QED
  BY <1>2, <1>3

\* A step of a pass, and its end.
LEMMA PassKeepsPass ==
  ASSUME TypeOK, PassInv, SkipRow \/ ReplayRow
  PROVE  PassInv' /\ (mode' = "serving" => NothingMissed)
<1>1. /\ mode = "replaying" /\ rows \in Seq(RowType)
      /\ \A i \in DOMAIN rows : rows[i] \in RowType
      /\ pass \in Passes(DOMAIN rows)
      /\ BlockedFailed /\ BatchWaits /\ LastBatch /\ Stuck
  BY DEF TypeOK, PassInv, SkipRow, ReplayRow, Passes
<1>2. PICK i \in pass.batch, r \in RowType, progressed \in BOOLEAN, blocked \in SUBSET Threads :
        /\ i \in DOMAIN rows /\ r.event = rows[i].event
        /\ Put(i, r) /\ Dealt(i, r, progressed, blocked) /\ Advance(i, progressed, blocked)
  BY PassDeals, Zenon
<1>3. /\ rows' \in Seq(RowType) /\ DOMAIN rows' = DOMAIN rows
      /\ \A j \in DOMAIN rows : rows'[j] = IF j = i THEN r ELSE rows[j]
      /\ \A j \in DOMAIN rows : threadOf[rows'[j].event] = ThreadAt(j)
  BY <1>1, <1>2 DEF Put, ThreadAt
<1>4. i \in Unreceipted(rows) /\ rows[i].receipt = None
  BY <1>1, <1>2 DEF BatchWaits, Unreceipted
<1>5. Unreceipted(rows') \subseteq Unreceipted(rows)
  BY <1>3, <1>4 DEF Unreceipted
<1>6. /\ pass.blocked \subseteq blocked
      /\ ~progressed => Unreceipted(rows') = Unreceipted(rows) /\ ThreadAt(i) \in blocked
                        /\ ~pass.progressed
  <2>1. pass.blocked \subseteq blocked
    BY <1>2 DEF Dealt
  <2>2. ASSUME ~progressed
        PROVE r.receipt = rows[i].receipt /\ ThreadAt(i) \in blocked /\ ~pass.progressed
    BY <1>2, <2>2 DEF Dealt, Skips
  <2>3. ASSUME ~progressed PROVE Unreceipted(rows') = Unreceipted(rows)
    BY <1>3, <2>2, <2>3 DEF Unreceipted
  <2> QED
    BY <2>1, <2>2, <2>3
<1>7. \A j \in Unreceipted(rows') : j # i => j \in Unreceipted(rows)
  BY <1>5
<1>8. \A j \in Unreceipted(rows') : j = i => ThreadAt(i) \in blocked
  <2> SUFFICES ASSUME i \in Unreceipted(rows') PROVE ThreadAt(i) \in blocked
    OBVIOUS
  <2>1. r.receipt = None
    BY <1>2, <1>3 DEF Unreceipted
  <2> QED
    BY <1>2, <2>1 DEF Dealt, Skips
<1>9. \A t \in blocked : \E j \in Unreceipted(rows') :
         threadOf[rows'[j].event] = t /\ rows'[j].attempts > 0
  <2> SUFFICES ASSUME NEW t \in blocked
               PROVE  \E j \in Unreceipted(rows') :
                        threadOf[rows'[j].event] = t /\ rows'[j].attempts > 0
    OBVIOUS
  <2>1. CASE t \in pass.blocked
    <3>1. PICK j \in Unreceipted(rows) : ThreadAt(j) = t /\ rows[j].attempts > 0
      BY <1>1, <2>1 DEF BlockedFailed
    <3>2. j \in DOMAIN rows
      BY DEF Unreceipted
    <3>3. CASE j # i
      BY <1>3, <3>1, <3>2, <3>3 DEF Unreceipted
    <3>4. CASE j = i
      <4>1. Skips(i)
        BY <2>1, <3>1, <3>4 DEF Skips
      <4>2. r.receipt = None /\ r.attempts > 0
        BY <1>2, <1>4, <3>1, <3>4, <4>1 DEF Dealt
      <4> QED
        BY <1>2, <1>3, <3>1, <3>4, <4>2 DEF Unreceipted
    <3> QED
      BY <3>3, <3>4
  <2>2. CASE t \notin pass.blocked
    <3>1. t = ThreadAt(i) /\ r.receipt = None /\ r.attempts > 0
      BY <1>2, <1>4, <2>2 DEF Dealt
    <3> QED
      BY <1>2, <1>3, <3>1 DEF Unreceipted
  <2> QED
    BY <2>1, <2>2
<1>10. ~pass.full => \A j \in Unreceipted(rows') :
          j \in pass.batch \ {i} \/ threadOf[rows'[j].event] \in blocked
  <2> SUFFICES ASSUME ~pass.full, NEW j \in Unreceipted(rows'), j # i
               PROVE  j \in pass.batch \/ threadOf[rows'[j].event] \in blocked
    BY <1>2, <1>3, <1>8
  <2>1. j \in pass.batch \/ ThreadAt(j) \in pass.blocked
    BY <1>1, <1>5 DEF LastBatch, Skips
  <2>2. j \in DOMAIN rows
    BY <1>5 DEF Unreceipted
  <2> QED
    BY <1>3, <1>6, <2>1, <2>2
<1>11. pass.full /\ ~progressed =>
         /\ Cardinality(Batch(rows')) = BatchSize
         /\ \A j \in Batch(rows') :
              j \in pass.batch \ {i} \/ threadOf[rows'[j].event] \in blocked
  <2> SUFFICES ASSUME pass.full, ~progressed
               PROVE  /\ Cardinality(Batch(rows')) = BatchSize
                      /\ \A j \in Batch(rows') :
                           j \in pass.batch \ {i} \/ threadOf[rows'[j].event] \in blocked
    OBVIOUS
  <2>1. Batch(rows') = Batch(rows)
    BY <1>6 DEF Batch
  <2>2. Cardinality(Batch(rows)) = BatchSize
        /\ \A j \in Batch(rows) : j \in pass.batch \/ ThreadAt(j) \in pass.blocked
    BY <1>1, <1>6 DEF Stuck, Skips
  <2>3. \A j \in Batch(rows) : j \in DOMAIN rows
    BY DEF Batch, Unreceipted
  <2> QED
    BY <1>2, <1>3, <1>6, <2>1, <2>2, <2>3
<1>12. CASE pass.batch \ {i} # {}
  <2>1. /\ mode' = "replaying" /\ pass'.batch = pass.batch \ {i} /\ pass'.full = pass.full
        /\ pass'.progressed = progressed /\ pass'.blocked = blocked
    BY <1>1, <1>2, <1>12 DEF Advance, Passes
  <2>2. BlockedFailed'
    BY <1>9, <2>1 DEF BlockedFailed, ThreadAt
  <2>3. BatchWaits'
    <3> SUFFICES ASSUME NEW j \in pass.batch, j # i PROVE j \in Unreceipted(rows')
      BY <2>1 DEF BatchWaits
    <3>1. j \in Unreceipted(rows)
      BY <1>1 DEF BatchWaits
    <3> QED
      BY <1>3, <3>1 DEF Unreceipted
  <2>4. LastBatch'
    BY <1>10, <2>1 DEF LastBatch, Skips, ThreadAt
  <2>5. Stuck'
    BY <1>11, <2>1 DEF Stuck, Skips, ThreadAt
  <2> QED
    BY <2>1, <2>2, <2>3, <2>4, <2>5 DEF PassInv
<1>13. CASE pass.batch \ {i} = {} /\ pass.full /\ progressed
  <2>1. mode' = "reading" /\ pass' = [NoPass EXCEPT !.blocked = blocked]
    BY <1>2, <1>13 DEF Advance
  <2>2. pass'.blocked = blocked
    BY <2>1 DEF NoPass
  <2> QED
    BY <1>9, <2>1, <2>2 DEF PassInv, BlockedFailed, BatchWaits, LastBatch, Stuck, ThreadAt
<1>14. CASE pass.batch \ {i} = {} /\ ~(pass.full /\ progressed)
  <2>1. mode' = "serving" /\ pass' = NoPass
    BY <1>2, <1>14 DEF Advance
  <2>2. pass'.blocked = {}
    BY <2>1 DEF NoPass
  <2>3. PassInv'
    BY <2>1, <2>2 DEF PassInv, BlockedFailed, BatchWaits, LastBatch, Stuck
  <2> DEFINE failed == {threadOf[rows'[k].event] : k \in {k \in Unreceipted(rows') :
                                                          rows'[k].attempts > 0}}
  <2>4. \A t \in blocked : t \in failed
    BY <1>9
  <2> SUFFICES ASSUME NEW j \in Unreceipted(rows'), threadOf[rows'[j].event] \notin failed
               PROVE  Cardinality({k \in Unreceipted(rows') :
                                   k < j /\ threadOf[rows'[k].event] \in failed}) >= BatchSize
    BY <2>3 DEF NothingMissed
  <2> HIDE DEF failed
  <2> DEFINE W == {k \in Unreceipted(rows') : k < j /\ threadOf[rows'[k].event] \in failed}
  <2>5. pass.full /\ ~progressed
    BY <1>10, <1>14, <2>4
  <2>6. /\ Cardinality(Batch(rows')) = BatchSize
        /\ \A k \in Batch(rows') : threadOf[rows'[k].event] \in failed
    BY <1>11, <1>14, <2>4, <2>5
  <2>7. j \notin Batch(rows')
    BY <2>6
  <2>8. Batch(rows') \subseteq Ahead(rows', j)
    <3>1. PICK rs : rs = rows'
      OBVIOUS
    <3> QED
      BY <1>3, <2>7, <3>1, BatchAhead
  <2>9. Batch(rows') \in SUBSET W /\ W \in SUBSET Unreceipted(rows')
    BY <2>6, <2>8 DEF Ahead
  <2>10. IsFiniteSet(W) /\ Cardinality(W) \in Nat
    <3>1. PICK rs : rs = rows'
      OBVIOUS
    <3>2. IsFiniteSet(Unreceipted(rows'))
      BY <1>3, <3>1, AheadFinite
    <3> QED
      BY <2>9, <3>2, FS_Subset, FS_CardinalityType
  <2>11. Cardinality(Batch(rows')) <= Cardinality(W)
    BY <2>9, <2>10, FS_Subset
  <2> QED
    BY <2>6, <2>10, <2>11, JournalAssumption
<1> QED
  BY <1>12, <1>13, <1>14

\* A read begins with the rows it returns.
LEMMA ReadKeepsPass ==
  ASSUME TypeOK, PassInv, ReadBatch
  PROVE  PassInv'
<1>1. /\ mode = "reading" /\ rows \in Seq(RowType) /\ rows' = rows
      /\ BlockedFailed
  BY DEF TypeOK, PassInv, ReadBatch, durable
<1>2. CASE Unreceipted(rows) = {}
  <2>1. mode' = "serving" /\ pass'.blocked = {}
    BY <1>2 DEF ReadBatch, NoPass
  <2> QED
    BY <2>1 DEF PassInv, BlockedFailed, BatchWaits, LastBatch, Stuck
<1>3. CASE Unreceipted(rows) # {}
  <2>1. /\ mode' = "replaying" /\ pass'.batch = Batch(rows) /\ pass'.blocked = pass.blocked
        /\ pass'.full = (Cardinality(Batch(rows)) = BatchSize)
    BY <1>3 DEF ReadBatch
  <2>2. BlockedFailed'
    BY <1>1, <2>1 DEF BlockedFailed, ThreadAt
  <2>3. BatchWaits'
    BY <1>1, <2>1 DEF BatchWaits, Batch
  <2>4. LastBatch'
    <3>1. ~pass'.full => Batch(rows) = Unreceipted(rows)
      BY <1>1, <2>1, FullBatch
    <3> QED
      BY <1>1, <2>1, <3>1 DEF LastBatch
  <2>5. Stuck'
    BY <1>1, <2>1 DEF Stuck
  <2> QED
    BY <2>2, <2>3, <2>4, <2>5 DEF PassInv
<1> QED
  BY <1>2, <1>3

\* Outside of a pass no thread is blocked.
LEMMA OtherKeepsPass ==
  ASSUME Inv, PassInv, Next, ~(SkipRow \/ ReplayRow \/ ReadBatch)
  PROVE  PassInv' /\ (mode = "replaying" => mode' # "serving")
<1>1. BlockedFailed /\ TypeOK /\ NeedsQueue
  BY DEF PassInv, Inv
<1>2. /\ mode' # "replaying"
      /\ mode = "replaying" => mode' = "down"
      /\ pass' = NoPass \/ (pass' = pass /\ mode \notin {"reading", "replaying"})
  <2>1. CASE \E e \in Events : Reject(e) \/ IngestDirectly(e) \/ Enqueue(e)
    BY <2>1 DEF Reject, IngestDirectly, Enqueue, Arrive, Process, TornProcess, Lose
  <2>2. CASE DrainHead
    BY <2>2 DEF DrainHead, Process, TornProcess, Lose
  <2>3. CASE StopStuck \/ Crash \/ TornReplay
    BY <2>3 DEF StopStuck, Crash, TornReplay, Lose
  <2>4. CASE Overflow \/ StopSpools
    BY <2>4 DEF Overflow, StopSpools, SpoolHead
  <2>5. CASE OverflowStuck \/ RetryDue \/ Stop \/ DrainBlocked \/ Boot \/ SpoolReplayed
    BY <2>5 DEF OverflowStuck, RetryDue, Stop, DrainBlocked, Boot, SpoolReplayed
  <2>6. CASE ReplaySpool
    BY <2>6 DEF ReplaySpool
  <2> QED
    BY <2>1, <2>2, <2>3, <2>4, <2>5, <2>6, Zenon DEF Next, Startup, Retry
<1>3. pass'.blocked = {}
  BY <1>1, <1>2 DEF NoPass, BlockedFailed
<1> QED
  BY <1>2, <1>3 DEF PassInv, BlockedFailed, BatchWaits, LastBatch, Stuck

\* No step breaks what the pass relies on.
LEMMA StepKeepsPass == Inv /\ PassInv /\ [Next]_vars => PassInv'
<1> SUFFICES ASSUME Inv, PassInv, [Next]_vars PROVE PassInv'
  OBVIOUS
<1>1. TypeOK
  BY DEF Inv
<1>2. CASE UNCHANGED vars
  <2>1. UNCHANGED <<mode, rows, pass>>
    BY <1>2 DEF vars, durable
  <2> QED
    BY <2>1 DEF PassInv, BlockedFailed, BatchWaits, LastBatch, Stuck, ThreadAt, Skips
<1> QED
  BY <1>1, <1>2, PassKeepsPass, ReadKeepsPass, OtherKeepsPass

\* A thread is held back only behind a row of its own that failed, what is behind
\* the batch is known from its size, and a full batch without progress is the one
\* the next read would return.
THEOREM PassInductive == Spec => []PassInv
<1>1. Init => PassInv
  BY DEF Init, NoPass, PassInv, BlockedFailed, BatchWaits, LastBatch, Stuck
<1> QED
  BY <1>1, StepKeepsPass, JournalInductive, PTL DEF Spec

\* A replay pass that ends has dealt with every row, except those of threads that
\* failed and those behind a full batch of such rows.
THEOREM PassLeavesFailures == Spec => PassIsComplete
<1> DEFINE Ends == mode = "replaying" /\ mode' = "serving" => NothingMissed
<1>1. Inv /\ PassInv /\ [Next]_vars => [Ends]_vars
  <2> SUFFICES ASSUME Inv, PassInv, Next, mode = "replaying", mode' = "serving"
               PROVE  NothingMissed
    BY Zenon DEF Ends
  <2>1. TypeOK
    BY DEF Inv
  <2>2. SkipRow \/ ReplayRow
    <3>1. ~ReadBatch
      BY DEF ReadBatch
    <3> QED
      BY <3>1, OtherKeepsPass
  <2> QED
    BY <2>1, <2>2, PassKeepsPass
<1> QED
  BY <1>1, JournalInductive, PassInductive, PTL DEF Spec, PassIsComplete, NothingMissed
=============================================================================
