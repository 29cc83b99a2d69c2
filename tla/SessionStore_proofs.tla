------------------------ MODULE SessionStore_proofs ------------------------
(* Proofs about SessionStore: the projection is always the replay of the     *)
(* log; with clients that leave deleted sessions alone an acknowledged event *)
(* is on disk; and with spans computed by plan_request compaction forgets    *)
(* nothing, splits no call from its result, and is kept by forks.            *)
EXTENDS SessionStore, FiniteSetTheorems, WellFoundedInduction, TLAPS

(***************************************************************************)
(* MessagesAreReplay is not inductive alone.  Writing one event into the    *)
(* rows gives the replay of the longer log only if the event is the newest  *)
(* of it, which needs head_seq to bound every seq; for a fork that bound is *)
(* the number of events copied, so logs must be finite.  And a restart takes *)
(* the tables from disk, so the disk must be sound as well.                  *)
(***************************************************************************)
\* An event whose other fields are of some set A.
EventOf(A) ==
  [seq : Nat, kind : A, call : A, ref : A, lo : A, hi : A, covers : A]

IsEvent(e) == \E A : e \in EventOf(A)

IsLog(events, head) ==
  /\ IsFiniteSet(events)
  /\ \A e \in events : IsEvent(e) /\ e.seq <= head

TablesOf(A) ==
  [live : SUBSET Sessions, origin : A, head : [Sessions -> Nat],
   events : [Sessions -> A], rows : [Sessions -> A], blobs : A, refcount : A]

IsTables(d) == \E A : d \in TablesOf(A)

Sound(d) ==
  /\ IsTables(d)
  /\ \A s \in Sessions : IsLog(d.events[s], d.head[s])
  /\ \A s \in Sessions : d.rows[s] = replay_events(d.events[s])

IInv == Sound(db) /\ Sound(disk)

-----------------------------------------------------------------------------
(* One event.                                                               *)

\* Projecting the newest event into the rows is replaying the longer log.
LEMMA ReplayAppend ==
  ASSUME NEW events, NEW e, e.seq \in Nat,
         \A f \in events : f.seq \in Nat /\ f.seq < e.seq
  PROVE  replay_events(events \cup {e}) = write_rows(replay_events(events), e)
<1>1. \A f \in events \cup {e} : ~Replaced(e, f)
  BY DEF Replaced
<1>2. \A f \in events : Replaced(f, e) <=> e.kind = "compacted" /\ f.seq \in e.lo..e.hi
  BY DEF Replaced
<1> QED BY <1>1, <1>2 DEF replay_events, write_rows

LEMMA ReplayNone == replay_events({}) = {}
BY DEF replay_events

LEMMA EventSeq == ASSUME NEW e, IsEvent(e) PROVE e.seq \in Nat
BY DEF IsEvent, EventOf

LEMMA TablesHead ==
  ASSUME NEW d, IsTables(d)
  PROVE  d.live \subseteq Sessions /\ d.head \in [Sessions -> Nat]
BY DEF IsTables, TablesOf

LEMMA AppendedFields ==
  ASSUME NEW d, IsTables(d), NEW s \in Sessions, NEW e, e.seq \in Nat
  PROVE  /\ IsTables(Appended(d, s, e))
         /\ Appended(d, s, e).live = d.live
         /\ Appended(d, s, e).events[s] = d.events[s] \cup {e}
         /\ Appended(d, s, e).rows[s] = write_rows(d.rows[s], e)
         /\ Appended(d, s, e).head[s] = e.seq
         /\ \A t \in Sessions \ {s} :
              /\ Appended(d, s, e).events[t] = d.events[t]
              /\ Appended(d, s, e).rows[t] = d.rows[t]
              /\ Appended(d, s, e).head[t] = d.head[t]
<1>1. PICK A : d \in TablesOf(A)
  BY DEF IsTables
<1> DEFINE count == Appended(d, s, e).refcount
           B == A \cup {d.events[s] \cup {e}, write_rows(d.rows[s], e), count}
<1>2. Appended(d, s, e) =
        [d EXCEPT !.events[s] = @ \cup {e}, !.rows[s] = write_rows(@, e),
                  !.head[s] = e.seq, !.refcount = count]
  BY <1>1 DEF Appended, TablesOf
<1>3. Appended(d, s, e) \in TablesOf(B)
  <2> HIDE DEF count
  <2>1. A \subseteq B /\ count \in B
    OBVIOUS
  <2>2. [d.events EXCEPT ![s] = @ \cup {e}] \in [Sessions -> B]
    BY <1>1 DEF TablesOf
  <2>3. [d.rows EXCEPT ![s] = write_rows(@, e)] \in [Sessions -> B]
    BY <1>1 DEF TablesOf
  <2>4. [d.head EXCEPT ![s] = e.seq] \in [Sessions -> Nat]
    BY <1>1 DEF TablesOf
  <2> HIDE DEF B
  <2> QED BY <1>1, <1>2, <2>1, <2>2, <2>3, <2>4 DEF TablesOf
<1>4. IsTables(Appended(d, s, e))
  BY <1>3 DEF IsTables
<1> HIDE DEF count, B
<1> QED BY <1>1, <1>2, <1>4 DEF TablesOf

LEMMA AppendedSound ==
  ASSUME NEW d, Sound(d), NEW s \in Sessions, NEW e, IsEvent(e),
         e.seq = d.head[s] + 1
  PROVE  Sound(Appended(d, s, e))
<1> DEFINE n == Appended(d, s, e)
<1>1. e.seq \in Nat /\ IsTables(d)
  BY EventSeq DEF Sound
<1>2. d.head[s] \in Nat
  BY <1>1, TablesHead
<1>3. /\ IsTables(n)
      /\ n.events[s] = d.events[s] \cup {e}
      /\ n.rows[s] = write_rows(d.rows[s], e)
      /\ n.head[s] = d.head[s] + 1
      /\ \A t \in Sessions \ {s} :
           n.events[t] = d.events[t] /\ n.rows[t] = d.rows[t] /\ n.head[t] = d.head[t]
  BY <1>1, AppendedFields
<1> HIDE DEF n
<1>4. \A t \in Sessions :
        IsLog(d.events[t], d.head[t]) /\ d.rows[t] = replay_events(d.events[t])
  BY DEF Sound
<1>5. IsLog(n.events[s], n.head[s])
  <2>1. IsFiniteSet(d.events[s] \cup {e})
    BY <1>4, FS_AddElement DEF IsLog
  <2>2. ASSUME NEW f \in d.events[s] \cup {e}
        PROVE  IsEvent(f) /\ f.seq <= d.head[s] + 1
    <3>1. IsEvent(f) /\ f.seq \in Nat
      BY <1>4, EventSeq DEF IsLog
    <3> QED BY <1>2, <1>4, <3>1 DEF IsLog
  <2> QED BY <1>3, <2>1, <2>2 DEF IsLog
<1>6. n.rows[s] = replay_events(n.events[s])
  <2>1. \A f \in d.events[s] : f.seq \in Nat /\ f.seq < e.seq
    BY <1>2, <1>4, EventSeq DEF IsLog
  <2> QED BY <1>1, <1>3, <1>4, <2>1, ReplayAppend
<1>7. \A t \in Sessions :
        IsLog(n.events[t], n.head[t]) /\ n.rows[t] = replay_events(n.events[t])
  BY <1>3, <1>4, <1>5, <1>6
<1> QED BY <1>3, <1>7 DEF Sound, n

-----------------------------------------------------------------------------
(* Forks.                                                                    *)

LEMMA RenumberedBound ==
  ASSUME NEW copies, IsFiniteSet(copies), NEW e \in copies
  PROVE  /\ Renumbered(copies, e.seq) \in Nat
         /\ Renumbered(copies, e.seq) <= Cardinality(copies)
<1> DEFINE low == {f \in copies : f.seq <= e.seq}
<1>1. low \subseteq copies
  OBVIOUS
<1>2. IsFiniteSet(low) /\ Cardinality(low) <= Cardinality(copies)
  BY <1>1, FS_Subset
<1>3. Cardinality(low) \in Nat
  BY <1>2, FS_CardinalityType
<1> QED BY <1>2, <1>3 DEF Renumbered

LEMMA RemapIsEvent ==
  ASSUME NEW copies, NEW e, IsEvent(e), Renumbered(copies, e.seq) \in Nat
  PROVE  /\ IsEvent(remap_event_seq(copies, e))
         /\ remap_event_seq(copies, e).seq = Renumbered(copies, e.seq)
<1>1. PICK A : e \in EventOf(A)
  BY DEF IsEvent
<1> DEFINE B == A \cup {Renumbered(copies, e.lo), Renumbered(copies, e.hi)}
<1>2. remap_event_seq(copies, e) \in EventOf(B)
  BY <1>1 DEF remap_event_seq, EventOf
<1>3. remap_event_seq(copies, e).seq = Renumbered(copies, e.seq)
  BY <1>1 DEF remap_event_seq, EventOf
<1> QED BY <1>2, <1>3 DEF IsEvent

\* What a fork copies is a log of its own, headed by the number of events.
LEMMA CopiedLog ==
  ASSUME Sound(db), NEW s \in Sessions, NEW at
  PROVE  LET copies == Copies(s, at)
         IN  /\ IsLog({remap_event_seq(copies, e) : e \in copies}, Cardinality(copies))
             /\ Cardinality(copies) \in Nat
<1> DEFINE copies == Copies(s, at)
           new == {remap_event_seq(copies, e) : e \in copies}
<1>1. IsLog(db.events[s], db.head[s]) /\ copies \subseteq db.events[s]
  BY DEF Sound, Copies
<1>2. IsFiniteSet(copies)
  BY <1>1, FS_Subset DEF IsLog
<1>3. IsFiniteSet(new)
  <2> DEFINE f == [e \in copies |-> remap_event_seq(copies, e)]
  <2> HIDE DEF copies
  <2>1. f \in Surjection(copies, new)
    <3>1. f \in [copies -> new] /\ \A y \in new : \E e \in copies : f[e] = y
      OBVIOUS
    <3> QED BY <3>1 DEF Surjection
  <2>2. new = Range(f)
    BY DEF Range
  <2> QED BY <1>2, <2>1, FS_Surjection
<1>4. Cardinality(copies) \in Nat
  BY <1>2, FS_CardinalityType
<1>5. ASSUME NEW e \in copies
      PROVE  /\ IsEvent(remap_event_seq(copies, e))
             /\ remap_event_seq(copies, e).seq <= Cardinality(copies)
  <2>1. IsEvent(e)
    BY <1>1 DEF IsLog
  <2> HIDE DEF copies
  <2> QED BY <1>2, <2>1, RenumberedBound, RemapIsEvent
<1> QED BY <1>3, <1>4, <1>5 DEF IsLog

LEMMA ForkedSound ==
  ASSUME Sound(db), NEW s \in Sessions, NEW n \in Sessions, NEW copied,
         NEW head \in Nat, IsLog(copied, head)
  PROVE  Sound(Forked(s, n, copied, head))
<1> DEFINE f == Forked(s, n, copied, head)
<1>1. PICK A : db \in TablesOf(A)
  BY DEF Sound, IsTables
<1>2. IsTables(f)
  <2> DEFINE o2 == [db.origin EXCEPT ![n] = s]
             B == A \cup {o2, copied, replay_events(copied)}
  <2>1. A \subseteq B /\ o2 \in B
    OBVIOUS
  <2>2. [db.events EXCEPT ![n] = copied] \in [Sessions -> B]
    BY <1>1 DEF TablesOf
  <2>3. [db.rows EXCEPT ![n] = replay_events(copied)] \in [Sessions -> B]
    BY <1>1 DEF TablesOf
  <2>4. [db.head EXCEPT ![n] = head] \in [Sessions -> Nat]
    BY <1>1 DEF TablesOf
  <2>5. db.live \cup {n} \in SUBSET Sessions
    BY <1>1 DEF TablesOf
  <2>6. f = [db EXCEPT !.live = db.live \cup {n}, !.origin = o2,
               !.events = [db.events EXCEPT ![n] = copied],
               !.rows = [db.rows EXCEPT ![n] = replay_events(copied)],
               !.head = [db.head EXCEPT ![n] = head]]
    BY <1>1 DEF Forked, TablesOf
  <2> HIDE DEF f, o2, B
  <2>7. f \in TablesOf(B)
    BY <1>1, <2>1, <2>2, <2>3, <2>4, <2>5, <2>6 DEF TablesOf
  <2> QED BY <2>7 DEF IsTables
<1>3. /\ f.events[n] = copied /\ f.rows[n] = replay_events(copied) /\ f.head[n] = head
      /\ \A t \in Sessions \ {n} :
           f.events[t] = db.events[t] /\ f.rows[t] = db.rows[t] /\ f.head[t] = db.head[t]
  BY <1>1 DEF Forked, TablesOf
<1> HIDE DEF f
<1>4. \A t \in Sessions :
        IsLog(f.events[t], f.head[t]) /\ f.rows[t] = replay_events(f.events[t])
  BY <1>3 DEF Sound
<1> QED BY <1>2, <1>4 DEF Sound, f

-----------------------------------------------------------------------------
(* The other writes.                                                        *)

LEMMA EmptySound == Sound(EmptyDb)
<1> DEFINE B == {EmptyDb.origin, EmptyDb.blobs, EmptyDb.refcount, {}}
<1>1. EmptyDb \in TablesOf(B)
  BY DEF EmptyDb, TablesOf
<1>2. \A s \in Sessions :
        EmptyDb.events[s] = {} /\ EmptyDb.rows[s] = {} /\ EmptyDb.head[s] = 0
  BY DEF EmptyDb
<1> QED BY <1>1, <1>2, ReplayNone, FS_EmptySet DEF Sound, IsTables, IsLog

\* What leaves logs, rows and heads alone keeps them sound.
LEMMA OtherFieldsSound ==
  ASSUME NEW d, Sound(d), NEW n, IsTables(n),
         n.events = d.events, n.rows = d.rows, n.head = d.head
  PROVE  Sound(n)
BY DEF Sound

LEMMA CreatedSound ==
  ASSUME Sound(db), NEW s \in Sessions
  PROVE  Sound([db EXCEPT !.live = @ \cup {s}])
<1>1. PICK A : db \in TablesOf(A)
  BY DEF Sound, IsTables
<1> DEFINE n == [db EXCEPT !.live = @ \cup {s}]
<1>2. /\ n \in TablesOf(A)
      /\ n.events = db.events /\ n.rows = db.rows /\ n.head = db.head
  BY <1>1 DEF TablesOf
<1> QED BY <1>2, OtherFieldsSound DEF IsTables

LEMMA UploadedSound ==
  ASSUME Sound(db), NEW b
  PROVE  Sound([db EXCEPT !.blobs = @ \cup {b}])
<1>1. PICK A : db \in TablesOf(A)
  BY DEF Sound, IsTables
<1> DEFINE n == [db EXCEPT !.blobs = @ \cup {b}]
<1>2. /\ n \in TablesOf(A \cup {db.blobs \cup {b}})
      /\ n.events = db.events /\ n.rows = db.rows /\ n.head = db.head
  BY <1>1 DEF TablesOf
<1> QED BY <1>2, OtherFieldsSound DEF IsTables

LEMMA DeletedSound ==
  ASSUME Sound(db), NEW s \in Sessions
  PROVE  Sound(Deleted(s))
<1> DEFINE n == Deleted(s)
<1>1. PICK A : db \in TablesOf(A)
  BY DEF Sound, IsTables
<1>2. IsTables(n)
  <2> DEFINE o2 == n.origin
             b2 == n.blobs
             c2 == n.refcount
             B == A \cup {o2, b2, c2, {}}
  <2>1. n = [db EXCEPT !.live = @ \ {s}, !.head[s] = 0, !.events[s] = {},
               !.rows[s] = {}, !.origin = o2, !.blobs = b2, !.refcount = c2]
    BY <1>1 DEF Deleted, TablesOf
  <2>2. A \subseteq B /\ o2 \in B /\ b2 \in B /\ c2 \in B /\ {} \in B
    OBVIOUS
  <2>3. /\ [db.events EXCEPT ![s] = {}] \in [Sessions -> B]
        /\ [db.rows EXCEPT ![s] = {}] \in [Sessions -> B]
        /\ [db.head EXCEPT ![s] = 0] \in [Sessions -> Nat]
        /\ db.live \ {s} \in SUBSET Sessions
    BY <1>1 DEF TablesOf
  <2> HIDE DEF n, o2, b2, c2, B
  <2>4. n \in TablesOf(B)
    BY <1>1, <2>1, <2>2, <2>3 DEF TablesOf
  <2> QED BY <2>4 DEF IsTables
<1>3. /\ n.events[s] = {} /\ n.rows[s] = {} /\ n.head[s] = 0
      /\ \A t \in Sessions \ {s} :
           n.events[t] = db.events[t] /\ n.rows[t] = db.rows[t] /\ n.head[t] = db.head[t]
  BY <1>1 DEF Deleted, TablesOf
<1> HIDE DEF n
<1>4. IsLog({}, 0)
  BY FS_EmptySet DEF IsLog
<1>5. \A t \in Sessions :
        IsLog(n.events[t], n.head[t]) /\ n.rows[t] = replay_events(n.events[t])
  BY <1>3, <1>4, ReplayNone DEF Sound
<1> QED BY <1>2, <1>5 DEF Sound, n

LEMMA ReprojectedSound ==
  ASSUME NEW d, Sound(d)
  PROVE  Sound(Reprojected(d))
<1> DEFINE r2 == [s \in Sessions |-> replay_events(d.events[s])]
           n == [d EXCEPT !.rows = r2]
<1>1. PICK A : d \in TablesOf(A)
  BY DEF Sound, IsTables
<1> DEFINE B == A \cup {replay_events(d.events[s]) : s \in Sessions}
<1>2. A \subseteq B /\ r2 \in [Sessions -> B]
  OBVIOUS
<1> HIDE DEF r2
<1>3. n \in TablesOf(B)
  <2> HIDE DEF B
  <2> QED BY <1>1, <1>2 DEF TablesOf
<1>4. n.events = d.events /\ n.head = d.head /\ n.rows = r2
  BY <1>1 DEF TablesOf
<1> HIDE DEF n
<1>5. \A s \in Sessions :
        IsLog(n.events[s], n.head[s]) /\ n.rows[s] = replay_events(n.events[s])
  BY <1>4 DEF Sound, r2
<1> QED BY <1>3, <1>5 DEF Sound, IsTables, Reprojected, n, r2

-----------------------------------------------------------------------------
(* The steps.                                                               *)

\* A committed or buffered write of sound tables.
LEMMA WriteSound ==
  ASSUME IInv, NEW d, Sound(d), Write(d)
  PROVE  IInv'
<1>1. db' = d /\ (disk' = d \/ disk' = disk)
  BY DEF Write
<1>2. Sound(db') /\ Sound(disk')
  BY <1>1 DEF IInv
<1> QED BY <1>2 DEF IInv, Sound, IsTables, TablesOf, IsLog, IsEvent, EventOf

LEMMA Unwritten ==
  ASSUME IInv, UNCHANGED <<db, disk>>
  PROVE  IInv'
BY DEF IInv, Sound, IsTables, TablesOf, IsLog, IsEvent, EventOf

LEMMA AppendStep ==
  ASSUME IInv, NEW s \in Sessions, NEW e, IsEvent(e), append(s, e)
  PROVE  IInv'
<1> DEFINE stamped == [e EXCEPT !.seq = db.head[s] + 1]
<1>1. CASE s \in db.live
  <2>1. Write(Appended(db, s, stamped))
    BY <1>1 DEF append
  <2>2. db.head[s] + 1 \in Nat
    BY TablesHead DEF IInv, Sound
  <2>3. PICK A : e \in EventOf(A)
    BY DEF IsEvent
  <2>4. stamped \in EventOf(A) /\ stamped.seq = db.head[s] + 1
    BY <2>2, <2>3 DEF EventOf
  <2> HIDE DEF stamped
  <2>5. Sound(Appended(db, s, stamped))
    BY <2>4, AppendedSound DEF IInv, IsEvent
  <2> QED BY <2>1, <2>5, WriteSound
<1>2. CASE s \notin db.live
  BY <1>2, Unwritten DEF append
<1> QED BY <1>1, <1>2

LEMMA WrittenAreEvents ==
  /\ \A k, c, r : IsEvent(Message(k, c, r))
  /\ \A k : IsEvent(Note(k))
  /\ \A p : IsEvent(Compacted(p))
<1>1. ASSUME NEW k, NEW c, NEW r PROVE IsEvent(Message(k, c, r))
  <2>1. Message(k, c, r) \in EventOf({k, c, r, 0, {nextEvent}})
    BY DEF Message, EventOf
  <2> QED BY <2>1 DEF IsEvent
<1>2. ASSUME NEW k PROVE IsEvent(Note(k))
  <2>1. Note(k) \in EventOf({k, NoBlob, 0, {}})
    BY DEF Note, EventOf
  <2> QED BY <2>1 DEF IsEvent
<1>3. ASSUME NEW p PROVE IsEvent(Compacted(p))
  <2>1. Compacted(p) \in EventOf({"compacted", NoBlob, 0, p.lo, p.hi, p.covers})
    BY DEF Compacted, EventOf
  <2> QED BY <2>1 DEF IsEvent
<1> QED BY <1>1, <1>2, <1>3

LEMMA ForkStep ==
  ASSUME IInv, NEW s \in Sessions, NEW n \in Sessions, NEW copied,
         NEW head \in Nat, IsLog(copied, head), Fork(s, n, copied, head)
  PROVE  IInv'
<1>1. CASE s \in db.live
  BY <1>1, ForkedSound, WriteSound DEF Fork, IInv
<1>2. CASE s \notin db.live
  BY <1>2, Unwritten DEF Fork
<1> QED BY <1>1, <1>2

LEMMA IInvInit == Init => IInv
BY EmptySound DEF Init, IInv

LEMMA SessionStepSound ==
  ASSUME IInv, NEW s \in Sessions, SessionStep(s)
  PROVE  IInv'
<1>1. CASE create_session(s)
  BY <1>1, CreatedSound, WriteSound DEF create_session, IInv
<1>2. CASE delete_session(s)
  BY <1>2, DeletedSound, WriteSound DEF delete_session, IInv
<1>3. ASSUME NEW b \in Blobs, put_blob(s, b) PROVE IInv'
  BY <1>3, UploadedSound, WriteSound DEF put_blob, IInv
<1>4. CASE AppendText(s)
  <2>1. PICK b : append(s, Message("text", 0, b))
    BY <1>4 DEF AppendText
  <2> QED BY <2>1, WrittenAreEvents, AppendStep
<1>5. CASE AppendCall(s)
  BY <1>5, WrittenAreEvents, AppendStep DEF AppendCall
<1>6. CASE AppendResult(s)
  <2>1. PICK c : append(s, Message("result", c, NoBlob))
    BY <1>6 DEF AppendResult
  <2> QED BY <2>1, WrittenAreEvents, AppendStep
<1>7. ASSUME NEW kind, AppendNote(s, kind) PROVE IInv'
  BY <1>7, WrittenAreEvents, AppendStep DEF AppendNote
<1>8. CASE PlanCompaction(s)
  BY <1>8, Unwritten DEF PlanCompaction
<1>9. CASE AppendCompacted(s)
  <2>1. PICK p : append(s, Compacted(p))
    BY <1>9 DEF AppendCompacted
  <2> QED BY <2>1, WrittenAreEvents, AppendStep
<1>10. CASE GiveUp(s)
  BY <1>10, Unwritten DEF GiveUp
<1>11. ASSUME NEW n \in Sessions, fork_session_empty(s, n) PROVE IInv'
  <2>1. IsLog({}, 0)
    BY FS_EmptySet DEF IsLog
  <2> QED BY <1>11, <2>1, ForkStep DEF fork_session_empty
<1>12. ASSUME NEW n \in Sessions, NEW at, fork_session(s, n, at) PROVE IInv'
  <2> DEFINE copies == Copies(s, at)
             copied == {remap_event_seq(copies, e) : e \in copies}
  <2>1. IsLog(copied, Cardinality(copies)) /\ Cardinality(copies) \in Nat
    BY CopiedLog DEF IInv
  <2>2. Fork(s, n, copied, Cardinality(copies))
    BY <1>12 DEF fork_session
  <2> HIDE DEF copied, copies
  <2> QED BY <2>1, <2>2, ForkStep
<1> QED BY <1>1, <1>2, <1>3, <1>4, <1>5, <1>6, <1>7, <1>8, <1>9, <1>10, <1>11,
           <1>12 DEF SessionStep

LEMMA RestartSound ==
  ASSUME IInv, NEW rebuild, Restart(rebuild)
  PROVE  IInv'
<1>1. Sound(disk) /\ Sound(Reprojected(disk))
  BY ReprojectedSound DEF IInv
<1>2. Sound(db') /\ Sound(disk')
  BY <1>1 DEF Restart
<1> QED BY <1>2 DEF IInv, Sound, IsTables, TablesOf, IsLog, IsEvent, EventOf

LEMMA IInvStep == IInv /\ [Next]_vars => IInv'
<1> SUFFICES ASSUME IInv, [Next]_vars PROVE IInv'
  OBVIOUS
<1>1. ASSUME NEW s \in Sessions, SessionStep(s) PROVE IInv'
  BY <1>1, SessionStepSound
<1>2. ASSUME NEW rebuild, Restart(rebuild) PROVE IInv'
  BY <1>2, RestartSound
<1>3. CASE UNCHANGED vars
  BY <1>3, Unwritten DEF vars
<1> QED BY <1>1, <1>2, <1>3 DEF Next

\* R-STOR-060: in every behaviour, for any sessions and blobs, through forks,
\* deletions, compactions and restarts, and also when a transaction is left
\* open, the messages kept beside the log are what replaying the log gives.
THEOREM ProjectionIsReplay == Spec => []MessagesAreReplay
<1>1. IInv => MessagesAreReplay
  BY DEF IInv, Sound, MessagesAreReplay
<1> QED BY <1>1, IInvInit, IInvStep, PTL DEF Spec

-----------------------------------------------------------------------------
(* What the threads have in hand.                                            *)

HandsTyped ==
  /\ \E A : calls \in [Sessions -> A]
  /\ \E A : spans \in [Sessions -> A]
  /\ \E A : uploads \in [Sessions -> A]

HandsKept(t) ==
  calls'[t] = calls[t] /\ spans'[t] = spans[t] /\ uploads'[t] = uploads[t]

LEMMA FunctionUpdate ==
  ASSUME NEW f, \E A : f \in [Sessions -> A], NEW s \in Sessions, NEW v
  PROVE  /\ \E A : [f EXCEPT ![s] = v] \in [Sessions -> A]
         /\ [f EXCEPT ![s] = v][s] = v
         /\ \A t \in Sessions \ {s} : [f EXCEPT ![s] = v][t] = f[t]
<1>1. PICK A : f \in [Sessions -> A]
  OBVIOUS
<1>2. [f EXCEPT ![s] = v] \in [Sessions -> A \cup {v}]
  BY <1>1
<1> QED BY <1>1, <1>2

LEMMA HandsUpdate ==
  ASSUME HandsTyped, NEW s \in Sessions, NEW v
  PROVE  /\ calls' = [calls EXCEPT ![s] = v] =>
              /\ \E A : calls' \in [Sessions -> A]
              /\ calls'[s] = v /\ \A t \in Sessions \ {s} : calls'[t] = calls[t]
         /\ spans' = [spans EXCEPT ![s] = v] =>
              /\ \E A : spans' \in [Sessions -> A]
              /\ spans'[s] = v /\ \A t \in Sessions \ {s} : spans'[t] = spans[t]
         /\ uploads' = [uploads EXCEPT ![s] = v] =>
              /\ \E A : uploads' \in [Sessions -> A]
              /\ uploads'[s] = v /\ \A t \in Sessions \ {s} : uploads'[t] = uploads[t]
<1>1. ASSUME calls' = [calls EXCEPT ![s] = v]
      PROVE  /\ \E A : calls' \in [Sessions -> A]
             /\ calls'[s] = v /\ \A t \in Sessions \ {s} : calls'[t] = calls[t]
  BY <1>1, FunctionUpdate DEF HandsTyped
<1>2. ASSUME spans' = [spans EXCEPT ![s] = v]
      PROVE  /\ \E A : spans' \in [Sessions -> A]
             /\ spans'[s] = v /\ \A t \in Sessions \ {s} : spans'[t] = spans[t]
  BY <1>2, FunctionUpdate DEF HandsTyped
<1>3. ASSUME uploads' = [uploads EXCEPT ![s] = v]
      PROVE  /\ \E A : uploads' \in [Sessions -> A]
             /\ uploads'[s] = v /\ \A t \in Sessions \ {s} : uploads'[t] = uploads[t]
  BY <1>3, FunctionUpdate DEF HandsTyped
<1> QED BY <1>1, <1>2, <1>3

\* A step of s takes nothing from the threads of another session.
LEMMA OwnHands ==
  ASSUME HandsTyped, NEW s \in Sessions, SessionStep(s)
  PROVE  HandsTyped' /\ \A t \in Sessions \ {s} : HandsKept(t)
<1>1. /\ UNCHANGED calls \/ \E v : calls' = [calls EXCEPT ![s] = v]
      /\ UNCHANGED spans \/ \E v : spans' = [spans EXCEPT ![s] = v]
      /\ UNCHANGED uploads \/ \E v : uploads' = [uploads EXCEPT ![s] = v]
  <2>1. CASE create_session(s) \/ delete_session(s) \/ \E b \in Blobs : put_blob(s, b)
    BY <2>1 DEF create_session, delete_session, put_blob
  <2>2. CASE AppendText(s) \/ AppendCall(s) \/ AppendResult(s)
    BY <2>2 DEF AppendText, AppendCall, AppendResult
  <2>3. CASE \E kind \in {"model", "usage"} : AppendNote(s, kind)
    BY <2>3 DEF AppendNote
  <2>4. CASE PlanCompaction(s) \/ AppendCompacted(s) \/ GiveUp(s)
    BY <2>4 DEF PlanCompaction, AppendCompacted, GiveUp
  <2>5. CASE \E n \in Sessions :
               \/ fork_session_empty(s, n)
               \/ \E at \in 0..MaxEvents : fork_session(s, n, at)
    BY <2>5 DEF fork_session_empty, fork_session
  <2> QED BY <2>1, <2>2, <2>3, <2>4, <2>5 DEF SessionStep
<1>2. (\E A : calls' \in [Sessions -> A])
      /\ \A t \in Sessions \ {s} : calls'[t] = calls[t]
  BY <1>1, HandsUpdate DEF HandsTyped
<1>3. (\E A : spans' \in [Sessions -> A])
      /\ \A t \in Sessions \ {s} : spans'[t] = spans[t]
  BY <1>1, HandsUpdate DEF HandsTyped
<1>4. (\E A : uploads' \in [Sessions -> A])
      /\ \A t \in Sessions \ {s} : uploads'[t] = uploads[t]
  BY <1>1, HandsUpdate DEF HandsTyped
<1> QED BY <1>2, <1>3, <1>4 DEF HandsTyped, HandsKept

-----------------------------------------------------------------------------
(***************************************************************************)
(* Durability.  When no client writes to a deleted session, no operation    *)
(* leaves the transaction open, so that disk and connection agree; the      *)
(* induction needs that a thread in the middle of something works on a      *)
(* session that exists, which a deletion would break.                       *)
(***************************************************************************)
Durable ==
  /\ openTx = FALSE /\ disk = db
  /\ \E A : acked \in [Sessions -> A]
  /\ HandsTyped
  /\ \A s \in Sessions :
       /\ InHand(s) => s \in db.live
       /\ acked[s] \subseteq db.events[s]

DInv == IInv /\ Durable

LEMMA AckedUpdate ==
  ASSUME Durable, NEW s \in Sessions, NEW v, acked' = [acked EXCEPT ![s] = v]
  PROVE  /\ \E A : acked' \in [Sessions -> A]
         /\ acked'[s] = v
         /\ \A t \in Sessions \ {s} : acked'[t] = acked[t]
<1>1. \E A : acked \in [Sessions -> A]
  BY DEF Durable
<1> QED BY <1>1, FunctionUpdate

LEMMA AppendDurable ==
  ASSUME DInv, NEW s \in Sessions, s \in db.live, NEW e, IsEvent(e), append(s, e),
         HandsTyped', \A t \in Sessions \ {s} : HandsKept(t)
  PROVE  Durable'
<1> DEFINE stamped == [e EXCEPT !.seq = db.head[s] + 1]
           n == Appended(db, s, stamped)
<1>1. /\ db' = n /\ disk' = n /\ openTx' = FALSE
      /\ acked' = [acked EXCEPT ![s] = acked[s] \cup {stamped}]
  BY DEF append, DInv, Durable, Write
<1>2. stamped.seq \in Nat /\ IsTables(db)
  <2>1. db.head[s] + 1 \in Nat
    BY TablesHead DEF DInv, IInv, Sound
  <2>2. PICK A : e \in EventOf(A)
    BY DEF IsEvent
  <2> QED BY <2>1, <2>2 DEF EventOf, DInv, IInv, Sound
<1> HIDE DEF stamped
<1>3. /\ n.live = db.live /\ n.events[s] = db.events[s] \cup {stamped}
      /\ \A t \in Sessions \ {s} : n.events[t] = db.events[t]
  BY <1>2, AppendedFields
<1> HIDE DEF n
<1>4. /\ \E A : acked' \in [Sessions -> A]
      /\ acked'[s] = acked[s] \cup {stamped}
      /\ \A t \in Sessions \ {s} : acked'[t] = acked[t]
  BY <1>1, AckedUpdate DEF DInv
<1>5. ASSUME NEW t \in Sessions
      PROVE  /\ InHand(t)' => t \in db'.live
             /\ acked'[t] \subseteq db'.events[t]
  BY <1>1, <1>3, <1>4 DEF DInv, Durable, InHand, HandsKept
<1> QED BY <1>1, <1>4, <1>5 DEF Durable

LEMMA ForkDurable ==
  ASSUME DInv, NEW s \in Sessions, s \in db.live, NEW n \in Sessions,
         NEW copied, NEW head, Fork(s, n, copied, head),
         UNCHANGED <<calls, spans, uploads>>
  PROVE  Durable'
<1> DEFINE f == Forked(s, n, copied, head)
<1>1. db' = f /\ disk' = f /\ openTx' = FALSE /\ acked' = [acked EXCEPT ![n] = copied]
  BY DEF Fork, DInv, Durable, Write
<1>2. /\ f.live = db.live \cup {n} /\ f.events[n] = copied
      /\ \A t \in Sessions \ {n} : f.events[t] = db.events[t]
  <2>1. PICK A : db \in TablesOf(A)
    BY DEF DInv, IInv, Sound, IsTables
  <2> QED BY <2>1 DEF Forked, TablesOf
<1> HIDE DEF f
<1>3. /\ \E A : acked' \in [Sessions -> A]
      /\ acked'[n] = copied
      /\ \A t \in Sessions \ {n} : acked'[t] = acked[t]
  BY <1>1, AckedUpdate DEF DInv
<1>4. HandsTyped' /\ \A t \in Sessions : InHand(t)' => t \in db'.live
  BY <1>1, <1>2 DEF DInv, Durable, HandsTyped, InHand
<1> QED BY <1>1, <1>2, <1>3, <1>4 DEF DInv, Durable

\* A write that keeps every log and every session, with nothing left in hand of
\* a session that is not there.
LEMMA KeptDurable ==
  ASSUME DInv, NEW s \in Sessions, NEW d, Write(d), d.events = db.events,
         db.live \subseteq d.live, UNCHANGED <<openTx, acked>>, HandsTyped',
         \A t \in Sessions \ {s} : HandsKept(t), InHand(s)' => s \in d.live
  PROVE  Durable'
<1>1. \A t \in Sessions : InHand(t)' => t \in d.live
  BY DEF DInv, Durable, InHand, HandsKept
<1> QED BY <1>1 DEF DInv, Durable, Write

LEMMA DurableStep ==
  ASSUME Careful, DInv, NEW s \in Sessions, SessionStep(s)
  PROVE  Durable'
<1>1. PICK A : db \in TablesOf(A)
  BY DEF DInv, IInv, Sound, IsTables
<1>2. HandsTyped' /\ \A t \in Sessions \ {s} : HandsKept(t)
  BY OwnHands DEF DInv, Durable
<1>3. CASE create_session(s)
  <2> DEFINE d == [db EXCEPT !.live = @ \cup {s}]
  <2>1. Write(d) /\ UNCHANGED <<openTx, acked>>
    BY <1>3 DEF create_session
  <2>2. d.events = db.events /\ db.live \subseteq d.live /\ s \in d.live
    BY <1>1 DEF TablesOf
  <2> HIDE DEF d
  <2> QED BY <1>2, <2>1, <2>2, KeptDurable
<1>4. CASE delete_session(s)
  <2> DEFINE d == Deleted(s)
  <2>1. /\ db' = d /\ disk' = d /\ ~InHand(s)
        /\ acked' = [acked EXCEPT ![s] = {}]
        /\ UNCHANGED <<openTx, calls, spans, uploads>>
    BY <1>4 DEF delete_session, Write, DInv, Durable
  <2>2. /\ d.live = db.live \ {s}
        /\ \A t \in Sessions \ {s} : d.events[t] = db.events[t]
    BY <1>1 DEF Deleted, TablesOf
  <2> HIDE DEF d
  <2>3. /\ \E B : acked' \in [Sessions -> B]
        /\ acked'[s] = {}
        /\ \A t \in Sessions \ {s} : acked'[t] = acked[t]
    BY <2>1, AckedUpdate DEF DInv
  <2>4. \A t \in Sessions : InHand(t)' => t \in db'.live
    BY <2>1, <2>2 DEF DInv, Durable, InHand
  <2> QED BY <1>2, <2>1, <2>2, <2>3, <2>4 DEF DInv, Durable
<1>5. ASSUME NEW b \in Blobs, put_blob(s, b) PROVE Durable'
  <2> DEFINE d == [db EXCEPT !.blobs = @ \cup {b}]
  <2>1. Write(d) /\ UNCHANGED <<openTx, acked>> /\ s \in db.live
    BY <1>5 DEF put_blob, Open
  <2>2. d.events = db.events /\ d.live = db.live
    BY <1>1 DEF TablesOf
  <2> HIDE DEF d
  <2> QED BY <1>2, <2>1, <2>2, KeptDurable
<1>6. CASE AppendText(s)
  <2>1. PICK b \in uploads[s] \cup {NoBlob} :
          (b = NoBlob => Open(s)) /\ append(s, Message("text", 0, b))
    BY <1>6 DEF AppendText
  <2>2. s \in db.live
    BY <2>1 DEF Open, InHand, DInv, Durable
  <2> QED BY <1>2, <2>1, <2>2, WrittenAreEvents, AppendDurable
<1>7. CASE AppendCall(s)
  BY <1>2, <1>7, WrittenAreEvents, AppendDurable DEF AppendCall, Open
<1>8. CASE AppendResult(s)
  <2>1. PICK c \in calls[s] : append(s, Message("result", c, NoBlob))
    BY <1>8 DEF AppendResult
  <2>2. s \in db.live
    BY <2>1 DEF InHand, DInv, Durable
  <2> QED BY <1>2, <2>1, <2>2, WrittenAreEvents, AppendDurable
<1>9. ASSUME NEW kind, AppendNote(s, kind) PROVE Durable'
  BY <1>2, <1>9, WrittenAreEvents, AppendDurable DEF AppendNote, Open
<1>10. CASE PlanCompaction(s)
  <2>1. UNCHANGED <<db, disk, openTx, acked>> /\ s \in db.live
    BY <1>10 DEF PlanCompaction
  <2>2. \A t \in Sessions : InHand(t)' => t \in db'.live
    BY <1>2, <2>1 DEF DInv, Durable, InHand, HandsKept
  <2> QED BY <1>2, <2>1, <2>2 DEF DInv, Durable
<1>11. CASE AppendCompacted(s)
  <2>1. PICK p \in spans[s] : append(s, Compacted(p))
    BY <1>11 DEF AppendCompacted
  <2>2. s \in db.live
    BY <2>1 DEF InHand, DInv, Durable
  <2> QED BY <1>2, <2>1, <2>2, WrittenAreEvents, AppendDurable
<1>12. CASE GiveUp(s)
  <2>1. UNCHANGED <<db, disk, openTx, acked>> /\ InHand(s)
    BY <1>12 DEF GiveUp, InHand
  <2>2. \A t \in Sessions : InHand(t)' => t \in db'.live
    BY <1>2, <2>1 DEF DInv, Durable, InHand, HandsKept
  <2> QED BY <1>2, <2>1, <2>2 DEF DInv, Durable
<1>13. ASSUME NEW n \in Sessions, fork_session_empty(s, n) PROVE Durable'
  BY <1>13, ForkDurable DEF fork_session_empty, Open
<1>14. ASSUME NEW n \in Sessions, NEW at, fork_session(s, n, at) PROVE Durable'
  <2> DEFINE copied == {remap_event_seq(Copies(s, at), e) : e \in Copies(s, at)}
             head == Cardinality(Copies(s, at))
  <2>1. /\ Fork(s, n, copied, head) /\ s \in db.live
        /\ UNCHANGED <<calls, spans, uploads>>
    BY <1>14 DEF fork_session, Open
  <2> HIDE DEF copied, head
  <2> QED BY <2>1, ForkDurable
<1> QED BY <1>3, <1>4, <1>5, <1>6, <1>7, <1>8, <1>9, <1>10, <1>11, <1>12, <1>13,
           <1>14 DEF SessionStep

LEMMA RestartHands ==
  ASSUME NEW rebuild, Restart(rebuild)
  PROVE  HandsTyped' /\ \A s \in Sessions : ~InHand(s)'
<1>1. /\ calls' = [s \in Sessions |-> {}] /\ spans' = [s \in Sessions |-> {}]
      /\ uploads' = [s \in Sessions |-> {}]
  BY DEF Restart
<1>2. /\ calls' \in [Sessions -> {{}}] /\ spans' \in [Sessions -> {{}}]
      /\ uploads' \in [Sessions -> {{}}]
  BY <1>1
<1> QED BY <1>1, <1>2 DEF HandsTyped, InHand

LEMMA RestartDurable ==
  ASSUME DInv, NEW rebuild, Restart(rebuild)
  PROVE  Durable'
<1>1. PICK A : disk \in TablesOf(A)
  BY DEF DInv, IInv, Sound, IsTables
<1>2. Reprojected(disk).live = disk.live /\ Reprojected(disk).events = disk.events
  BY <1>1 DEF Reprojected, TablesOf
<1>3. /\ disk' = db' /\ db'.live = db.live /\ db'.events = db.events
      /\ openTx' = FALSE /\ UNCHANGED acked
  BY <1>2 DEF Restart, DInv, Durable
<1> QED BY <1>3, RestartHands DEF DInv, Durable

LEMMA InitHands ==
  ASSUME Init
  PROVE  HandsTyped /\ \A s \in Sessions : ~InHand(s)
<1>1. /\ calls \in [Sessions -> {{}}] /\ spans \in [Sessions -> {{}}]
      /\ uploads \in [Sessions -> {{}}]
  BY DEF Init
<1> QED BY <1>1 DEF HandsTyped, InHand

LEMMA DInvInit == Init => DInv
<1> SUFFICES ASSUME Init PROVE DInv
  OBVIOUS
<1>1. acked \in [Sessions -> {{}}] /\ \A s \in Sessions : acked[s] = {}
  BY DEF Init
<1>2. openTx = FALSE /\ disk = db
  BY DEF Init
<1> QED BY <1>1, <1>2, InitHands, IInvInit DEF DInv, Durable

LEMMA DInvStep == Careful /\ DInv /\ [Next]_vars => DInv'
<1> SUFFICES ASSUME Careful, DInv, [Next]_vars PROVE Durable'
  BY IInvStep DEF DInv
<1>1. ASSUME NEW s \in Sessions, SessionStep(s) PROVE Durable'
  BY <1>1, DurableStep
<1>2. ASSUME NEW rebuild, Restart(rebuild) PROVE Durable'
  BY <1>2, RestartDurable
<1>3. CASE UNCHANGED vars
  BY <1>3 DEF vars, DInv, Durable, HandsTyped, InHand
<1> QED BY <1>1, <1>2, <1>3 DEF Next

\* R-STOR-900, with clients that leave a deleted session alone: whatever is
\* killed and restarted, each acknowledged event and session is on disk.
THEOREM AcknowledgedIsDurable ==
  ASSUME Careful
  PROVE  Spec => []AckedDurable
<1>1. DInv => AckedDurable
  BY DEF DInv, Durable, AckedDurable
<1>2. DInv /\ [Next]_vars => DInv'
  BY DInvStep
<1> QED BY <1>1, <1>2, DInvInit, PTL DEF Spec

-----------------------------------------------------------------------------
(***************************************************************************)
(* Compaction, with every span computed by plan_request.  The rows alone do *)
(* not say why nothing is forgotten: the log does.  In it every range ends  *)
(* at rows, covers what it replaces, and leaves nothing replaced behind it,  *)
(* so that a range starting at the first row takes only rows; and no range   *)
(* ends between a call and its result.  Prefixes and renumberings, which is *)
(* what a fork is made of, keep all of it.                                   *)
(***************************************************************************)
(* The list a plan is made from.                                             *)

\* Entries are told apart by their seq and their place under it.
IsList(list) ==
  /\ IsFiniteSet(list)
  /\ \A x \in list : x[1].seq \in Nat /\ x[2] \in {0, 1}
  /\ \A x, y \in list : x[1].seq = y[1].seq /\ x[2] = y[2] => x = y

Before(x, y) == \/ x[1].seq < y[1].seq
                \/ x[1].seq = y[1].seq /\ x[2] < y[2]

\* Rows with distinct seqs give such a list.
LEMMA ClosedIsList ==
  ASSUME NEW rows, IsFiniteSet(rows),
         \A r \in rows : r.seq \in Nat /\ Synthesized(r).seq = r.seq,
         \A r, q \in rows : r.seq = q.seq => r = q
  PROVE  IsList(close_orphan_tool_calls(rows))
<1> DEFINE real == {<<r, 0>> : r \in rows}
           open == {c \in rows : c.kind = "call" /\ ~Answered(rows, c)}
           made == {<<Synthesized(r), 1>> : r \in open}
<1>1. close_orphan_tool_calls(rows) = real \cup made
  BY DEF close_orphan_tool_calls
<1>2. IsFiniteSet(real)
  <2>1. [r \in rows |-> <<r, 0>>] \in Surjection(rows, real)
    BY DEF Surjection
  <2> QED BY <2>1, FS_Surjection
<1>3. IsFiniteSet(made)
  <2>1. open \subseteq rows
    OBVIOUS
  <2>2. IsFiniteSet(open)
    BY <2>1, FS_Subset
  <2> HIDE DEF open
  <2>3. [r \in open |-> <<Synthesized(r), 1>>] \in Surjection(open, made)
    BY DEF Surjection
  <2> QED BY <2>2, <2>3, FS_Surjection
<1>4. IsFiniteSet(real \cup made)
  BY <1>2, <1>3, FS_Union
<1>5. ASSUME NEW x \in real \cup made
      PROVE  \/ \E r \in rows : x[1] = r /\ x[2] = 0 /\ x = <<r, 0>>
             \/ \E r \in rows : x[1] = Synthesized(r) /\ x[2] = 1 /\ x = <<Synthesized(r), 1>>
  OBVIOUS
<1> HIDE DEF real, made
<1>6. ASSUME NEW x \in real \cup made
      PROVE  x[1].seq \in Nat /\ x[2] \in {0, 1}
  BY <1>5
<1>7. ASSUME NEW x \in real \cup made, NEW y \in real \cup made,
             x[1].seq = y[1].seq, x[2] = y[2]
      PROVE  x = y
  <2>0. /\ x[2] = y[2] /\ x[1].seq = y[1].seq
        /\ \/ \E r \in rows : y[1] = r /\ y[2] = 0 /\ y = <<r, 0>>
           \/ \E r \in rows : y[1] = Synthesized(r) /\ y[2] = 1 /\ y = <<Synthesized(r), 1>>
    BY <1>5, <1>7
  <2>1. CASE x[2] = 0
    <3>1. PICK r \in rows : x[1] = r /\ x = <<r, 0>>
      BY <1>5, <2>1
    <3>2. PICK q \in rows : y[1] = q /\ y = <<q, 0>>
      BY <2>0, <2>1
    <3> QED BY <1>7, <3>1, <3>2
  <2>2. CASE x[2] = 1
    <3>1. PICK r \in rows : x[1] = Synthesized(r) /\ x = <<Synthesized(r), 1>>
      BY <1>5, <2>2
    <3>2. PICK q \in rows : y[1] = Synthesized(q) /\ y = <<Synthesized(q), 1>>
      BY <2>0, <2>2
    <3>3. r.seq = q.seq
      BY <1>7, <3>1, <3>2
    <3> QED BY <3>1, <3>2, <3>3
  <2> QED BY <1>6, <2>1, <2>2
<1> QED BY <1>1, <1>4, <1>6, <1>7 DEF IsList

LEMMA IndexType ==
  ASSUME NEW list, IsList(list), NEW x \in list
  PROVE  /\ IsFiniteSet(Upto(list, x)) /\ Upto(list, x) \subseteq list
         /\ Index(list, x) \in 1..Cardinality(list)
<1>1. Upto(list, x) \subseteq list /\ x \in Upto(list, x)
  BY DEF Upto, IsList
<1>2. /\ IsFiniteSet(Upto(list, x)) /\ Cardinality(Upto(list, x)) <= Cardinality(list)
      /\ IsFiniteSet(list)
  BY <1>1, FS_Subset DEF IsList
<1>3. Cardinality(Upto(list, x)) \in Nat /\ Cardinality(list) \in Nat
      /\ Cardinality(Upto(list, x)) # 0
  BY <1>1, <1>2, FS_CardinalityType, FS_EmptySet
<1> QED BY <1>1, <1>2, <1>3 DEF Index

LEMMA IndexGrows ==
  ASSUME NEW list, IsList(list), NEW x \in list, NEW y \in list, Before(x, y)
  PROVE  Index(list, x) < Index(list, y)
<1>1. Upto(list, x) \subseteq Upto(list, y)
  BY DEF Upto, Before, IsList
<1>2. y \in Upto(list, y) /\ y \notin Upto(list, x)
  BY DEF Upto, Before, IsList
<1>3. IsFiniteSet(Upto(list, y)) /\ Index(list, y) \in Nat /\ Index(list, x) \in Nat
  BY IndexType
<1>4. /\ Cardinality(Upto(list, x)) <= Cardinality(Upto(list, y))
      /\ Cardinality(Upto(list, x)) # Cardinality(Upto(list, y))
  BY <1>1, <1>2, <1>3, FS_Subset
<1> QED BY <1>3, <1>4 DEF Index

LEMMA Linear ==
  ASSUME NEW list, IsList(list), NEW x \in list, NEW y \in list, x # y
  PROVE  Before(x, y) \/ Before(y, x)
BY DEF Before, IsList

\* The index orders the list: earlier is smaller, and every place is taken.
LEMMA IndexOrders ==
  ASSUME NEW list, IsList(list)
  PROVE  /\ \A x, y \in list : Index(list, x) <= Index(list, y) <=> ~Before(y, x)
         /\ \A k \in 1..Cardinality(list) : \E x \in list : Index(list, x) = k
<1>1. \A x \in list : Index(list, x) \in 1..Cardinality(list)
  BY IndexType
<1>2. ASSUME NEW x \in list, NEW y \in list
      PROVE  Index(list, x) <= Index(list, y) <=> ~Before(y, x)
  <2>1. CASE x = y
    BY <1>1, <2>1 DEF Before, IsList
  <2>2. CASE Before(x, y)
    <3>1. ~Before(y, x)
      BY <2>2 DEF Before, IsList
    <3> QED BY <1>1, <2>2, <3>1, IndexGrows
  <2>3. CASE Before(y, x)
    BY <1>1, <2>3, IndexGrows
  <2> QED BY <2>1, <2>2, <2>3, Linear
<1> DEFINE n == Cardinality(list)
           f == [x \in list |-> Index(list, x)]
<1>3. n \in Nat /\ IsFiniteSet(list)
  BY FS_CardinalityType DEF IsList
<1>4. f \in Injection(list, 1..n)
  <2>1. f \in [list -> 1..n]
    BY <1>1
  <2>2. \A x, y \in list : f[x] = f[y] => x = y
    <3> SUFFICES ASSUME NEW x \in list, NEW y \in list, Index(list, x) = Index(list, y),
                        x # y
                 PROVE  FALSE
      OBVIOUS
    <3> QED BY <1>1, IndexGrows, Linear
  <2> HIDE DEF f
  <2> QED BY <2>1, <2>2 DEF Injection, IsInjective
<1>5. IsFiniteSet(1..n) /\ Cardinality(1..n) = n
  BY <1>3, FS_Interval
<1>6. f \in Surjection(list, 1..n)
  <2> HIDE DEF f
  <2> QED BY <1>4, <1>5, FS_Injection
<1> QED BY <1>2, <1>6 DEF Surjection

LEMMA AtIndex ==
  ASSUME NEW list, IsList(list), NEW k \in 1..Cardinality(list)
  PROVE  At(list, k) \in list /\ Index(list, At(list, k)) = k
BY IndexOrders DEF At

LEMMA Least ==
  ASSUME NEW K, K \subseteq Nat, K # {}
  PROVE  \E k \in K : \A j \in K : ~(j < k)
<1>1. \E k \in K : \A j \in K : <<j, k>> \notin OpToRel(<, Nat)
  BY NatLessThanWellFounded, WFMin
<1> QED BY <1>1 DEF OpToRel

\* What is cut off is at least one message, and splits no call from its result
\* unless everything is cut off.
LEMMA CutExists ==
  ASSUME NEW list, IsList(list), Cardinality(list) >= 2
  PROVE  /\ Cut(list) \in 1..Cardinality(list)
         /\ \/ Cut(list) = Cardinality(list)
            \/ ~has_orphan_tool_call(Prefix(list, Cut(list)))
<1> DEFINE n == Cardinality(list)
           whole(k) == k = n \/ ~has_orphan_tool_call(Prefix(list, k))
           K == {k \in (n \div 2)..n : whole(k)}
<1>1. n \in Nat /\ n >= 2
  BY FS_CardinalityType DEF IsList
<1> HIDE DEF n
<1>2. (n \div 2)..n \subseteq 1..n /\ n \in (n \div 2)..n
  BY <1>1
<1>3. n \in K /\ K \subseteq Nat
  BY <1>1, <1>2
<1>4. PICK k \in K : \A j \in K : ~(j < k)
  BY <1>3, Least
<1>5. \E c \in (n \div 2)..n :
        /\ c = n \/ ~has_orphan_tool_call(Prefix(list, c))
        /\ \A j \in (n \div 2)..n : j < c => has_orphan_tool_call(Prefix(list, j))
  BY <1>4
<1>6. /\ Cut(list) \in (n \div 2)..n
      /\ Cut(list) = n \/ ~has_orphan_tool_call(Prefix(list, Cut(list)))
  BY <1>5 DEF Cut, n
<1> QED BY <1>2, <1>6 DEF n

-----------------------------------------------------------------------------
(* What a log of compactions looks like.                                     *)

Distinct(events) == \A e, f \in events : e.seq = f.seq => e = f

RangeKnown(events) ==
  \A c \in events : c.kind = "compacted" =>
    /\ \E a \in events : a.kind \in RowKinds /\ a.seq = c.lo
    /\ \E b \in events : b.kind \in RowKinds /\ b.seq = c.hi
    /\ c.lo <= c.hi /\ c.hi < c.seq

Absorbed(events) ==
  \A e, c \in events :
    e.kind \in RowKinds /\ Replaced(e, c) => e.covers \subseteq c.covers

Gapless(events) ==
  \A e, c \in events :
    e.kind \in RowKinds /\ c.kind = "compacted" /\ e.seq <= c.hi =>
      \E d \in events : Replaced(e, d) /\ d.seq <= c.seq

Silent(events) == \A e \in events : e.kind \notin RowKinds => e.covers = {}

WellCompacted(events) ==
  /\ Distinct(events) /\ RangeKnown(events) /\ Absorbed(events)
  /\ Gapless(events) /\ Silent(events)

Planned(p, rows) ==
  /\ \E r \in rows : r.seq = p.lo
  /\ \E r \in rows : r.seq = p.hi
  /\ \A r \in rows : /\ p.lo <= r.seq
                     /\ r.seq <= p.hi => r.covers \subseteq p.covers

Numbered(events) == \A e \in events : e.seq \in Nat

\* What a planned span keeps until its summary is written, whatever else is
\* written to the log in the meantime.
Applicable(p, events) ==
  /\ \E a \in events : a.kind \in RowKinds /\ a.seq = p.lo
  /\ \E b \in events : b.kind \in RowKinds /\ b.seq = p.hi
  /\ p.lo <= p.hi
  /\ \A e \in events : e.kind \in RowKinds /\ p.lo <= e.seq /\ e.seq <= p.hi =>
       e.covers \subseteq p.covers
  /\ \A e \in events : e.kind \in RowKinds /\ e.seq < p.lo =>
       \E d \in events : Replaced(e, d)

LEMMA SpanIsPlanned ==
  ASSUME NEW rows, IsFiniteSet(rows), \A r \in rows : IsEvent(r), Distinct(rows),
         Cardinality(close_orphan_tool_calls(rows)) >= 2
  PROVE  Planned(compact_span(rows), rows)
<1> DEFINE list == close_orphan_tool_calls(rows)
           n == Cardinality(list)
           cut == Cut(list)
           a == At(list, 1)
           b == At(list, cut)
           p == compact_span(rows)
<1>1. \A r \in rows : r.seq \in Nat /\ Synthesized(r).seq = r.seq
  BY DEF IsEvent, EventOf, Synthesized
<1>2. IsList(list)
  BY <1>1, ClosedIsList DEF Distinct
<1>3. /\ \A r \in rows : <<r, 0>> \in list
      /\ \A x \in list : \E r \in rows : x[1].seq = r.seq
  BY <1>1 DEF close_orphan_tool_calls
<1>4. p.lo = a[1].seq /\ p.hi = b[1].seq /\ p.covers = Covered(Prefix(list, cut))
  BY DEF compact_span
<1> HIDE DEF list, p
<1>5. cut \in 1..n /\ n \in Nat
  BY <1>2, CutExists, FS_CardinalityType DEF IsList, list
<1> HIDE DEF cut
<1>6. a \in list /\ Index(list, a) = 1 /\ b \in list /\ Index(list, b) = cut
  BY <1>2, <1>5, AtIndex
<1> HIDE DEF a, b, n
<1>7. ASSUME NEW r \in rows
      PROVE  /\ p.lo <= r.seq
             /\ r.seq <= p.hi => r.covers \subseteq p.covers
  <2> DEFINE x == <<r, 0>>
  <2>1. x \in list /\ x[1] = r /\ x[2] = 0
    BY <1>3
  <2> HIDE DEF x
  <2>2. /\ Index(list, x) >= 1
        /\ a[1].seq \in Nat /\ b[1].seq \in Nat /\ r.seq \in Nat /\ b[2] \in {0, 1}
    BY <1>1, <1>2, <1>6, <2>1, IndexType DEF IsList
  <2>3. ~Before(x, a)
    BY <1>2, <1>6, <2>1, <2>2, IndexOrders
  <2>4. p.lo <= r.seq
    BY <1>4, <2>1, <2>2, <2>3 DEF Before
  <2>5. ASSUME r.seq <= p.hi PROVE r.covers \subseteq p.covers
    <3>1. ~Before(b, x)
      BY <1>4, <2>1, <2>2, <2>5 DEF Before
    <3>2. x \in Prefix(list, cut)
      BY <1>2, <1>6, <2>1, <3>1, IndexOrders DEF Prefix
    <3> QED BY <1>4, <2>1, <3>2 DEF Covered
  <2> QED BY <2>4, <2>5
<1> QED BY <1>3, <1>4, <1>6, <1>7 DEF Planned, p

-----------------------------------------------------------------------------
\* Between the rows and the log.
LEMMA RowsOfLog ==
  ASSUME NEW events
  PROVE  /\ replay_events(events) \subseteq events
         /\ \A e \in events : e.kind \in RowKinds /\ e \notin replay_events(events) =>
              \E c \in events : Replaced(e, c)
         /\ \A r \in replay_events(events) :
              r.kind \in RowKinds /\ \A c \in events : ~Replaced(r, c)
BY DEF replay_events

\* The rows tell everything the log told: the last to tell it is a row.
LEMMA NothingDropped ==
  ASSUME NEW events, NEW head \in Nat, IsLog(events, head), WellCompacted(events)
  PROVE  UNION {r.covers : r \in replay_events(events)} = UNION {e.covers : e \in events}
<1> SUFFICES ASSUME NEW e \in events, NEW x \in e.covers
             PROVE  \E r \in replay_events(events) : x \in r.covers
  BY RowsOfLog
<1> DEFINE C == {f \in events : f.kind \in RowKinds /\ x \in f.covers}
           K == {head - f.seq : f \in C}
<1>1. \A f \in events : f.seq \in Nat /\ f.seq <= head
  BY EventSeq DEF IsLog
<1>2. e \in C
  BY DEF WellCompacted, Silent
<1>3. K \subseteq Nat /\ K # {}
  BY <1>1, <1>2
<1>4. PICK k \in K : \A j \in K : ~(j < k)
  <2> HIDE DEF K
  <2> QED BY <1>3, Least
<1>5. PICK f \in C : \A g \in C : g.seq <= f.seq
  <2>1. PICK f \in C : k = head - f.seq
    OBVIOUS
  <2>2. \A g \in C : head - g.seq \in K /\ ~(head - g.seq < head - f.seq)
    BY <1>4, <2>1
  <2> HIDE DEF K
  <2> QED BY <1>1, <2>1, <2>2
<1>6. f \in replay_events(events)
  <2> SUFFICES ASSUME NEW c \in events, Replaced(f, c) PROVE FALSE
    BY RowsOfLog
  <2>1. f.covers \subseteq c.covers /\ c.kind \in RowKinds /\ f.seq < c.seq
    BY DEF WellCompacted, Absorbed, Replaced, RowKinds
  <2> QED BY <1>1, <1>5, <2>1
<1> QED BY <1>6

-----------------------------------------------------------------------------
(* Writing to such a log.                                                    *)

LEMMA EmptyWell == WellCompacted({})
BY DEF WellCompacted, Distinct, RangeKnown, Absorbed, Gapless, Silent

\* The newest event replaces nothing unless it is a summary, and no summary
\* written before reaches it.
LEMMA NewestFacts ==
  ASSUME NEW events, NEW head \in Nat, IsLog(events, head), WellCompacted(events),
         NEW e, e.seq = head + 1
  PROVE  /\ e \notin events
         /\ \A f \in events : f.seq \in Nat /\ f.seq <= head /\ ~Replaced(e, f)
         /\ \A c \in events : c.kind = "compacted" =>
              c.lo \in Nat /\ c.hi \in Nat /\ c.hi < c.seq /\ c.hi <= head
<1>1. \A f \in events : f.seq \in Nat /\ f.seq <= head
  BY EventSeq DEF IsLog
<1> QED BY <1>1 DEF WellCompacted, RangeKnown, Replaced

LEMMA AppendOther ==
  ASSUME NEW events, NEW head \in Nat, IsLog(events, head), WellCompacted(events),
         NEW e, e.seq = head + 1, e.kind # "compacted",
         e.kind \notin RowKinds => e.covers = {}
  PROVE  WellCompacted(events \cup {e})
<1>1. /\ \A f \in events : f.seq \in Nat /\ f.seq <= head /\ ~Replaced(e, f)
      /\ \A f \in events : ~Replaced(f, e)
      /\ ~Replaced(e, e)
      /\ \A c \in events : c.kind = "compacted" => c.hi \in Nat /\ c.hi <= head
  BY NewestFacts DEF Replaced
<1>2. Distinct(events \cup {e})
  BY <1>1 DEF WellCompacted, Distinct
<1>3. RangeKnown(events \cup {e})
  BY DEF WellCompacted, RangeKnown
<1>4. Absorbed(events \cup {e})
  BY <1>1 DEF WellCompacted, Absorbed
<1>5. Gapless(events \cup {e})
  BY <1>1 DEF WellCompacted, Gapless
<1>6. Silent(events \cup {e})
  BY DEF WellCompacted, Silent
<1> QED BY <1>2, <1>3, <1>4, <1>5, <1>6 DEF WellCompacted

\* A range starts behind all that was ever replaced.
LEMMA ReachedRows ==
  ASSUME NEW events, NEW head \in Nat, IsLog(events, head), WellCompacted(events),
         NEW p, Planned(p, replay_events(events)),
         NEW e \in events, e.kind \in RowKinds, p.lo <= e.seq
  PROVE  e \in replay_events(events)
<1> SUFFICES ASSUME e \notin replay_events(events) PROVE FALSE
  OBVIOUS
<1>1. \A f \in events : f.seq \in Nat
  BY EventSeq DEF IsLog
<1>2. PICK a \in events : a \in replay_events(events) /\ a.seq = p.lo
  BY RowsOfLog DEF Planned
<1>3. PICK d \in events : Replaced(e, d)
  BY RowsOfLog
<1>4. d.kind = "compacted" /\ d.hi \in Nat
  BY <1>1, <1>3 DEF Replaced, WellCompacted, RangeKnown
<1>5. a.seq <= d.hi
  BY <1>1, <1>2, <1>3, <1>4 DEF Replaced
<1>6. \E g \in events : Replaced(a, g)
  BY <1>2, <1>4, <1>5, RowsOfLog DEF WellCompacted, Gapless
<1> QED BY <1>2, <1>6, RowsOfLog

LEMMA PlannedApplies ==
  ASSUME NEW events, NEW head \in Nat, IsLog(events, head), WellCompacted(events),
         NEW p, Planned(p, replay_events(events))
  PROVE  Applicable(p, events)
<1>1. \A f \in events : f.seq \in Nat
  BY EventSeq DEF IsLog
<1>2. PICK a \in events : a \in replay_events(events) /\ a.seq = p.lo
  BY RowsOfLog DEF Planned
<1>3. PICK b \in events : b \in replay_events(events) /\ b.seq = p.hi
  BY RowsOfLog DEF Planned
<1>4. /\ a.kind \in RowKinds /\ b.kind \in RowKinds /\ p.lo <= p.hi
      /\ p.lo \in Nat
  BY <1>1, <1>2, <1>3, RowsOfLog DEF Planned
<1>5. \A e \in events : e.kind \in RowKinds /\ p.lo <= e.seq => e \in replay_events(events)
  BY ReachedRows
<1>6. \A e \in events : e.kind \in RowKinds /\ e.seq < p.lo =>
        \E d \in events : Replaced(e, d)
  <2> SUFFICES ASSUME NEW e \in events, e.kind \in RowKinds, e.seq < p.lo
               PROVE  e \notin replay_events(events)
    BY RowsOfLog
  <2> QED BY <1>1, <1>4 DEF Planned
<1> QED BY <1>2, <1>3, <1>4, <1>5, <1>6 DEF Applicable, Planned

LEMMA StaysApplicable ==
  ASSUME NEW events, NEW head \in Nat, IsLog(events, head), NEW p,
         Applicable(p, events), NEW e, e.seq = head + 1
  PROVE  Applicable(p, events \cup {e}) /\ p.hi \in Nat /\ p.hi <= head
<1>1. \A f \in events : f.seq \in Nat /\ f.seq <= head
  BY EventSeq DEF IsLog
<1>2. p.lo \in Nat /\ p.hi \in Nat /\ p.hi <= head /\ p.lo <= p.hi
  BY <1>1 DEF Applicable
<1>3. ~(e.seq <= p.hi) /\ ~(e.seq < p.lo)
  BY <1>2
<1> QED BY <1>2, <1>3 DEF Applicable

LEMMA AppendSummary ==
  ASSUME NEW events, NEW head \in Nat, IsLog(events, head), WellCompacted(events),
         NEW p, Applicable(p, events),
         NEW c, c.seq = head + 1, c.kind = "compacted",
         c.lo = p.lo, c.hi = p.hi, c.covers = p.covers
  PROVE  WellCompacted(events \cup {c})
<1>1. /\ \A f \in events : f.seq \in Nat /\ f.seq <= head /\ ~Replaced(c, f)
      /\ ~Replaced(c, c)
      /\ \A d \in events : d.kind = "compacted" =>
           d.lo \in Nat /\ d.hi \in Nat /\ d.hi < d.seq /\ d.hi <= head
  BY NewestFacts DEF Replaced
<1>2. PICK a \in events : a.kind \in RowKinds /\ a.seq = p.lo
  BY DEF Applicable
<1>3. PICK b \in events : b.kind \in RowKinds /\ b.seq = p.hi
  BY DEF Applicable
<1>4. c.lo \in Nat /\ c.hi \in Nat /\ c.lo <= c.hi /\ c.hi < c.seq
  BY <1>1, <1>2, <1>3 DEF Applicable
<1>5. Distinct(events \cup {c})
  BY <1>1 DEF WellCompacted, Distinct
<1>6. RangeKnown(events \cup {c})
  BY <1>2, <1>3, <1>4 DEF WellCompacted, RangeKnown
<1>7. Absorbed(events \cup {c})
  <2>1. ASSUME NEW e \in events, e.kind \in RowKinds, Replaced(e, c)
        PROVE  e.covers \subseteq c.covers
    <3>1. p.lo <= e.seq /\ e.seq <= p.hi
      BY <1>1, <1>4, <2>1 DEF Replaced
    <3> QED BY <2>1, <3>1 DEF Applicable
  <2> QED BY <1>1, <2>1 DEF WellCompacted, Absorbed
<1>8. Gapless(events \cup {c})
  <2>1. ASSUME NEW e \in events, e.kind \in RowKinds, e.seq <= c.hi
        PROVE  \E d \in events \cup {c} : Replaced(e, d) /\ d.seq <= c.seq
    <3>1. CASE c.lo <= e.seq
      BY <1>1, <1>4, <2>1, <3>1 DEF Replaced
    <3>2. CASE e.seq < c.lo
      BY <1>1, <2>1, <3>2 DEF Applicable
    <3> QED BY <1>1, <1>4, <3>1, <3>2
  <2>2. ~(c.seq <= c.hi) /\ \A d \in events : d.kind = "compacted" => ~(c.seq <= d.hi)
    BY <1>1, <1>4
  <2> QED BY <2>1, <2>2 DEF WellCompacted, Gapless
<1>9. Silent(events \cup {c})
  BY DEF WellCompacted, Silent, RowKinds
<1> QED BY <1>5, <1>6, <1>7, <1>8, <1>9 DEF WellCompacted

-----------------------------------------------------------------------------
(* Forks keep such a log.                                                    *)

\* fork_session copies a prefix: the ranges of its summaries lie in it.
LEMMA CopiesWell ==
  ASSUME NEW s, NEW at \in Nat, NEW head, IsLog(db.events[s], head),
         WellCompacted(db.events[s])
  PROVE  WellCompacted(Copies(s, at))
<1> DEFINE events == db.events[s]
           copies == Copies(s, at)
<1>1. \A e \in events : e.seq \in Nat
  BY EventSeq DEF IsLog
<1>2. /\ copies \subseteq events
      /\ \A e \in events : e.kind \in CopiedKinds => (e \in copies <=> e.seq <= at)
  BY DEF Copies
<1> HIDE DEF events, copies
<1>3. WellCompacted(events)
  BY DEF events
<1>4. Distinct(copies) /\ Absorbed(copies) /\ Silent(copies)
  BY <1>2, <1>3 DEF WellCompacted, Distinct, Absorbed, Silent
<1>5. RangeKnown(copies)
  <2> SUFFICES ASSUME NEW c \in copies, c.kind = "compacted"
               PROVE  /\ \E a \in copies : a.kind \in RowKinds /\ a.seq = c.lo
                      /\ \E b \in copies : b.kind \in RowKinds /\ b.seq = c.hi
                      /\ c.lo <= c.hi /\ c.hi < c.seq
    BY DEF RangeKnown
  <2>1. PICK a \in events : a.kind \in RowKinds /\ a.seq = c.lo
    BY <1>2, <1>3 DEF WellCompacted, RangeKnown
  <2>2. PICK b \in events : b.kind \in RowKinds /\ b.seq = c.hi
    BY <1>2, <1>3 DEF WellCompacted, RangeKnown
  <2>3. c.lo <= c.hi /\ c.hi < c.seq
    BY <1>2, <1>3 DEF WellCompacted, RangeKnown
  <2>4. c.seq \in Nat /\ c.seq <= at
    BY <1>1, <1>2 DEF CopiedKinds, RowKinds
  <2>5. a.seq <= at /\ b.seq <= at
    BY <1>1, <2>1, <2>2, <2>3, <2>4
  <2> QED BY <1>2, <2>1, <2>2, <2>3, <2>5 DEF CopiedKinds
<1>6. Gapless(copies)
  <2> SUFFICES ASSUME NEW e \in copies, NEW c \in copies, e.kind \in RowKinds,
                      c.kind = "compacted", e.seq <= c.hi
               PROVE  \E d \in copies : Replaced(e, d) /\ d.seq <= c.seq
    BY DEF Gapless
  <2>1. PICK d \in events : Replaced(e, d) /\ d.seq <= c.seq
    BY <1>2, <1>3 DEF WellCompacted, Gapless
  <2>2. c.seq <= at /\ d.kind \in CopiedKinds
    BY <1>2, <2>1 DEF CopiedKinds, RowKinds, Replaced
  <2>3. d.seq <= at
    BY <1>1, <1>2, <2>1, <2>2
  <2> QED BY <1>2, <2>1, <2>2, <2>3
<1> QED BY <1>4, <1>5, <1>6 DEF WellCompacted, copies

LEMMA RenumberedGrows ==
  ASSUME NEW copies, IsFiniteSet(copies), Numbered(copies),
         NEW e \in copies, NEW f \in copies, e.seq < f.seq
  PROVE  Renumbered(copies, e.seq) < Renumbered(copies, f.seq)
<1> DEFINE low(g) == {h \in copies : h.seq <= g.seq}
<1>1. low(e) \subseteq low(f) /\ f \in low(f) /\ f \notin low(e)
  BY DEF Numbered
<1>2. IsFiniteSet(low(f)) /\ IsFiniteSet(low(e))
  <2>1. low(f) \subseteq copies /\ low(e) \subseteq copies
    OBVIOUS
  <2> HIDE DEF low
  <2> QED BY <2>1, FS_Subset
<1>3. /\ Renumbered(copies, e.seq) = Cardinality(low(e))
      /\ Renumbered(copies, f.seq) = Cardinality(low(f))
  BY DEF Renumbered
<1> HIDE DEF low
<1>4. /\ Cardinality(low(e)) <= Cardinality(low(f))
      /\ Cardinality(low(e)) # Cardinality(low(f))
  BY <1>1, <1>2, FS_Subset
<1>5. Cardinality(low(e)) \in Nat /\ Cardinality(low(f)) \in Nat
  BY <1>2, FS_CardinalityType
<1> QED BY <1>3, <1>4, <1>5

LEMMA RenumberedKeepsOrder ==
  ASSUME NEW copies, IsFiniteSet(copies), Numbered(copies),
         NEW e \in copies, NEW f \in copies
  PROVE  /\ Renumbered(copies, e.seq) \in Nat
         /\ e.seq < f.seq <=> Renumbered(copies, e.seq) < Renumbered(copies, f.seq)
         /\ e.seq <= f.seq <=> Renumbered(copies, e.seq) <= Renumbered(copies, f.seq)
         /\ e.seq = f.seq <=> Renumbered(copies, e.seq) = Renumbered(copies, f.seq)
<1>1. /\ Renumbered(copies, e.seq) \in Nat /\ Renumbered(copies, f.seq) \in Nat
      /\ e.seq \in Nat /\ f.seq \in Nat
  BY RenumberedBound DEF Numbered
<1>2. e.seq < f.seq => Renumbered(copies, e.seq) < Renumbered(copies, f.seq)
  BY RenumberedGrows
<1>3. f.seq < e.seq => Renumbered(copies, f.seq) < Renumbered(copies, e.seq)
  BY RenumberedGrows
<1> QED BY <1>1, <1>2, <1>3

LEMMA RemapFields ==
  ASSUME NEW copies, NEW e, IsEvent(e)
  PROVE  LET r == remap_event_seq(copies, e)
         IN  /\ r.seq = Renumbered(copies, e.seq) /\ r.kind = e.kind
             /\ r.lo = Renumbered(copies, e.lo) /\ r.hi = Renumbered(copies, e.hi)
             /\ r.covers = e.covers /\ r.call = e.call
BY DEF IsEvent, EventOf, remap_event_seq

\* A copied summary replaces the copies of what it replaced.
LEMMA RemapReplaces ==
  ASSUME NEW copies, IsFiniteSet(copies), \A e \in copies : IsEvent(e),
         RangeKnown(copies), NEW e \in copies, NEW c \in copies
  PROVE  /\ Replaced(remap_event_seq(copies, e), remap_event_seq(copies, c))
              <=> Replaced(e, c)
         /\ c.kind = "compacted" =>
              (e.seq <= c.hi <=>
                 remap_event_seq(copies, e).seq <= remap_event_seq(copies, c).hi)
<1>1. Numbered(copies)
  BY EventSeq DEF Numbered
<1> DEFINE R(g) == remap_event_seq(copies, g)
           N(q) == Renumbered(copies, q)
<1>2. /\ R(e).seq = N(e.seq) /\ R(c).seq = N(c.seq) /\ R(c).kind = c.kind
      /\ R(c).lo = N(c.lo) /\ R(c).hi = N(c.hi)
  BY RemapFields
<1>3. CASE c.kind = "compacted"
  <2>1. PICK a \in copies : a.seq = c.lo
    BY <1>3 DEF RangeKnown
  <2>2. PICK b \in copies : b.seq = c.hi
    BY <1>3 DEF RangeKnown
  <2>3. /\ a.seq <= e.seq <=> N(a.seq) <= N(e.seq)
        /\ e.seq <= b.seq <=> N(e.seq) <= N(b.seq)
        /\ e.seq < c.seq <=> N(e.seq) < N(c.seq)
        /\ N(a.seq) \in Nat /\ N(b.seq) \in Nat /\ N(e.seq) \in Nat
        /\ a.seq \in Nat /\ b.seq \in Nat /\ e.seq \in Nat
    <3> HIDE DEF N
    <3> QED BY <1>1, RenumberedKeepsOrder DEF Numbered, N
  <2> HIDE DEF R, N
  <2> QED BY <1>2, <1>3, <2>1, <2>2, <2>3 DEF Replaced, R
<1>4. CASE c.kind # "compacted"
  BY <1>2, <1>4 DEF Replaced
<1> QED BY <1>3, <1>4

LEMMA RemapWell ==
  ASSUME NEW copies, IsFiniteSet(copies), \A e \in copies : IsEvent(e),
         WellCompacted(copies)
  PROVE  WellCompacted({remap_event_seq(copies, e) : e \in copies})
<1> DEFINE R(g) == remap_event_seq(copies, g)
           new == {R(e) : e \in copies}
<1>1. Numbered(copies) /\ RangeKnown(copies)
  BY EventSeq DEF Numbered, WellCompacted
<1>2. \A e, c \in copies :
        /\ Replaced(R(e), R(c)) <=> Replaced(e, c)
        /\ c.kind = "compacted" => (e.seq <= c.hi <=> R(e).seq <= R(c).hi)
  BY <1>1, RemapReplaces
<1>3. \A e \in copies :
        /\ R(e).kind = e.kind /\ R(e).covers = e.covers
        /\ R(e).seq = Renumbered(copies, e.seq)
        /\ R(e).lo = Renumbered(copies, e.lo) /\ R(e).hi = Renumbered(copies, e.hi)
  BY RemapFields
<1>4. \A e, f \in copies : /\ e.seq <= f.seq <=> R(e).seq <= R(f).seq
                           /\ e.seq = f.seq <=> R(e).seq = R(f).seq
                           /\ e.seq < f.seq <=> R(e).seq < R(f).seq
  <2> SUFFICES ASSUME NEW e \in copies, NEW f \in copies
               PROVE  /\ e.seq <= f.seq <=> R(e).seq <= R(f).seq
                      /\ e.seq = f.seq <=> R(e).seq = R(f).seq
                      /\ e.seq < f.seq <=> R(e).seq < R(f).seq
    OBVIOUS
  <2> HIDE DEF R
  <2> QED BY <1>1, <1>3, RenumberedKeepsOrder
<1> HIDE DEF R
<1>5. Distinct(new) /\ Silent(new)
  BY <1>3, <1>4 DEF WellCompacted, Distinct, Silent
<1>6. RangeKnown(new)
  <2> SUFFICES ASSUME NEW c \in copies, c.kind = "compacted"
               PROVE  /\ \E a \in new : a.kind \in RowKinds /\ a.seq = R(c).lo
                      /\ \E b \in new : b.kind \in RowKinds /\ b.seq = R(c).hi
                      /\ R(c).lo <= R(c).hi /\ R(c).hi < R(c).seq
    BY <1>3 DEF RangeKnown
  <2>1. PICK a \in copies : a.kind \in RowKinds /\ a.seq = c.lo
    BY <1>1 DEF RangeKnown
  <2>2. PICK b \in copies : b.kind \in RowKinds /\ b.seq = c.hi
    BY <1>1 DEF RangeKnown
  <2>3. c.lo <= c.hi /\ c.hi < c.seq
    BY <1>1 DEF RangeKnown
  <2>4. R(a).seq = R(c).lo /\ R(b).seq = R(c).hi
    BY <1>3, <2>1, <2>2
  <2>5. R(a).seq <= R(b).seq /\ R(b).seq < R(c).seq
    BY <1>4, <2>1, <2>2, <2>3
  <2> QED BY <1>3, <2>1, <2>2, <2>4, <2>5
<1>7. Absorbed(new)
  BY <1>2, <1>3 DEF WellCompacted, Absorbed
<1>8. Gapless(new)
  <2> SUFFICES ASSUME NEW e \in copies, NEW c \in copies, e.kind \in RowKinds,
                      c.kind = "compacted", R(e).seq <= R(c).hi
               PROVE  \E d \in new : Replaced(R(e), d) /\ d.seq <= R(c).seq
    BY <1>3 DEF Gapless
  <2>1. PICK d \in copies : Replaced(e, d) /\ d.seq <= c.seq
    BY <1>2 DEF WellCompacted, Gapless
  <2> QED BY <1>2, <1>4, <2>1
<1>9. WellCompacted(new)
  BY <1>5, <1>6, <1>7, <1>8 DEF WellCompacted
<1> QED BY <1>9 DEF R

-----------------------------------------------------------------------------
(* Calls and their results.                                                  *)

CallsTold(events) ==
  \A c, d \in events : c.kind = "call" /\ d.kind = "call" /\ c.call = d.call => c = d

\* Nothing that makes a row comes between a call and its result.
Answers(events) ==
  \A q \in events : q.kind = "result" =>
    \E c \in events :
      /\ c.kind = "call" /\ c.call = q.call /\ c.seq < q.seq
      /\ \A e \in events : e.kind \in RowKinds => ~(c.seq < e.seq /\ e.seq < q.seq)

\* A range that takes a call with a result takes the result.
Unsplit(p, events) ==
  \A c, q \in events :
    /\ c.kind = "call" /\ q.kind = "result" /\ q.call = c.call
    /\ c.seq <= p.hi
    => q.seq <= p.hi

\* Call k is the last that was told.
LastTold(k, events) ==
  \E c \in events : /\ c.kind = "call" /\ c.call = k
                    /\ \A e \in events : e.kind \in RowKinds => e.seq <= c.seq

Paired(events) ==
  /\ CallsTold(events) /\ Answers(events)
  /\ \A c \in events : c.kind = "compacted" => Unsplit(c, events)

LEMMA EmptyPaired == Paired({})
BY DEF Paired, CallsTold, Answers, Unsplit

LEMMA AppendPaired ==
  ASSUME NEW events, NEW head \in Nat, IsLog(events, head), WellCompacted(events),
         Paired(events), NEW e, e.seq = head + 1,
         e.kind = "call" => \A c \in events : c.kind = "call" => c.call # e.call,
         e.kind = "result" => LastTold(e.call, events),
         e.kind = "compacted" => Unsplit(e, events)
  PROVE  Paired(events \cup {e})
<1>1. /\ \A f \in events : f.seq \in Nat /\ f.seq <= head
      /\ \A c \in events : c.kind = "compacted" =>
           c.hi \in Nat /\ c.hi < c.seq /\ c.hi <= head
  BY NewestFacts
<1>2. CallsTold(events \cup {e})
  BY DEF Paired, CallsTold
<1>3. Answers(events \cup {e})
  <2>1. ASSUME NEW q \in events, q.kind = "result"
        PROVE  \E c \in events \cup {e} :
                 /\ c.kind = "call" /\ c.call = q.call /\ c.seq < q.seq
                 /\ \A f \in events \cup {e} :
                      f.kind \in RowKinds => ~(c.seq < f.seq /\ f.seq < q.seq)
    <3>1. ~(e.seq < q.seq)
      BY <1>1, <2>1
    <3> QED BY <2>1, <3>1 DEF Paired, Answers
  <2>2. ASSUME e.kind = "result"
        PROVE  \E c \in events \cup {e} :
                 /\ c.kind = "call" /\ c.call = e.call /\ c.seq < e.seq
                 /\ \A f \in events \cup {e} :
                      f.kind \in RowKinds => ~(c.seq < f.seq /\ f.seq < e.seq)
    <3>1. PICK c \in events : /\ c.kind = "call" /\ c.call = e.call
                              /\ \A f \in events : f.kind \in RowKinds => f.seq <= c.seq
      BY <2>2 DEF LastTold
    <3>2. c.seq < e.seq /\ \A f \in events : f.kind \in RowKinds => ~(c.seq < f.seq)
      BY <1>1, <3>1
    <3>3. ~(e.seq < e.seq)
      BY <1>1
    <3> QED BY <3>1, <3>2, <3>3
  <2> QED BY <2>1, <2>2 DEF Answers
<1>4. ASSUME NEW k \in events \cup {e}, k.kind = "compacted"
      PROVE  Unsplit(k, events \cup {e})
  <2>1. CASE k \in events
    <3> SUFFICES ASSUME NEW c \in events \cup {e}, NEW q \in events \cup {e},
                        c.kind = "call", q.kind = "result", q.call = c.call,
                        c.seq <= k.hi
                 PROVE  q.seq <= k.hi
      BY DEF Unsplit
    <3>1. c \in events
      BY <1>1, <1>4, <2>1
    <3>2. CASE q \in events
      BY <1>4, <2>1, <3>1, <3>2 DEF Paired, Unsplit
    <3>3. CASE q = e
      <4>1. PICK d \in events : /\ d.kind = "call" /\ d.call = e.call
                                /\ \A f \in events : f.kind \in RowKinds => f.seq <= d.seq
        BY <3>3 DEF LastTold
      <4>2. d = c
        BY <3>1, <3>3, <4>1 DEF Paired, CallsTold
      <4>3. k.seq <= c.seq
        BY <1>4, <2>1, <4>1, <4>2 DEF RowKinds
      <4> QED BY <1>1, <1>4, <2>1, <3>1, <4>3
    <3> QED BY <3>2, <3>3
  <2>2. CASE k = e
    BY <1>4, <2>2 DEF Unsplit
  <2> QED BY <2>1, <2>2
<1> QED BY <1>2, <1>3, <1>4 DEF Paired

LEMMA CopiesPaired ==
  ASSUME NEW s, NEW at \in Nat, NEW head, IsLog(db.events[s], head),
         Paired(db.events[s])
  PROVE  Paired(Copies(s, at))
<1> DEFINE events == db.events[s]
           copies == Copies(s, at)
<1>1. \A e \in events : e.seq \in Nat
  BY EventSeq DEF IsLog
<1>2. /\ copies \subseteq events
      /\ \A e \in events : e.kind \in CopiedKinds => (e \in copies <=> e.seq <= at)
  BY DEF Copies
<1>3. Paired(events)
  OBVIOUS
<1> HIDE DEF events, copies
<1>4. CallsTold(copies) /\ \A c \in copies : c.kind = "compacted" => Unsplit(c, copies)
  BY <1>2, <1>3 DEF Paired, CallsTold, Unsplit
<1>5. Answers(copies)
  <2> SUFFICES ASSUME NEW q \in copies, q.kind = "result"
               PROVE  \E c \in copies :
                        /\ c.kind = "call" /\ c.call = q.call /\ c.seq < q.seq
                        /\ \A e \in copies :
                             e.kind \in RowKinds => ~(c.seq < e.seq /\ e.seq < q.seq)
    BY DEF Answers
  <2>1. PICK c \in events :
          /\ c.kind = "call" /\ c.call = q.call /\ c.seq < q.seq
          /\ \A e \in events : e.kind \in RowKinds => ~(c.seq < e.seq /\ e.seq < q.seq)
    BY <1>2, <1>3 DEF Paired, Answers
  <2>2. q.seq <= at /\ q.kind \in CopiedKinds /\ c.kind \in CopiedKinds
    BY <1>2, <2>1 DEF CopiedKinds, RowKinds, MessageKinds
  <2>3. c.seq <= at
    BY <1>1, <1>2, <2>1, <2>2
  <2> QED BY <1>2, <2>1, <2>2, <2>3
<1> QED BY <1>4, <1>5 DEF Paired, copies

LEMMA RemapPaired ==
  ASSUME NEW copies, IsFiniteSet(copies), \A e \in copies : IsEvent(e),
         WellCompacted(copies), Paired(copies)
  PROVE  Paired({remap_event_seq(copies, e) : e \in copies})
<1> DEFINE R(g) == remap_event_seq(copies, g)
           N(q) == Renumbered(copies, q)
           new == {R(e) : e \in copies}
<1>1. Numbered(copies) /\ RangeKnown(copies) /\ Distinct(copies)
  BY EventSeq DEF Numbered, WellCompacted
<1>2. \A e \in copies :
        /\ R(e).kind = e.kind /\ R(e).call = e.call
        /\ R(e).seq = N(e.seq) /\ R(e).hi = N(e.hi)
  BY RemapFields
<1>3. \A c, q \in copies : /\ N(c.seq) < N(q.seq) <=> c.seq < q.seq
                           /\ N(c.seq) <= N(q.seq) <=> c.seq <= q.seq
  <2> HIDE DEF N
  <2> QED BY <1>1, RenumberedKeepsOrder DEF N
<1> HIDE DEF R, N
<1>4. CallsTold(new)
  BY <1>2 DEF Paired, CallsTold
<1>5. Answers(new)
  <2> SUFFICES ASSUME NEW q \in copies, q.kind = "result"
               PROVE  \E c \in new :
                        /\ c.kind = "call" /\ c.call = R(q).call /\ c.seq < R(q).seq
                        /\ \A e \in new :
                             e.kind \in RowKinds => ~(c.seq < e.seq /\ e.seq < R(q).seq)
    BY <1>2 DEF Answers
  <2>1. PICK c \in copies :
          /\ c.kind = "call" /\ c.call = q.call /\ c.seq < q.seq
          /\ \A e \in copies : e.kind \in RowKinds => ~(c.seq < e.seq /\ e.seq < q.seq)
    BY DEF Paired, Answers
  <2>2. \A e \in copies :
          R(e).kind \in RowKinds => ~(R(c).seq < R(e).seq /\ R(e).seq < R(q).seq)
    BY <1>2, <1>3, <2>1
  <2> QED BY <1>2, <1>3, <2>1, <2>2
<1>6. ASSUME NEW k \in copies, k.kind = "compacted",
             NEW c \in copies, NEW q \in copies, c.kind = "call", q.kind = "result",
             q.call = c.call, R(c).seq <= R(k).hi
      PROVE  R(q).seq <= R(k).hi
  <2>1. PICK b \in copies : b.seq = k.hi
    BY <1>1, <1>6 DEF RangeKnown
  <2>2. N(c.seq) <= N(b.seq)
    BY <1>2, <1>6, <2>1
  <2>3. c.seq <= k.hi
    BY <1>3, <2>1, <2>2
  <2>4. q.seq <= k.hi
    BY <1>6, <2>3 DEF Paired, Unsplit
  <2>5. N(q.seq) <= N(b.seq)
    BY <1>3, <2>1, <2>4
  <2> QED BY <1>2, <2>1, <2>5
<1>7. \A k \in new : k.kind = "compacted" => Unsplit(k, new)
  BY <1>2, <1>6 DEF Unsplit
<1>8. Paired(new)
  BY <1>4, <1>5, <1>7 DEF Paired
<1> QED BY <1>8 DEF R

-----------------------------------------------------------------------------
\* The list of a log: rows, and what was made up for the calls left open.
LEMMA ListOfLog ==
  ASSUME NEW events, NEW head \in Nat, IsLog(events, head), WellCompacted(events)
  PROVE  LET rows == replay_events(events)
             list == close_orphan_tool_calls(rows)
         IN  /\ IsList(list) /\ IsFiniteSet(rows)
             /\ \A r \in rows : r \in events /\ IsEvent(r) /\ r.seq \in Nat
             /\ \A r \in rows : <<r, 0>> \in list
             /\ \A r \in rows : r.kind = "call" /\ ~Answered(rows, r) =>
                  <<Synthesized(r), 1>> \in list
             /\ \A x \in list :
                  \/ \E r \in rows : x = <<r, 0>>
                  \/ \E r \in rows : /\ x = <<Synthesized(r), 1>> /\ r.kind = "call"
                                     /\ ~Answered(rows, r)
             /\ \A r \in rows : /\ Synthesized(r).seq = r.seq
                                /\ Synthesized(r).kind = "result"
                                /\ Synthesized(r).call = r.call
<1> DEFINE rows == replay_events(events)
           list == close_orphan_tool_calls(rows)
<1>1. rows \subseteq events /\ Distinct(rows)
  BY RowsOfLog DEF WellCompacted, Distinct
<1> HIDE DEF rows
<1>2. IsFiniteSet(rows) /\ \A r \in rows : IsEvent(r)
  BY <1>1, FS_Subset DEF IsLog
<1>3. \A r \in rows : /\ r.seq \in Nat /\ Synthesized(r).seq = r.seq
                      /\ Synthesized(r).kind = "result" /\ Synthesized(r).call = r.call
  BY <1>2 DEF IsEvent, EventOf, Synthesized
<1>4. IsList(list)
  BY <1>1, <1>2, <1>3, ClosedIsList DEF Distinct
<1>5. /\ \A r \in rows : <<r, 0>> \in list
      /\ \A r \in rows : r.kind = "call" /\ ~Answered(rows, r) =>
           <<Synthesized(r), 1>> \in list
      /\ \A x \in list :
           \/ \E r \in rows : x = <<r, 0>>
           \/ \E r \in rows : /\ x = <<Synthesized(r), 1>> /\ r.kind = "call"
                              /\ ~Answered(rows, r)
  BY DEF close_orphan_tool_calls
<1> HIDE DEF list
<1> QED BY <1>1, <1>2, <1>3, <1>4, <1>5 DEF list, rows

\* The cut leaves no result of a cut-off call behind.
LEMMA SpanIsUnsplit ==
  ASSUME NEW events, NEW head \in Nat, IsLog(events, head), WellCompacted(events),
         Paired(events),
         Cardinality(close_orphan_tool_calls(replay_events(events))) >= 2,
         Planned(compact_span(replay_events(events)), replay_events(events))
  PROVE  Unsplit(compact_span(replay_events(events)), events)
<1> DEFINE rows == replay_events(events)
           list == close_orphan_tool_calls(rows)
           n == Cardinality(list)
           cut == Cut(list)
           b == At(list, cut)
           p == compact_span(rows)
<1> SUFFICES ASSUME NEW c \in events, NEW q \in events, c.kind = "call",
                    q.kind = "result", q.call = c.call, c.seq <= p.hi,
                    ~(q.seq <= p.hi)
             PROVE  FALSE
  BY DEF Unsplit
<1>1. /\ IsList(list)
      /\ \A r \in rows : r \in events /\ IsEvent(r) /\ r.seq \in Nat
      /\ \A r \in rows : <<r, 0>> \in list
      /\ \A x \in list :
           \/ \E r \in rows : x = <<r, 0>>
           \/ \E r \in rows : /\ x = <<Synthesized(r), 1>> /\ r.kind = "call"
                              /\ ~Answered(rows, r)
      /\ \A r \in rows : /\ Synthesized(r).seq = r.seq
                         /\ Synthesized(r).kind = "result"
                         /\ Synthesized(r).call = r.call
  BY ListOfLog
<1>2. p.hi = b[1].seq
  BY DEF compact_span
<1>3. Distinct(events) /\ CallsTold(events) /\ Answers(events)
      /\ \A e \in events : e.seq \in Nat
  BY EventSeq DEF WellCompacted, Paired, IsLog
<1>4. \A r \in rows : r.kind \in RowKinds
  BY RowsOfLog
<1>5. q \in rows
  <2>1. PICK r \in rows : r.seq = p.hi
    BY DEF Planned
  <2>2. p.lo <= p.hi /\ \E a \in rows : a.seq = p.lo
    BY <2>1 DEF Planned
  <2>3. p.lo <= q.seq
    BY <1>1, <1>3, <2>1, <2>2
  <2> HIDE DEF p
  <2>4. q.kind \in RowKinds
    BY DEF RowKinds, MessageKinds
  <2> QED BY <2>3, <2>4, ReachedRows DEF p
<1> HIDE DEF p, rows, list
<1>6. /\ cut \in 1..n /\ n \in Nat
      /\ cut = n \/ ~has_orphan_tool_call(Prefix(list, cut))
  BY <1>1, CutExists, FS_CardinalityType DEF IsList, list, rows
<1> HIDE DEF cut
<1>7. b \in list /\ Index(list, b) = cut
  BY <1>1, <1>6, AtIndex
<1> HIDE DEF b, n
\* A result of the same call is q.
<1>8. ASSUME NEW r \in events, r.kind = "result", r.call = c.call
      PROVE  /\ c.seq < r.seq
             /\ \A e \in events : e.kind \in RowKinds => ~(c.seq < e.seq /\ e.seq < r.seq)
  <2>1. PICK d \in events :
          /\ d.kind = "call" /\ d.call = r.call /\ d.seq < r.seq
          /\ \A e \in events : e.kind \in RowKinds => ~(d.seq < e.seq /\ e.seq < r.seq)
    BY <1>3, <1>8 DEF Answers
  <2>2. d = c
    BY <1>3, <1>8, <2>1 DEF CallsTold
  <2> QED BY <2>1, <2>2
<1>9. c \in rows /\ b = <<c, 0>>
  <2>1. PICK r \in rows : /\ b[1].seq = r.seq
                          /\ \/ b = <<r, 0>>
                             \/ b = <<Synthesized(r), 1>> /\ ~Answered(rows, r)
    BY <1>1, <1>7
  <2>2. c.seq <= r.seq /\ r.seq < q.seq /\ r \in events /\ r.kind \in RowKinds
    BY <1>1, <1>2, <1>3, <1>4, <2>1
  <2>3. r.seq = c.seq
    BY <1>3, <1>8, <2>2
  <2>4. r = c
    BY <1>3, <2>2, <2>3 DEF Distinct
  <2>5. Answered(rows, c)
    BY <1>5 DEF Answered
  <2> QED BY <2>1, <2>4, <2>5
<1> DEFINE x == <<q, 0>>
<1>10. x \in list /\ Before(b, x) /\ ~(Index(list, x) <= cut)
  <2>1. x \in list
    BY <1>1, <1>5
  <2>2. Before(b, x)
    BY <1>8, <1>9 DEF Before
  <2> HIDE DEF x
  <2> QED BY <1>1, <1>7, <2>1, <2>2, IndexOrders
<1>11. x \notin Prefix(list, cut) /\ cut # n
  <2> HIDE DEF x
  <2>1. Index(list, x) \in 1..n
    BY <1>1, <1>10, IndexType DEF n
  <2> QED BY <1>6, <1>10, <2>1 DEF Prefix
<1>12. b \in Prefix(list, cut) /\ b[1].kind = "call" /\ b[1].call = c.call
  BY <1>6, <1>7, <1>9 DEF Prefix
<1>13. PICK y \in Prefix(list, cut) : y[1].kind = "result" /\ y[1].call = c.call
  BY <1>6, <1>11, <1>12 DEF has_orphan_tool_call
<1>14. y \in list
  BY DEF Prefix
<1>15. CASE \E r \in rows : y = <<r, 0>>
  <2>1. PICK r \in rows : y = <<r, 0>>
    BY <1>15
  <2>2. r \in events /\ r.kind = "result" /\ r.call = c.call
    BY <1>1, <1>13, <2>1
  <2>3. ~(q.seq < r.seq) /\ ~(r.seq < q.seq)
    BY <1>4, <1>5, <1>8, <2>1, <2>2
  <2>4. r = q
    BY <1>3, <2>2, <2>3 DEF Distinct
  <2> QED BY <1>11, <2>1, <2>4
<1>16. CASE \E r \in rows : /\ y = <<Synthesized(r), 1>> /\ r.kind = "call"
                            /\ ~Answered(rows, r)
  <2>1. PICK r \in rows : /\ y = <<Synthesized(r), 1>> /\ r.kind = "call"
                          /\ ~Answered(rows, r)
    BY <1>16
  <2>2. r = c
    BY <1>1, <1>3, <1>13, <2>1 DEF CallsTold
  <2> QED BY <1>5, <2>1, <2>2 DEF Answered
<1> QED BY <1>1, <1>14, <1>15, <1>16

\* What comes right behind x in the list has the next index.
LEMMA IndexNext ==
  ASSUME NEW list, IsList(list), NEW x \in list, NEW y \in list, Before(x, y),
         \A z \in list : ~(Before(x, z) /\ Before(z, y))
  PROVE  /\ Index(list, y) = Index(list, x) + 1
         /\ Index(list, x) = Index(list, y) - 1
<1>1. Upto(list, y) = Upto(list, x) \cup {y} /\ y \notin Upto(list, x)
  BY DEF Upto, Before, IsList
<1>2. IsFiniteSet(Upto(list, x)) /\ Index(list, x) \in Nat
  BY IndexType
<1>3. Cardinality(Upto(list, x) \cup {y}) = Cardinality(Upto(list, x)) + 1
  BY <1>1, <1>2, FS_AddElement
<1> QED BY <1>1, <1>2, <1>3 DEF Index

LEMMA ListWellFormed ==
  ASSUME NEW events, NEW head \in Nat, IsLog(events, head), WellCompacted(events),
         Paired(events)
  PROVE  LET list == close_orphan_tool_calls(replay_events(events))
         IN  \A x \in list :
               /\ x[1].kind = "call" => \E y \in list :
                    /\ Index(list, y) = Index(list, x) + 1
                    /\ y[1].kind = "result" /\ y[1].call = x[1].call
               /\ x[1].kind = "result" => \E y \in list :
                    /\ Index(list, y) = Index(list, x) - 1
                    /\ y[1].kind = "call" /\ y[1].call = x[1].call
<1> DEFINE rows == replay_events(events)
           list == close_orphan_tool_calls(rows)
<1>1. /\ IsList(list)
      /\ \A r \in rows : r \in events /\ IsEvent(r) /\ r.seq \in Nat
      /\ \A r \in rows : <<r, 0>> \in list
      /\ \A r \in rows : r.kind = "call" /\ ~Answered(rows, r) =>
           <<Synthesized(r), 1>> \in list
      /\ \A x \in list :
           \/ \E r \in rows : x = <<r, 0>>
           \/ \E r \in rows : /\ x = <<Synthesized(r), 1>> /\ r.kind = "call"
                              /\ ~Answered(rows, r)
      /\ \A r \in rows : /\ Synthesized(r).seq = r.seq
                         /\ Synthesized(r).kind = "result"
                         /\ Synthesized(r).call = r.call
  BY ListOfLog
<1>2. Distinct(events) /\ CallsTold(events) /\ Answers(events)
      /\ \A e \in events : e.seq \in Nat
  BY EventSeq DEF WellCompacted, Paired, IsLog
\* A row that answers a call is the next one, and nothing is in between.
<1>3. ASSUME NEW c \in rows, NEW q \in rows, c.kind = "call", q.kind = "result",
             q.call = c.call
      PROVE  /\ Index(list, <<q, 0>>) = Index(list, <<c, 0>>) + 1
             /\ Index(list, <<c, 0>>) = Index(list, <<q, 0>>) - 1
  <2>1. PICK d \in events :
          /\ d.kind = "call" /\ d.call = q.call /\ d.seq < q.seq
          /\ \A e \in events : e.kind \in RowKinds => ~(d.seq < e.seq /\ e.seq < q.seq)
    BY <1>1, <1>2, <1>3 DEF Answers
  <2>2. d = c
    BY <1>1, <1>2, <1>3, <2>1 DEF CallsTold
  <2>3. /\ c.seq < q.seq /\ c.seq \in Nat /\ q.seq \in Nat /\ Answered(rows, c)
        /\ \A r \in rows : ~(c.seq < r.seq /\ r.seq < q.seq)
    BY <1>1, <1>3, <2>1, <2>2, RowsOfLog DEF Answered
  <2> DEFINE x == <<c, 0>>
             y == <<q, 0>>
  <2>4. x \in list /\ y \in list /\ Before(x, y)
    BY <1>1, <2>3 DEF Before
  <2>5. ASSUME NEW z \in list, Before(x, z), Before(z, y)
        PROVE  FALSE
    <3>1. PICK r \in rows : /\ z[1].seq = r.seq
                            /\ \/ z = <<r, 0>>
                               \/ z = <<Synthesized(r), 1>> /\ ~Answered(rows, r)
      BY <1>1
    <3>2. z[1].seq = c.seq /\ z[2] = 1
      BY <1>1, <2>3, <2>5, <3>1 DEF Before, IsList
    <3>3. r = c
      BY <1>1, <1>2, <3>1, <3>2 DEF Distinct
    <3> QED BY <2>3, <3>1, <3>2, <3>3
  <2> HIDE DEF x, y, list, rows
  <2> QED BY <1>1, <2>4, <2>5, IndexNext DEF x, y
\* And so is what was made up for a call left open.
<1>4. ASSUME NEW c \in rows, c.kind = "call", ~Answered(rows, c)
      PROVE  LET y == <<Synthesized(c), 1>>
             IN  /\ Index(list, y) = Index(list, <<c, 0>>) + 1
                 /\ Index(list, <<c, 0>>) = Index(list, y) - 1
  <2> DEFINE x == <<c, 0>>
             y == <<Synthesized(c), 1>>
  <2>1. x \in list /\ y \in list /\ Before(x, y)
    BY <1>1, <1>4 DEF Before
  <2>2. \A z \in list : ~(Before(x, z) /\ Before(z, y))
    BY <1>1 DEF Before, IsList
  <2> HIDE DEF x, y, list, rows
  <2> QED BY <1>1, <2>1, <2>2, IndexNext DEF x, y
<1>5. ASSUME NEW x \in list, x[1].kind = "call"
      PROVE  \E y \in list : /\ Index(list, y) = Index(list, x) + 1
                             /\ y[1].kind = "result" /\ y[1].call = x[1].call
  <2>1. PICK c \in rows : x = <<c, 0>> /\ c.kind = "call"
    BY <1>1, <1>5
  <2>2. CASE Answered(rows, c)
    <3>1. PICK q \in rows : q.kind = "result" /\ q.call = c.call
      BY <2>2 DEF Answered
    <3> HIDE DEF list, rows
    <3> QED BY <1>1, <1>3, <2>1, <3>1
  <2>3. CASE ~Answered(rows, c)
    <3> HIDE DEF list, rows
    <3> QED BY <1>1, <1>4, <2>1, <2>3
  <2> QED BY <2>2, <2>3
<1>6. ASSUME NEW x \in list, x[1].kind = "result"
      PROVE  \E y \in list : /\ Index(list, y) = Index(list, x) - 1
                             /\ y[1].kind = "call" /\ y[1].call = x[1].call
  <2>1. CASE \E q \in rows : x = <<q, 0>>
    <3>1. PICK q \in rows : x = <<q, 0>> /\ q.kind = "result"
      BY <1>6, <2>1
    <3>2. PICK c \in events : c.kind = "call" /\ c.call = q.call /\ c.seq < q.seq
      BY <1>1, <1>2, <3>1 DEF Answers
    <3>3. c \in rows
      <4> SUFFICES ASSUME NEW k \in events, Replaced(c, k) PROVE FALSE
        BY <3>2, RowsOfLog DEF RowKinds, MessageKinds
      <4>1. k.kind = "compacted" /\ k.hi \in Nat /\ k.hi < k.seq /\ k.lo \in Nat
        BY <1>2 DEF Replaced, WellCompacted, RangeKnown
      <4>2. c.seq <= k.hi /\ k.lo <= c.seq
        BY <1>2, <4>1 DEF Replaced
      <4>3. q.seq <= k.hi
        BY <1>1, <3>1, <3>2, <4>1, <4>2 DEF Paired, Unsplit
      <4>4. Replaced(q, k)
        BY <1>1, <1>2, <3>1, <3>2, <4>1, <4>2, <4>3 DEF Replaced
      <4> QED BY <4>4, RowsOfLog
    <3> HIDE DEF list, rows
    <3> QED BY <1>1, <1>3, <3>1, <3>2, <3>3
  <2>2. CASE \E r \in rows : /\ x = <<Synthesized(r), 1>> /\ r.kind = "call"
                             /\ ~Answered(rows, r)
    <3>1. PICK r \in rows : /\ x = <<Synthesized(r), 1>> /\ r.kind = "call"
                            /\ ~Answered(rows, r)
      BY <2>2
    <3> HIDE DEF list, rows
    <3> QED BY <1>1, <1>4, <3>1
  <2> QED BY <1>1, <2>1, <2>2
<1> HIDE DEF list
<1> QED BY <1>5, <1>6 DEF list

-----------------------------------------------------------------------------
(* The steps.                                                                *)

\* Call ids come from nextEvent, so below n all were issued; m are the mixed sessions.
WellLogs(d, n, m) ==
  \A s \in Sessions :
    /\ WellCompacted(d.events[s])
    /\ s \notin m => Paired(d.events[s])
    /\ \A e \in d.events[s] : e.kind = "call" => e.call \in Nat /\ e.call < n

\* A span in hand can still be applied, and splits nothing unless writers have met.
Fits(p, events, met) == Applicable(p, events) /\ (~met => Unsplit(p, events))

\* What the threads of s have in hand agrees with its log.
HandsFit(s) ==
  /\ InHand(s) => s \in minted
  /\ s \in db.live =>
       /\ \A p \in spans[s] : Fits(p, db.events[s], s \in mixed)
       /\ s \notin mixed => /\ calls[s] = {} \/ spans[s] = {}
                          /\ \A k \in calls[s] : LastTold(k, db.events[s])

Underway ==
  /\ HandsTyped
  /\ db.live \subseteq minted /\ disk.live \subseteq minted
  /\ \A s \in Sessions : HandsFit(s)

LogsKept ==
  /\ nextEvent \in Nat
  /\ WellLogs(db, nextEvent, mixed) /\ WellLogs(disk, nextEvent, mixed)
  /\ Underway

SInv == IInv /\ LogsKept

\* HandsFit after a step, and what a step of another session leaves of t.
HandsFitNext(s) ==
  /\ InHand(s)' => s \in minted'
  /\ s \in db'.live =>
       /\ \A p \in spans'[s] : Fits(p, db'.events[s], s \in mixed')
       /\ s \notin mixed' => /\ calls'[s] = {} \/ spans'[s] = {}
                           /\ \A k \in calls'[s] : LastTold(k, db'.events[s])

Untouched(t) ==
  HandsKept(t) /\ (t \in db'.live => t \in db.live /\ db'.events[t] = db.events[t])

LEMMA UnderwayKept ==
  ASSUME SInv, NEW s \in Sessions, HandsTyped',
         db'.live \subseteq minted', disk'.live \subseteq minted',
         minted \subseteq minted', mixed \subseteq mixed',
         \A t \in Sessions \ {s} : Untouched(t), HandsFitNext(s)
  PROVE  Underway'
<1>1. ASSUME NEW t \in Sessions, Untouched(t) PROVE HandsFitNext(t)
  <2>1. HandsFit(t) /\ (InHand(t)' <=> InHand(t))
    BY <1>1 DEF SInv, LogsKept, Underway, Untouched, HandsKept, InHand
  <2>2. calls'[t] = calls[t] /\ spans'[t] = spans[t]
    BY <1>1 DEF Untouched, HandsKept
  <2> QED BY <1>1, <2>1, <2>2 DEF HandsFit, HandsFitNext, Untouched, Fits
<1>2. \A t \in Sessions : HandsFitNext(t)
  BY <1>1
<1> QED BY <1>2 DEF Underway, HandsFit, HandsFitNext, Fits, Applicable, Unsplit,
                    LastTold, Replaced

LEMMA MoreIssued ==
  ASSUME NEW d, NEW m \in Nat, NEW n \in Nat, m <= n, NEW k, NEW l, k \subseteq l,
         WellLogs(d, m, k)
  PROVE  WellLogs(d, n, l)
BY DEF WellLogs

LEMMA WriteLogs ==
  ASSUME SInv, NEW d, nextEvent' \in Nat, nextEvent <= nextEvent',
         mixed \subseteq mixed', WellLogs(d, nextEvent', mixed'),
         d.live \subseteq minted', minted \subseteq minted', Write(d)
  PROVE  /\ db' = d
         /\ WellLogs(db', nextEvent', mixed') /\ WellLogs(disk', nextEvent', mixed')
         /\ db'.live \subseteq minted' /\ disk'.live \subseteq minted'
<1>1. WellLogs(disk, nextEvent', mixed')
  BY MoreIssued DEF SInv, LogsKept
<1> QED BY <1>1 DEF Write, SInv, LogsKept, Underway

LEMMA KeptPrimed ==
  ASSUME nextEvent' \in Nat, WellLogs(db', nextEvent', mixed'),
         WellLogs(disk', nextEvent', mixed'), Underway'
  PROVE  LogsKept'
BY DEF LogsKept, WellLogs, WellCompacted, Distinct, RangeKnown, Absorbed, Gapless,
       Silent, Replaced, Paired, CallsTold, Answers, Unsplit

\* A summary is planned, and a call is new; until writers meet a result
\* answers the last call, and a range splits no call from its result.
Writable(s, e) ==
  /\ e.kind \notin RowKinds => e.covers = {}
  /\ e.kind = "call" => e.call = nextEvent
  /\ e.kind = "result" /\ s \in db.live /\ s \notin mixed => LastTold(e.call, db.events[s])
  /\ e.kind = "compacted" /\ s \in db.live =>
       \E p : /\ Fits(p, db.events[s], s \in mixed)
              /\ e.lo = p.lo /\ e.hi = p.hi /\ e.covers = p.covers

\* The log with one writable event more.
LEMMA StampedLog ==
  ASSUME SInv, NEW s \in Sessions, s \in db.live, NEW e, IsEvent(e), Writable(s, e),
         NEW c, c.seq = db.head[s] + 1, c.kind = e.kind, c.call = e.call,
         c.lo = e.lo, c.hi = e.hi, c.covers = e.covers
  PROVE  /\ WellCompacted(db.events[s] \cup {c})
         /\ s \notin mixed => Paired(db.events[s] \cup {c})
<1> DEFINE events == db.events[s]
           head == db.head[s]
<1>1. head \in Nat /\ IsLog(events, head)
  BY TablesHead DEF SInv, IInv, Sound
<1>2. /\ WellCompacted(events) /\ (s \notin mixed => Paired(events))
      /\ \A d \in events : d.kind = "call" => d.call \in Nat /\ d.call < nextEvent
  BY DEF SInv, LogsKept, WellLogs
<1>3. /\ c.kind \notin RowKinds => c.covers = {}
      /\ c.kind = "call" => \A d \in events : d.kind = "call" => d.call # c.call
      /\ s \notin mixed /\ c.kind = "result" => LastTold(c.call, events)
  BY <1>2 DEF Writable, SInv, LogsKept
<1> HIDE DEF events, head
<1>4. CASE c.kind # "compacted"
  <2>1. WellCompacted(events \cup {c})
    BY <1>1, <1>2, <1>3, <1>4, AppendOther DEF head
  <2>2. ASSUME s \notin mixed PROVE Paired(events \cup {c})
    BY <1>1, <1>2, <1>3, <1>4, <2>2, AppendPaired DEF head
  <2> QED BY <2>1, <2>2 DEF events
<1>5. CASE c.kind = "compacted"
  <2>1. PICK p : /\ Fits(p, events, s \in mixed)
                 /\ c.lo = p.lo /\ c.hi = p.hi /\ c.covers = p.covers
    BY <1>5 DEF Writable, events
  <2>2. WellCompacted(events \cup {c})
    BY <1>1, <1>2, <1>5, <2>1, AppendSummary DEF head, Fits
  <2>3. ASSUME s \notin mixed PROVE Paired(events \cup {c})
    <3>1. Unsplit(c, events)
      BY <2>1, <2>3 DEF Fits, Unsplit
    <3> QED BY <1>1, <1>2, <1>5, <2>3, <3>1, AppendPaired DEF head
  <2> QED BY <2>2, <2>3 DEF events
<1> QED BY <1>4, <1>5

LEMMA AppendLogs ==
  ASSUME SInv, NEW s \in Sessions, NEW e, IsEvent(e), Writable(s, e), append(s, e),
         mixed \subseteq mixed'
  PROVE  /\ nextEvent' \in Nat
         /\ WellLogs(db', nextEvent', mixed') /\ WellLogs(disk', nextEvent', mixed')
         /\ minted' = minted /\ db'.live = db.live /\ disk'.live \subseteq minted
         /\ \A t \in Sessions \ {s} : db'.events[t] = db.events[t]
         /\ s \in db.live =>
              \E c : /\ c.seq = db.head[s] + 1 /\ c.kind = e.kind /\ c.call = e.call
                     /\ db'.events[s] = db.events[s] \cup {c}
<1>1. nextEvent \in Nat /\ nextEvent' = nextEvent + 1 /\ minted' = minted
  BY DEF append, SInv, LogsKept
<1>2. CASE s \in db.live
  <2> DEFINE stamped == [e EXCEPT !.seq = db.head[s] + 1]
             n == Appended(db, s, stamped)
  <2>1. Write(n)
    BY <1>2 DEF append
  <2>2. IsTables(db) /\ db.head[s] \in Nat
    BY TablesHead DEF SInv, IInv, Sound
  <2>3. /\ stamped.seq = db.head[s] + 1 /\ stamped.kind = e.kind
        /\ stamped.call = e.call /\ stamped.covers = e.covers
        /\ stamped.lo = e.lo /\ stamped.hi = e.hi
    BY DEF IsEvent, EventOf
  <2> HIDE DEF stamped
  <2>4. /\ n.live = db.live /\ n.events[s] = db.events[s] \cup {stamped}
        /\ \A t \in Sessions \ {s} : n.events[t] = db.events[t]
    BY <2>2, <2>3, AppendedFields
  <2> HIDE DEF n
  <2>5. WellCompacted(n.events[s]) /\ (s \notin mixed' => Paired(n.events[s]))
    BY <1>2, <2>3, <2>4, StampedLog
  <2>6. WellLogs(db, nextEvent', mixed')
    BY <1>1, MoreIssued DEF SInv, LogsKept
  <2>7. stamped.kind = "call" => stamped.call \in Nat /\ stamped.call < nextEvent'
    BY <1>1, <2>3 DEF Writable
  <2>8. WellLogs(n, nextEvent', mixed')
    BY <2>4, <2>5, <2>6, <2>7 DEF WellLogs
  <2>9. n.live \subseteq minted'
    BY <1>1, <2>4 DEF SInv, LogsKept, Underway
  <2>10. /\ db' = n /\ WellLogs(db', nextEvent', mixed') /\ WellLogs(disk', nextEvent', mixed')
         /\ disk'.live \subseteq minted'
    BY <1>1, <2>1, <2>8, <2>9, WriteLogs
  <2> QED BY <1>1, <2>3, <2>4, <2>10
<1>3. CASE s \notin db.live
  <2>1. UNCHANGED <<db, disk>>
    BY <1>3 DEF append
  <2>2. WellLogs(db, nextEvent', mixed') /\ WellLogs(disk, nextEvent', mixed')
    BY <1>1, MoreIssued DEF SInv, LogsKept
  <2> QED BY <1>1, <1>3, <2>1, <2>2 DEF SInv, LogsKept, Underway
<1> QED BY <1>2, <1>3

\* Spans in hand outlive any append; until writers meet, so does what was last
\* told outlive a note.
LEMMA AppendKept ==
  ASSUME SInv, NEW s \in Sessions, NEW e, IsEvent(e), Writable(s, e), append(s, e),
         HandsTyped', \A t \in Sessions \ {s} : HandsKept(t),
         InHand(s)' => InHand(s) \/ s \in db.live,
         spans'[s] \subseteq spans[s], mixed \subseteq mixed',
         s \notin mixed' /\ s \in db.live =>
           \/ calls'[s] = {} /\ spans'[s] = {}
           \/ e.kind = "call" /\ calls'[s] \subseteq {e.call} /\ spans'[s] = {}
           \/ e.kind = "compacted" /\ calls'[s] = {}
           \/ e.kind \notin RowKinds /\ calls'[s] = calls[s]
  PROVE  LogsKept'
<1>1. /\ nextEvent' \in Nat
      /\ WellLogs(db', nextEvent', mixed') /\ WellLogs(disk', nextEvent', mixed')
      /\ minted' = minted /\ db'.live = db.live /\ disk'.live \subseteq minted
      /\ \A t \in Sessions \ {s} : db'.events[t] = db.events[t]
      /\ s \in db.live =>
           \E c : /\ c.seq = db.head[s] + 1 /\ c.kind = e.kind /\ c.call = e.call
                  /\ db'.events[s] = db.events[s] \cup {c}
  BY AppendLogs
<1>2. \A t \in Sessions \ {s} : Untouched(t)
  BY <1>1 DEF Untouched
<1>3. db.live \subseteq minted /\ HandsFit(s)
  BY DEF SInv, LogsKept, Underway
<1>4. InHand(s)' => s \in minted'
  BY <1>1, <1>3 DEF HandsFit
<1>5. ASSUME s \in db.live
      PROVE  /\ \A p \in spans'[s] : Fits(p, db'.events[s], s \in mixed')
             /\ s \notin mixed' => /\ calls'[s] = {} \/ spans'[s] = {}
                                 /\ \A k \in calls'[s] : LastTold(k, db'.events[s])
  <2> DEFINE events == db.events[s]
             head == db.head[s]
  <2>1. PICK c : /\ c.seq = head + 1 /\ c.kind = e.kind /\ c.call = e.call
                 /\ db'.events[s] = events \cup {c}
    BY <1>1, <1>5
  <2>2. head \in Nat /\ IsLog(events, head)
    BY TablesHead DEF SInv, IInv, Sound
  <2>3. /\ \A p \in spans[s] : Fits(p, events, s \in mixed)
        /\ s \notin mixed => /\ calls[s] = {} \/ spans[s] = {}
                           /\ \A k \in calls[s] : LastTold(k, events)
    BY <1>3, <1>5 DEF HandsFit
  <2>4. \A f \in events : f.seq \in Nat /\ f.seq <= head
    BY <2>2, EventSeq DEF IsLog
  <2> HIDE DEF events, head
  <2>5. ASSUME NEW p \in spans'[s]
        PROVE  Fits(p, events \cup {c}, s \in mixed')
    <3>1. Fits(p, events, s \in mixed)
      BY <2>3
    <3>2. Applicable(p, events \cup {c})
      BY <2>1, <2>2, <3>1, StaysApplicable DEF Fits
    <3>3. ASSUME s \notin mixed' PROVE Unsplit(p, events \cup {c})
      <4>1. c.kind \notin {"call", "result"}
        BY <1>5, <2>1, <2>5, <3>3 DEF RowKinds, MessageKinds
      <4> QED BY <3>1, <3>3, <4>1 DEF Fits, Unsplit
    <3> QED BY <3>2, <3>3 DEF Fits
  <2>6. ASSUME s \notin mixed'
        PROVE  /\ calls'[s] = {} \/ spans'[s] = {}
               /\ \A k \in calls'[s] : LastTold(k, events \cup {c})
    <3>1. calls'[s] = {} \/ spans'[s] = {}
      BY <1>5, <2>3, <2>6
    <3>2. ASSUME NEW k \in calls'[s], e.kind = "call", calls'[s] \subseteq {e.call}
          PROVE  LastTold(k, events \cup {c})
      <4>1. \A f \in events \cup {c} : f.seq <= c.seq
        BY <2>1, <2>2, <2>4
      <4> QED BY <2>1, <3>2, <4>1 DEF LastTold
    <3>3. ASSUME NEW k \in calls'[s], e.kind \notin RowKinds, calls'[s] = calls[s]
          PROVE  LastTold(k, events \cup {c})
      BY <2>1, <2>3, <2>6, <3>3 DEF LastTold
    <3> QED BY <1>5, <2>6, <3>1, <3>2, <3>3
  <2> QED BY <2>1, <2>5, <2>6
<1>6. HandsFitNext(s)
  BY <1>1, <1>4, <1>5 DEF HandsFitNext
<1>7. Underway'
  BY <1>1, <1>2, <1>3, <1>6, UnderwayKept
<1> QED BY <1>1, <1>7, KeptPrimed

LEMMA ForkKept ==
  ASSUME SInv, NEW s \in Sessions, NEW n \in Sessions, n \notin minted,
         NEW copied, WellCompacted(copied), n \notin mixed' => Paired(copied),
         mixed \subseteq mixed',
         \A e \in copied : e.kind = "call" => e.call \in Nat /\ e.call < nextEvent,
         NEW head, Fork(s, n, copied, head),
         minted' = minted \cup {n}, UNCHANGED <<calls, spans, uploads, nextEvent>>
  PROVE  LogsKept'
<1>1. PICK A : db \in TablesOf(A)
  BY DEF SInv, IInv, Sound, IsTables
<1> DEFINE f == Forked(s, n, copied, head)
<1>2. /\ f.live = db.live \cup {n} /\ f.events[n] = copied
      /\ \A t \in Sessions \ {n} : f.events[t] = db.events[t]
  BY <1>1 DEF Forked, TablesOf
<1> HIDE DEF f
<1>3. nextEvent' = nextEvent /\ nextEvent \in Nat
  BY DEF SInv, LogsKept
<1>4. WellLogs(f, nextEvent', mixed') /\ f.live \subseteq minted'
  BY <1>2 DEF SInv, LogsKept, WellLogs, Underway
<1>5. /\ WellLogs(db', nextEvent', mixed') /\ WellLogs(disk', nextEvent', mixed')
      /\ db'.live \subseteq minted' /\ disk'.live \subseteq minted'
      /\ \A t \in Sessions \ {n} : t \in db'.live =>
           t \in db.live /\ db'.events[t] = db.events[t]
  <2>1. CASE s \in db.live
    <3>1. Write(f)
      BY <2>1 DEF Fork, f
    <3> QED BY <1>2, <1>3, <1>4, <3>1, WriteLogs
  <2>2. CASE s \notin db.live
    <3>1. WellLogs(db, nextEvent', mixed') /\ WellLogs(disk, nextEvent', mixed')
      BY <1>3, MoreIssued DEF SInv, LogsKept
    <3> QED BY <2>2, <3>1 DEF Fork, SInv, LogsKept, Underway
  <2> QED BY <2>1, <2>2
<1>6. \A t \in Sessions \ {n} : Untouched(t)
  BY <1>5 DEF Untouched, HandsKept
<1>7. calls[n] = {} /\ spans[n] = {} /\ ~InHand(n)
  BY DEF SInv, LogsKept, Underway, HandsFit, InHand
<1>8. HandsFitNext(n)
  BY <1>7 DEF HandsFitNext, InHand
<1>9. HandsTyped'
  BY DEF SInv, LogsKept, Underway, HandsTyped
<1>10. Underway'
  BY <1>5, <1>6, <1>8, <1>9, UnderwayKept
<1> QED BY <1>3, <1>5, <1>10, KeptPrimed

\* A write that keeps the logs of all the sessions that stay; s may begin or end.
LEMMA OtherKept ==
  ASSUME SInv, NEW s \in Sessions, NEW d, Write(d), WellLogs(d, nextEvent, mixed),
         d.live \subseteq minted', minted \subseteq minted',
         \A t \in Sessions \ {s} :
           d.events[t] = db.events[t] /\ (t \in d.live => t \in db.live),
         HandsTyped', \A t \in Sessions \ {s} : HandsKept(t),
         UNCHANGED <<calls, spans, mixed>>,
         nextEvent' = nextEvent \/ nextEvent' = nextEvent + 1,
         InHand(s)' => s \in minted,
         s \in d.live => \/ ~InHand(s)
                         \/ s \in db.live /\ d.events[s] = db.events[s]
  PROVE  LogsKept'
<1>1. /\ nextEvent \in Nat /\ nextEvent' \in Nat /\ nextEvent <= nextEvent'
      /\ WellLogs(d, nextEvent', mixed')
  BY MoreIssued DEF SInv, LogsKept
<1>2. /\ db' = d
      /\ WellLogs(db', nextEvent', mixed') /\ WellLogs(disk', nextEvent', mixed')
      /\ db'.live \subseteq minted' /\ disk'.live \subseteq minted'
  BY <1>1, WriteLogs
<1>3. \A t \in Sessions \ {s} : Untouched(t)
  BY <1>2 DEF Untouched
<1>4. HandsFit(s) /\ calls'[s] = calls[s] /\ spans'[s] = spans[s]
  BY DEF SInv, LogsKept, Underway
<1>5. InHand(s)' => s \in minted'
  OBVIOUS
<1>6. HandsFitNext(s)
  <2>1. CASE s \in d.live /\ InHand(s)
    <3>1. s \in db.live /\ d.events[s] = db.events[s]
      BY <2>1
    <3> QED BY <3>1, <1>2, <1>4, <1>5 DEF HandsFit, HandsFitNext
  <2>2. CASE s \in d.live /\ ~InHand(s)
    <3>1. calls'[s] = {} /\ spans'[s] = {}
      BY <2>2, <1>4 DEF InHand
    <3> QED BY <3>1, <1>5 DEF HandsFitNext
  <2>3. CASE s \notin d.live
    BY <1>2, <1>5, <2>3 DEF HandsFitNext
  <2> QED BY <2>1, <2>2, <2>3
<1>7. Underway'
  BY <1>2, <1>3, <1>6, UnderwayKept
<1> QED BY <1>1, <1>2, <1>7, KeptPrimed

\* A step that writes nothing.
LEMMA QuietKept ==
  ASSUME SInv, NEW s \in Sessions, UNCHANGED <<db, disk, minted, nextEvent>>,
         mixed \subseteq mixed', HandsTyped', \A t \in Sessions \ {s} : HandsKept(t), HandsFitNext(s)
  PROVE  LogsKept'
<1>1. \A t \in Sessions \ {s} : Untouched(t)
  BY DEF Untouched
<1>2. /\ nextEvent' \in Nat
      /\ WellLogs(db', nextEvent', mixed') /\ WellLogs(disk', nextEvent', mixed')
      /\ db'.live \subseteq minted' /\ disk'.live \subseteq minted'
  BY MoreIssued DEF SInv, LogsKept, Underway
<1>3. Underway'
  BY <1>1, <1>2, UnderwayKept
<1> QED BY <1>2, <1>3, KeptPrimed

-----------------------------------------------------------------------------
LEMMA LogsUnchanged ==
  ASSUME SInv, UNCHANGED <<db, disk, minted, calls, spans, uploads, nextEvent, mixed>>
  PROVE  LogsKept'
<1>1. Underway'
  <2>1. Underway
    BY DEF SInv, LogsKept
  <2>2. HandsTyped'
    BY <2>1 DEF Underway, HandsTyped
  <2>3. ASSUME NEW t \in Sessions
        PROVE  HandsFit(t)'
    <3>1. HandsFit(t)
      BY <2>1 DEF Underway
    <3> QED BY <3>1 DEF HandsFit, InHand, Fits, Applicable, Unsplit, LastTold, Replaced
  <2> QED BY <2>1, <2>2, <2>3 DEF Underway
<1>2. /\ nextEvent' \in Nat
      /\ WellLogs(db', nextEvent', mixed') /\ WellLogs(disk', nextEvent', mixed')
  BY DEF SInv, LogsKept
<1> QED BY <1>1, <1>2, KeptPrimed

\* The span plan_request computes can be applied and splits nothing.
LEMMA SpanFits ==
  ASSUME SInv, NEW s \in Sessions,
         Cardinality(close_orphan_tool_calls(db.rows[s])) >= 2
  PROVE  Fits(compact_span(db.rows[s]), db.events[s], s \in mixed)
<1> DEFINE rows == db.rows[s]
           events == db.events[s]
           head == db.head[s]
<1>1. /\ IsLog(events, head) /\ head \in Nat /\ rows = replay_events(events)
      /\ WellCompacted(events) /\ (s \notin mixed => Paired(events))
  BY TablesHead DEF SInv, LogsKept, IInv, Sound, WellLogs
<1> HIDE DEF rows, events, head
<1>2. rows \subseteq events /\ Distinct(events)
  BY <1>1, RowsOfLog DEF WellCompacted
<1>3. IsFiniteSet(rows) /\ (\A r \in rows : IsEvent(r)) /\ Distinct(rows)
  BY <1>1, <1>2, FS_Subset DEF IsLog, Distinct
<1>4. Cardinality(close_orphan_tool_calls(rows)) >= 2
  BY DEF rows
<1>5. Planned(compact_span(rows), rows)
  BY <1>3, <1>4, SpanIsPlanned
<1>6. Applicable(compact_span(rows), events)
  BY <1>1, <1>5, PlannedApplies
<1>7. s \notin mixed => Unsplit(compact_span(rows), events)
  BY <1>1, <1>4, <1>5, SpanIsUnsplit
<1> QED BY <1>6, <1>7 DEF Fits, rows, events

LEMMA LogsStep ==
  ASSUME ~ManualSpans, SInv, NEW s \in Sessions, SessionStep(s)
  PROVE  LogsKept'
<1>1. PICK A : db \in TablesOf(A)
  BY DEF SInv, IInv, Sound, IsTables
<1>2. /\ HandsTyped /\ HandsFit(s)
      /\ db.live \subseteq minted /\ WellLogs(db, nextEvent, mixed) /\ nextEvent \in Nat
      /\ InHand(s) => s \in minted
  BY DEF SInv, LogsKept, Underway, HandsFit
<1>3. HandsTyped' /\ \A t \in Sessions \ {s} : HandsKept(t)
  BY <1>2, OwnHands
<1>4. CASE create_session(s)
  <2> DEFINE d == [db EXCEPT !.live = @ \cup {s}]
  <2>1. /\ Write(d) /\ UNCHANGED <<calls, spans, uploads, nextEvent, mixed>>
        /\ minted' = minted \cup {s} /\ s \notin minted
    BY <1>4 DEF create_session
  <2>2. d.events = db.events /\ d.live = db.live \cup {s}
    BY <1>1 DEF TablesOf
  <2> HIDE DEF d
  <2>3. WellLogs(d, nextEvent, mixed) /\ d.live \subseteq minted' /\ ~InHand(s) /\ ~InHand(s)'
    BY <1>2, <2>1, <2>2 DEF WellLogs, InHand
  <2> QED BY <1>3, <2>1, <2>2, <2>3, OtherKept
<1>5. CASE delete_session(s)
  <2> DEFINE d == Deleted(s)
  <2>1. Write(d) /\ UNCHANGED <<calls, spans, uploads, minted, nextEvent, mixed>>
    BY <1>5 DEF delete_session
  <2>2. /\ d.live = db.live \ {s} /\ d.events[s] = {}
        /\ \A t \in Sessions \ {s} : d.events[t] = db.events[t]
    BY <1>1 DEF Deleted, TablesOf
  <2> HIDE DEF d
  <2>3. WellLogs(d, nextEvent, mixed) /\ d.live \subseteq minted'
    BY <1>2, <2>1, <2>2, EmptyWell, EmptyPaired DEF WellLogs
  <2>4. InHand(s)' => s \in minted
    BY <1>2, <2>1 DEF InHand
  <2> QED BY <1>3, <2>1, <2>2, <2>3, <2>4, OtherKept
<1>6. ASSUME NEW b \in Blobs, put_blob(s, b)
      PROVE  LogsKept'
  <2> DEFINE d == [db EXCEPT !.blobs = @ \cup {b}]
  <2>1. /\ Write(d) /\ UNCHANGED <<calls, spans, minted, mixed>> /\ s \in minted
        /\ nextEvent' = nextEvent + 1
    BY <1>2, <1>6 DEF put_blob, Open
  <2>2. d.events = db.events /\ d.live = db.live
    BY <1>1 DEF TablesOf
  <2> HIDE DEF d
  <2>3. WellLogs(d, nextEvent, mixed) /\ d.live \subseteq minted'
    BY <1>2, <2>1, <2>2 DEF WellLogs
  <2> QED BY <1>3, <2>1, <2>2, <2>3, OtherKept
<1>7. /\ \A r : Writable(s, Message("text", 0, r))
      /\ \A r : Writable(s, Message("call", nextEvent, r))
      /\ \A k \in {"model", "usage"} : Writable(s, Note(k)) /\ Note(k).kind \notin RowKinds
  BY DEF Writable, Message, Note, MessageKinds, RowKinds
<1>8. CASE AppendText(s)
  <2>1. PICK b \in uploads[s] \cup {NoBlob} :
          /\ b = NoBlob => Open(s)
          /\ append(s, Message("text", 0, b))
    BY <1>8 DEF AppendText
  <2>2. /\ UNCHANGED <<calls, spans>> /\ mixed \subseteq mixed'
        /\ s \notin mixed' => calls[s] = {} /\ spans[s] = {}
    BY <1>8 DEF AppendText, Tells
  <2>3. PICK v : uploads' = [uploads EXCEPT ![s] = uploads[s] \ {v}]
    BY <1>8 DEF AppendText
  <2>4. uploads'[s] \subseteq uploads[s]
    BY <1>2, <2>3, HandsUpdate
  <2>5. InHand(s)' => InHand(s)
    BY <2>2, <2>4 DEF InHand
  <2> QED BY <1>3, <1>7, <2>1, <2>2, <2>5, WrittenAreEvents, AppendKept
<1>9. CASE AppendCall(s)
  <2> DEFINE e == Message("call", nextEvent, NoBlob)
             v == IF s \in db.live THEN calls[s] \cup {nextEvent} ELSE calls[s]
  <2>1. IsEvent(e) /\ Writable(s, e) /\ e.kind = "call" /\ e.call = nextEvent
    BY <1>7, WrittenAreEvents DEF Message
  <2>2. /\ append(s, e) /\ UNCHANGED <<spans, uploads>>
        /\ calls' = [calls EXCEPT ![s] = v]
        /\ mixed \subseteq mixed' /\ (s \notin mixed' => calls[s] = {} /\ spans[s] = {})
    BY <1>9 DEF AppendCall, Tells
  <2>3. calls'[s] = v
    BY <1>2, <2>2, HandsUpdate
  <2>4. /\ InHand(s)' => InHand(s) \/ s \in db.live
        /\ s \notin mixed' => calls'[s] \subseteq {nextEvent}
    BY <2>2, <2>3 DEF InHand
  <2> HIDE DEF e, v
  <2> QED BY <1>3, <2>1, <2>2, <2>4, AppendKept
<1>10. CASE AppendResult(s)
  <2>1. PICK k \in calls[s] : /\ append(s, Message("result", k, NoBlob))
                              /\ calls' = [calls EXCEPT ![s] = calls[s] \ {k}]
    BY <1>10 DEF AppendResult
  <2>2. UNCHANGED <<spans, uploads, mixed>>
    BY <1>10 DEF AppendResult
  <2> DEFINE e == Message("result", k, NoBlob)
  <2>3. e.kind = "result" /\ e.call = k /\ IsEvent(e)
    BY WrittenAreEvents DEF Message
  <2>4. append(s, e)
    BY <2>1
  <2> HIDE DEF e
  <2>5. s \in db.live /\ s \notin mixed => LastTold(k, db.events[s]) /\ spans[s] = {}
    BY <1>2 DEF HandsFit
  <2>6. Writable(s, e)
    BY <2>3, <2>5 DEF Writable, RowKinds, MessageKinds
  <2>7. calls'[s] = calls[s] \ {k}
    BY <1>2, <2>1, HandsUpdate
  <2>8. InHand(s)' => InHand(s)
    BY <2>2, <2>7 DEF InHand
\* Both would be the last event that makes a row.
  <2>9. ASSUME s \in db.live, s \notin mixed, NEW j \in calls[s]
        PROVE  j = k
    <3>1. LastTold(j, db.events[s]) /\ LastTold(k, db.events[s])
      BY <1>2, <2>9 DEF HandsFit
    <3>2. PICK c \in db.events[s] :
            /\ c.kind = "call" /\ c.call = j
            /\ \A f \in db.events[s] : f.kind \in RowKinds => f.seq <= c.seq
      BY <3>1 DEF LastTold
    <3>3. PICK d \in db.events[s] :
            /\ d.kind = "call" /\ d.call = k
            /\ \A f \in db.events[s] : f.kind \in RowKinds => f.seq <= d.seq
      BY <3>1 DEF LastTold
    <3>4. c.seq \in Nat /\ d.seq \in Nat
      BY EventSeq DEF SInv, IInv, Sound, IsLog
    <3>5. c.seq = d.seq
      BY <3>2, <3>3, <3>4 DEF RowKinds, MessageKinds
    <3>6. c = d
      BY <1>2, <3>5 DEF WellLogs, WellCompacted, Distinct
    <3> QED BY <3>2, <3>3, <3>6
  <2>10. s \notin mixed /\ s \in db.live => calls'[s] = {} /\ spans'[s] = {}
    BY <2>2, <2>5, <2>7, <2>9
  <2> QED BY <1>3, <2>2, <2>3, <2>4, <2>6, <2>8, <2>10, AppendKept
<1>11. ASSUME NEW kind \in {"model", "usage"}, AppendNote(s, kind)
       PROVE  LogsKept'
  <2> DEFINE e == Note(kind)
  <2>1. IsEvent(e) /\ Writable(s, e) /\ e.kind \notin RowKinds
    BY <1>7, WrittenAreEvents
  <2>2. append(s, e) /\ UNCHANGED <<calls, spans, uploads, mixed>>
    BY <1>11 DEF AppendNote
  <2> HIDE DEF e
  <2>3. InHand(s)' => InHand(s)
    BY <2>2 DEF InHand
  <2> QED BY <1>3, <2>1, <2>2, <2>3, AppendKept
<1>12. CASE PlanCompaction(s)
  <2> DEFINE p == compact_span(db.rows[s])
  <2>1. /\ UNCHANGED <<db, disk, minted, calls, uploads, nextEvent>> /\ s \in db.live
        /\ Cardinality(close_orphan_tool_calls(db.rows[s])) >= 2
        /\ spans' = [spans EXCEPT ![s] = spans[s] \cup {p}]
        /\ mixed \subseteq mixed' /\ (s \notin mixed' => calls[s] = {} /\ spans[s] = {})
    BY <1>12 DEF PlanCompaction, Tells
  <2>2. Fits(p, db.events[s], s \in mixed)
    BY <2>1, SpanFits
  <2> HIDE DEF p
  <2>3. spans'[s] = spans[s] \cup {p}
    BY <1>2, <2>1, HandsUpdate
  <2>4. HandsFitNext(s)
    BY <1>2, <2>1, <2>2, <2>3 DEF HandsFit, HandsFitNext, Fits
  <2> QED BY <1>3, <2>1, <2>4, QuietKept
<1>13. CASE AppendCompacted(s)
  <2>1. PICK p \in spans[s] :
          /\ append(s, Compacted(p))
          /\ \/ spans' = [spans EXCEPT ![s] = spans[s] \ {p}]
             \/ UNCHANGED spans
    BY <1>13 DEF AppendCompacted
  <2>2. UNCHANGED <<calls, uploads, mixed>>
    BY <1>13 DEF AppendCompacted
  <2> DEFINE e == Compacted(p)
  <2>3. /\ e.kind = "compacted" /\ e.lo = p.lo /\ e.hi = p.hi /\ e.covers = p.covers
        /\ IsEvent(e)
    BY WrittenAreEvents DEF Compacted
  <2>4. append(s, e)
    BY <2>1
  <2> HIDE DEF e
  <2>5. s \in db.live => Fits(p, db.events[s], s \in mixed) /\ (s \notin mixed => calls[s] = {})
    BY <1>2 DEF HandsFit
  <2>6. Writable(s, e)
    BY <2>3, <2>5 DEF Writable, RowKinds
  <2>7. spans'[s] \subseteq spans[s]
    BY <1>2, <2>1, HandsUpdate
  <2>8. InHand(s)' => InHand(s)
    BY <2>2, <2>7 DEF InHand
  <2> QED BY <1>3, <2>2, <2>3, <2>4, <2>5, <2>6, <2>7, <2>8, AppendKept
<1>14. CASE GiveUp(s)
  <2>1. UNCHANGED <<db, disk, minted, nextEvent, mixed>>
    BY <1>14 DEF GiveUp
  <2>2. /\ calls'[s] \subseteq calls[s] /\ spans'[s] \subseteq spans[s]
        /\ uploads'[s] \subseteq uploads[s]
    <3>1. CASE /\ \E c \in calls[s] : calls' = [calls EXCEPT ![s] = @ \ {c}]
               /\ UNCHANGED <<spans, uploads>>
      BY <1>2, <3>1, HandsUpdate
    <3>2. CASE /\ \E p \in spans[s] : spans' = [spans EXCEPT ![s] = @ \ {p}]
               /\ UNCHANGED <<calls, uploads>>
      BY <1>2, <3>2, HandsUpdate
    <3>3. CASE /\ \E b \in uploads[s] : uploads' = [uploads EXCEPT ![s] = @ \ {b}]
               /\ UNCHANGED <<calls, spans>>
      BY <1>2, <3>3, HandsUpdate
    <3> QED BY <1>14, <3>1, <3>2, <3>3 DEF GiveUp
  <2>3. HandsFitNext(s)
    BY <1>2, <2>1, <2>2 DEF HandsFit, HandsFitNext, InHand
  <2> QED BY <1>3, <2>1, <2>3, QuietKept
<1>15. ASSUME NEW n \in Sessions, fork_session_empty(s, n)
       PROVE  LogsKept'
  BY <1>15, ForkKept, EmptyWell, EmptyPaired DEF fork_session_empty
<1>16. ASSUME NEW n \in Sessions, NEW at \in 0..MaxEvents, fork_session(s, n, at)
       PROVE  LogsKept'
  <2> DEFINE copies == Copies(s, at)
             new == {remap_event_seq(copies, e) : e \in copies}
             head == Cardinality(copies)
  <2>1. /\ Fork(s, n, new, head) /\ n \notin minted
        /\ minted' = minted \cup {n} /\ UNCHANGED <<calls, spans, uploads, nextEvent>>
        /\ mixed \subseteq mixed' /\ (n \notin mixed' => s \notin mixed)
    BY <1>16 DEF fork_session
  <2>2. /\ IsLog(db.events[s], db.head[s]) /\ at \in Nat
        /\ WellCompacted(db.events[s]) /\ (s \notin mixed => Paired(db.events[s]))
        /\ \A e \in db.events[s] : e.kind = "call" => e.call \in Nat /\ e.call < nextEvent
    BY <1>2, StoreAssumption DEF SInv, LogsKept, IInv, Sound, WellLogs
  <2>3. WellCompacted(copies) /\ (s \notin mixed => Paired(copies))
    BY <2>2, CopiesWell, CopiesPaired
  <2>4. copies \subseteq db.events[s]
    BY DEF Copies
  <2> HIDE DEF copies
  <2>5. IsFiniteSet(copies) /\ \A e \in copies : IsEvent(e)
    BY <2>2, <2>4, FS_Subset DEF IsLog
  <2>6. WellCompacted(new) /\ (s \notin mixed => Paired(new))
    BY <2>3, <2>5, RemapWell, RemapPaired
  <2>7. \A e \in new : e.kind = "call" => e.call \in Nat /\ e.call < nextEvent
    BY <2>2, <2>4, <2>5, RemapFields
  <2> HIDE DEF new, head
  <2> QED BY <2>1, <2>6, <2>7, ForkKept
<1> QED BY <1>4, <1>5, <1>6, <1>8, <1>9, <1>10, <1>11, <1>12, <1>13, <1>14, <1>15,
           <1>16 DEF SessionStep

LEMMA LogsRestart ==
  ASSUME SInv, NEW rebuild, Restart(rebuild)
  PROVE  LogsKept'
<1>1. PICK A : disk \in TablesOf(A)
  BY DEF SInv, IInv, Sound, IsTables
<1>2. Reprojected(disk).live = disk.live /\ Reprojected(disk).events = disk.events
  BY <1>1 DEF Reprojected, TablesOf
<1>3. /\ disk' = db' /\ db'.live = disk.live /\ db'.events = disk.events
      /\ UNCHANGED <<minted, nextEvent, mixed>>
  BY <1>2 DEF Restart
<1>4. HandsTyped' /\ \A s \in Sessions : ~InHand(s)'
  BY RestartHands
<1>5. \A s \in Sessions : calls'[s] = {} /\ spans'[s] = {}
  BY <1>4 DEF InHand
<1>6. \A s \in Sessions : HandsFit(s)'
  BY <1>4, <1>5 DEF HandsFit
<1>7. Underway'
  BY <1>3, <1>4, <1>6 DEF SInv, LogsKept, Underway
<1>8. /\ nextEvent' \in Nat
      /\ WellLogs(db', nextEvent', mixed') /\ WellLogs(disk', nextEvent', mixed')
  BY <1>3 DEF SInv, LogsKept, WellLogs
<1> QED BY <1>7, <1>8, KeptPrimed

LEMMA SInvInit == Init => SInv
<1> SUFFICES ASSUME Init PROVE SInv
  OBVIOUS
<1>1. /\ db.live = {} /\ disk.live = {} /\ minted = {}
      /\ \A s \in Sessions : db.events[s] = {} /\ disk.events[s] = {}
  BY DEF Init, EmptyDb
<1>2. /\ WellLogs(db, nextEvent, mixed) /\ WellLogs(disk, nextEvent, mixed)
      /\ nextEvent \in Nat
  BY <1>1, EmptyWell, EmptyPaired DEF WellLogs, Init
<1>3. \A s \in Sessions : HandsFit(s)
  BY <1>1, InitHands DEF HandsFit
<1> QED BY <1>1, <1>2, <1>3, InitHands, IInvInit DEF SInv, LogsKept, Underway

LEMMA SInvStep == ~ManualSpans /\ SInv /\ [Next]_vars => SInv'
<1> SUFFICES ASSUME ~ManualSpans, SInv, [Next]_vars PROVE SInv'
  OBVIOUS
<1>1. IInv'
  BY IInvStep DEF SInv
<1>2. LogsKept'
  BY LogsStep, LogsRestart, LogsUnchanged DEF Next, vars
<1> QED BY <1>1, <1>2 DEF SInv

\* plan.rs 15-110, when plan_request computes every span: whatever is
\* compacted, forked, deleted or rolled back, each message of a log is a row or
\* covered by one.
THEOREM CompactionForgetsNothing ==
  ASSUME ~ManualSpans
  PROVE  Spec => []NothingForgotten
<1>1. SInv => NothingForgotten
  <2> SUFFICES ASSUME SInv, NEW s \in Sessions
               PROVE  UNION {r.covers : r \in db.rows[s]}
                        = UNION {e.covers : e \in db.events[s]}
    BY DEF NothingForgotten
  <2>1. /\ IsLog(db.events[s], db.head[s]) /\ db.head[s] \in Nat
        /\ WellCompacted(db.events[s]) /\ db.rows[s] = replay_events(db.events[s])
    BY TablesHead DEF SInv, LogsKept, IInv, Sound, WellLogs
  <2> QED BY <2>1, NothingDropped
<1>2. SInv /\ [Next]_vars => SInv'
  BY SInvStep
<1> QED BY <1>1, <1>2, SInvInit, PTL DEF Spec

\* DESIGN 7.5, when plan_request computes every span: in the list made from the log of
\* any session whose writers of messages have not met, each call is followed by its
\* result, each result preceded by its call.  Where they have met it is false
\* (CallsAlwaysPaired).
THEOREM CallsStayPaired ==
  ASSUME ~ManualSpans
  PROVE  Spec => []PlanWellFormed
<1>1. SInv => PlanWellFormed
  <2> SUFFICES ASSUME SInv, NEW s \in Sessions, s \notin mixed
               PROVE  CallsPaired(s)
    BY DEF PlanWellFormed
  <2>1. /\ IsLog(db.events[s], db.head[s]) /\ db.head[s] \in Nat
        /\ WellCompacted(db.events[s]) /\ Paired(db.events[s])
        /\ db.rows[s] = replay_events(db.events[s])
    BY TablesHead DEF SInv, LogsKept, IInv, Sound, WellLogs
  <2> QED BY <2>1, ListWellFormed DEF CallsPaired
<1>2. SInv /\ [Next]_vars => SInv'
  BY SInvStep
<1> QED BY <1>1, <1>2, SInvInit, PTL DEF Spec

-----------------------------------------------------------------------------
LEMMA SameSize ==
  ASSUME NEW copies, IsFiniteSet(copies), \A e \in copies : IsEvent(e),
         Distinct(copies), NEW part \in SUBSET copies
  PROVE  Cardinality({remap_event_seq(copies, e) : e \in part}) = Cardinality(part)
<1> DEFINE R(e) == remap_event_seq(copies, e)
           f == [e \in part |-> R(e)]
           image == {R(e) : e \in part}
<1>1. Numbered(copies)
  BY EventSeq DEF Numbered
<1>2. ASSUME NEW e \in part, NEW g \in part, R(e) = R(g)
      PROVE  e = g
  <2>1. R(e).seq = Renumbered(copies, e.seq) /\ R(g).seq = Renumbered(copies, g.seq)
    BY RemapFields
  <2>2. Renumbered(copies, e.seq) = Renumbered(copies, g.seq)
    BY <1>2, <2>1
  <2>3. e.seq = g.seq
    BY <1>1, <2>2, RenumberedKeepsOrder
  <2> QED BY <2>3 DEF Distinct
<1> HIDE DEF R
<1>3. f \in Bijection(part, image)
  <2>1. f \in [part -> image] /\ \A y \in image : \E e \in part : f[e] = y
    OBVIOUS
  <2>2. \A e, g \in part : f[e] = f[g] => e = g
    BY <1>2
  <2> HIDE DEF f, image
  <2> QED BY <2>1, <2>2 DEF Bijection, Injection, Surjection, IsInjective
<1>4. IsFiniteSet(part)
  BY FS_Subset
<1>5. Cardinality(image) = Cardinality(part)
  <2>1. ExistsBijection(part, image)
    BY <1>3 DEF ExistsBijection
  <2> HIDE DEF image
  <2> QED BY <1>4, <2>1, FS_Bijection
<1> QED BY <1>5 DEF R

\* fork.rs 130-132, when plan_request computes every span: the rows a fork
\* starts with are the transcript its origin had at that seq.
THEOREM ForksAreFaithful ==
  ASSUME ~ManualSpans
  PROVE  Spec => ForkFaithful
<1>1. ASSUME SInv, NEW s \in Sessions, NEW n \in Sessions, NEW at \in 0..MaxEvents,
             fork_session(s, n, at), s \in db.live
      PROVE  SameTranscript(replay_events({e \in db.events[s] : e.seq <= at}),
                            db'.rows[n])
  <2> DEFINE copies == Copies(s, at)
             R(e) == remap_event_seq(copies, e)
             new == {R(e) : e \in copies}
             old == {e \in db.events[s] : e.seq <= at}
             a == replay_events(copies)
             b == replay_events(new)
  <2>1. db'.rows[n] = b
    <3>1. PICK A : db \in TablesOf(A)
      BY <1>1 DEF SInv, IInv, Sound, IsTables
    <3>2. db' = Forked(s, n, new, Cardinality(copies))
      BY <1>1 DEF fork_session, Fork, Write
    <3> HIDE DEF new
    <3> QED BY <3>1, <3>2 DEF Forked, TablesOf
  <2>2. replay_events(old) = a
    BY DEF replay_events, Copies, CopiedKinds, RowKinds, Replaced
  <2>3. IsLog(db.events[s], db.head[s]) /\ at \in Nat /\ WellCompacted(db.events[s])
    BY <1>1, StoreAssumption DEF SInv, LogsKept, IInv, Sound, WellLogs
  <2>4. WellCompacted(copies) /\ copies \subseteq db.events[s]
    BY <2>3, CopiesWell DEF Copies
  <2> HIDE DEF copies, old
  <2>5. IsFiniteSet(copies) /\ (\A e \in copies : IsEvent(e)) /\ Numbered(copies)
    BY <2>3, <2>4, FS_Subset, EventSeq DEF IsLog, Numbered
  <2>6. /\ \A e \in copies : /\ R(e).kind = e.kind /\ R(e).covers = e.covers
                             /\ R(e).call = e.call
        /\ \A e, c \in copies : Replaced(R(e), R(c)) <=> Replaced(e, c)
        /\ \A e, c \in copies : e.seq <= c.seq <=> R(e).seq <= R(c).seq
    <3>1. \A e \in copies : /\ R(e).kind = e.kind /\ R(e).covers = e.covers
                            /\ R(e).call = e.call
                            /\ R(e).seq = Renumbered(copies, e.seq)
      BY <2>5, RemapFields
    <3>2. \A e, c \in copies : Replaced(R(e), R(c)) <=> Replaced(e, c)
      BY <2>4, <2>5, RemapReplaces DEF WellCompacted
    <3>3. ASSUME NEW e \in copies, NEW c \in copies
          PROVE  e.seq <= c.seq <=> R(e).seq <= R(c).seq
      <4> HIDE DEF R
      <4> QED BY <2>5, <3>1, RenumberedKeepsOrder
    <3> QED BY <3>1, <3>2, <3>3
  <2>7. \A part \in SUBSET copies : Cardinality({R(e) : e \in part}) = Cardinality(part)
    BY <2>4, <2>5, SameSize DEF WellCompacted
  <2> HIDE DEF R
  <2>8. a \subseteq copies /\ b = {R(e) : e \in a}
    BY <2>6 DEF replay_events
  <2>9. Cardinality(a) = Cardinality(b)
    BY <2>7, <2>8
  <2>10. ASSUME NEW x \in a
         PROVE  \E y \in b :
                  /\ y.kind = x.kind /\ y.covers = x.covers /\ y.call = x.call
                  /\ Cardinality({z \in a : z.seq <= x.seq})
                       = Cardinality({z \in b : z.seq <= y.seq})
    <3> DEFINE low == {z \in a : z.seq <= x.seq}
    <3>1. {z \in b : z.seq <= R(x).seq} = {R(z) : z \in low}
      BY <2>6, <2>8
    <3>2. Cardinality({R(z) : z \in low}) = Cardinality(low)
      BY <2>7, <2>8
    <3> QED BY <2>6, <2>8, <3>1, <3>2
  <2> HIDE DEF a, b
  <2> QED BY <2>1, <2>2, <2>9, <2>10 DEF SameTranscript, old
<1>2. SInv /\ [Next]_vars =>
        [\A s, n \in Sessions, at \in 0..MaxEvents :
           fork_session(s, n, at) /\ s \in db.live =>
             SameTranscript(replay_events({e \in db.events[s] : e.seq <= at}),
                            db'.rows[n])]_vars
  BY <1>1
<1>3. SInv /\ [Next]_vars => SInv'
  BY SInvStep
<1> QED BY <1>2, <1>3, SInvInit, PTL DEF Spec, ForkFaithful
=============================================================================
