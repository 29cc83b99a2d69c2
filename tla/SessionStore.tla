---------------------------- MODULE SessionStore ----------------------------
(***************************************************************************)
(* kn9t-store: the append-only event log of every session, the message      *)
(* projection kept beside it, forks, deletion, the blob reference counts,    *)
(* the compaction spans planned over the projection, and the restart that    *)
(* rolls back what was never committed.                                      *)
(*                                                                          *)
(* All of it is one SQLite connection behind one mutex: an operation is one  *)
(* action.  `db` is what the connection sees and `disk` what a restart would *)
(* find; they differ while a transaction is left open.  Every message has an *)
(* identity and a summary carries the identities it stands for, so that a    *)
(* property can say what the model would still be told.                      *)
(*                                                                          *)
(* The store gives the writers of a session no turns: a prompt, a steer, a   *)
(* turn and a compaction may each append between any two appends of another. *)
(* What they have in hand meanwhile is `calls`, `spans` and `uploads`, and the *)
(* sessions in which writers of messages have met are `mixed`.               *)
(*                                                                          *)
(* Operators named Slip... are mistakes a maintainer could make in the       *)
(* operator below them; no specification uses them.                          *)
(***************************************************************************)
EXTENDS Naturals, FiniteSets

CONSTANTS
  Sessions,       \* session ids (ULIDs, never reused)
  Blobs,          \* content hashes of images
  NoBlob,
  NoSession,
  MaxEvents,      \* bound: events appended (copies not counted) and images stored in
                  \* a behaviour
  Careful,        \* TRUE: no write to a session that is deleted or being deleted
  ManualSpans     \* TRUE: POST /compact may compute its own span

ASSUME StoreAssumption ==
  /\ NoBlob \notin Blobs /\ NoSession \notin Sessions
  /\ MaxEvents \in Nat
  /\ Careful \in BOOLEAN /\ ManualSpans \in BOOLEAN

VARIABLES
  db,        \* the tables as the connection sees them
  disk,      \* the tables as committed
  openTx,    \* a BEGIN IMMEDIATE that was neither committed nor rolled back
  minted,    \* session ids given out so far
  calls,     \* [Sessions -> the appended calls some thread will still answer]
  spans,     \* [Sessions -> the spans the compactions under way will replace]
  uploads,   \* [Sessions -> the blobs prompts have stored and not yet referenced]
  nextEvent, \* identity of the next event; an image uses one up as well
  acked,     \* [Sessions -> the events whose append was acknowledged]
  mixed      \* history: sessions to which something was told, or of which a compaction
             \* was planned, while a call was unanswered or a compaction under way
             \* (CallAnsweredNext and CompactionUnraced of TurnRegistry), and their forks

vars == <<db, disk, openTx, minted, calls, spans, uploads, nextEvent, acked, mixed>>

-----------------------------------------------------------------------------
(* Events, and the rows of `messages` projected from them.  A row is the     *)
(* event it comes from.                                                      *)

MessageKinds == {"text", "call", "result"}
RowKinds == MessageKinds \cup {"compacted"}
\* What fork_session copies: MessageAppended, ModelChanged, Compacted.
CopiedKinds == RowKinds \cup {"model"}

Message(kind, call, ref) ==
  [seq |-> 0, kind |-> kind, call |-> call, ref |-> ref, lo |-> 0, hi |-> 0,
   covers |-> {nextEvent}]
Note(kind) ==
  [seq |-> 0, kind |-> kind, call |-> 0, ref |-> NoBlob, lo |-> 0, hi |-> 0,
   covers |-> {}]
Compacted(p) ==
  [seq |-> 0, kind |-> "compacted", call |-> 0, ref |-> NoBlob,
   lo |-> p.lo, hi |-> p.hi, covers |-> p.covers]

Replaced(e, c) == c.kind = "compacted" /\ e.seq \in c.lo..c.hi /\ e.seq < c.seq

\* Replaying events in seq order: the rows no later Compacted deletes.
replay_events(events) ==
  {e \in events : e.kind \in RowKinds /\ \A c \in events : ~Replaced(e, c)}

\* Slip: the end of the range is taken as exclusive.
SlipWriteRows(rows, e) ==
  {r \in rows : ~(e.kind = "compacted" /\ r.seq >= e.lo /\ r.seq < e.hi)}
    \cup (IF e.kind \in RowKinds THEN {e} ELSE {})

\* project + write_rows for one event, on the rows as they are.
write_rows(rows, e) ==
  {r \in rows : ~Replaced(r, e)} \cup (IF e.kind \in RowKinds THEN {e} ELSE {})

-----------------------------------------------------------------------------
(* The list plan_request folds from the rows.  A call without a result gets a *)
(* synthesized one right behind it, under the same seq.                       *)

Answered(rows, e) == \E r \in rows : r.kind = "result" /\ r.call = e.call

Synthesized(e) ==
  [e EXCEPT !.kind = "result", !.ref = NoBlob, !.covers = {}]

\* Entries are pairs <<row, 0 or 1>>: the row, or what was inserted after it.
close_orphan_tool_calls(rows) ==
  {<<r, 0>> : r \in rows}
    \cup {<<Synthesized(r), 1>> :
            r \in {c \in rows : c.kind = "call" /\ ~Answered(rows, c)}}

Upto(list, x) ==
  {y \in list : \/ y[1].seq < x[1].seq
                \/ y[1].seq = x[1].seq /\ y[2] <= x[2]}
Index(list, x) == Cardinality(Upto(list, x))
Prefix(list, k) == {x \in list : Index(list, x) <= k}
At(list, k) == CHOOSE x \in list : Index(list, x) = k

has_orphan_tool_call(list) ==
  \E x \in list : /\ x[1].kind = "call"
                  /\ ~\E y \in list : y[1].kind = "result" /\ y[1].call = x[1].call

\* Slip: the naive half.
SlipCut(list) == Cardinality(list) \div 2

\* The oldest half, extended until no call is cut from its result.
Cut(list) ==
  LET n == Cardinality(list)
  IN  CHOOSE k \in (n \div 2)..n :
        /\ k = n \/ ~has_orphan_tool_call(Prefix(list, k))
        /\ \A j \in (n \div 2)..n : j < k => has_orphan_tool_call(Prefix(list, j))

Covered(list) == UNION {x[1].covers : x \in list}

\* Slip: the range ends at the first message kept.
SlipCompactSpan(rows) ==
  LET list == close_orphan_tool_calls(rows)
      cut  == Cut(list)
  IN  [lo |-> At(list, 1)[1].seq,
       hi |-> At(list, IF cut < Cardinality(list) THEN cut + 1 ELSE cut)[1].seq,
       covers |-> Covered(Prefix(list, cut))]

\* plan.rs: list and seqs are kept in step.
compact_span(rows) ==
  LET list == close_orphan_tool_calls(rows)
      cut  == Cut(list)
  IN  [lo |-> At(list, 1)[1].seq, hi |-> At(list, cut)[1].seq,
       covers |-> Covered(Prefix(list, cut))]

\* routes/session.rs: the cut counts the list, the seqs come from the table.
manual_span(rows) ==
  LET list == close_orphan_tool_calls(rows)
      cut  == Cut(list)
      bare == {<<r, 0>> : r \in rows}
  IN  [lo |-> At(bare, 1)[1].seq,
       hi |-> IF cut <= Cardinality(bare) THEN At(bare, cut)[1].seq ELSE cut,
       covers |-> Covered(Prefix(list, cut))]

-----------------------------------------------------------------------------
(* Writing.                                                                  *)

EmptyDb ==
  [live |-> {}, origin |-> [s \in Sessions |-> NoSession],
   head |-> [s \in Sessions |-> 0], events |-> [s \in Sessions |-> {}],
   rows |-> [s \in Sessions |-> {}],
   blobs |-> {}, refcount |-> [b \in Blobs |-> 0]]

\* A statement outside a transaction commits by itself, unless a transaction is
\* still open on the connection: then it belongs to that one.
Write(d) == db' = d /\ disk' = IF openTx THEN disk ELSE d

\* The tables after one event of s: log, projection, blob count, head.
Appended(d, s, e) ==
  [d EXCEPT !.events[s] = @ \cup {e}, !.rows[s] = write_rows(@, e),
            !.head[s] = e.seq,
            !.refcount = [b \in Blobs |->
               IF e.kind \in MessageKinds /\ e.ref = b /\ b \in d.blobs
               THEN @[b] + 1 ELSE @[b]]]

\* append: without a session row the function returns between BEGIN and the
\* first ROLLBACK it knows, and the transaction stays open.
append(s, e) ==
  /\ ~openTx /\ nextEvent <= MaxEvents
  /\ nextEvent' = nextEvent + 1
  /\ IF s \in db.live
     THEN LET stamped == [e EXCEPT !.seq = db.head[s] + 1]
          IN  /\ Write(Appended(db, s, stamped))
              /\ acked' = [acked EXCEPT ![s] = @ \cup {stamped}]
              /\ UNCHANGED openTx
     ELSE openTx' = TRUE /\ UNCHANGED <<db, disk, acked>>
  /\ UNCHANGED minted

\* Who may write to s at all.
Open(s) == IF Careful THEN s \in db.live ELSE s \in minted

\* What a thread has in hand of s is one of three.
InHand(s) == calls[s] # {} \/ spans[s] # {} \/ uploads[s] # {}

\* A message or a compaction of its own, beside what others have in hand.
Tells(s) == mixed' = IF calls[s] = {} /\ spans[s] = {} THEN mixed ELSE mixed \cup {s}

-----------------------------------------------------------------------------
Init ==
  /\ db = EmptyDb /\ disk = EmptyDb
  /\ openTx = FALSE
  /\ minted = {}
  /\ calls = [s \in Sessions |-> {}]
  /\ spans = [s \in Sessions |-> {}]
  /\ uploads = [s \in Sessions |-> {}]
  /\ nextEvent = 1
  /\ acked = [s \in Sessions |-> {}]
  /\ mixed = {}

\* POST /session: one INSERT, no transaction of its own.
create_session(s) ==
  /\ s \notin minted
  /\ Write([db EXCEPT !.live = @ \cup {s}])
  /\ minted' = minted \cup {s}
  /\ UNCHANGED <<openTx, calls, spans, uploads, nextEvent, acked, mixed>>

\* POST /prompt with an image: the blob first, in its own statement ...
put_blob(s, b) ==
  /\ Open(s) /\ nextEvent <= MaxEvents
  /\ Write([db EXCEPT !.blobs = @ \cup {b}])
  /\ uploads' = [uploads EXCEPT ![s] = @ \cup {b}]
  /\ nextEvent' = nextEvent + 1
  /\ UNCHANGED <<openTx, minted, calls, spans, acked, mixed>>

\* ... then the message that references it; a steer or a prompt without an
\* image is the message alone.
AppendText(s) ==
  /\ Tells(s)
  /\ \E b \in uploads[s] \cup {NoBlob} :
       /\ b = NoBlob => Open(s)
       /\ append(s, Message("text", 0, b))
       /\ uploads' = [uploads EXCEPT ![s] = @ \ {b}]
  /\ UNCHANGED <<calls, spans>>

\* The assistant's tool call and, when the tool has run, its result.
AppendCall(s) ==
  /\ Open(s) /\ Tells(s)
  /\ append(s, Message("call", nextEvent, NoBlob))
  /\ calls' = [calls EXCEPT ![s] = IF s \in db.live THEN @ \cup {nextEvent} ELSE @]
  /\ UNCHANGED <<spans, uploads>>

AppendResult(s) ==
  /\ \E c \in calls[s] :
       /\ append(s, Message("result", c, NoBlob))
       /\ calls' = [calls EXCEPT ![s] = @ \ {c}]
  /\ UNCHANGED <<spans, uploads, mixed>>

\* Events without a message row.  Usage, handoff and tool-visibility events
\* differ from a model change in that a fork leaves them behind.
AppendNote(s, kind) ==
  /\ Open(s)
  /\ append(s, Note(kind))
  /\ UNCHANGED <<calls, spans, uploads, mixed>>

\* plan_request decides to compact, or POST /compact asks for it.
PlanCompaction(s) ==
  /\ s \in db.live /\ Tells(s)
  /\ Cardinality(close_orphan_tool_calls(db.rows[s])) >= 2
  /\ \E p \in {compact_span(db.rows[s])}
              \cup (IF ManualSpans THEN {manual_span(db.rows[s])} ELSE {}) :
       spans' = [spans EXCEPT ![s] = @ \cup {p}]
  /\ UNCHANGED <<db, disk, openTx, minted, calls, uploads, nextEvent, acked>>

\* The summary arrives.  Another thread may have planned the very same span and
\* still be waiting for its own.
AppendCompacted(s) ==
  /\ \E p \in spans[s] :
       /\ append(s, Compacted(p))
       /\ \/ spans' = [spans EXCEPT ![s] = @ \ {p}]
          \/ s \in mixed /\ UNCHANGED spans
  /\ UNCHANGED <<calls, uploads, mixed>>

\* A panic, an abort or a store error ends a thread in the middle: a call
\* stays without its result.
GiveUp(s) ==
  /\ \/ /\ \E c \in calls[s] : calls' = [calls EXCEPT ![s] = @ \ {c}]
        /\ UNCHANGED <<spans, uploads>>
     \/ /\ \E p \in spans[s] : spans' = [spans EXCEPT ![s] = @ \ {p}]
        /\ UNCHANGED <<calls, uploads>>
     \/ /\ \E b \in uploads[s] : uploads' = [uploads EXCEPT ![s] = @ \ {b}]
        /\ UNCHANGED <<calls, spans>>
  /\ UNCHANGED <<db, disk, openTx, minted, nextEvent, acked, mixed>>

-----------------------------------------------------------------------------
(* Forks.                                                                    *)

Copies(s, at) == {e \in db.events[s] : e.seq <= at /\ e.kind \in CopiedKinds}

\* seq_map: old seq to new, contiguous from 1; what is not mapped is kept.
Renumbered(copies, q) ==
  IF \E e \in copies : e.seq = q
  THEN Cardinality({e \in copies : e.seq <= q}) ELSE q

\* Slip: only the seq is rewritten, not the range a Compacted replaces.
SlipRemap(copies, e) == [e EXCEPT !.seq = Renumbered(copies, @)]

remap_event_seq(copies, e) ==
  [e EXCEPT !.seq = Renumbered(copies, @), !.lo = Renumbered(copies, @),
            !.hi = Renumbered(copies, @)]

\* fork_begin's row, and the copies, each projected as it is written.
Forked(s, n, copied, head) ==
  [db EXCEPT !.live = @ \cup {n}, !.origin[n] = s,
             !.events[n] = copied, !.rows[n] = replay_events(copied),
             !.head[n] = head]

\* Slip: with nothing to copy it returns before the COMMIT.
SlipFork(s, n, copied, head) ==
  /\ IF head = 0
     THEN db' = Forked(s, n, copied, 0) /\ openTx' = TRUE /\ UNCHANGED disk
     ELSE Write(Forked(s, n, copied, head)) /\ UNCHANGED openTx
  /\ acked' = [acked EXCEPT ![n] = copied]

\* One transaction; an origin that is gone by now is found out after BEGIN.
Fork(s, n, copied, head) ==
  IF s \in db.live
  THEN /\ Write(Forked(s, n, copied, head))
       /\ acked' = [acked EXCEPT ![n] = copied]
       /\ UNCHANGED openTx
  ELSE openTx' = TRUE /\ UNCHANGED <<db, disk, acked>>

fork_session(s, n, at) ==
  LET copies == Copies(s, at)
  IN  /\ Open(s) /\ ~openTx /\ n \notin minted
      /\ at <= db.head[s]
      /\ Fork(s, n, {remap_event_seq(copies, e) : e \in copies}, Cardinality(copies))
      /\ minted' = minted \cup {n}
      /\ mixed' = mixed \cup {m \in {n} : s \in mixed}
      /\ UNCHANGED <<calls, spans, uploads, nextEvent>>

\* The sub-agent's bare fork.
fork_session_empty(s, n) ==
  /\ Open(s) /\ ~openTx /\ n \notin minted
  /\ Fork(s, n, {}, 0)
  /\ minted' = minted \cup {n}
  /\ UNCHANGED <<calls, spans, uploads, nextEvent, mixed>>

-----------------------------------------------------------------------------
(* Deletion: the fork check, the blobs of the rows, the rows.                *)

RefsOf(s, b) == Cardinality({r \in db.rows[s] : r.ref = b})

\* A row that reaches zero is deleted, and later decrements find none.
decr_blob_refs(s) ==
  [b \in Blobs |-> IF RefsOf(s, b) <= db.refcount[b]
                   THEN db.refcount[b] - RefsOf(s, b) ELSE 0]
Collected(s) ==
  {b \in db.blobs : RefsOf(s, b) > 0 /\ decr_blob_refs(s)[b] = 0}

Deleted(s) ==
  [db EXCEPT !.live = @ \ {s}, !.head[s] = 0, !.events[s] = {}, !.rows[s] = {},
             !.origin[s] = NoSession,
             !.refcount = decr_blob_refs(s), !.blobs = @ \ Collected(s)]

delete_session(s) ==
  /\ s \in db.live /\ ~openTx
  /\ \A t \in db.live : db.origin[t] # s
  /\ Careful => ~InHand(s)
  /\ Write(Deleted(s))
  /\ acked' = [acked EXCEPT ![s] = {}]
  /\ UNCHANGED <<openTx, minted, calls, spans, uploads, nextEvent, mixed>>

-----------------------------------------------------------------------------
(* kill -9 and SqliteStore::open: an open transaction is rolled back; after an *)
(* upgrade the projections are rebuilt from the log.                          *)

Reprojected(d) ==
  [d EXCEPT !.rows = [s \in Sessions |-> replay_events(d.events[s])]]

Restart(rebuild) ==
  /\ db' = IF rebuild THEN Reprojected(disk) ELSE disk
  /\ disk' = db'
  /\ openTx' = FALSE
  /\ calls' = [s \in Sessions |-> {}]
  /\ spans' = [s \in Sessions |-> {}]
  /\ uploads' = [s \in Sessions |-> {}]
  /\ UNCHANGED <<minted, nextEvent, acked, mixed>>

-----------------------------------------------------------------------------
SessionStep(s) ==
  \/ create_session(s) \/ delete_session(s)
  \/ \E b \in Blobs : put_blob(s, b)
  \/ AppendText(s) \/ AppendCall(s) \/ AppendResult(s)
  \/ \E kind \in {"model", "usage"} : AppendNote(s, kind)
  \/ PlanCompaction(s) \/ AppendCompacted(s) \/ GiveUp(s)
  \/ \E n \in Sessions :
       \/ fork_session_empty(s, n)
       \/ \E at \in 0..MaxEvents : fork_session(s, n, at)

Next == \/ \E s \in Sessions : SessionStep(s)
        \/ \E rebuild \in BOOLEAN : Restart(rebuild)

Spec == Init /\ [][Next]_vars

-----------------------------------------------------------------------------
(* Properties.                                                              *)

EventKinds == CopiedKinds \cup {"usage"}
Events == [seq : Nat, kind : EventKinds, call : Nat, ref : Blobs \cup {NoBlob},
           lo : Nat, hi : Nat, covers : SUBSET Nat]
Tables ==
  [live : SUBSET Sessions, origin : [Sessions -> Sessions \cup {NoSession}],
   head : [Sessions -> Nat], events : [Sessions -> SUBSET Events],
   rows : [Sessions -> SUBSET Events],
   blobs : SUBSET Blobs, refcount : [Blobs -> Nat]]

\* The type of every variable.
TypeOK ==
  /\ db \in Tables /\ disk \in Tables
  /\ openTx \in BOOLEAN
  /\ minted \subseteq Sessions
  /\ calls \in [Sessions -> SUBSET Nat]
  /\ spans \in [Sessions -> SUBSET [lo : Nat, hi : Nat, covers : SUBSET Nat]]
  /\ uploads \in [Sessions -> SUBSET Blobs]
  /\ nextEvent \in Nat
  /\ acked \in [Sessions -> SUBSET Events]
  /\ mixed \subseteq Sessions

\* R-STOR-060, R-STOR-090: the projection the live writer keeps, a fork writes
\* and a deletion leaves is what replaying the log gives; reproject --check is clean.
MessagesAreReplay ==
  \A s \in Sessions : db.rows[s] = replay_events(db.events[s])

\* R-STOR-900, kill -9 and reload: every session a request was told of, and
\* every event whose append returned, is on disk.
AckedDurable ==
  \A s \in Sessions : /\ s \in db.live => s \in disk.live
                      /\ acked[s] \subseteq disk.events[s]

\* plan.rs 15-110: compaction shortens the transcript and forgets nothing: each
\* message of the log is still a row, or covered by a summary that is one.
NothingForgotten ==
  \A s \in Sessions :
    UNION {r.covers : r \in db.rows[s]} = UNION {e.covers : e \in db.events[s]}

\* In the list a provider is sent each call is followed by its result, and each
\* result preceded by its call.
CallsPaired(s) ==
  LET list == close_orphan_tool_calls(db.rows[s])
  IN  \A x \in list :
        /\ x[1].kind = "call" => \E y \in list :
             /\ Index(list, y) = Index(list, x) + 1
             /\ y[1].kind = "result" /\ y[1].call = x[1].call
        /\ x[1].kind = "result" => \E y \in list :
             /\ Index(list, y) = Index(list, x) - 1
             /\ y[1].kind = "call" /\ y[1].call = x[1].call

\* DESIGN 7.5, "never split a ToolCall from its ToolResult": calls stay paired,
\* with notes written in between and after any crash, fork or compaction, in every
\* session whose writers of messages have never met.
PlanWellFormed == \A s \in Sessions \ mixed : CallsPaired(s)

\* fork.rs 130-132: the fork's transcript is the transcript its origin had at
\* origin_seq, in the same order, compacted or not.
SameTranscript(a, b) ==
  /\ Cardinality(a) = Cardinality(b)
  /\ \A x \in a : \E y \in b :
       /\ y.kind = x.kind /\ y.covers = x.covers /\ y.call = x.call
       /\ Cardinality({z \in a : z.seq <= x.seq})
            = Cardinality({z \in b : z.seq <= y.seq})
ForkFaithful ==
  [][\A s, n \in Sessions, at \in 0..MaxEvents :
       fork_session(s, n, at) /\ s \in db.live =>
         SameTranscript(replay_events({e \in db.events[s] : e.seq <= at}),
                        db'.rows[n])]_vars

-----------------------------------------------------------------------------
(* What the sources say, and the code does not keep.                         *)

\* DESIGN 7.5 of every session: a steer, a prompt or a second compaction may come
\* between a call and its result, or a plan and its summary.
CallsAlwaysPaired == \A s \in Sessions : CallsPaired(s)

\* R-STOR-150, "a blob referenced by two sessions survives deletion of one":
\* what a row references is in the store.
BlobsAlive ==
  \A s \in Sessions : \A r \in db.rows[s] : r.ref # NoBlob => r.ref \in db.blobs
=============================================================================
