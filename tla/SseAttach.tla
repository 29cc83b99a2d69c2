------------------------------ MODULE SseAttach ------------------------------
(***************************************************************************)
(* GET /session/{id}/events: how the durable events of one session, and the  *)
(* transient ones published between them, reach the clients attached to it   *)
(* (kn9t-server sse.rs and router.rs, kn9t-core bus.rs, the echo at the end  *)
(* of the store's append, and the cursor the TUI keeps).                      *)
(*                                                                          *)
(* An append commits under the store's lock and is echoed on the bus after   *)
(* the lock is gone.  A stream subscribes, reads the log, flushes what its   *)
(* ring collected meanwhile, writes all that, and goes live; the four are    *)
(* separate actions, as are commit and echo.  The ring is bounded and drops  *)
(* its oldest entry.  A connection may die at any point and be made again    *)
(* from the last seq the client saw.                                         *)
(*                                                                          *)
(* Operators named Slip... are mistakes a maintainer could make in the       *)
(* operator below them; no specification uses them.                          *)
(***************************************************************************)
EXTENDS Naturals, Sequences, FiniteSets

CONSTANTS
  Clients,        \* processes that attach
  Capacity,       \* entries a subscriber's ring holds
  MaxEvents,      \* bound: durable events of the session
  MaxTransients,  \* bound: transient events published
  MaxConnects,    \* bound: streams a client opens
  Serial          \* TRUE: one thread at a time writes to the session

ASSUME AttachAssumption ==
  /\ Capacity \in Nat \ {0}
  /\ MaxEvents \in Nat /\ MaxTransients \in Nat /\ MaxConnects \in Nat
  /\ Serial \in BOOLEAN

VARIABLES
  head,        \* head_seq: events 1..head are committed
  pending,     \* committed and not yet echoed on the bus
  transients,  \* transient events published so far
  stage,       \* [Clients -> where its stream is]
  ring,        \* [Clients -> what the subscription has buffered]
  from,        \* [Clients -> the cursor the stream was opened with]
  upto,        \* [Clients -> head_seq as the backlog read saw it]
  contiguous,  \* [Clients -> contiguous_through]
  gap,         \* [Clients -> gap_detected]
  frames,      \* [Clients -> prelude frames not yet written]
  connects,    \* [Clients -> streams opened so far]
  have,        \* [Clients -> durable events the client has been shown]
  last,        \* [Clients -> last_seq, the client's cursor]
  sent,        \* [Clients -> durable frames of this stream, in order]
  dropped      \* [Clients -> durable events evicted that no backlog will cover]

vars == <<head, pending, transients, stage, ring, from, upto, contiguous, gap,
          frames, connects, have, last, sent, dropped>>

server == <<from, upto, contiguous, gap, frames, connects>>
client == <<have, last, sent>>

\* A durable event, or a transient one published when `after` was the newest.
Durable(q) == [seq |-> q, after |-> 0]
Transient(k) == [seq |-> 0, after |-> k]

-----------------------------------------------------------------------------
(* The bus.                                                                  *)

Subscribed(c) == stage[c] \in {"subscribed", "flush", "write", "live"}

Pushed(r, e) == Append(IF Len(r) = Capacity THEN Tail(r) ELSE r, e)

\* What a push costs the client: nothing if the backlog has, or will have, the
\* event.
Evicted(c) ==
  IF Len(ring[c]) = Capacity /\ stage[c] # "subscribed" /\ Head(ring[c]).seq > upto[c]
  THEN {Head(ring[c]).seq} ELSE {}

publish(e) ==
  /\ ring' = [c \in Clients |-> IF Subscribed(c) THEN Pushed(ring[c], e) ELSE ring[c]]
  /\ dropped' = [c \in Clients |->
       dropped[c] \cup IF Subscribed(c) THEN Evicted(c) ELSE {}]

\* append: the COMMIT.  One writer echoes an event before it appends the next.
Commit ==
  /\ Serial => pending = {}
  /\ head < MaxEvents
  /\ head' = head + 1
  /\ pending' = pending \cup {head + 1}
  /\ UNCHANGED <<transients, stage, ring, server, client, dropped>>

\* append: after_append, once the connection lock is dropped.
Echo ==
  \E q \in pending :
    /\ publish(Durable(q))
    /\ pending' = pending \ {q}
    /\ UNCHANGED <<head, transients, stage, server, client>>

\* Slip: the transient overtakes the echo.
SlipEmit ==
  /\ transients < MaxTransients
  /\ transients' = transients + 1
  /\ publish(Transient(head))
  /\ UNCHANGED <<head, pending, stage, server, client>>

\* The same thread emits a transient: TurnEnded after the last message, say.
Emit ==
  /\ Serial => pending = {}
  /\ transients < MaxTransients
  /\ transients' = transients + 1
  /\ publish(Transient(head))
  /\ UNCHANGED <<head, pending, stage, server, client>>

-----------------------------------------------------------------------------
(* The client.                                                               *)

\* enter_session: the snapshot, its messages and its head_seq.
EnterSession(c) ==
  /\ stage[c] = "new"
  /\ have' = [have EXCEPT ![c] = 1..head]
  /\ last' = [last EXCEPT ![c] = head]
  /\ stage' = [stage EXCEPT ![c] = "out"]
  /\ UNCHANGED <<head, pending, transients, ring, server, sent, dropped>>

\* reduce, on a frame that was written to it.  A frame without a seq, the gap
\* frame among them, leaves the cursor alone.
Show(c, e) ==
  IF e.seq = 0
  THEN UNCHANGED client
  ELSE /\ have' = [have EXCEPT ![c] = @ \cup {e.seq}]
       /\ last' = [last EXCEPT ![c] = e.seq]
       /\ sent' = [sent EXCEPT ![c] = Append(@, e.seq)]

-----------------------------------------------------------------------------
(* The stream.                                                               *)

\* Step 1.
Subscribe(c) ==
  /\ stage[c] = "out" /\ connects[c] < MaxConnects
  /\ stage' = [stage EXCEPT ![c] = "subscribed"]
  /\ ring' = [ring EXCEPT ![c] = <<>>]
  /\ from' = [from EXCEPT ![c] = last[c]]
  /\ sent' = [sent EXCEPT ![c] = <<>>]
  /\ connects' = [connects EXCEPT ![c] = @ + 1]
  /\ UNCHANGED <<head, pending, transients, upto, contiguous, gap, frames, have,
                 last, dropped>>

Backlog(c) == [i \in 1..(head - from[c]) |-> Durable(from[c] + i)]

\* Slip: two queries; head_seq is read after an append the rows do not have.
SlipReadBacklog(c) ==
  /\ stage[c] = "subscribed"
  /\ stage' = [stage EXCEPT ![c] = "flush"]
  /\ upto' = [upto EXCEPT ![c] = head]
  /\ contiguous' = [contiguous EXCEPT ![c] = head]
  /\ gap' = [gap EXCEPT ![c] = FALSE]
  /\ \E rows \in {Backlog(c), SubSeq(Backlog(c), 1, Len(Backlog(c)) - 1)} :
       frames' = [frames EXCEPT ![c] = rows]
  /\ UNCHANGED <<head, pending, transients, ring, from, connects, client, dropped>>

\* Steps 2 and 3: rows and head_seq under one lock.
ReadBacklog(c) ==
  /\ stage[c] = "subscribed"
  /\ stage' = [stage EXCEPT ![c] = "flush"]
  /\ upto' = [upto EXCEPT ![c] = head]
  /\ contiguous' = [contiguous EXCEPT ![c] = head]
  /\ gap' = [gap EXCEPT ![c] = FALSE]
  /\ frames' = [frames EXCEPT ![c] = Backlog(c)]
  /\ UNCHANGED <<head, pending, transients, ring, from, connects, client, dropped>>

Fresh(c, e) == e.seq > upto[c] \/ e.seq = 0

\* Slip: the cursor follows the newest event instead of the contiguous ones.
SlipThrough(c, e) == IF e.seq > contiguous[c] THEN e.seq ELSE contiguous[c]

Through(c, e) == IF e.seq = contiguous[c] + 1 THEN e.seq ELSE contiguous[c]

\* Step 4, one entry of the ring at a time.
FlushOne(c) ==
  /\ stage[c] = "flush" /\ ring[c] # <<>>
  /\ LET e == Head(ring[c])
     IN  IF Fresh(c, e)
         THEN /\ frames' = [frames EXCEPT ![c] = Append(@, e)]
              /\ contiguous' = [contiguous EXCEPT ![c] = Through(c, e)]
              /\ gap' = [gap EXCEPT ![c] = @ \/ e.seq > contiguous[c] + 1]
         ELSE UNCHANGED <<frames, contiguous, gap>>
  /\ ring' = [ring EXCEPT ![c] = Tail(@)]
  /\ UNCHANGED <<head, pending, transients, stage, from, upto, connects, client,
                 dropped>>

FlushDone(c) ==
  /\ stage[c] = "flush" /\ ring[c] = <<>>
  /\ stage' = [stage EXCEPT ![c] = "write"]
  /\ UNCHANGED <<head, pending, transients, ring, server, client, dropped>>

\* write_all of the prelude, frame by frame.
WriteFrame(c) ==
  /\ stage[c] = "write" /\ frames[c] # <<>>
  /\ Show(c, Head(frames[c]))
  /\ frames' = [frames EXCEPT ![c] = Tail(@)]
  /\ UNCHANGED <<head, pending, transients, stage, ring, from, upto, contiguous,
                 gap, connects, dropped>>

GoLive(c) ==
  /\ stage[c] = "write" /\ frames[c] = <<>>
  /\ stage' = [stage EXCEPT ![c] = "live"]
  /\ UNCHANGED <<head, pending, transients, ring, server, client, dropped>>

\* Slip: the last entry waits for the next wake-up.
SlipForward(c) ==
  /\ stage[c] = "live" /\ Len(ring[c]) > 1
  /\ Show(c, Head(ring[c]))
  /\ ring' = [ring EXCEPT ![c] = Tail(@)]
  /\ UNCHANGED <<head, pending, transients, stage, server, dropped>>

\* run_live_loop: no watermark is consulted any more.
Forward(c) ==
  /\ stage[c] = "live" /\ ring[c] # <<>>
  /\ Show(c, Head(ring[c]))
  /\ ring' = [ring EXCEPT ![c] = Tail(@)]
  /\ UNCHANGED <<head, pending, transients, stage, server, dropped>>

\* A write fails: the subscription goes, and what was not written with it.
Disconnect(c) ==
  /\ Subscribed(c)
  /\ stage' = [stage EXCEPT ![c] = "out"]
  /\ ring' = [ring EXCEPT ![c] = <<>>]
  /\ frames' = [frames EXCEPT ![c] = <<>>]
  /\ UNCHANGED <<head, pending, transients, from, upto, contiguous, gap, connects,
                 client, dropped>>

-----------------------------------------------------------------------------
Init ==
  /\ head = 0 /\ pending = {} /\ transients = 0
  /\ stage = [c \in Clients |-> "new"]
  /\ ring = [c \in Clients |-> <<>>]
  /\ from = [c \in Clients |-> 0]
  /\ upto = [c \in Clients |-> 0]
  /\ contiguous = [c \in Clients |-> 0]
  /\ gap = [c \in Clients |-> FALSE]
  /\ frames = [c \in Clients |-> <<>>]
  /\ connects = [c \in Clients |-> 0]
  /\ have = [c \in Clients |-> {}]
  /\ last = [c \in Clients |-> 0]
  /\ sent = [c \in Clients |-> <<>>]
  /\ dropped = [c \in Clients |-> {}]

StreamStep(c) ==
  ReadBacklog(c) \/ FlushOne(c) \/ FlushDone(c) \/ WriteFrame(c) \/ GoLive(c)
    \/ Forward(c)

Next ==
  \/ Commit \/ Echo \/ Emit
  \/ \E c \in Clients :
       EnterSession(c) \/ Subscribe(c) \/ StreamStep(c) \/ Disconnect(c)

Spec == Init /\ [][Next]_vars

\* A stream thread keeps running and its client keeps reading; an append that
\* committed is echoed.  Nobody is obliged to attach, append or disconnect.
FairSpec == Spec /\ WF_vars(Echo) /\ \A c \in Clients : WF_vars(StreamStep(c))

-----------------------------------------------------------------------------
(* Properties.                                                              *)

Seqs == 0..MaxEvents
Entries == [seq : Seqs, after : Seqs]

\* The type of every variable; a ring never holds more than its capacity.
TypeOK ==
  /\ head \in Seqs /\ pending \subseteq 1..head /\ transients \in 0..MaxTransients
  /\ stage \in [Clients -> {"new", "out", "subscribed", "flush", "write", "live"}]
  /\ ring \in [Clients -> Seq(Entries)] /\ \A c \in Clients : Len(ring[c]) <= Capacity
  /\ frames \in [Clients -> Seq(Entries)] /\ sent \in [Clients -> Seq(Seqs)]
  /\ from \in [Clients -> Seqs] /\ upto \in [Clients -> Seqs]
  /\ contiguous \in [Clients -> Seqs] /\ gap \in [Clients -> BOOLEAN]
  /\ connects \in [Clients -> 0..MaxConnects]
  /\ have \in [Clients -> SUBSET Seqs] /\ last \in [Clients -> Seqs]
  /\ dropped \in [Clients -> SUBSET Seqs]

InFrames(c) == {frames[c][i].seq : i \in DOMAIN frames[c]} \ {0}

\* sse.rs 67-88: contiguous_through is a cursor it is safe to resume from; when
\* the prelude is written, the client has every event up to it, and a prelude
\* without the gap flag holds nothing beyond it.
ResumeSafe ==
  \A c \in Clients :
    /\ stage[c] = "live" => (from[c] + 1)..contiguous[c] \subseteq have[c]
    /\ stage[c] = "write" /\ ~gap[c] => InFrames(c) \subseteq 1..contiguous[c]

\* The refinement: over any number of streams, what a client has been shown is a
\* growing prefix of the log, until a ring of it has dropped an event for good.
Holed(c) == dropped[c] # {}
Abstract == INSTANCE EventStream WITH
  seen <- have,
  holed <- [c \in Clients |-> Holed(c)]
ImplementsEventStream == Abstract!Spec

\* TurnEnded and the like: when a transient reaches a client, every event that
\* was committed before it has reached that client.
TransientsTrail ==
  [][\A c \in Clients :
       /\ WriteFrame(c) /\ Head(frames[c]).seq = 0 =>
            1..Head(frames[c]).after \subseteq have[c] \cup dropped[c]
       /\ Forward(c) /\ Head(ring[c]).seq = 0 =>
            1..Head(ring[c]).after \subseteq have[c] \cup dropped[c]]_vars

\* bus.rs, "publishing never blocks", and the live loop: an event that committed
\* reaches each client that stays attached, unless its ring drops it.
EventuallyShown ==
  \A c \in Clients : \A q \in 1..MaxEvents :
    (from[c] < q /\ q <= head /\ Subscribed(c))
      ~> (q \in have[c] \cup dropped[c] \/ ~Subscribed(c))

-----------------------------------------------------------------------------
\* R-SRV-040, no duplicate: "an event committed during the attach window is
\* delivered exactly once" (spec/06-server.md 74-75).
NoDuplicate ==
  \A c \in Clients : \A i, j \in DOMAIN sent[c] : sent[c][i] = sent[c][j] => i = j
=============================================================================
