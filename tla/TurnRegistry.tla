---------------------------- MODULE TurnRegistry ----------------------------
(***************************************************************************)
(* The turn registry of kn9t-server and everything that reads or writes it: *)
(* the slot a running turn holds in ServerState::aborts, the HTTP routes    *)
(* that gate on it (prompt, steer, compact, abort), the background threads  *)
(* that claim and release it (spawn_turn, spawn_compact), the sink that      *)
(* releases it early on TurnFinishing, and the idle count paired with it.    *)
(*                                                                          *)
(* A thread is a record with a program counter; one action is one critical   *)
(* section of the code, so a check and the act it guards are two actions     *)
(* wherever the code drops the lock in between.                              *)
(*                                                                          *)
(* An operator named Slip... is a mistake a maintainer could make in the     *)
(* action below it; no specification uses it.  Each property is checked to   *)
(* fail with one of them in place.                                           *)
(***************************************************************************)
EXTENDS Naturals, FiniteSets, Sequences

CONSTANTS
  Sessions,      \* session ids
  Workers,       \* background OS threads (std::thread::spawn), each used once
  Requests,      \* HTTP request threads, each serving one request
  MaxRounds,     \* bound: provider rounds in one run of the ReAct loop
  ClientRule     \* how clients behave, see MaySend

ASSUME ConstantsAssumption ==
  /\ IsFiniteSet(Workers)
  /\ Sessions # {}
  /\ MaxRounds \in Nat \ {0}
  /\ ClientRule \in {"any", "careful", "TUI"}

VARIABLES
  aborts,          \* [Sessions -> id of the registered turn, 0 when free]
  nextTurnId,      \* ServerState::next_turn_id
  cancelled,       \* ids whose Cancel has fired
  runningTurns,    \* IdleTracker::running_turns
  worker,          \* the background threads
  request,         \* the request threads
  pendingSteering, \* [Sessions -> number of queued steering messages]
  log,             \* [Sessions -> the messages of the session's event log]
  client           \* [Sessions -> what the attached client believes]

vars == <<aborts, nextTurnId, cancelled, runningTurns, worker, request,
          pendingSteering, log, client>>

-----------------------------------------------------------------------------
(* Threads, requests and log entries.                                       *)

\* A turn thread between TurnStarted and the end of the loop.
LoopPcs == {"starting", "streaming", "calling", "answering", "tools",
            "steering", "injecting", "following"}
\* The tail of a turn: TurnStatus, TurnFinishing, TurnEnded, autotitle.
TailPcs == {"settling", "finishing", "releasing", "ending", "titling"}
\* Between TurnSlot::register and the end of its Drop.
CountedPcs == LoopPcs \cup TailPcs \cup {"composing", "compacting", "dropping",
                                         "uncounting"}
WorkerPcs == CountedPcs \cup {"none", "spawned", "claimed", "done"}

NoTurn == 0
AnySession == CHOOSE s \in Sessions : TRUE   \* of a thread not spawned yet

NoWorker(s) == [pc |-> "none", kind |-> "turn", session |-> s, id |-> NoTurn,
                round |-> 0, seen |-> NoTurn]

\* TRUE while the thread's own TurnSlot is alive and not yet dropped.
HoldsSlot(w) == worker[w].pc \in (CountedPcs \cup {"claimed"}) \ {"uncounting"}
InLoop(w) == worker[w].pc \in LoopPcs

\* A message of the log: who wrote it and in which provider round; for a
\* Compacted event, n is the length of the span it replaces.
Entry(kind, id, n) == [kind |-> kind, turn |-> id, n |-> n]
AppendTo(s, e) == log' = [log EXCEPT ![s] = Append(@, e)]

Goto(w, pc) == worker' = [worker EXCEPT ![w].pc = pc]

is_turn_running(s) == aborts[s] # NoTurn

\* Slip: the release forgets to compare.
SlipReleaseAny(s, id) == aborts' = [aborts EXCEPT ![s] = NoTurn]

\* Compare-and-swap release: only the id that owns the slot clears it.
release_turn(s, id) ==
  aborts' = [aborts EXCEPT ![s] = IF @ = id THEN NoTurn ELSE @]


NoRequest == [pc |-> "new", op |-> "none", session |-> AnySession,
              by |-> {}]

\* A free thread handle, for std::thread::spawn.
Spawn(kind, s, n) ==
  \E w \in Workers :
    /\ worker[w].pc = "none"
    /\ worker' = [worker EXCEPT ![w] = [NoWorker(s) EXCEPT
                    !.pc = "spawned", !.kind = kind, !.seen = n]]

-----------------------------------------------------------------------------
Init ==
  /\ aborts = [s \in Sessions |-> NoTurn]
  /\ nextTurnId = 1
  /\ cancelled = {}
  /\ runningTurns = 0
  /\ worker = [w \in Workers |-> NoWorker(AnySession)]
  /\ request = [r \in Requests |-> NoRequest]
  /\ pendingSteering = [s \in Sessions |-> 0]
  /\ log = [s \in Sessions |-> <<>>]
  /\ client = [s \in Sessions |-> "idle"]

-----------------------------------------------------------------------------
(* HTTP routes.  A request runs its gate, then its effect; the lock on the  *)
(* registry is released in between.                                         *)

OpenRequests(s) ==
  {r \in Requests : request[r].pc = "passed" /\ request[r].session = s}

\* "any": no rule at all.  The other two send one request at a time.  "TUI" is
\* kn9t-tui: it prompts while it believes the session idle and steers while it
\* believes it streaming.  "careful" is the client the server's comments have in
\* mind: it steers no turn before its TurnStarted, and after a prompt or a
\* compaction sends no other before the TurnEnded or the Compacted event.
MaySend(s, op) ==
  ClientRule # "any" =>
    /\ OpenRequests(s) = {}
    /\ \/ op # "steer" /\ client[s] = "idle"
       \/ op = "steer" /\ client[s] = "running"
       \/ op = "steer" /\ client[s] = (IF ClientRule = "TUI" THEN "sent" ELSE "idle")

\* What kind of thread is registered for s.
HolderKinds(s) ==
  {worker[w].kind : w \in {v \in Workers : worker[v].id = aborts[s]}}

Arrive(r, s, op) ==
  /\ request[r].pc = "new"
  /\ MaySend(s, op)

Reject(r, s, op) ==
  request' = [request EXCEPT ![r] =
    [pc |-> "rejected", op |-> op, session |-> s, by |-> HolderKinds(s)]]

Pass(r, s, op) ==
  request' = [request EXCEPT ![r] =
    [pc |-> "passed", op |-> op, session |-> s, by |-> {}]]

Finish(r) == request' = [request EXCEPT ![r].pc = "done"]

\* POST /prompt, up to the 409.
PromptGate(r, s) ==
  /\ Arrive(r, s, "prompt")
  /\ IF is_turn_running(s)
     THEN Reject(r, s, "prompt") /\ UNCHANGED client
     ELSE Pass(r, s, "prompt") /\ client' = [client EXCEPT ![s] = "sent"]
  /\ UNCHANGED <<aborts, nextTurnId, cancelled, runningTurns, worker,
                 pendingSteering, log>>

\* ... the user message is appended and a turn thread spawned.
PromptAccept(r) ==
  LET s == request[r].session
  IN  /\ request[r].pc = "passed" /\ request[r].op = "prompt"
      /\ AppendTo(s, Entry("user", NoTurn, 0))
      /\ Spawn("turn", s, NoTurn)
      /\ Finish(r)
      /\ UNCHANGED <<aborts, nextTurnId, cancelled, runningTurns,
                     pendingSteering, client>>

\* Slip: a steer is appended at once, turn or no turn.
SlipSteerGate(r, s) ==
  /\ Arrive(r, s, "steer")
  /\ Pass(r, s, "append")
  /\ UNCHANGED <<aborts, nextTurnId, cancelled, runningTurns, worker,
                 pendingSteering, log, client>>

\* POST /steer, the gate: a running turn means the message will be queued.
SteerGate(r, s) ==
  /\ Arrive(r, s, "steer")
  /\ Pass(r, s, IF is_turn_running(s) THEN "queue" ELSE "append")
  /\ UNCHANGED <<aborts, nextTurnId, cancelled, runningTurns, worker,
                 pendingSteering, log, client>>

SteerQueue(r) ==
  LET s == request[r].session
  IN  /\ request[r].pc = "passed" /\ request[r].op = "queue"
      /\ pendingSteering' = [pendingSteering EXCEPT ![s] = @ + 1]
      /\ Finish(r)
      /\ UNCHANGED <<aborts, nextTurnId, cancelled, runningTurns, worker, log,
                     client>>

SteerAppend(r) ==
  LET s == request[r].session
  IN  /\ request[r].pc = "passed" /\ request[r].op = "append"
      /\ AppendTo(s, Entry("steer", NoTurn, 0))
      /\ Finish(r)
      /\ UNCHANGED <<aborts, nextTurnId, cancelled, runningTurns, worker,
                     pendingSteering, client>>

\* The TUI does not wait for a compaction.
Await(s) ==
  client' = [client EXCEPT ![s] = IF ClientRule = "TUI" THEN @ ELSE "sent"]

\* The Compacted event, or the Error, is what a client waits for.
Resume(s) ==
  client' = [client EXCEPT ![s] = IF ClientRule = "TUI" THEN @ ELSE "idle"]

\* POST /compact: the same gate as a prompt.
CompactGate(r, s) ==
  /\ Arrive(r, s, "compact")
  /\ IF is_turn_running(s)
     THEN Reject(r, s, "compact") /\ UNCHANGED client
     ELSE Pass(r, s, "compact") /\ Await(s)
  /\ UNCHANGED <<aborts, nextTurnId, cancelled, runningTurns, worker,
                 pendingSteering, log>>

\* ... the span is planned over the log as it is now, and handed to a thread.
CompactAccept(r) ==
  LET s == request[r].session
  IN  /\ request[r].pc = "passed" /\ request[r].op = "compact"
      /\ Finish(r)
      /\ IF Len(log[s]) < 2
         THEN Resume(s) /\ UNCHANGED worker
         ELSE Spawn("compact", s, Len(log[s])) /\ UNCHANGED client
      /\ UNCHANGED <<aborts, nextTurnId, cancelled, runningTurns,
                     pendingSteering, log>>

\* POST /abort fires the Cancel of whatever is registered, under the lock.
Abort(s) ==
  /\ is_turn_running(s)
  /\ cancelled' = cancelled \cup {aborts[s]}
  /\ UNCHANGED <<aborts, nextTurnId, runningTurns, worker, request,
                 pendingSteering, log, client>>

-----------------------------------------------------------------------------
(* Registration: the id is minted and inserted, displacing any holder; the  *)
(* idle count follows.                                                      *)

Claim(w) ==
  LET s == worker[w].session
  IN  /\ worker[w].pc = "spawned"
      /\ aborts' = [aborts EXCEPT ![s] = nextTurnId]
      /\ nextTurnId' = nextTurnId + 1
      /\ worker' = [worker EXCEPT ![w].pc = "claimed", ![w].id = nextTurnId]
      /\ UNCHANGED <<cancelled, runningTurns, request, pendingSteering, log,
                     client>>

Count(w) ==
  /\ worker[w].pc = "claimed"
  /\ runningTurns' = runningTurns + 1
  /\ Goto(w, IF worker[w].kind = "turn" THEN "composing" ELSE "compacting")
  /\ UNCHANGED <<aborts, nextTurnId, cancelled, request, pendingSteering, log,
                 client>>

\* Slip: the early return of a failed composition skips the slot's Drop.
SlipCompose(w) ==
  /\ worker[w].pc = "composing"
  /\ \/ Goto(w, "starting")
     \/ Goto(w, "done")
  /\ UNCHANGED <<aborts, nextTurnId, cancelled, runningTurns, request,
                 pendingSteering, log, client>>

\* compose_loop: without a provider the thread returns, and only its slot drops.
Compose(w) ==
  /\ worker[w].pc = "composing"
  /\ \/ Goto(w, "starting")
     \/ Goto(w, "dropping")
  /\ UNCHANGED <<aborts, nextTurnId, cancelled, runningTurns, request,
                 pendingSteering, log, client>>

-----------------------------------------------------------------------------
(* The ReAct loop, as far as it touches the registry, the queue or the log.  *)

\* TurnStarted; the first turn of a run drains the steering queue into the
\* request's reminders, which are never appended.
StartRound(w) ==
  LET s == worker[w].session
  IN  /\ worker[w].pc = "starting"
      /\ worker' = [worker EXCEPT ![w].pc = "streaming", ![w].round = @ + 1]
      /\ client' = [client EXCEPT ![s] = "running"]
      /\ pendingSteering' = [pendingSteering EXCEPT ![s] =
                               IF worker[w].round = 0 THEN 0 ELSE @]
      /\ UNCHANGED <<aborts, nextTurnId, cancelled, runningTurns, request, log>>

\* The stream ends; cancel is read once, then the outcome is acted upon.  A
\* provider error ends the run like an abort does.
StreamEnds(w) ==
  /\ worker[w].pc = "streaming"
  /\ \/ Goto(w, "settling")
     \/ /\ worker[w].id \notin cancelled
        /\ \/ Goto(w, "answering")
           \/ worker[w].round < MaxRounds /\ Goto(w, "calling")
  /\ UNCHANGED <<aborts, nextTurnId, cancelled, runningTurns, request,
                 pendingSteering, log, client>>

AppendCalls(w) ==
  /\ worker[w].pc = "calling"
  /\ AppendTo(worker[w].session, Entry("call", worker[w].id, worker[w].round))
  /\ Goto(w, "tools")
  /\ UNCHANGED <<aborts, nextTurnId, cancelled, runningTurns, request,
                 pendingSteering, client>>

\* The tool batch ran (aborted calls are synthesized): one message, all results.
AppendResults(w) ==
  /\ worker[w].pc = "tools"
  /\ AppendTo(worker[w].session, Entry("result", worker[w].id, worker[w].round))
  /\ Goto(w, "steering")
  /\ UNCHANGED <<aborts, nextTurnId, cancelled, runningTurns, request,
                 pendingSteering, client>>

\* A cancelled turn goes idle; otherwise the queue is taken ...
DrainSteering(w) ==
  LET s == worker[w].session
  IN  /\ worker[w].pc = "steering"
      /\ IF worker[w].id \in cancelled
         THEN Goto(w, "settling") /\ UNCHANGED pendingSteering
         ELSE /\ worker' = [worker EXCEPT ![w].pc = "injecting",
                                          ![w].seen = pendingSteering[s]]
              /\ pendingSteering' = [pendingSteering EXCEPT ![s] = 0]
      /\ UNCHANGED <<aborts, nextTurnId, cancelled, runningTurns, request, log,
                     client>>

\* ... and what was taken is appended, one message each.
InjectSteering(w) ==
  /\ worker[w].pc = "injecting"
  /\ IF worker[w].seen = 0
     THEN Goto(w, "starting") /\ UNCHANGED log
     ELSE /\ AppendTo(worker[w].session, Entry("steer", worker[w].id, 1))
          /\ worker' = [worker EXCEPT ![w].seen = @ - 1]
  /\ UNCHANGED <<aborts, nextTurnId, cancelled, runningTurns, request,
                 pendingSteering, client>>

\* No tool calls: idle, unless a plugin has a follow-up.
AppendAnswer(w) ==
  /\ worker[w].pc = "answering"
  /\ AppendTo(worker[w].session, Entry("answer", worker[w].id, worker[w].round))
  /\ \/ Goto(w, "settling")
     \/ worker[w].round < MaxRounds /\ Goto(w, "following")
  /\ UNCHANGED <<aborts, nextTurnId, cancelled, runningTurns, request,
                 pendingSteering, client>>

AppendFollowup(w) ==
  /\ worker[w].pc = "following"
  /\ AppendTo(worker[w].session, Entry("user", worker[w].id, worker[w].round))
  /\ Goto(w, "starting")
  /\ UNCHANGED <<aborts, nextTurnId, cancelled, runningTurns, request,
                 pendingSteering, client>>

-----------------------------------------------------------------------------
(* The end of a turn.                                                       *)

\* run() reports the phase "idle" (or "failed") first; the TUI takes that, and
\* not TurnEnded, for the end of the turn.
PublishStatus(w) ==
  LET s == worker[w].session
  IN  /\ worker[w].pc = "settling"
      /\ client' = [client EXCEPT ![s] = IF ClientRule = "TUI" THEN "idle" ELSE @]
      /\ Goto(w, "finishing")
      /\ UNCHANGED <<aborts, nextTurnId, cancelled, runningTurns, request,
                     pendingSteering, log>>

\* Slip: TurnFinishing is not intercepted.
SlipFinishLook(w) ==
  /\ worker[w].pc = "finishing"
  /\ Goto(w, "ending")
  /\ UNCHANGED <<aborts, nextTurnId, cancelled, runningTurns, request,
                 pendingSteering, log, client>>

\* SessionSink::emit(TurnFinishing): whose turn is registered now?
FinishLook(w) ==
  LET id == aborts[worker[w].session]
  IN  /\ worker[w].pc = "finishing"
      /\ worker' = [worker EXCEPT ![w].seen = id,
                                  ![w].pc = IF id = NoTurn THEN "ending"
                                                           ELSE "releasing"]
      /\ UNCHANGED <<aborts, nextTurnId, cancelled, runningTurns, request,
                     pendingSteering, log, client>>

\* ... and that one is released.
FinishRelease(w) ==
  /\ worker[w].pc = "releasing"
  /\ release_turn(worker[w].session, worker[w].seen)
  /\ Goto(w, "ending")
  /\ UNCHANGED <<nextTurnId, cancelled, runningTurns, request, pendingSteering,
                 log, client>>

\* TurnEnded reaches the client.
PublishEnded(w) ==
  /\ worker[w].pc = "ending"
  /\ client' = [client EXCEPT ![worker[w].session] = "idle"]
  /\ Goto(w, "titling")
  /\ UNCHANGED <<aborts, nextTurnId, cancelled, runningTurns, request,
                 pendingSteering, log>>

\* Slip: the title prompt goes through the session's log.
SlipAutotitle(w) ==
  /\ worker[w].pc = "titling"
  /\ AppendTo(worker[w].session, Entry("user", worker[w].id, worker[w].round))
  /\ Goto(w, "dropping")
  /\ UNCHANGED <<aborts, nextTurnId, cancelled, runningTurns, request,
                 pendingSteering, client>>

\* maybe_autotitle: a provider call of unknown length; it appends no message.
Autotitle(w) ==
  /\ worker[w].pc = "titling"
  /\ Goto(w, "dropping")
  /\ UNCHANGED <<aborts, nextTurnId, cancelled, runningTurns, request,
                 pendingSteering, log, client>>

\* A panic unwinds to the slot's Drop: no TurnFinishing, no TurnEnded.
Panic(w) ==
  /\ worker[w].pc \in LoopPcs \cup {"titling"}
  /\ Goto(w, "dropping")
  /\ UNCHANGED <<aborts, nextTurnId, cancelled, runningTurns, request,
                 pendingSteering, log, client>>

\* spawn_compact: the compactor plugin answers, and Compacted is appended ...
CompactDone(w) ==
  LET s == worker[w].session
  IN  /\ worker[w].pc = "compacting"
      /\ AppendTo(s, Entry("compacted", worker[w].id, worker[w].seen))
      /\ Resume(s)
      /\ Goto(w, "dropping")
      /\ UNCHANGED <<aborts, nextTurnId, cancelled, runningTurns, request,
                     pendingSteering>>

\* ... or fails, and Error is published.
CompactFails(w) ==
  /\ worker[w].pc = "compacting"
  /\ Resume(worker[w].session)
  /\ Goto(w, "dropping")
  /\ UNCHANGED <<aborts, nextTurnId, cancelled, runningTurns, request,
                 pendingSteering, log>>

\* Slip: the guard only counts down.
SlipDropRelease(w) ==
  /\ worker[w].pc = "dropping"
  /\ Goto(w, "uncounting")
  /\ UNCHANGED <<aborts, nextTurnId, cancelled, runningTurns, request,
                 pendingSteering, log, client>>

\* Drop for TurnSlot: its own registration, then the idle count.
DropRelease(w) ==
  /\ worker[w].pc = "dropping"
  /\ release_turn(worker[w].session, worker[w].id)
  /\ Goto(w, "uncounting")
  /\ UNCHANGED <<nextTurnId, cancelled, runningTurns, request, pendingSteering,
                 log, client>>

DropCount(w) ==
  /\ worker[w].pc = "uncounting"
  /\ runningTurns' = runningTurns - 1
  /\ Goto(w, "done")
  /\ UNCHANGED <<aborts, nextTurnId, cancelled, request, pendingSteering, log,
                 client>>

-----------------------------------------------------------------------------
Route(r) ==
  \/ \E s \in Sessions : PromptGate(r, s) \/ SteerGate(r, s) \/ CompactGate(r, s)
  \/ PromptAccept(r) \/ SteerQueue(r) \/ SteerAppend(r) \/ CompactAccept(r)

LoopStep(w) ==
  \/ StartRound(w) \/ StreamEnds(w) \/ AppendCalls(w) \/ AppendResults(w)
  \/ DrainSteering(w) \/ InjectSteering(w) \/ AppendAnswer(w) \/ AppendFollowup(w)

EndStep(w) ==
  \/ PublishStatus(w) \/ FinishLook(w) \/ FinishRelease(w) \/ PublishEnded(w)
  \/ Autotitle(w)
  \/ CompactDone(w) \/ CompactFails(w) \/ DropRelease(w) \/ DropCount(w)

WorkerStep(w) == Claim(w) \/ Count(w) \/ Compose(w) \/ LoopStep(w) \/ EndStep(w)

Next ==
  \/ \E r \in Requests : Route(r)
  \/ \E s \in Sessions : Abort(s)
  \/ \E w \in Workers : WorkerStep(w) \/ Panic(w)

Spec == Init /\ [][Next]_vars

-----------------------------------------------------------------------------
(* Properties.                                                              *)

Kinds == {"turn", "compact"}
ClientStates == {"idle", "sent", "running"}
Ops == {"none", "prompt", "queue", "append", "steer", "compact"}
Entries == [kind : {"user", "steer", "call", "result", "answer", "compacted"},
            turn : Nat, n : Nat]

\* The type of every variable.
TypeOK ==
  /\ aborts \in [Sessions -> Nat]
  /\ nextTurnId \in Nat \ {0}
  /\ cancelled \subseteq Nat
  /\ runningTurns \in Nat
  /\ worker \in [Workers -> [pc : WorkerPcs, kind : Kinds, session : Sessions,
                             id : Nat, round : Nat, seen : Nat]]
  /\ request \in [Requests -> [pc : {"new", "passed", "rejected", "done"},
                               op : Ops, session : Sessions, by : SUBSET Kinds]]
  /\ pendingSteering \in [Sessions -> Nat]
  /\ log \in [Sessions -> Seq(Entries)]
  /\ client \in [Sessions -> ClientStates]

\* turn.rs:131-132, "the slot and the idle count cannot outlive their turn and
\* wedge the session at 409": every registration belongs to a live thread that
\* still has its own Drop ahead of it.
Owns(w, s) == HoldsSlot(w) /\ worker[w].session = s /\ worker[w].id = aborts[s]
SlotHasLiveOwner ==
  \A s \in Sessions : is_turn_running(s) => \E w \in Workers : Owns(w, s)

\* state.rs:69, the idle counter pairs with the registrations: it counts exactly the
\* threads between register and the end of Drop, so the watchdog can neither
\* reap a process in mid-turn nor be pinned by a thread that is gone.
IdleCountExact ==
  runningTurns = Cardinality({w \in Workers : worker[w].pc \in CountedPcs})

-----------------------------------------------------------------------------
(* ... with the careful client, which has one accepted prompt or compaction   *)
(* outstanding at a time.                                                     *)

\* A running loop is the registered one: an ESC reaches it, a second prompt is
\* refused, a steer is queued.
RunningTurnKnown ==
  \A w \in Workers : InLoop(w) => aborts[worker[w].session] = worker[w].id

\* session.rs:328-330, "[tool_use] -> [tool_result] -> [steer]": a result is
\* the next entry after its call, and a call without one (its thread panicked,
\* or is still at work) is never followed by the same turn's messages.
CallAnsweredNext ==
  \A s \in Sessions : \A i \in 1..Len(log[s]) :
    log[s][i].kind = "call" =>
      \/ i = Len(log[s])
      \/ log[s][i + 1] = [log[s][i] EXCEPT !.kind = "result"]
      \/ \A j \in (i + 1)..Len(log[s]) : log[s][j].turn # log[s][i].turn

\* react/turn.rs:84-89, "a client that prompts the instant it sees TurnEnded
\* cannot race a still-registered turn and take a 409".
NoSpurious409 ==
  \A r \in Requests : request[r].pc = "rejected" => "turn" \notin request[r].by

\* The span a Compacted event replaces ends where the log ended when it is
\* appended: nothing slipped in while the plugin was at work.
CompactionUnraced ==
  \A s \in Sessions : \A i \in 1..Len(log[s]) :
    log[s][i].kind = "compacted" => log[s][i].n = i - 1

-----------------------------------------------------------------------------
(* What the sources say of every client, and hold only for some.              *)

\* bus.rs:141-143, "the release is scoped to the turn actually registered": a
\* TurnFinishing never releases the registration of another turn.
FinishReleasesOwn ==
  [][\A w \in Workers :
       FinishRelease(w) => aborts'[worker[w].session] # NoTurn
                           \/ aborts[worker[w].session] \in {NoTurn, worker[w].id}]_vars

\* session.rs:328-330, "the message is queued and drained by get_steering()
\* after tool_results": when a turn has ended, nothing is left in the queue.
SteerDelivered ==
  \A w \in Workers :
    worker[w].pc = "titling" /\ OpenRequests(worker[w].session) = {}
      => pendingSteering[worker[w].session] = 0
=============================================================================
