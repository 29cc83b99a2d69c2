------------------------------ MODULE WriteLease ------------------------------
(***************************************************************************)
(* The write lease of one session (kn9t-server lease.rs), the routes that    *)
(* take it, give it back and check it, and the event streams that own it:    *)
(* a stream opened with ?lease= keeps the lease warm on every heartbeat and  *)
(* releases it when its thread finds the client gone.                        *)
(*                                                                          *)
(* Time moves in ticks, of which IdleTicks make the idle timeout; every      *)
(* stream thread wakes for its heartbeat within a tick (15 s against 5 min). *)
(* Tokens are numbered in the order they are minted; a client presents the   *)
(* last one it was given, whether or not it is still worth anything.         *)
(*                                                                          *)
(* Operators named Slip... are mistakes a maintainer could make in the       *)
(* operator below them; no specification uses them.                          *)
(***************************************************************************)
EXTENDS Naturals

CONSTANTS
  Clients,
  IdleTicks,    \* the idle timeout, in ticks
  MaxMints,     \* bound: tokens given out
  MaxStreams    \* bound: streams opened with a lease

ASSUME LeaseAssumption ==
  IdleTicks \in Nat \ {0} /\ MaxMints \in Nat /\ MaxStreams \in Nat

VARIABLES
  lease,     \* [holder, age]; holder 0 when nobody has it
  minted,    \* counter of mint_holder
  token,     \* [Clients -> the token the client would present, 0 for none]
  streams,   \* [Ids -> a stream thread with ?lease=]
  writer     \* token of the newest write that was accepted

vars == <<lease, minted, token, streams, writer>>

Ids == 1..MaxStreams
Free == [holder |-> 0, age |-> 0]
Fresh(t) == [holder |-> t, age |-> 0]
Cold == lease.age >= IdleTicks

\* owns: the stream was opened with the session's lease, refreshed within the
\* last tick.  woke: it has had its heartbeat in this tick.
NoStream == [token |-> 0, state |-> "unused", owns |-> FALSE, woke |-> TRUE]

\* The connection of a live stream is up; a dead one has lost its client and
\* its thread does not know it yet.
Live(t) == {i \in Ids : streams[i].token = t /\ streams[i].state = "live"}
Cut(t) == [i \in Ids |-> IF i \in Live(t) THEN [streams[i] EXCEPT !.state = "dead"]
                                          ELSE streams[i]]

-----------------------------------------------------------------------------
(* lease.rs                                                                 *)

mint_holder == minted + 1

\* Slip: whoever has the lease is kept warm by any stream of the session.
SlipTouch(t) ==
  lease' = IF lease.holder # 0 THEN Fresh(lease.holder) ELSE lease

\* Unlike holds, a live connection revives a lease that has just gone cold.
touch(t) == lease' = IF lease.holder = t THEN Fresh(t) ELSE lease

\* Slip: whoever asks, the lease goes.
SlipRelease(t) == lease' = Free

release(t) == lease' = IF lease.holder = t /\ t # 0 THEN Free ELSE lease

\* Slip: any lease on the session will do.
SlipHolds(t) == lease.holder # 0 /\ ~Cold

holds(t) == lease.holder = t /\ ~Cold

-----------------------------------------------------------------------------
(* Routes.                                                                  *)

\* Slip: the age of the present lease is not looked at.
SlipAcquire(c, takeover) ==
  /\ token[c] = 0 /\ minted < MaxMints
  /\ lease' = Fresh(mint_holder)
  /\ minted' = minted + 1
  /\ token' = [token EXCEPT ![c] = mint_holder]
  /\ UNCHANGED <<streams, writer>>

\* POST /lease: free, gone cold, or stolen.  A client enters a session after it
\* has reset the last one: it has no token and no stream.
acquire(c, takeover) ==
  /\ token[c] = 0 /\ minted < MaxMints
  /\ lease.holder = 0 \/ Cold \/ takeover
  /\ lease' = Fresh(mint_holder)
  /\ minted' = minted + 1
  /\ token' = [token EXCEPT ![c] = mint_holder]
  /\ UNCHANGED <<streams, writer>>

\* DELETE /lease, when the client leaves the session; its stream is stopped
\* first, which the server learns later.
lease_release(c) ==
  /\ token[c] # 0
  /\ release(token[c])
  /\ streams' = Cut(token[c])
  /\ token' = [token EXCEPT ![c] = 0]
  /\ UNCHANGED <<minted, writer>>

\* A [lease required] route that gets past the router.
AcceptWrite(c) ==
  /\ token[c] # 0 /\ holds(token[c])
  /\ lease' = [lease EXCEPT !.age = 0]
  /\ writer' = token[c]
  /\ UNCHANGED <<minted, token, streams>>

\* One that does not; finding its own lease cold, holds drops it.
RefuseWrite(c) ==
  /\ token[c] # 0 /\ ~holds(token[c])
  /\ lease' = IF lease.holder = token[c] THEN Free ELSE lease
  /\ UNCHANGED <<minted, token, streams, writer>>

-----------------------------------------------------------------------------
(* Streams.                                                                 *)

\* GET /events?lease=: the client's first stream, or the one it opens when its
\* connection was interrupted.  Opening one does not refresh the lease.
OpenStream(c) ==
  /\ token[c] # 0 /\ Live(token[c]) = {}
  /\ \E i \in Ids :
       /\ streams[i] = NoStream /\ \A j \in Ids : streams[j] = NoStream => i <= j
       /\ streams' = [streams EXCEPT ![i] =
            [token |-> token[c], state |-> "live",
             owns |-> lease = Fresh(token[c]), woke |-> TRUE]]
  /\ UNCHANGED <<lease, minted, token, writer>>

\* on_alive, after a frame or a keepalive was written.  The first write after
\* the client has gone may succeed as well.
Heartbeat(i) ==
  /\ streams[i].state \in {"live", "dead"}
  /\ touch(streams[i].token)
  /\ streams' = [streams EXCEPT ![i].woke = TRUE]
  /\ UNCHANGED <<minted, token, writer>>

\* The connection is gone; the thread is asleep until its next write.
LoseConnection(i) ==
  /\ streams[i].state = "live"
  /\ streams' = [streams EXCEPT ![i].state = "dead"]
  /\ UNCHANGED <<lease, minted, token, writer>>

\* A write fails: the end of handle_sse.
EndStream(i) ==
  /\ streams[i].state = "dead"
  /\ streams' = [streams EXCEPT ![i].state = "ended", ![i].woke = TRUE]
  /\ release(streams[i].token)
  /\ UNCHANGED <<minted, token, writer>>

\* The client process dies with its connections.
Crash(c) ==
  /\ token[c] # 0
  /\ streams' = Cut(token[c])
  /\ token' = [token EXCEPT ![c] = 0]
  /\ UNCHANGED <<lease, minted, writer>>

\* A tick passes, in which every stream thread has woken.
Tick ==
  /\ \A i \in Ids : streams[i].woke
  /\ streams' = [i \in Ids |->
       [streams[i] EXCEPT !.woke = streams[i].state \notin {"live", "dead"}]]
  /\ lease' = [lease EXCEPT !.age = IF lease.holder = 0 \/ Cold THEN @ ELSE @ + 1]
  /\ UNCHANGED <<minted, token, writer>>

-----------------------------------------------------------------------------
Init ==
  /\ lease = Free /\ minted = 0
  /\ token = [c \in Clients |-> 0]
  /\ streams = [i \in Ids |-> NoStream]
  /\ writer = 0

ClientStep(c) ==
  \/ \E takeover \in BOOLEAN : acquire(c, takeover)
  \/ lease_release(c) \/ AcceptWrite(c) \/ RefuseWrite(c)
  \/ OpenStream(c) \/ Crash(c)

Next ==
  \/ \E c \in Clients : ClientStep(c)
  \/ \E i \in Ids : Heartbeat(i) \/ LoseConnection(i) \/ EndStream(i)
  \/ Tick

Spec == Init /\ [][Next]_vars

\* Time passes, threads wake up, and one whose client is gone finds out.
FairSpec ==
  /\ Spec /\ WF_vars(Tick)
  /\ \A i \in Ids : WF_vars(Heartbeat(i)) /\ WF_vars(EndStream(i))

-----------------------------------------------------------------------------
(* Properties.                                                              *)

Tokens == 0..MaxMints

\* The type of every variable.
TypeOK ==
  /\ lease \in [holder : Tokens, age : 0..IdleTicks]
  /\ minted \in Tokens /\ writer \in Tokens
  /\ token \in [Clients -> Tokens]
  /\ streams \in [Ids -> [token : Tokens, state : {"unused", "live", "dead", "ended"},
                          owns : BOOLEAN, woke : BOOLEAN]]

\* R-SRV-060, many observers, one writer: no two clients ever hold the same
\* token, and only the token that was given out last can be the session's.
SingleWriter ==
  /\ \A c, d \in Clients : token[c] = token[d] /\ token[c] # 0 => c = d
  /\ lease.holder \in {0, minted}

\* lease.rs 9-11, "the former holder's writes then 409": a write that is accepted
\* is the newest holder's, so nobody writes after a later holder has written.
WritersSucceed == [][writer' # writer => writer < writer' /\ writer' = minted]_vars

\* lease.rs 112-118: a client whose stream was opened with its lease, and is up,
\* loses the lease to no other client but by takeover.
NoSilentSteal ==
  [][\A c \in Clients : acquire(c, FALSE) =>
       \A i \in Live(lease.holder) : ~streams[i].owns]_vars

\* lease.rs 112-118: a client whose one stream was opened with its lease, and is
\* up, has the lease and can write, unless a later token was given out.
Owner(i) ==
  /\ streams[i].state = "live" /\ streams[i].owns /\ streams[i].token = minted
OnlyStream(i) == \A j \in Ids \ {i} : streams[j].token # streams[i].token
AttachedKeepsLease ==
  \A i \in Ids : Owner(i) /\ OnlyStream(i) => holds(streams[i].token)

\* R-SRV-060, release on disconnect or after the idle timeout: a client that is
\* gone does not keep the session from the others for ever.
AbandonedLeaseFrees ==
  \A t \in 1..MaxMints :
    (lease.holder = t /\ \A c \in Clients : token[c] # t)
      ~> [](lease.holder # t \/ Cold)

-----------------------------------------------------------------------------
\* lease.rs 114-116, "an attached client must never lose its lease ... while its
\* SSE stream is alive", also after it has had to reconnect.
StreamKeepsLease == \A i \in Ids : Owner(i) => lease.holder = streams[i].token
=============================================================================
