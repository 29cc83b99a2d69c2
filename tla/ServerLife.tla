------------------------------ MODULE ServerLife ------------------------------
(***************************************************************************)
(* The life of the server's process, as its clients see it: whoever finds nothing   *)
(* listening starts one, through the files port, token and spawn.lock of ~/.kn9t     *)
(* (kn9t-server/src/spawn.rs, main.rs, lib.rs, state.rs; kn9t/src/main.rs); it      *)
(* ends when told to, or when nobody has been attached for a while, or it is killed. *)
(* A server stands for its port, too: no port is used twice.                         *)
(***************************************************************************)
EXTENDS Naturals, FiniteSets

CONSTANTS
  Clients,
  Cli,       \* those that are the program kn9t, which takes no lock; the others call
             \* spawn::ensure_server
  Servers,   \* the processes that may be started
  None,      \* no file; nobody
  Old        \* in a file: what no server of this run has written

ASSUME ClientsAssumption == /\ IsFiniteSet(Clients) /\ Cli \subseteq Clients
                            /\ None \notin Servers \cup Clients /\ Old \notin Servers \cup {None}

VARIABLES
  port, token,   \* the files: whose port and token they hold
  lock,          \* the client that holds the flock of spawn.lock
  server,        \* [Servers -> a process: its main thread, its watchdog, its IdleTracker]
  client         \* [Clients -> a process: where it is, what it has read, what it has started]

vars == <<port, token, lock, server, client>>

-----------------------------------------------------------------------------
\* astray and quiet are history: whether the server was started without the lock, or lost
\* by its starter, or its port or token was lost from the files; and whether a grace
\* period has passed since a client left.
NoProcess == [pc |-> "none", listening |-> FALSE, down |-> FALSE, stop |-> FALSE,
              attached |-> 0, fresh |-> TRUE, zero |-> FALSE, astray |-> FALSE, quiet |-> TRUE]
NoClient == [pc |-> "gone", port |-> None, token |-> None, started |-> None]
Init ==
  /\ port \in {None, Old} /\ token \in {None, Old} /\ lock = None
  /\ server = [s \in Servers |-> NoProcess]
  /\ client = [c \in Clients |-> [NoClient EXCEPT !.pc = "new"]]

Listening(s) == s \in Servers /\ server[s].listening
Up(s) == server[s].pc \in {"started", "tokened", "bound", "serving"} /\ ~server[s].down
Runs(s) == server[s].pc # "gone"
Found == Listening(port)

Go(c, pc) == client' = [client EXCEPT ![c].pc = pc]
Leave(c) == client' = [client EXCEPT ![c] = NoClient]
Stray(S) == server' = [s \in Servers |-> [server[s] EXCEPT !.astray = @ \/ s \in S]]
Unlock(c) == lock' = IF lock = c THEN None ELSE lock

-----------------------------------------------------------------------------
(* The program kn9t: ensure_home, then ensure_server of its own.             *)

ensure_home(c) ==
  /\ c \in Cli /\ client[c].pc = "new"
  /\ Go(c, IF token = None THEN "token" ELSE "home")
  /\ UNCHANGED <<port, token, lock, server>>

WriteHomeToken(c) ==
  /\ client[c].pc = "token" /\ Go(c, "home")
  /\ token' = Old /\ Stray({s \in Servers : Up(s) /\ server[s].pc # "started"})
  /\ UNCHANGED <<port, lock>>

ensure_server_cli(c) ==
  /\ client[c].pc = "home"
  /\ IF Found THEN client' = [client EXCEPT ![c].pc = "found", ![c].port = port]
              ELSE Go(c, "spawn")
  /\ UNCHANGED <<port, token, lock, server>>

-----------------------------------------------------------------------------
(* spawn::ensure_server.                                                     *)

FastPath(c) ==
  /\ c \notin Cli /\ client[c].pc = "new"
  /\ IF Found THEN client' = [client EXCEPT ![c].pc = "found", ![c].port = port]
              ELSE Go(c, "lock")
  /\ UNCHANGED <<port, token, lock, server>>

acquire(c) ==
  /\ client[c].pc = "lock" /\ lock = None
  /\ lock' = c /\ Go(c, "recheck")
  /\ UNCHANGED <<port, token, server>>

\* Slip: the port is not looked at again under the lock.
SlipRecheck(c) ==
  /\ client[c].pc = "recheck"
  /\ Go(c, "spawn")
  /\ UNCHANGED <<port, token, lock, server>>

\* Somebody else may have started one while this client waited for the lock.
Recheck(c) ==
  /\ client[c].pc = "recheck"
  /\ IF Found THEN client' = [client EXCEPT ![c].pc = "found", ![c].port = port] /\ Unlock(c)
              ELSE Go(c, IF port = None THEN "spawn" ELSE "stale") /\ UNCHANGED lock
  /\ UNCHANGED <<port, token, server>>

\* The file goes, whatever is in it by now.
DeleteStale(c) ==
  /\ client[c].pc = "stale" /\ Go(c, "spawn")
  /\ port' = None /\ Stray({port})
  /\ UNCHANGED <<token, lock>>

-----------------------------------------------------------------------------
(* Both: start a process, and poll for a port that answers.                  *)

Spawn(c) ==
  /\ client[c].pc = "spawn"
  /\ \E s \in Servers :
       /\ server[s].pc = "none"
       /\ server' = [server EXCEPT ![s].pc = "started", ![s].astray = lock # c]
       /\ client' = [client EXCEPT ![c].pc = "poll", ![c].started = s]
  /\ UNCHANGED <<port, token, lock>>

\* It takes the first server that answers, its own or not.
Poll(c) ==
  /\ client[c].pc = "poll" /\ Found
  /\ client' = [client EXCEPT ![c] = [NoClient EXCEPT !.pc = "found", !.port = port]]
  /\ Unlock(c) /\ Stray({client[c].started} \ {port})
  /\ UNCHANGED <<port, token>>

\* 15 seconds for kn9t; the server may be slow, it asks every provider for its models.
TimeOut(c) ==
  /\ client[c].pc = "poll" /\ Leave(c)
  /\ Unlock(c) /\ Stray({client[c].started})
  /\ UNCHANGED <<port, token>>

ReadToken(c) ==
  /\ client[c].pc = "found"
  /\ client' = [client EXCEPT ![c].pc = "connected", ![c].token = token]
  /\ UNCHANGED <<port, token, lock, server>>

\* Killed: the flock goes with the process.
ClientDies(c) ==
  /\ client[c].pc \in {"token", "lock", "recheck", "stale", "spawn", "poll"} /\ Leave(c)
  /\ Unlock(c) /\ Stray({client[c].started})
  /\ UNCHANGED <<port, token>>

-----------------------------------------------------------------------------
(* Requests.  Each touches the idle clock and is refused if the token is wrong.        *)

At(c) == client[c].port
Serves(c) == Listening(At(c)) /\ client[c].token = At(c)

\* GET /attach: the count goes up, then the clock is touched once more.
client_attached(c) ==
  /\ client[c].pc = "connected" /\ Serves(c) /\ Go(c, "attaching")
  /\ server' = [server EXCEPT ![At(c)].attached = @ + 1, ![At(c)].fresh = TRUE]
  /\ UNCHANGED <<port, token, lock>>

Refused(c) ==
  /\ client[c].pc = "connected" /\ ~(Listening(At(c)) /\ Serves(c)) /\ Leave(c)
  /\ server' = [s \in Servers |-> [server[s] EXCEPT !.fresh = @ \/ (s = At(c) /\ Listening(s))]]
  /\ UNCHANGED <<port, token, lock>>

\* A command that makes a request of another kind, and goes.
RequestOnce(c) ==
  /\ client[c].pc = "connected" /\ Serves(c) /\ Leave(c)
  /\ \E stop \in BOOLEAN :
       server' = [server EXCEPT ![At(c)].fresh = TRUE, ![At(c)].stop = @ \/ stop]
  /\ UNCHANGED <<port, token, lock>>

\* The heartbeat fails: the count goes down, then the clock is touched.
client_detached(c) ==
  /\ client[c].pc = "attached" /\ Runs(At(c)) /\ Go(c, "detaching")
  /\ server' = [server EXCEPT ![At(c)].attached = @ - 1, ![At(c)].quiet = FALSE]
  /\ UNCHANGED <<port, token, lock>>

\* Slip: the clock is not touched, on either way.
Sliptouch(c) ==
  /\ client[c].pc \in {"attaching", "detaching"} /\ Runs(At(c))
  /\ IF client[c].pc = "attaching" THEN Go(c, "attached") ELSE Leave(c)
  /\ UNCHANGED <<port, token, lock, server>>

touch(c) ==
  /\ client[c].pc \in {"attaching", "detaching"} /\ Runs(At(c))
  /\ IF client[c].pc = "attaching" THEN Go(c, "attached") ELSE Leave(c)
  /\ server' = [server EXCEPT ![At(c)].fresh = TRUE]
  /\ UNCHANGED <<port, token, lock>>

\* The server is gone, and the connection with it.
Lost(c) ==
  /\ client[c].pc \in {"attaching", "attached", "detaching"} /\ ~Runs(At(c)) /\ Leave(c)
  /\ UNCHANGED <<port, token, lock, server>>

-----------------------------------------------------------------------------
(* The server.                                                               *)

\* Slip: the token that is there is left there.
SlipWriteToken(s) ==
  /\ server[s].pc = "started"
  /\ server' = [server EXCEPT ![s].pc = "tokened"] /\ token' = IF token = None THEN s ELSE token
  /\ UNCHANGED <<port, lock, client>>

WriteToken(s) ==
  /\ server[s].pc = "started"
  /\ server' = [server EXCEPT ![s].pc = "tokened"] /\ token' = s
  /\ UNCHANGED <<port, lock, client>>

Bind(s) ==
  /\ server[s].pc = "tokened"
  /\ server' = [server EXCEPT ![s].pc = "bound", ![s].listening = TRUE]
  /\ UNCHANGED <<port, token, lock, client>>

WritePort(s) ==
  /\ server[s].pc = "bound"
  /\ server' = [r \in Servers |-> [server[r] EXCEPT !.pc = IF r = s THEN "serving" ELSE @,
                                                    !.astray = @ \/ r = port]]
  /\ port' = s
  /\ UNCHANGED <<token, lock, client>>

\* should_exit reads the counters, and after them the clock.
ReadCounters(s) ==
  /\ server[s].pc \in {"bound", "serving"} /\ ~server[s].down
  /\ server' = [server EXCEPT ![s].zero = server[s].attached = 0,
                              ![s].down = server[s].stop]
  /\ UNCHANGED <<port, token, lock, client>>

ReadClock(s) ==
  /\ server[s].zero /\ ~server[s].down /\ server[s].listening
  /\ server' = [server EXCEPT ![s].zero = FALSE, ![s].down = ~server[s].fresh]
  /\ UNCHANGED <<port, token, lock, client>>

\* idle_exit has elapsed since the clock was touched.
Elapse(s) ==
  /\ server[s].listening /\ ~server[s].down
  /\ server' = [server EXCEPT ![s].fresh = FALSE, ![s].quiet = TRUE]
  /\ UNCHANGED <<port, token, lock, client>>

\* The accept loop ends, and with it the listener, while main cleans up.
Deafen(s) ==
  /\ server[s].down /\ server[s].listening
  /\ server' = [server EXCEPT ![s].listening = FALSE]
  /\ UNCHANGED <<port, token, lock, client>>

\* main removes the port file, whoever's it is by now.
RemovePort(s) ==
  /\ server[s].pc = "serving" /\ server[s].down
  /\ server' = [r \in Servers |-> [server[r] EXCEPT !.pc = IF r = s THEN "cleaned" ELSE @,
                                                    !.astray = @ \/ r = port]]
  /\ port' = None
  /\ UNCHANGED <<token, lock, client>>

\* It returns from main; or it is killed, or fails to start.
Exit(s) ==
  /\ server[s].pc \notin {"none", "gone"}
  /\ server' = [server EXCEPT
       ![s] = [NoProcess EXCEPT !.pc = "gone", !.astray = server[s].astray]]
  /\ UNCHANGED <<port, token, lock, client>>

-----------------------------------------------------------------------------
ClientStep(c) == \/ ensure_home(c) \/ WriteHomeToken(c) \/ ensure_server_cli(c)
                 \/ FastPath(c) \/ acquire(c) \/ Recheck(c) \/ DeleteStale(c)
                 \/ Spawn(c) \/ Poll(c) \/ TimeOut(c) \/ ReadToken(c) \/ ClientDies(c)
                 \/ client_attached(c) \/ Refused(c) \/ RequestOnce(c)
                 \/ client_detached(c) \/ touch(c) \/ Lost(c)
ServerStep(s) == \/ WriteToken(s) \/ Bind(s) \/ WritePort(s) \/ ReadCounters(s) \/ ReadClock(s)
                 \/ Elapse(s) \/ Deafen(s) \/ RemovePort(s) \/ Exit(s)
Next == (\E c \in Clients : ClientStep(c)) \/ (\E s \in Servers : ServerStep(s))
Spec == Init /\ [][Next]_vars

-----------------------------------------------------------------------------
TypeOK ==
  /\ port \in Servers \cup {None, Old} /\ token \in Servers \cup {None, Old}
  /\ lock \in Clients \cup {None}
  /\ \A s \in Servers : server[s].attached \in 0 .. Cardinality(Clients)
  /\ \A c \in Clients : client[c].port \in Servers \cup {None}

\* The point of the lock and of looking twice: of the servers that are up, however many
\* clients start at once, one at most was started under the lock, waited for until it
\* answered, and has kept its port file.
OneServer == \A s, r \in Servers :
  Up(s) /\ Up(r) /\ ~server[s].astray /\ ~server[r].astray => s = r

\* A client that has found a server reads that server's token, although another server
\* wrote the file before: unless either is astray, to which kn9t's first run may lead, too.
TokenFits == \A c \in Clients :
  client[c].pc = "connected" /\ Up(At(c)) =>
    \/ client[c].token = At(c)
    \/ server[At(c)].astray
    \/ client[c].token \in Servers /\ server[client[c].token].astray

\* Nobody who leaves has the server end before the grace period, so that a next client
\* finds it; except between the two steps of a client's leave.
GraceKept == [][\A s \in Servers :
  ReadClock(s) /\ server'[s].down =>
    server[s].quiet \/ \E c \in Clients : client[c].pc = "detaching" /\ At(c) = s]_vars

\* spec/06-server.md:100, "two clients starting together result in exactly one server".
StartingTogether == \A s, r \in Servers :
  Up(s) /\ Up(r) /\ (\A c \in Clients : client[c].pc # "gone") => s = r
=============================================================================
