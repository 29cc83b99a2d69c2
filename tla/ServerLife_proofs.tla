-------------------------- MODULE ServerLife_proofs --------------------------
(* Proofs about ServerLife: how many servers the lock lets live, whose token a   *)
(* client reads, and when an idle server may end.                               *)
EXTENDS ServerLife, FiniteSetTheorems, TLAPS

(***************************************************************************)
(* The inductive invariants.  A server is clean while nothing has gone wrong *)
(* with it: it is up and not astray.  A clean server has its port in the     *)
(* file, or its starter still waits for it under the lock (Owned); so who     *)
(* has the lock and has found no server knows that there is no clean one      *)
(* (Guarded).  The token in the file is then the clean server's (Tokened).    *)
(***************************************************************************)
ServerStates ==
  [pc : {"none", "started", "tokened", "bound", "serving", "cleaned", "gone"},
   listening : BOOLEAN, down : BOOLEAN, stop : BOOLEAN, attached : Int,
   fresh : BOOLEAN, zero : BOOLEAN, astray : BOOLEAN, quiet : BOOLEAN]
ClientStates ==
  [pc : {"new", "token", "home", "lock", "recheck", "stale", "spawn", "poll", "found",
         "connected", "attaching", "attached", "detaching", "gone"},
   port : Servers \cup {None}, token : Servers \cup {None, Old},
   started : Servers \cup {None}]

Types ==
  /\ port \in Servers \cup {None, Old} /\ token \in Servers \cup {None, Old}
  /\ lock \in Clients \cup {None}
  /\ server \in [Servers -> ServerStates] /\ client \in [Clients -> ClientStates]

Clean(s) == Up(s) /\ ~server[s].astray
Unwritten == {"none", "started"}

\* What a file or a client names has got that far, and who is up answers.
Named ==
  /\ \A s \in Servers :
       /\ server[s].listening => server[s].pc \in {"bound", "serving", "cleaned"}
       /\ server[s].down => server[s].pc \notin Unwritten
       /\ Up(s) /\ server[s].pc \in {"bound", "serving"} => server[s].listening
  /\ port \in Servers => server[port].pc \in {"serving", "cleaned", "gone"}
  /\ token \in Servers => server[token].pc \notin Unwritten
  /\ \A c \in Clients :
       /\ At(c) \in Servers => server[At(c)].pc \notin Unwritten
       /\ client[c].token \in Servers => server[client[c].token].pc \notin Unwritten

Waits(c, s) == lock = c /\ client[c].pc = "poll" /\ client[c].started = s
Owned == \A s \in Servers : Clean(s) => port = s \/ \E c \in Clients : Waits(c, s)
Guarded == \A c \in Clients : lock = c =>
  /\ client[c].pc \in {"stale", "spawn"} => \A s \in Servers : ~Clean(s)
  /\ client[c].pc = "poll" => \A s \in Servers : Clean(s) => s = client[c].started

Tokened == \A s \in Servers :
  Clean(s) /\ server[s].pc # "started" =>
    token = s \/ (token \in Servers /\ server[token].astray)

Locking == {"recheck", "stale", "spawn", "poll"}
Holding == lock \in Clients => client[lock].pc \in Locking

IInv == Types /\ Named /\ Holding /\ Owned /\ Guarded
Located == \A c \in Clients :
  client[c].pc \in {"found", "connected", "attaching", "attached", "detaching"}
    => At(c) \in Servers

KInv == IInv /\ Located /\ Tokened /\ TokenFits

\* After a client has left, the clock is fresh or about to be touched.
Touched == \A s \in Servers :
  Runs(s) /\ ~server[s].quiet =>
    server[s].fresh \/ \E c \in Clients : client[c].pc = "detaching" /\ At(c) = s

\* The IdleTracker counts those who are attached.
AttachedTo(s) == {c \in Clients : client[c].pc \in {"attaching", "attached"} /\ At(c) = s}
Counted == \A s \in Servers :
  server[s].attached = IF Runs(s) THEN Cardinality(AttachedTo(s)) ELSE 0

-----------------------------------------------------------------------------
(* Types.                                                                    *)

LEMMA NoProcessType == NoProcess \in ServerStates
BY DEF NoProcess, ServerStates

LEMMA ServerFields ==
  ASSUME Types, NEW s \in Servers
  PROVE  /\ server[s] \in ServerStates
         /\ server[s].pc \in {"none", "started", "tokened", "bound", "serving", "cleaned", "gone"}
         /\ server[s].listening \in BOOLEAN /\ server[s].down \in BOOLEAN
         /\ server[s].astray \in BOOLEAN /\ server[s].attached \in Int
         /\ server[s].fresh \in BOOLEAN /\ server[s].quiet \in BOOLEAN
BY DEF Types, ServerStates

\* Stray changes no more than whether a server is astray.
LEMMA StrayEffect ==
  ASSUME Types, NEW S, Stray(S)
  PROVE  /\ server' \in [Servers -> ServerStates]
         /\ \A s \in Servers :
              /\ server'[s].pc = server[s].pc /\ server'[s].listening = server[s].listening
              /\ server'[s].down = server[s].down /\ server'[s].fresh = server[s].fresh
              /\ server'[s].quiet = server[s].quiet
              /\ server'[s].attached = server[s].attached
              /\ server'[s].astray = (server[s].astray \/ s \in S)
<1>1. ASSUME NEW s \in Servers
      PROVE  [server[s] EXCEPT !.astray = server[s].astray \/ s \in S] \in ServerStates
  <2>1. (server[s].astray \/ s \in S) \in BOOLEAN
    OBVIOUS
  <2> QED
    BY <2>1, ServerFields DEF ServerStates
<1>2. ASSUME NEW s \in Servers
      PROVE  server'[s] = [server[s] EXCEPT !.astray = server[s].astray \/ s \in S]
  BY <1>2 DEF Stray
<1>3. ASSUME NEW s \in Servers PROVE server'[s] \in ServerStates
  BY <1>1, <1>2
<1> QED
  BY <1>2, <1>3, ServerFields DEF Stray, ServerStates

LEMMA GoType ==
  ASSUME Types, NEW c \in Clients,
         NEW pc \in {"token", "home", "lock", "recheck", "stale", "spawn", "poll", "found",
                     "connected", "attaching", "attached", "detaching"}, Go(c, pc)
  PROVE  client' \in [Clients -> ClientStates]
<1>1. [client[c] EXCEPT !.pc = pc] \in ClientStates
  BY DEF Types, ClientStates
<1> QED
  BY <1>1 DEF Types, Go

LEMMA LeaveType ==
  ASSUME Types, NEW c \in Clients, Leave(c)
  PROVE  client' \in [Clients -> ClientStates]
<1>1. NoClient \in ClientStates
  BY DEF NoClient, ClientStates
<1> QED
  BY <1>1 DEF Types, Leave

LEMMA UnlockType ==
  ASSUME Types, NEW c \in Clients, Unlock(c)
  PROVE  lock' \in Clients \cup {None}
BY DEF Types, Unlock

LEMMA FoundType ==
  ASSUME Types, NEW c \in Clients, Found,
         client' = [client EXCEPT ![c].pc = "found", ![c].port = port]
  PROVE  client' \in [Clients -> ClientStates]
<1>1. port \in Servers
  BY DEF Found, Listening
<1>2. [[client[c] EXCEPT !.pc = "found"] EXCEPT !.port = port] \in ClientStates
  BY <1>1 DEF Types, ClientStates
<1>3. client' = [client EXCEPT ![c] = [[client[c] EXCEPT !.pc = "found"] EXCEPT !.port = port]]
  BY DEF Types
<1> QED
  BY <1>2, <1>3 DEF Types

LEMMA StartType ==
  ASSUME Types, NEW c \in Clients,
         \/ ensure_home(c) \/ WriteHomeToken(c) \/ ensure_server_cli(c) \/ FastPath(c)
         \/ acquire(c) \/ Recheck(c) \/ DeleteStale(c)
  PROVE  Types'
<1>1. CASE ensure_home(c)
  <2>1. client' \in [Clients -> ClientStates]
    BY <1>1, GoType DEF ensure_home
  <2> QED
    BY <1>1, <2>1 DEF ensure_home, Types
<1>2. CASE WriteHomeToken(c)
  <2>1. client' \in [Clients -> ClientStates]
    BY <1>2, GoType DEF WriteHomeToken
  <2>2. server' \in [Servers -> ServerStates]
    BY <1>2, StrayEffect DEF WriteHomeToken
  <2> QED
    BY <1>2, <2>1, <2>2 DEF WriteHomeToken, Types
<1>3. CASE ensure_server_cli(c)
  <2>1. client' \in [Clients -> ClientStates]
    BY <1>3, GoType, FoundType DEF ensure_server_cli
  <2> QED
    BY <1>3, <2>1 DEF ensure_server_cli, Types
<1>4. CASE FastPath(c)
  <2>1. client' \in [Clients -> ClientStates]
    BY <1>4, GoType, FoundType DEF FastPath
  <2> QED
    BY <1>4, <2>1 DEF FastPath, Types
<1>5. CASE acquire(c)
  <2>1. client' \in [Clients -> ClientStates]
    BY <1>5, GoType DEF acquire
  <2> QED
    BY <1>5, <2>1 DEF acquire, Types
<1>6. CASE Recheck(c)
  <2>1. client' \in [Clients -> ClientStates]
    BY <1>6, GoType, FoundType DEF Recheck
  <2>2. lock' \in Clients \cup {None}
    BY <1>6, UnlockType DEF Recheck, Types
  <2> QED
    BY <1>6, <2>1, <2>2 DEF Recheck, Types
<1>7. CASE DeleteStale(c)
  <2>1. client' \in [Clients -> ClientStates]
    BY <1>7, GoType DEF DeleteStale
  <2>2. server' \in [Servers -> ServerStates]
    BY <1>7, StrayEffect DEF DeleteStale
  <2> QED
    BY <1>7, <2>1, <2>2 DEF DeleteStale, Types
<1> QED
  BY <1>1, <1>2, <1>3, <1>4, <1>5, <1>6, <1>7

\* Spawn starts one server, and no other is touched.
LEMMA SpawnEffect ==
  ASSUME Types, NEW c \in Clients, Spawn(c)
  PROVE  \E s \in Servers :
           /\ server[s].pc = "none" /\ server'[s].pc = "started"
           /\ server'[s].astray = (lock # c) /\ server'[s].listening = server[s].listening
           /\ server'[s].down = server[s].down /\ server'[s].fresh = server[s].fresh
           /\ server'[s].quiet = server[s].quiet /\ server'[s].attached = server[s].attached
           /\ server'[s] \in ServerStates /\ \A r \in Servers \ {s} : server'[r] = server[r]
           /\ server' \in [Servers -> ServerStates]
           /\ client'[c].pc = "poll" /\ client'[c].started = s
           /\ client'[c].port = client[c].port
           /\ client'[c].token = client[c].token
           /\ client' \in [Clients -> ClientStates]
           /\ \A d \in Clients \ {c} : client'[d] = client[d]
           /\ client[c].pc = "spawn"
           /\ port' = port /\ token' = token /\ lock' = lock
<1>1. PICK s \in Servers :
        /\ server[s].pc = "none"
        /\ server' = [server EXCEPT ![s].pc = "started", ![s].astray = lock # c]
        /\ client' = [client EXCEPT ![c].pc = "poll", ![c].started = s]
  BY DEF Spawn
<1>2. server[s] \in ServerStates /\ client[c] \in ClientStates
  BY DEF Types
<1>3. [[server[s] EXCEPT !.pc = "started"] EXCEPT !.astray = (lock # c)] \in ServerStates
  <2>1. (lock # c) \in BOOLEAN
    OBVIOUS
  <2> QED
    BY <1>2, <2>1 DEF ServerStates
<1>4. server' = [server EXCEPT ![s] = [[server[s] EXCEPT !.pc = "started"]
                                                   EXCEPT !.astray = (lock # c)]]
  BY <1>1 DEF Types
<1>5. [[client[c] EXCEPT !.pc = "poll"] EXCEPT !.started = s] \in ClientStates
  BY <1>2 DEF ClientStates
<1>6. client' = [client EXCEPT ![c] = [[client[c] EXCEPT !.pc = "poll"] EXCEPT !.started = s]]
  BY <1>1 DEF Types
<1>7. /\ server' \in [Servers -> ServerStates] /\ server'[s] \in ServerStates
      /\ \A r \in Servers \ {s} : server'[r] = server[r]
      /\ server'[s] = [[server[s] EXCEPT !.pc = "started"] EXCEPT !.astray = (lock # c)]
  BY <1>3, <1>4 DEF Types
<1>8. /\ client' \in [Clients -> ClientStates]
      /\ \A d \in Clients \ {c} : client'[d] = client[d]
      /\ client'[c] = [[client[c] EXCEPT !.pc = "poll"] EXCEPT !.started = s]
  BY <1>5, <1>6 DEF Types
<1>9. /\ server'[s].pc = "started" /\ server'[s].astray = (lock # c)
      /\ server'[s].listening = server[s].listening
      /\ server'[s].down = server[s].down /\ server'[s].fresh = server[s].fresh
      /\ server'[s].quiet = server[s].quiet /\ server'[s].attached = server[s].attached
  BY <1>2, <1>7 DEF ServerStates
<1>10. /\ client'[c].pc = "poll" /\ client'[c].started = s
       /\ client'[c].port = client[c].port
       /\ client'[c].token = client[c].token
  BY <1>2, <1>8 DEF ClientStates
<1> QED
  BY <1>1, <1>7, <1>8, <1>9, <1>10 DEF Spawn

LEMMA PollEffect ==
  ASSUME Types, NEW c \in Clients, Poll(c)
  PROVE  /\ port \in Servers /\ server[port].listening
         /\ client'[c].pc = "found" /\ client'[c].port = port /\ client'[c].token = None
         /\ client' \in [Clients -> ClientStates]
         /\ \A d \in Clients \ {c} : client'[d] = client[d]
<1>1. port \in Servers /\ server[port].listening
  BY DEF Poll, Found, Listening
<1>2. [NoClient EXCEPT !.pc = "found", !.port = port] \in ClientStates
  BY <1>1 DEF NoClient, ClientStates
<1>3. client' = [client EXCEPT ![c] = [NoClient EXCEPT !.pc = "found", !.port = port]]
  BY DEF Poll
<1>4. /\ client' \in [Clients -> ClientStates]
      /\ client'[c] = [NoClient EXCEPT !.pc = "found", !.port = port]
      /\ \A d \in Clients \ {c} : client'[d] = client[d]
  BY <1>2, <1>3 DEF Types
<1> QED
  BY <1>1, <1>4 DEF NoClient

LEMMA WaitType ==
  ASSUME Types, NEW c \in Clients,
         Spawn(c) \/ Poll(c) \/ TimeOut(c) \/ ReadToken(c) \/ ClientDies(c)
  PROVE  Types'
<1>1. CASE Spawn(c)
  BY <1>1, SpawnEffect DEF Types
<1>2. CASE Poll(c)
  <2>1. client' \in [Clients -> ClientStates]
    BY <1>2, PollEffect
  <2>2. server' \in [Servers -> ServerStates] /\ lock' \in Clients \cup {None}
    BY <1>2, StrayEffect, UnlockType DEF Poll
  <2> QED
    BY <1>2, <2>1, <2>2 DEF Poll, Types
<1>3. CASE TimeOut(c) \/ ClientDies(c)
  <2>1. client' \in [Clients -> ClientStates]
    BY <1>3, LeaveType DEF TimeOut, ClientDies
  <2>2. server' \in [Servers -> ServerStates] /\ lock' \in Clients \cup {None}
    BY <1>3, StrayEffect, UnlockType DEF TimeOut, ClientDies
  <2> QED
    BY <1>3, <2>1, <2>2 DEF TimeOut, ClientDies, Types
<1>4. CASE ReadToken(c)
  <2>1. client[c] \in ClientStates
    BY DEF Types
  <2>2. [[client[c] EXCEPT !.pc = "connected"] EXCEPT !.token = token] \in ClientStates
    BY <2>1 DEF Types, ClientStates
  <2>3. client' = [client EXCEPT ![c] = [[client[c] EXCEPT !.pc = "connected"]
                                                   EXCEPT !.token = token]]
    BY <1>4 DEF Types, ReadToken
  <2>4. client' \in [Clients -> ClientStates]
    BY <2>2, <2>3 DEF Types
  <2> QED
    BY <1>4, <2>4 DEF ReadToken, Types
<1> QED
  BY <1>1, <1>2, <1>3, <1>4

\* One server changes to v.
LEMMA OneChanges ==
  ASSUME Types, NEW a, NEW v, server' = [server EXCEPT ![a] = v],
         a \in Servers => v \in ServerStates
  PROVE  /\ server' \in [Servers -> ServerStates]
         /\ a \in Servers => server'[a] = v
         /\ \A s \in Servers : s # a => server'[s] = server[s]
<1>1. CASE a \in Servers
  BY <1>1 DEF Types
<1>2. CASE a \notin Servers
  <2>1. server' = server
    BY <1>2 DEF Types
  <2> QED
    BY <1>2, <2>1 DEF Types
<1> QED
  BY <1>1, <1>2

\* What a request may change of a server: its count, its clock and whether it is to stop.
Requested(s) ==
  /\ server'[s].pc = server[s].pc /\ server'[s].listening = server[s].listening
  /\ server'[s].down = server[s].down /\ server'[s].astray = server[s].astray

RequestStep(c) == \/ client_attached(c) \/ Refused(c) \/ RequestOnce(c)
                  \/ client_detached(c) \/ touch(c) \/ Lost(c)

LEMMA RequestEffect ==
  ASSUME Types, NEW c \in Clients, RequestStep(c)
  PROVE  /\ server' \in [Servers -> ServerStates] /\ \A s \in Servers : Requested(s)
         /\ client_attached(c) => \A s \in Servers :
              /\ server'[s].attached = server[s].attached + (IF s = At(c) THEN 1 ELSE 0)
              /\ server'[s].quiet = server[s].quiet
              /\ server[s].fresh => server'[s].fresh
         /\ client_detached(c) => \A s \in Servers :
              /\ server'[s].attached = server[s].attached - (IF s = At(c) THEN 1 ELSE 0)
              /\ s # At(c) => server'[s].quiet = server[s].quiet
              /\ server'[s].fresh = server[s].fresh
         /\ Refused(c) \/ RequestOnce(c) \/ touch(c) \/ Lost(c) => \A s \in Servers :
              /\ server'[s].attached = server[s].attached
              /\ server'[s].quiet = server[s].quiet
              /\ server[s].fresh => server'[s].fresh
         /\ touch(c) => \A s \in Servers : s = At(c) => server'[s].fresh
<1>0. server \in [Servers -> ServerStates] /\ \A s \in Servers : server[s] \in ServerStates
  BY DEF Types
<1> DEFINE a == At(c)
<1>1. ASSUME client_attached(c)
      PROVE  /\ server' \in [Servers -> ServerStates]
             /\ \A s \in Servers :
                  /\ Requested(s) /\ server'[s].quiet = server[s].quiet
                  /\ server'[s].attached = server[s].attached + (IF s = a THEN 1 ELSE 0)
                  /\ server[s].fresh => server'[s].fresh
  <2> DEFINE v == [[server[a] EXCEPT !.attached = server[a].attached + 1] EXCEPT !.fresh = TRUE]
  <2>1. server' = [server EXCEPT ![a] = v]
    BY <1>0, <1>1 DEF client_attached
  <2>2. a \in Servers => v \in ServerStates
    <3>1. a \in Servers => server[a].attached + 1 \in Int
      BY ServerFields
    <3> QED
      BY <1>0, <3>1 DEF ServerStates
  <2>3. a \in Servers =>
          /\ v.pc = server[a].pc /\ v.listening = server[a].listening
          /\ v.down = server[a].down /\ v.astray = server[a].astray
          /\ v.attached = server[a].attached + 1 /\ v.quiet = server[a].quiet /\ v.fresh
    BY <1>0 DEF ServerStates
  <2> HIDE DEF a, v
  <2>4. /\ server' \in [Servers -> ServerStates]
        /\ a \in Servers => server'[a] = v
        /\ \A s \in Servers : s # a => server'[s] = server[s]
    BY <2>1, <2>2, OneChanges
  <2> QED
    BY <1>0, <2>3, <2>4, ServerFields DEF Requested
<1>2. ASSUME Refused(c)
      PROVE  /\ server' \in [Servers -> ServerStates]
             /\ \A s \in Servers :
                  /\ Requested(s) /\ server'[s].quiet = server[s].quiet
                  /\ server'[s].attached = server[s].attached
                  /\ server[s].fresh => server'[s].fresh
  <2>1. \A s \in Servers : server'[s] =
          [server[s] EXCEPT !.fresh = server[s].fresh \/ (s = a /\ Listening(s))]
    BY <1>2 DEF Refused
  <2>2. server' = [s \in Servers |-> server'[s]]
    BY <1>2 DEF Refused
  <2>3. \A s \in Servers : (server[s].fresh \/ (s = a /\ Listening(s))) \in BOOLEAN
    OBVIOUS
  <2> HIDE DEF a
  <2>4. ASSUME NEW s \in Servers PROVE server'[s] \in ServerStates
    <3> DEFINE b == server[s].fresh \/ (s = a /\ Listening(s))
    <3>1. server'[s] = [server[s] EXCEPT !.fresh = b] /\ b \in BOOLEAN
      BY <2>1, <2>3
    <3> HIDE DEF b
    <3> QED
      BY <1>0, <3>1 DEF ServerStates
  <2>5. server' \in [Servers -> ServerStates]
    BY <2>2, <2>4
  <2> QED
    BY <1>0, <2>1, <2>5 DEF ServerStates, Requested
<1>3. ASSUME RequestOnce(c)
      PROVE  /\ server' \in [Servers -> ServerStates]
             /\ \A s \in Servers :
                  /\ Requested(s) /\ server'[s].quiet = server[s].quiet
                  /\ server'[s].attached = server[s].attached
                  /\ server[s].fresh => server'[s].fresh
  <2>0. PICK stop \in BOOLEAN :
          server' = [server EXCEPT ![a].fresh = TRUE, ![a].stop = @ \/ stop]
    BY <1>3 DEF RequestOnce
  <2> DEFINE v == [[server[a] EXCEPT !.fresh = TRUE] EXCEPT !.stop = server[a].stop \/ stop]
  <2>1. server' = [server EXCEPT ![a] = v]
    BY <1>0, <2>0
  <2>2. a \in Servers => v \in ServerStates
    <3>1. (server[a].stop \/ stop) \in BOOLEAN
      OBVIOUS
    <3> QED
      BY <1>0, <3>1 DEF ServerStates
  <2>3. a \in Servers =>
          /\ v.pc = server[a].pc /\ v.listening = server[a].listening
          /\ v.down = server[a].down /\ v.astray = server[a].astray
          /\ v.attached = server[a].attached /\ v.quiet = server[a].quiet /\ v.fresh
    BY <1>0 DEF ServerStates
  <2> HIDE DEF a, v
  <2>4. /\ server' \in [Servers -> ServerStates]
        /\ a \in Servers => server'[a] = v
        /\ \A s \in Servers : s # a => server'[s] = server[s]
    BY <2>1, <2>2, OneChanges
  <2> QED
    BY <1>0, <2>3, <2>4, ServerFields DEF Requested
<1>4. ASSUME client_detached(c)
      PROVE  /\ server' \in [Servers -> ServerStates]
             /\ \A s \in Servers :
                  /\ Requested(s) /\ (s # a => server'[s].quiet = server[s].quiet)
                  /\ server'[s].attached = server[s].attached - (IF s = a THEN 1 ELSE 0)
                  /\ server'[s].fresh = server[s].fresh
  <2> DEFINE v == [[server[a] EXCEPT !.attached = server[a].attached - 1]
                                EXCEPT !.quiet = FALSE]
  <2>1. server' = [server EXCEPT ![a] = v]
    BY <1>0, <1>4 DEF client_detached
  <2>2. a \in Servers => v \in ServerStates
    <3>1. a \in Servers => server[a].attached - 1 \in Int
      BY ServerFields
    <3> QED
      BY <1>0, <3>1 DEF ServerStates
  <2>3. a \in Servers =>
          /\ v.pc = server[a].pc /\ v.listening = server[a].listening
          /\ v.down = server[a].down /\ v.astray = server[a].astray
          /\ v.attached = server[a].attached - 1 /\ v.fresh = server[a].fresh
    BY <1>0 DEF ServerStates
  <2> HIDE DEF a, v
  <2>4. /\ server' \in [Servers -> ServerStates]
        /\ a \in Servers => server'[a] = v
        /\ \A s \in Servers : s # a => server'[s] = server[s]
    BY <2>1, <2>2, OneChanges
  <2> QED
    BY <1>0, <2>3, <2>4, ServerFields DEF Requested
<1>5. ASSUME touch(c)
      PROVE  /\ server' \in [Servers -> ServerStates]
             /\ \A s \in Servers :
                  /\ Requested(s) /\ server'[s].quiet = server[s].quiet
                  /\ server'[s].attached = server[s].attached
                  /\ server[s].fresh \/ s = a => server'[s].fresh
  <2> DEFINE v == [server[a] EXCEPT !.fresh = TRUE]
  <2>1. server' = [server EXCEPT ![a] = v]
    BY <1>0, <1>5 DEF touch
  <2>2. a \in Servers => v \in ServerStates
    BY <1>0 DEF ServerStates
  <2>3. a \in Servers =>
          /\ v.pc = server[a].pc /\ v.listening = server[a].listening
          /\ v.down = server[a].down /\ v.astray = server[a].astray
          /\ v.attached = server[a].attached /\ v.quiet = server[a].quiet /\ v.fresh
    BY <1>0 DEF ServerStates
  <2> HIDE DEF a, v
  <2>4. /\ server' \in [Servers -> ServerStates]
        /\ a \in Servers => server'[a] = v
        /\ \A s \in Servers : s # a => server'[s] = server[s]
    BY <2>1, <2>2, OneChanges
  <2> QED
    BY <1>0, <2>3, <2>4, ServerFields DEF Requested
<1>6. ASSUME Lost(c) PROVE server' = server
  BY <1>6 DEF Lost
<1>7. server' = server => \A s \in Servers : Requested(s)
  BY DEF Requested
<1> QED
  BY <1>0, <1>1, <1>2, <1>3, <1>4, <1>5, <1>6, <1>7 DEF RequestStep

LEMMA RequestType ==
  ASSUME Types, NEW c \in Clients, RequestStep(c)
  PROVE  Types'
<1>1. client' \in [Clients -> ClientStates]
  BY GoType, LeaveType DEF RequestStep, client_attached, Refused, RequestOnce, client_detached,
                           touch, Lost
<1>2. port' = port /\ token' = token /\ lock' = lock
  BY DEF RequestStep, client_attached, Refused, RequestOnce, client_detached, touch, Lost
<1> QED
  BY <1>1, <1>2, RequestEffect DEF Types

\* A server's own step: what it changes of itself, and of others that they are astray.
Own(s) ==
  \A r \in Servers :
    /\ server[r].astray => server'[r].astray
    /\ r # s => /\ server'[r].pc = server[r].pc
                /\ server'[r].listening = server[r].listening
                /\ server'[r].down = server[r].down /\ server'[r].fresh = server[r].fresh
                /\ server'[r].quiet = server[r].quiet
                /\ server'[r].attached = server[r].attached

LEMMA OwnStep ==
  ASSUME Types, NEW s \in Servers, NEW v \in ServerStates, v.astray = server[s].astray,
         server' = [server EXCEPT ![s] = v]
  PROVE  /\ Own(s) /\ server' \in [Servers -> ServerStates] /\ server'[s] = v
         /\ \A r \in Servers : r # s => server'[r] = server[r]
BY OneChanges DEF Own

\* Writing the port file, or removing it: who was in it is astray.
Overwrites(s, pc) ==
  server' = [r \in Servers |-> [server[r] EXCEPT !.pc = IF r = s THEN pc ELSE @,
                                                !.astray = @ \/ r = port]]
LEMMA OverwriteEffect ==
  ASSUME Types, NEW s \in Servers, NEW pc \in {"serving", "cleaned"}, Overwrites(s, pc)
  PROVE  /\ Own(s) /\ server' \in [Servers -> ServerStates]
         /\ server'[s].pc = pc /\ server'[s].listening = server[s].listening
         /\ server'[s].down = server[s].down /\ server'[s].fresh = server[s].fresh
         /\ server'[s].quiet = server[s].quiet /\ server'[s].attached = server[s].attached
         /\ \A r \in Servers : r = port => server'[r].astray
<1>1. ASSUME NEW r \in Servers
      PROVE  server'[r] = [[server[r] EXCEPT !.pc = IF r = s THEN pc ELSE server[r].pc]
                                        EXCEPT !.astray = server[r].astray \/ r = port]
  BY ServerFields DEF Overwrites, ServerStates
<1>2. ASSUME NEW r \in Servers
      PROVE  /\ server'[r] \in ServerStates
             /\ server'[r].pc = (IF r = s THEN pc ELSE server[r].pc)
             /\ server'[r].astray = (server[r].astray \/ r = port)
             /\ server'[r].listening = server[r].listening
             /\ server'[r].down = server[r].down /\ server'[r].fresh = server[r].fresh
             /\ server'[r].quiet = server[r].quiet
             /\ server'[r].attached = server[r].attached
  <2> DEFINE q == IF r = s THEN pc ELSE server[r].pc
             a == server[r].astray \/ r = port
             v == [[server[r] EXCEPT !.pc = q] EXCEPT !.astray = a]
  <2>1. server[r] \in ServerStates /\ a \in BOOLEAN
    BY ServerFields
  <2>2. q \in {"serving", "cleaned"} \/ q = server[r].pc
    OBVIOUS
  <2>3. server'[r] = v
    BY <1>1
  <2> HIDE DEF q, a
  <2>4. v \in ServerStates
    BY <2>1, <2>2 DEF ServerStates
  <2>5. /\ v.pc = q /\ v.astray = a /\ v.listening = server[r].listening
        /\ v.down = server[r].down /\ v.fresh = server[r].fresh
        /\ v.quiet = server[r].quiet /\ v.attached = server[r].attached
    BY <2>1 DEF ServerStates
  <2> HIDE DEF v
  <2> QED
    BY <2>3, <2>4, <2>5 DEF q, a
<1>3. server' \in [Servers -> ServerStates]
  BY <1>2 DEF Overwrites
<1> QED
  BY <1>2, <1>3 DEF Own

LEMMA WriteTokenEffect ==
  ASSUME Types, NEW s \in Servers, WriteToken(s)
  PROVE  /\ Own(s) /\ server' \in [Servers -> ServerStates]
         /\ server'[s].pc = "tokened" /\ server'[s].down = server[s].down
         /\ server'[s].listening = server[s].listening
         /\ server'[s].fresh = server[s].fresh /\ server'[s].quiet = server[s].quiet
         /\ server'[s].attached = server[s].attached
<1> DEFINE v == [server[s] EXCEPT !.pc = "tokened"]
<1>1. server' = [server EXCEPT ![s] = v]
  BY ServerFields DEF WriteToken, Types, ServerStates
<1>2. v \in ServerStates
  BY ServerFields, NoProcessType DEF ServerStates
<1>3. v.astray = server[s].astray
  BY ServerFields DEF ServerStates
<1>4. /\ v.pc = "tokened" /\ v.down = server[s].down /\ v.listening = server[s].listening
      /\ v.fresh = server[s].fresh /\ v.quiet = server[s].quiet
      /\ v.attached = server[s].attached
  BY ServerFields DEF ServerStates, WriteToken
<1> HIDE DEF v
<1>5. Own(s) /\ server' \in [Servers -> ServerStates] /\ server'[s] = v
  BY <1>1, <1>2, <1>3, OwnStep
<1> QED
  BY <1>4, <1>5

LEMMA BindEffect ==
  ASSUME Types, NEW s \in Servers, Bind(s)
  PROVE  /\ Own(s) /\ server' \in [Servers -> ServerStates]
         /\ server'[s].pc = "bound" /\ server'[s].down = server[s].down
         /\ server'[s].listening
         /\ server'[s].fresh = server[s].fresh /\ server'[s].quiet = server[s].quiet
         /\ server'[s].attached = server[s].attached
<1> DEFINE v == [[server[s] EXCEPT !.pc = "bound"] EXCEPT !.listening = TRUE]
<1>1. server' = [server EXCEPT ![s] = v]
  BY ServerFields DEF Bind, Types, ServerStates
<1>2. v \in ServerStates
  BY ServerFields, NoProcessType DEF ServerStates
<1>3. v.astray = server[s].astray
  BY ServerFields DEF ServerStates
<1>4. /\ v.pc = "bound" /\ v.down = server[s].down /\ v.listening
      /\ v.fresh = server[s].fresh /\ v.quiet = server[s].quiet
      /\ v.attached = server[s].attached
  BY ServerFields DEF ServerStates, Bind
<1> HIDE DEF v
<1>5. Own(s) /\ server' \in [Servers -> ServerStates] /\ server'[s] = v
  BY <1>1, <1>2, <1>3, OwnStep
<1> QED
  BY <1>4, <1>5

LEMMA ReadCountersEffect ==
  ASSUME Types, NEW s \in Servers, ReadCounters(s)
  PROVE  /\ Own(s) /\ server' \in [Servers -> ServerStates]
         /\ server'[s].pc = server[s].pc /\ server'[s].listening = server[s].listening
         /\ ~server[s].down
         /\ server'[s].fresh = server[s].fresh /\ server'[s].quiet = server[s].quiet
         /\ server'[s].attached = server[s].attached
<1> DEFINE v == [[server[s] EXCEPT !.zero = (server[s].attached = 0)]
                              EXCEPT !.down = server[s].stop]
<1>1. server' = [server EXCEPT ![s] = v]
  BY ServerFields DEF ReadCounters, Types, ServerStates
<1>2. v \in ServerStates
  BY ServerFields, NoProcessType DEF ServerStates
<1>3. v.astray = server[s].astray
  BY ServerFields DEF ServerStates
<1>4. /\ v.pc = server[s].pc /\ v.listening = server[s].listening /\ ~server[s].down
      /\ v.fresh = server[s].fresh /\ v.quiet = server[s].quiet
      /\ v.attached = server[s].attached
  BY ServerFields DEF ServerStates, ReadCounters
<1> HIDE DEF v
<1>5. Own(s) /\ server' \in [Servers -> ServerStates] /\ server'[s] = v
  BY <1>1, <1>2, <1>3, OwnStep
<1> QED
  BY <1>4, <1>5

LEMMA ReadClockEffect ==
  ASSUME Types, NEW s \in Servers, ReadClock(s)
  PROVE  /\ Own(s) /\ server' \in [Servers -> ServerStates]
         /\ server'[s].pc = server[s].pc /\ server'[s].listening = server[s].listening
         /\ ~server[s].down /\ server'[s].down = ~server[s].fresh
         /\ server'[s].fresh = server[s].fresh /\ server'[s].quiet = server[s].quiet
         /\ server'[s].attached = server[s].attached
<1> DEFINE v == [[server[s] EXCEPT !.zero = FALSE] EXCEPT !.down = ~server[s].fresh]
<1>1. server' = [server EXCEPT ![s] = v]
  BY ServerFields DEF ReadClock, Types, ServerStates
<1>2. v \in ServerStates
  BY ServerFields, NoProcessType DEF ServerStates
<1>3. v.astray = server[s].astray
  BY ServerFields DEF ServerStates
<1>4. /\ v.pc = server[s].pc /\ v.listening = server[s].listening /\ ~server[s].down
      /\ v.down = ~server[s].fresh
      /\ v.fresh = server[s].fresh /\ v.quiet = server[s].quiet
      /\ v.attached = server[s].attached
  BY ServerFields DEF ServerStates, ReadClock
<1> HIDE DEF v
<1>5. Own(s) /\ server' \in [Servers -> ServerStates] /\ server'[s] = v
  BY <1>1, <1>2, <1>3, OwnStep
<1> QED
  BY <1>4, <1>5

LEMMA ElapseEffect ==
  ASSUME Types, NEW s \in Servers, Elapse(s)
  PROVE  /\ Own(s) /\ server' \in [Servers -> ServerStates]
         /\ server'[s].pc = server[s].pc /\ server'[s].listening = server[s].listening
         /\ server'[s].down = server[s].down
         /\ server'[s].quiet /\ server'[s].attached = server[s].attached
<1> DEFINE v == [[server[s] EXCEPT !.fresh = FALSE] EXCEPT !.quiet = TRUE]
<1>1. server' = [server EXCEPT ![s] = v]
  BY ServerFields DEF Elapse, Types, ServerStates
<1>2. v \in ServerStates
  BY ServerFields, NoProcessType DEF ServerStates
<1>3. v.astray = server[s].astray
  BY ServerFields DEF ServerStates
<1>4. /\ v.pc = server[s].pc /\ v.listening = server[s].listening /\ v.down = server[s].down
      /\ v.quiet /\ v.attached = server[s].attached
  BY ServerFields DEF ServerStates, Elapse
<1> HIDE DEF v
<1>5. Own(s) /\ server' \in [Servers -> ServerStates] /\ server'[s] = v
  BY <1>1, <1>2, <1>3, OwnStep
<1> QED
  BY <1>4, <1>5

LEMMA DeafenEffect ==
  ASSUME Types, NEW s \in Servers, Deafen(s)
  PROVE  /\ Own(s) /\ server' \in [Servers -> ServerStates]
         /\ server'[s].pc = server[s].pc /\ ~server'[s].listening
         /\ server'[s].down = server[s].down
         /\ server'[s].fresh = server[s].fresh /\ server'[s].quiet = server[s].quiet
         /\ server'[s].attached = server[s].attached
<1> DEFINE v == [server[s] EXCEPT !.listening = FALSE]
<1>1. server' = [server EXCEPT ![s] = v]
  BY ServerFields DEF Deafen, Types, ServerStates
<1>2. v \in ServerStates
  BY ServerFields, NoProcessType DEF ServerStates
<1>3. v.astray = server[s].astray
  BY ServerFields DEF ServerStates
<1>4. /\ v.pc = server[s].pc /\ ~v.listening /\ v.down = server[s].down
      /\ v.fresh = server[s].fresh /\ v.quiet = server[s].quiet
      /\ v.attached = server[s].attached
  BY ServerFields DEF ServerStates, Deafen
<1> HIDE DEF v
<1>5. Own(s) /\ server' \in [Servers -> ServerStates] /\ server'[s] = v
  BY <1>1, <1>2, <1>3, OwnStep
<1> QED
  BY <1>4, <1>5

LEMMA ExitEffect ==
  ASSUME Types, NEW s \in Servers, Exit(s)
  PROVE  /\ Own(s) /\ server' \in [Servers -> ServerStates]
         /\ server'[s].pc = "gone" /\ ~server'[s].listening /\ ~server'[s].down
         /\ server'[s].attached = 0
<1> DEFINE v == [[NoProcess EXCEPT !.pc = "gone"] EXCEPT !.astray = server[s].astray]
<1>1. server' = [server EXCEPT ![s] = v]
  BY ServerFields DEF Exit, Types, ServerStates
<1>2. v \in ServerStates
  BY ServerFields, NoProcessType DEF ServerStates
<1>3. v.astray = server[s].astray
  BY ServerFields, NoProcessType DEF ServerStates
<1>4. /\ v.pc = "gone" /\ ~v.listening /\ ~v.down /\ v.attached = 0
  BY ServerFields DEF ServerStates, NoProcess
<1> HIDE DEF v
<1>5. Own(s) /\ server' \in [Servers -> ServerStates] /\ server'[s] = v
  BY <1>1, <1>2, <1>3, OwnStep
<1> QED
  BY <1>4, <1>5

LEMMA ServerType ==
  ASSUME Types, NEW s \in Servers, ServerStep(s)
  PROVE  Types' /\ Own(s) /\ client' = client /\ lock' = lock
<1>1. WritePort(s) => Overwrites(s, "serving")
  BY DEF WritePort, Overwrites
<1>2. RemovePort(s) => Overwrites(s, "cleaned")
  BY DEF RemovePort, Overwrites
<1>3. server' \in [Servers -> ServerStates] /\ Own(s)
  BY <1>1, <1>2, WriteTokenEffect, BindEffect, OverwriteEffect, ReadCountersEffect,
     ReadClockEffect,
     ElapseEffect, DeafenEffect, ExitEffect DEF ServerStep
<1>4. /\ client' = client /\ lock' = lock /\ port' \in {port, s, None}
      /\ token' \in {token, s}
  BY DEF ServerStep, WriteToken, Bind, WritePort, ReadCounters, ReadClock, Elapse, Deafen,
         RemovePort, Exit
<1> QED
  BY <1>3, <1>4 DEF Types

LEMMA TypeStep == Types /\ [Next]_vars => Types'
<1>1. Types /\ UNCHANGED vars => Types'
  BY DEF vars, Types
<1>2. ASSUME Types, NEW c \in Clients, ClientStep(c) PROVE Types'
  BY <1>2, StartType, WaitType, RequestType DEF ClientStep, RequestStep
<1> QED
  BY <1>1, <1>2, ServerType DEF Next

-----------------------------------------------------------------------------
(* What is named has got that far.                                           *)

\* No server gets on or back, none that was astray is no longer.
Steady ==
  \A s \in Servers :
    /\ server'[s].pc = server[s].pc /\ server'[s].listening = server[s].listening
    /\ server'[s].down = server[s].down /\ (server[s].astray => server'[s].astray)

LEMMA ClientSteady ==
  ASSUME Types, NEW c \in Clients, ClientStep(c)
  PROVE  Steady \/ Spawn(c)
<1>1. server' = server => Steady
  BY DEF Steady
<1>2. RequestStep(c) => Steady
  BY RequestEffect DEF Steady, Requested
<1>3. WriteHomeToken(c) \/ DeleteStale(c) \/ Poll(c) \/ TimeOut(c) \/ ClientDies(c) => Steady
  BY StrayEffect DEF WriteHomeToken, DeleteStale, Poll, TimeOut, ClientDies, Steady
<1>4. ensure_home(c) \/ ensure_server_cli(c) \/ FastPath(c) \/ acquire(c) \/ Recheck(c)
        \/ ReadToken(c) => server' = server
  BY DEF ensure_home, ensure_server_cli, FastPath, acquire, Recheck, ReadToken
<1> QED
  BY <1>1, <1>2, <1>3, <1>4 DEF ClientStep, RequestStep

LEMMA GoEffect ==
  ASSUME Types, NEW c \in Clients, NEW pc, Go(c, pc)
  PROVE  /\ client'[c].pc = pc /\ client'[c].port = client[c].port
         /\ client'[c].token = client[c].token /\ client'[c].started = client[c].started
         /\ \A d \in Clients \ {c} : client'[d] = client[d]
<1>1. client[c] \in ClientStates /\ client'[c] = [client[c] EXCEPT !.pc = pc]
  BY DEF Types, Go
<1> QED
  BY <1>1 DEF Types, Go, ClientStates

LEMMA LeaveEffect ==
  ASSUME Types, NEW c \in Clients, Leave(c)
  PROVE  /\ client'[c].pc = "gone" /\ client'[c].port = None /\ client'[c].token = None
         /\ \A d \in Clients \ {c} : client'[d] = client[d]
BY DEF Types, Leave, NoClient

LEMMA FoundEffect ==
  ASSUME Types, NEW c \in Clients,
         client' = [client EXCEPT ![c].pc = "found", ![c].port = port]
  PROVE  /\ client'[c].pc = "found" /\ client'[c].port = port
         /\ client'[c].token = client[c].token
         /\ \A d \in Clients \ {c} : client'[d] = client[d]
<1>1. client[c] \in ClientStates
  BY DEF Types
<1>2. client'[c] = [[client[c] EXCEPT !.pc = "found"] EXCEPT !.port = port]
  BY DEF Types
<1> QED
  BY <1>1, <1>2 DEF Types, ClientStates

LEMMA ReadTokenEffect ==
  ASSUME Types, NEW c \in Clients, ReadToken(c)
  PROVE  /\ client'[c].pc = "connected" /\ client'[c].port = client[c].port
         /\ client'[c].token = token
         /\ \A d \in Clients \ {c} : client'[d] = client[d]
<1>1. client[c] \in ClientStates
  BY DEF Types
<1>2. client'[c] = [[client[c] EXCEPT !.pc = "connected"] EXCEPT !.token = token]
  BY DEF Types, ReadToken
<1> QED
  BY <1>1, <1>2 DEF Types, ClientStates, ReadToken

\* A client's step: what it may change of the client and of the files.
LEMMA ClientEffect ==
  ASSUME Types, NEW c \in Clients, ClientStep(c)
  PROVE  /\ \A d \in Clients \ {c} : client'[d] = client[d]
         /\ port' \in {port, None} /\ token' \in {token, Old}
         /\ \/ client'[c].port \in {client[c].port, None}
            \/ Found /\ client'[c].port = port
         /\ \/ client'[c].token \in {client[c].token, None}
            \/ client'[c].token = token
<1>g. (\E pc : Go(c, pc)) =>
        /\ \A d \in Clients \ {c} : client'[d] = client[d]
        /\ client'[c].port = client[c].port /\ client'[c].token = client[c].token
  BY GoEffect
<1>1. CASE ensure_home(c) \/ WriteHomeToken(c) \/ acquire(c) \/ DeleteStale(c)
           \/ client_attached(c) \/ client_detached(c)
  BY <1>1, <1>g DEF ensure_home, WriteHomeToken, acquire, DeleteStale, client_attached,
                    client_detached
<1>2. CASE ensure_server_cli(c) \/ FastPath(c) \/ Recheck(c)
  BY <1>2, <1>g, FoundEffect DEF ensure_server_cli, FastPath, Recheck
<1>3. CASE Spawn(c)
  BY <1>3, SpawnEffect
<1>4. CASE Poll(c)
  BY <1>4, PollEffect DEF Poll
<1>5. CASE TimeOut(c) \/ ClientDies(c) \/ Refused(c) \/ RequestOnce(c) \/ Lost(c)
  BY <1>5, LeaveEffect DEF TimeOut, ClientDies, Refused, RequestOnce, Lost
<1>6. CASE ReadToken(c)
  BY <1>6, ReadTokenEffect DEF ReadToken
<1>7. CASE touch(c)
  BY <1>7, <1>g, LeaveEffect DEF touch
<1> QED
  BY <1>1, <1>2, <1>3, <1>4, <1>5, <1>6, <1>7 DEF ClientStep

\* How far a server gets: each of its steps.
LEMMA ServerSteps ==
  ASSUME Types, Named, NEW s \in Servers, ServerStep(s)
  PROVE  /\ server'[s].listening => server'[s].pc \in {"bound", "serving", "cleaned"}
         /\ server'[s].down => server'[s].pc \notin Unwritten
         /\ Up(s)' /\ server'[s].pc \in {"bound", "serving"} => server'[s].listening
         /\ server[s].pc \notin Unwritten => server'[s].pc \notin Unwritten
         /\ server[s].pc \in {"serving", "cleaned", "gone"}
              => server'[s].pc \in {"serving", "cleaned", "gone"}
         /\ Up(s)' => Up(s)
         /\ port' \in {port, None} \/ (port' = s /\ server'[s].pc = "serving")
         /\ token' = token \/ (token' = s /\ server'[s].pc = "tokened")
<1>0. /\ server[s].listening => server[s].pc \in {"bound", "serving", "cleaned"}
      /\ server[s].down => server[s].pc \notin Unwritten
      /\ Up(s) /\ server[s].pc \in {"bound", "serving"} => server[s].listening
  BY DEF Named
<1> USE DEF Unwritten, Up
<1>1. CASE WriteToken(s)
  BY <1>0, <1>1, WriteTokenEffect DEF WriteToken
<1>2. CASE Bind(s)
  <2>1. /\ server'[s].pc = "bound" /\ server'[s].listening
        /\ server'[s].down = server[s].down
    BY <1>2, BindEffect
  <2>2. server[s].pc = "tokened" /\ port' = port /\ token' = token
    BY <1>2 DEF Bind
  <2> QED
    BY <1>0, <2>1, <2>2
<1>3. CASE WritePort(s)
  <2>1. Overwrites(s, "serving")
    BY <1>3 DEF WritePort, Overwrites
  <2>2. /\ server'[s].pc = "serving" /\ server'[s].listening = server[s].listening
        /\ server'[s].down = server[s].down
    BY <2>1, OverwriteEffect
  <2>3. server[s].pc = "bound" /\ port' = s /\ token' = token
    BY <1>3 DEF WritePort
  <2> QED
    BY <1>0, <2>2, <2>3
<1>4. CASE ReadCounters(s)
  <2>1. server'[s].pc = server[s].pc /\ server'[s].listening = server[s].listening
    BY <1>4, ReadCountersEffect
  <2>2. /\ server[s].pc \in {"bound", "serving"} /\ ~server[s].down
        /\ port' = port /\ token' = token
    BY <1>4 DEF ReadCounters
  <2> QED
    BY <1>0, <2>1, <2>2
<1>5. CASE ReadClock(s)
  BY <1>0, <1>5, ReadClockEffect DEF ReadClock
<1>6. CASE Elapse(s)
  BY <1>0, <1>6, ElapseEffect DEF Elapse
<1>7. CASE Deafen(s)
  BY <1>0, <1>7, DeafenEffect DEF Deafen
<1>8. CASE RemovePort(s)
  <2>1. Overwrites(s, "cleaned")
    BY <1>8 DEF RemovePort, Overwrites
  <2> QED
    BY <1>0, <1>8, <2>1, OverwriteEffect DEF RemovePort
<1>9. CASE Exit(s)
  BY <1>0, <1>9, ExitEffect DEF Exit
<1> QED
  BY <1>1, <1>2, <1>3, <1>4, <1>5, <1>6, <1>7, <1>8, <1>9 DEF ServerStep

LEMMA NamedStep == Types /\ Named /\ [Next]_vars => Named'
<1> SUFFICES ASSUME Types, Named, [Next]_vars PROVE Named'
  OBVIOUS
<1>0. None \notin Servers /\ Old \notin Servers
  BY ClientsAssumption
<1>1. CASE UNCHANGED vars
  BY <1>1 DEF vars, Named, Up, At
<1>2. ASSUME NEW c \in Clients, ClientStep(c) PROVE Named'
  <2>1. \A s \in Servers : server[s].pc \notin Unwritten => server'[s].pc = server[s].pc
    BY <1>2, ClientSteady, SpawnEffect DEF Steady, Unwritten
  <2>2. \A s \in Servers :
          /\ server'[s].listening => server'[s].pc \in {"bound", "serving", "cleaned"}
          /\ server'[s].down => server'[s].pc \notin Unwritten
          /\ Up(s)' /\ server'[s].pc \in {"bound", "serving"} => server'[s].listening
    <3>1. CASE Steady
      BY <3>1 DEF Steady, Named, Up
    <3>2. CASE Spawn(c)
      <4>1. PICK s \in Servers :
              /\ server[s].pc = "none" /\ server'[s].pc = "started"
              /\ server'[s].listening = server[s].listening
              /\ server'[s].down = server[s].down
              /\ \A r \in Servers \ {s} : server'[r] = server[r]
        BY <3>2, SpawnEffect
      <4> QED
        BY <4>1 DEF Named, Up, Unwritten
    <3> QED
      BY <1>2, <3>1, <3>2, ClientSteady
  <2>3. port' \in Servers => port' = port
    BY <1>0, <1>2, ClientEffect
  <2>4. token' \in Servers => token' = token
    BY <1>0, <1>2, ClientEffect
  <2>5. \A d \in Clients :
          /\ client'[d].port \in Servers => \/ client'[d].port = client[d].port
                                            \/ client'[d].port = port
          /\ client'[d].token \in Servers => \/ client'[d].token = client[d].token
                                             \/ client'[d].token = token
    BY <1>0, <1>2, ClientEffect
  <2>6. port \in Servers => server[port].pc \notin Unwritten
    BY DEF Named, Unwritten
  <2>7. \A d \in Clients :
          /\ client'[d].port \in Servers => server[client'[d].port].pc \notin Unwritten
          /\ client'[d].token \in Servers => server[client'[d].token].pc \notin Unwritten
    BY <2>5, <2>6 DEF Named, At
  <2>8. \A d \in Clients :
          /\ client'[d].port \in Servers => server'[client'[d].port].pc \notin Unwritten
          /\ client'[d].token \in Servers => server'[client'[d].token].pc \notin Unwritten
    BY <2>1, <2>7
  <2>9. port' \in Servers => server'[port'].pc \in {"serving", "cleaned", "gone"}
    BY <2>1, <2>3, <2>6 DEF Named
  <2>10. token' \in Servers => server'[token'].pc \notin Unwritten
    BY <2>1, <2>4 DEF Named
  <2> QED
    BY <2>2, <2>8, <2>9, <2>10 DEF Named, At
<1>3. ASSUME NEW s \in Servers, ServerStep(s) PROVE Named'
  <2>1. Own(s) /\ client' = client
    BY <1>3, ServerType
  <2>2. \A r \in Servers :
          /\ server[r].pc \notin Unwritten => server'[r].pc \notin Unwritten
          /\ server[r].pc \in {"serving", "cleaned", "gone"}
               => server'[r].pc \in {"serving", "cleaned", "gone"}
    BY <1>3, <2>1, ServerSteps DEF Own
  <2>3. \A r \in Servers :
          /\ server'[r].listening => server'[r].pc \in {"bound", "serving", "cleaned"}
          /\ server'[r].down => server'[r].pc \notin Unwritten
          /\ Up(r)' /\ server'[r].pc \in {"bound", "serving"} => server'[r].listening
    <3>1. ASSUME NEW r \in Servers, r # s
          PROVE  /\ server'[r].listening => server'[r].pc \in {"bound", "serving", "cleaned"}
                 /\ server'[r].down => server'[r].pc \notin Unwritten
                 /\ Up(r)' /\ server'[r].pc \in {"bound", "serving"} => server'[r].listening
      BY <2>1, <3>1 DEF Own, Named, Up
    <3> QED
      BY <1>3, <3>1, ServerSteps
  <2>4. port' \in Servers => server'[port'].pc \in {"serving", "cleaned", "gone"}
    BY <1>0, <1>3, <2>2, ServerSteps DEF Named
  <2>5. token' \in Servers => server'[token'].pc \notin Unwritten
    BY <1>3, <2>2, ServerSteps DEF Named, Unwritten
  <2>6. \A d \in Clients :
          /\ At(d)' \in Servers => server'[At(d)'].pc \notin Unwritten
          /\ client'[d].token \in Servers => server'[client'[d].token].pc \notin Unwritten
    BY <2>1, <2>2 DEF Named, At
  <2> QED
    BY <2>3, <2>4, <2>5, <2>6 DEF Named
<1> QED
  BY <1>1, <1>2, <1>3 DEF Next

-----------------------------------------------------------------------------
(* One server.                                                               *)

\* A client's step leaves no server clean that was not, but the one it starts.
LEMMA CleanStep ==
  ASSUME Types, NEW c \in Clients, ClientStep(c), ~Spawn(c), NEW s \in Servers
  PROVE  Clean(s)' => Clean(s)
BY ClientSteady DEF Steady, Clean, Up

\* Who does not hold the lock changes neither what it guards nor who waits under it.
LEMMA OutsideLock ==
  ASSUME IInv, NEW c \in Clients, lock # c, lock' = lock, port' = port,
         \A d \in Clients \ {c} : client'[d] = client[d],
         \A s \in Servers : Clean(s)' => Clean(s)
  PROVE  Holding' /\ Owned' /\ Guarded'
<1>1. \A d \in Clients : lock = d => client'[d] = client[d]
  OBVIOUS
<1>2. Holding'
  BY <1>1 DEF IInv, Holding
<1>3. Owned'
  BY <1>1 DEF IInv, Owned, Waits
<1>4. Guarded'
  BY <1>1 DEF IInv, Guarded
<1> QED
  BY <1>2, <1>3, <1>4

\* The lock is given back: whatever is clean has its port in the file.
LEMMA Released ==
  ASSUME lock' = None, \A s \in Servers : Clean(s)' => port' = s
  PROVE  Holding' /\ Owned' /\ Guarded'
BY ClientsAssumption DEF Holding, Owned, Guarded

\* Under the lock, while it looks for a server, a clean one has its port in the file; and
\* that is found.
LEMMA LooksInFile ==
  ASSUME IInv, NEW c \in Clients, lock = c, client[c].pc # "poll", NEW s \in Servers, Clean(s)
  PROVE  port = s /\ Found
<1>1. port = s
  BY DEF IInv, Owned, Waits
<1>2. server[s].pc \in {"serving", "cleaned", "gone"} /\ Up(s)
  BY <1>1 DEF IInv, Named, Clean
<1>3. server[s].listening
  BY <1>2 DEF IInv, Named, Up
<1> QED
  BY <1>1, <1>3 DEF Found, Listening

LEMMA StrayNotClean ==
  ASSUME Types, NEW S, Stray(S), NEW s \in Servers, Clean(s)'
  PROVE  s \notin S /\ Clean(s)
BY StrayEffect DEF Clean, Up

LEMMA GuardOutside ==
  ASSUME IInv, NEW c \in Clients,
         \/ ensure_home(c) \/ WriteHomeToken(c) \/ ensure_server_cli(c) \/ FastPath(c)
         \/ ReadToken(c) \/ RequestStep(c)
  PROVE  Holding' /\ Owned' /\ Guarded'
<1>1. ClientStep(c) /\ ~(client[c].pc \in Locking)
  BY DEF ClientStep, RequestStep, ensure_home, WriteHomeToken, ensure_server_cli, FastPath,
         ReadToken, client_attached, Refused, RequestOnce, client_detached, touch, Lost, Locking
<1>2. lock # c
  BY <1>1 DEF IInv, Holding
<1>3. ~Spawn(c)
  BY <1>1 DEF Spawn, Locking
<1>4. lock' = lock /\ port' = port
  BY DEF RequestStep, ensure_home, WriteHomeToken, ensure_server_cli, FastPath,
         ReadToken, client_attached, Refused, RequestOnce, client_detached, touch, Lost
<1> QED
  BY <1>1, <1>2, <1>3, <1>4, ClientEffect, CleanStep, OutsideLock DEF IInv

LEMMA GuardLook ==
  ASSUME IInv, NEW c \in Clients, acquire(c) \/ Recheck(c) \/ DeleteStale(c)
  PROVE  Holding' /\ Owned' /\ Guarded'
<1>0. /\ Types /\ ClientStep(c) /\ ~Spawn(c) /\ c # None
      /\ \A s \in Servers : Clean(s)' => Clean(s)
  <2>1. ClientStep(c) /\ ~Spawn(c)
    BY DEF ClientStep, acquire, Recheck, DeleteStale, Spawn
  <2> QED
    BY <2>1, CleanStep, ClientsAssumption DEF IInv
<1>d. \A d \in Clients \ {c} : client'[d] = client[d]
  BY <1>0, ClientEffect
<1>1. CASE acquire(c)
  <2>1. lock = None /\ lock' = c /\ client'[c].pc = "recheck" /\ port' = port
    BY <1>0, <1>1, GoEffect DEF acquire
  <2>2. \A s \in Servers : Clean(s)' => port' = s
    BY <1>0, <2>1, ClientsAssumption DEF IInv, Owned, Waits
  <2> QED
    BY <2>1, <2>2 DEF Holding, Owned, Guarded, Locking
<1>2. CASE Recheck(c)
  <2>1. CASE lock # c
    <3>1. lock' = lock /\ port' = port
      BY <1>2, <2>1 DEF Recheck, Unlock
    <3> QED
      BY <1>0, <1>d, <2>1, <3>1, OutsideLock
  <2>2. CASE lock = c /\ Found
    <3>1. lock' = None /\ port' = port
      BY <1>2, <2>2 DEF Recheck, Unlock
    <3>2. \A s \in Servers : Clean(s) => port = s
      BY <1>2, <2>2, LooksInFile DEF Recheck
    <3> QED
      BY <1>0, <3>1, <3>2, Released
  <2>3. CASE lock = c /\ ~Found
    <3>1. lock' = c /\ client'[c].pc \in {"spawn", "stale"} /\ port' = port
      BY <1>0, <1>2, <2>3, GoEffect DEF Recheck
    <3>2. \A s \in Servers : ~Clean(s)
      BY <1>2, <2>3, LooksInFile DEF Recheck
    <3> QED
      BY <1>0, <3>1, <3>2 DEF Holding, Owned, Guarded, Locking
  <2> QED
    BY <2>1, <2>2, <2>3
<1>3. CASE DeleteStale(c)
  <2>1. client'[c].pc = "spawn" /\ lock' = lock /\ port' = None /\ client[c].pc = "stale"
    BY <1>0, <1>3, GoEffect DEF DeleteStale
  <2>2. CASE lock = c
    BY <1>0, <1>3, <2>1, <2>2 DEF IInv, Holding, Owned, Guarded, Locking
  <2>3. CASE lock # c
    <3>1. \A s \in Servers : Clean(s)' => port # s
      BY <1>0, <1>3, StrayNotClean DEF DeleteStale
    <3>2. \A d \in Clients : lock = d => client'[d] = client[d]
      BY <1>d, <2>3
    <3>3. Holding' /\ Guarded'
      BY <1>0, <2>1, <3>2 DEF IInv, Holding, Guarded
    <3>4. Owned'
      BY <1>0, <2>1, <3>1, <3>2 DEF IInv, Owned, Waits
    <3> QED
      BY <3>3, <3>4
  <2> QED
    BY <2>2, <2>3
<1> QED
  BY <1>1, <1>2, <1>3

LEMMA GuardWait ==
  ASSUME IInv, NEW c \in Clients, Spawn(c) \/ Poll(c) \/ TimeOut(c) \/ ClientDies(c)
  PROVE  Holding' /\ Owned' /\ Guarded'
<1>0. Types /\ c # None /\ ClientStep(c)
  BY ClientsAssumption DEF IInv, ClientStep
<1>d. \A d \in Clients \ {c} : client'[d] = client[d]
  BY <1>0, ClientEffect
<1>1. CASE Spawn(c)
  <2>1. PICK s \in Servers :
          /\ server[s].pc = "none"
          /\ server'[s].astray = (lock # c)
          /\ \A r \in Servers \ {s} : server'[r] = server[r]
          /\ client'[c].pc = "poll" /\ client'[c].started = s /\ client[c].pc = "spawn"
          /\ port' = port /\ lock' = lock
    BY <1>0, <1>1, SpawnEffect
  <2>2. \A r \in Servers : r # s => (Clean(r)' <=> Clean(r))
    BY <2>1 DEF Clean, Up
  <2>3. CASE lock = c
    <3>1. \A r \in Servers : Clean(r)' => r = s
      BY <2>1, <2>2, <2>3 DEF IInv, Guarded
    <3>2. Waits(c, s)'
      BY <2>1, <2>3 DEF Waits
    <3> QED
      BY <2>1, <2>3, <3>1, <3>2 DEF Holding, Owned, Guarded, Locking
  <2>4. CASE lock # c
    <3>1. \A r \in Servers : Clean(r)' => Clean(r)
      BY <2>1, <2>2, <2>4 DEF Clean
    <3> QED
      BY <1>d, <2>1, <2>4, <3>1, OutsideLock
  <2> QED
    BY <2>3, <2>4
<1>2. CASE Poll(c)
  <2>1. /\ lock' = (IF lock = c THEN None ELSE lock) /\ port' = port
        /\ client[c].pc = "poll" /\ Stray({client[c].started} \ {port})
    BY <1>2 DEF Poll, Unlock
  <2>2. \A s \in Servers : Clean(s)' => Clean(s) /\ ~(s = client[c].started /\ s # port)
    BY <1>0, <2>1, StrayNotClean
  <2>3. CASE lock = c
    <3>1. \A s \in Servers : Clean(s) => s = client[c].started
      BY <2>1, <2>3 DEF IInv, Guarded
    <3> QED
      BY <2>1, <2>2, <2>3, <3>1, Released
  <2>4. CASE lock # c
    BY <1>d, <2>1, <2>2, <2>4, OutsideLock
  <2> QED
    BY <2>3, <2>4
<1>3. CASE TimeOut(c) \/ ClientDies(c)
  <2>1. /\ lock' = (IF lock = c THEN None ELSE lock) /\ port' = port
        /\ Stray({client[c].started})
    BY <1>3 DEF TimeOut, ClientDies, Unlock
  <2>2. \A s \in Servers : Clean(s)' => Clean(s) /\ s # client[c].started
    BY <1>0, <2>1, StrayNotClean
  <2>3. CASE lock = c
    <3>1. CASE client[c].pc = "poll"
      <4>1. \A s \in Servers : Clean(s) => s = client[c].started
        BY <2>3, <3>1 DEF IInv, Guarded
      <4> QED
        BY <2>1, <2>2, <2>3, <4>1, Released
    <3>2. CASE client[c].pc # "poll"
      <4>1. \A s \in Servers : Clean(s) => port = s
        BY <2>3, <3>2, LooksInFile
      <4> QED
        BY <2>1, <2>2, <2>3, <4>1, Released
    <3> QED
      BY <3>1, <3>2
  <2>4. CASE lock # c
    BY <1>d, <2>1, <2>2, <2>4, OutsideLock
  <2> QED
    BY <2>3, <2>4
<1> QED
  BY <1>1, <1>2, <1>3

LEMMA GuardServer ==
  ASSUME IInv, NEW s \in Servers, ServerStep(s)
  PROVE  Holding' /\ Owned' /\ Guarded'
<1>0. Types /\ Named /\ Own(s) /\ client' = client /\ lock' = lock
  BY ServerType DEF IInv
<1>1. \A r \in Servers : Clean(r)' => Clean(r)
  <2>1. \A r \in Servers : Up(r)' => Up(r)
    <3>1. \A r \in Servers : r # s => (Up(r)' <=> Up(r))
      BY <1>0 DEF Own, Up
    <3> QED
      BY <1>0, <3>1, ServerSteps
  <2>2. \A r \in Servers : server[r].astray => server'[r].astray
    BY <1>0 DEF Own
  <2> QED
    BY <2>1, <2>2 DEF Clean
<1>2. \A r \in Servers : Clean(r)' => port' = port \/ port' = r \/ port # r
  <2>1. CASE WritePort(s) \/ RemovePort(s)
    <3>1. Overwrites(s, "serving") \/ Overwrites(s, "cleaned")
      BY <2>1 DEF WritePort, RemovePort, Overwrites
    <3>2. \A r \in Servers : r = port => server'[r].astray
      BY <1>0, <3>1, OverwriteEffect
    <3> QED
      BY <3>2 DEF Clean
  <2>2. CASE ~(WritePort(s) \/ RemovePort(s))
    BY <2>2 DEF ServerStep, WriteToken, Bind, ReadCounters, ReadClock, Elapse, Deafen, Exit
  <2> QED
    BY <2>1, <2>2
<1>3. Holding' /\ Guarded'
  BY <1>0, <1>1 DEF IInv, Holding, Guarded
<1>4. Owned'
  BY <1>0, <1>1, <1>2 DEF IInv, Owned, Waits
<1> QED
  BY <1>3, <1>4

LEMMA OneInvariant == IInv /\ [Next]_vars => IInv'
<1> SUFFICES ASSUME IInv, [Next]_vars PROVE IInv'
  OBVIOUS
<1>1. Types' /\ Named'
  BY TypeStep, NamedStep DEF IInv
<1>2. CASE UNCHANGED vars
  <2>1. Holding' /\ Owned' /\ Guarded'
    BY <1>2 DEF vars, IInv, Holding, Owned, Guarded, Waits, Clean, Up
  <2> QED
    BY <1>1, <2>1 DEF IInv
<1>3. ASSUME NEW c \in Clients, ClientStep(c) PROVE Holding' /\ Owned' /\ Guarded'
  BY <1>3, GuardOutside, GuardLook, GuardWait DEF ClientStep, RequestStep
<1> QED
  BY <1>1, <1>2, <1>3, GuardServer DEF Next, IInv

LEMMA OneInit == Init => IInv
<1> SUFFICES ASSUME Init PROVE IInv
  OBVIOUS
<1>1. Types
  <2>1. [NoClient EXCEPT !.pc = "new"] \in ClientStates
    BY DEF NoClient, ClientStates
  <2> QED
    BY <2>1, NoProcessType DEF Init, Types
<1>2. \A s \in Servers : server[s].pc = "none" /\ ~server[s].listening /\ ~server[s].down
  BY DEF Init, NoProcess
<1>3. \A c \in Clients : client[c].port = None /\ client[c].token = None
  BY DEF Init, NoClient
<1>4. Named
  BY <1>2, <1>3, ClientsAssumption DEF Init, Named, Up, At
<1>5. Holding /\ Owned /\ Guarded
  BY <1>2, ClientsAssumption DEF Init, Holding, Owned, Guarded, Clean, Up
<1> QED
  BY <1>1, <1>4, <1>5 DEF IInv

\* Two clean servers are one: the file names one port, and the lock one starter, who has
\* seen that the file's server does not answer.
LEMMA OneClean == IInv => OneServer
<1> SUFFICES ASSUME IInv, NEW s \in Servers, NEW r \in Servers, Clean(s), Clean(r)
             PROVE  s = r
  BY DEF OneServer, Clean
<1>1. port = s \/ \E c \in Clients : Waits(c, s)
  BY DEF IInv, Owned
<1>2. port = r \/ \E c \in Clients : Waits(c, r)
  BY DEF IInv, Owned
<1>3. ASSUME NEW c \in Clients, NEW u \in Servers, Waits(c, u) PROVE s = r
  BY <1>3 DEF IInv, Guarded, Waits
<1> QED
  BY <1>1, <1>2, <1>3

\* OneServer, for every number of clients and of servers, and wherever they are killed.
THEOREM LockLetsOneLive == Spec => []OneServer
BY OneInit, OneInvariant, OneClean, PTL DEF Spec

-----------------------------------------------------------------------------
(* The token that a client reads.                                            *)

Past(s) == server[s].pc \notin Unwritten

\* What has happened to a server that has written its token: it does not come up again,
\* and stays astray.
LEMMA PastStep ==
  ASSUME Types, Named, [Next]_vars, NEW s \in Servers, Past(s)
  PROVE  Past(s)' /\ (server[s].astray => server'[s].astray) /\ (Up(s)' => Up(s))
<1>1. CASE UNCHANGED vars
  BY <1>1 DEF vars, Past, Up
<1>2. ASSUME NEW c \in Clients, ClientStep(c)
      PROVE  Past(s)' /\ (server[s].astray => server'[s].astray) /\ (Up(s)' => Up(s))
  <2>1. CASE Steady
    BY <2>1 DEF Steady, Past, Up
  <2>2. CASE Spawn(c)
    <3>1. server'[s] = server[s]
      BY <2>2, SpawnEffect DEF Past, Unwritten
    <3> QED
      BY <3>1 DEF Past, Up
  <2> QED
    BY <1>2, <2>1, <2>2, ClientSteady
<1>3. ASSUME NEW r \in Servers, ServerStep(r)
      PROVE  Past(s)' /\ (server[s].astray => server'[s].astray) /\ (Up(s)' => Up(s))
  <2>1. Own(r)
    BY <1>3, ServerType
  <2>2. CASE s = r
    BY <1>3, <2>1, <2>2, ServerSteps DEF Own, Past
  <2>3. CASE s # r
    BY <2>1, <2>3 DEF Own, Past, Up
  <2> QED
    BY <2>2, <2>3
<1> QED
  BY <1>1, <1>2, <1>3 DEF Next

\* A step that leaves the token file alone, and lets no server write it.
LEMMA TokenUnmoved ==
  ASSUME IInv, Tokened, [Next]_vars, token' = token,
         \A s \in Servers : Up(s)' /\ server'[s].pc # "started" => Past(s)
  PROVE  Tokened'
<1> SUFFICES ASSUME NEW s \in Servers, Clean(s)', server'[s].pc # "started"
             PROVE  token = s \/ (token \in Servers /\ server'[token].astray)
  BY DEF Tokened
<1>1. Types /\ Named /\ Past(s)
  BY DEF IInv, Clean
<1>2. Clean(s) /\ server[s].pc # "started"
  BY <1>1, PastStep DEF Clean, Past, Unwritten
<1>3. token = s \/ (token \in Servers /\ server[token].astray)
  BY <1>2 DEF Tokened
<1>4. token \in Servers => Past(token)
  BY <1>1 DEF Named, Past
<1> QED
  BY <1>1, <1>3, <1>4, PastStep

LEMMA TokenedStep == IInv /\ Tokened /\ [Next]_vars => Tokened'
<1> SUFFICES ASSUME IInv, Tokened, [Next]_vars PROVE Tokened'
  OBVIOUS
<1>0. Types /\ Named
  BY DEF IInv
<1>1. CASE UNCHANGED vars
  <2>1. \A s \in Servers : Up(s)' /\ server'[s].pc # "started" => Past(s)
    BY <1>1 DEF vars, Up, Past, Unwritten
  <2> QED
    BY <1>1, <2>1, TokenUnmoved DEF vars
<1>2. ASSUME NEW c \in Clients, ClientStep(c) PROVE Tokened'
  <2>1. \A s \in Servers : Up(s)' /\ server'[s].pc # "started" => Past(s)
    <3>1. CASE Steady
      BY <3>1 DEF Steady, Up, Past, Unwritten
    <3>2. CASE Spawn(c)
      <4>1. PICK s \in Servers : server'[s].pc = "started"
                                 /\ \A r \in Servers \ {s} : server'[r] = server[r]
        BY <1>0, <3>2, SpawnEffect
      <4> QED
        BY <4>1 DEF Up, Past, Unwritten
    <3> QED
      BY <1>0, <1>2, <3>1, <3>2, ClientSteady
  <2>2. CASE WriteHomeToken(c)
    <3>1. Stray({s \in Servers : Up(s) /\ server[s].pc # "started"})
      BY <2>2 DEF WriteHomeToken
    <3>2. \A s \in Servers : Clean(s)' => server'[s].pc = "started"
      BY <1>0, <3>1, StrayEffect, StrayNotClean DEF Clean, Up
    <3> QED
      BY <3>2 DEF Tokened
  <2>3. CASE ~WriteHomeToken(c)
    <3>1. token' = token
      BY <1>2, <2>3
         DEF ClientStep, ensure_home, ensure_server_cli, FastPath, acquire, Recheck,
             DeleteStale, Spawn, Poll, TimeOut, ReadToken, ClientDies, client_attached,
             Refused, RequestOnce, client_detached, touch, Lost
    <3> QED
      BY <2>1, <3>1, TokenUnmoved
  <2> QED
    BY <2>2, <2>3
<1>3. ASSUME NEW s \in Servers, ServerStep(s) PROVE Tokened'
  <2>1. Own(s)
    BY <1>0, <1>3, ServerType
  <2>2. CASE WriteToken(s)
    <3>1. /\ token' = s /\ server[s].pc = "started" /\ Up(s) /\ server'[s].pc = "tokened"
          /\ server'[s].astray = server[s].astray
      <4>1. Up(s)
        BY <2>2 DEF WriteToken, IInv, Named, Up, Unwritten
      <4>2. server'[s].astray = server[s].astray
        BY <1>0, <2>2 DEF WriteToken, Types, ServerStates
      <4> QED
        BY <1>0, <2>2, <4>1, <4>2, WriteTokenEffect DEF WriteToken
    <3>2. ASSUME NEW r \in Servers, Clean(r)', r # s PROVE server'[s].astray
      <4>1. Clean(r) /\ s # r
        BY <2>1, <3>2 DEF Own, Clean, Up
      <4>2. ~Clean(s)
        BY <4>1, OneClean DEF OneServer, Clean
      <4> QED
        BY <3>1, <4>2 DEF Clean
    <3> QED
      BY <3>1, <3>2 DEF Tokened
  <2>3. CASE ~WriteToken(s)
    <3>1. token' = token
      BY <1>3, <2>3 DEF ServerStep, Bind, WritePort, ReadCounters, ReadClock, Elapse, Deafen,
                        RemovePort, Exit
    <3>2. \A r \in Servers : r # s /\ Up(r)' /\ server'[r].pc # "started" => Past(r)
      BY <2>1 DEF Own, Up, Past, Unwritten
    <3>3. Up(s)' /\ server'[s].pc # "started" => Past(s)
      <4>1. server[s].pc \notin Unwritten \/ Exit(s)
        BY <1>0, <1>3, <2>3, ServerFields
           DEF ServerStep, Bind, WritePort, ReadCounters, ReadClock, Elapse,
               Deafen, RemovePort, Unwritten, Named
      <4>2. Exit(s) => ~Up(s)'
        BY <1>0, ExitEffect DEF Up
      <4> QED
        BY <4>1, <4>2 DEF Past
    <3> QED
      BY <3>1, <3>2, <3>3, TokenUnmoved
  <2> QED
    BY <2>2, <2>3
<1> QED
  BY <1>1, <1>2, <1>3 DEF Next

Fits(c) ==
  client[c].pc = "connected" /\ Up(At(c)) =>
    \/ client[c].token = At(c)
    \/ server[At(c)].astray
    \/ client[c].token \in Servers /\ server[client[c].token].astray

\* A client that does not read: what it has read stays as good as it was.
LEMMA FitsUnmoved ==
  ASSUME IInv, [Next]_vars, NEW c \in Clients, Fits(c), client'[c] = client[c],
         At(c) \in Servers
  PROVE  Fits(c)'
<1>1. Types /\ Named /\ Past(At(c)) /\ (client[c].token \in Servers => Past(client[c].token))
  BY DEF IInv, Named, Past
<1>2. At(c)' = At(c)
  BY DEF At
<1>3. (Up(At(c)))' => Up(At(c))
  BY <1>1, <1>2, PastStep DEF Up
<1>4. /\ server[At(c)].astray => server'[At(c)].astray
      /\ client[c].token \in Servers /\ server[client[c].token].astray
           => server'[client[c].token].astray
  BY <1>1, PastStep
<1> QED
  BY <1>2, <1>3, <1>4 DEF Fits

LEMMA LocatedStep == Types /\ Located /\ [Next]_vars => Located'
<1> SUFFICES ASSUME Types, Located, [Next]_vars PROVE Located'
  OBVIOUS
<1>1. CASE client' = client
  BY <1>1 DEF Located, At
<1>2. ASSUME NEW c \in Clients, ClientStep(c) PROVE Located'
  <2> SUFFICES client'[c].pc \in {"found", "connected", "attaching", "attached", "detaching"}
                 => client'[c].port \in Servers
    BY <1>2, ClientEffect DEF Located, At
  <2>1. CASE \/ ensure_home(c) \/ WriteHomeToken(c) \/ acquire(c) \/ DeleteStale(c)
    BY <2>1, GoEffect DEF ensure_home, WriteHomeToken, acquire, DeleteStale
  <2>2. CASE ensure_server_cli(c) \/ FastPath(c) \/ Recheck(c)
    BY <2>2, GoEffect, FoundEffect
       DEF ensure_server_cli, FastPath, Recheck, Found, Listening
  <2>3. CASE Spawn(c)
    BY <2>3, SpawnEffect
  <2>4. CASE Poll(c)
    BY <2>4, PollEffect
  <2>5. CASE TimeOut(c) \/ ClientDies(c) \/ Refused(c) \/ RequestOnce(c) \/ Lost(c)
    BY <2>5, LeaveEffect DEF TimeOut, ClientDies, Refused, RequestOnce, Lost
  <2>6. CASE ReadToken(c)
    BY <2>6, ReadTokenEffect DEF ReadToken, Located, At
  <2>7. CASE client_attached(c) \/ client_detached(c)
    BY <2>7, GoEffect DEF client_attached, client_detached, Located, At
  <2>8. CASE touch(c)
    BY <2>8, GoEffect, LeaveEffect DEF touch, Located, At
  <2> QED
    BY <1>2, <2>1, <2>2, <2>3, <2>4, <2>5, <2>6, <2>7, <2>8 DEF ClientStep
<1>3. UNCHANGED vars => client' = client
  BY DEF vars
<1> QED
  BY <1>1, <1>2, <1>3, ServerType DEF Next

\* Only by reading the token does a client become connected.
LEMMA ConnectedOnce ==
  ASSUME Types, NEW c \in Clients, ClientStep(c), client'[c].pc = "connected"
  PROVE  ReadToken(c)
<1>1. ~(ensure_home(c) \/ WriteHomeToken(c) \/ acquire(c) \/ DeleteStale(c)
        \/ client_attached(c) \/ client_detached(c))
  BY GoEffect DEF ensure_home, WriteHomeToken, acquire, DeleteStale, client_attached,
                  client_detached
<1>2. ~(ensure_server_cli(c) \/ FastPath(c) \/ Recheck(c))
  BY GoEffect, FoundEffect DEF ensure_server_cli, FastPath, Recheck
<1>3. ~Spawn(c) /\ ~Poll(c)
  BY SpawnEffect, PollEffect
<1>4. ~(TimeOut(c) \/ ClientDies(c) \/ Refused(c) \/ RequestOnce(c) \/ Lost(c))
  BY LeaveEffect DEF TimeOut, ClientDies, Refused, RequestOnce, Lost
<1>5. ~touch(c)
  BY GoEffect, LeaveEffect DEF touch
<1> QED
  BY <1>1, <1>2, <1>3, <1>4, <1>5 DEF ClientStep

LEMMA FitsStep == KInv /\ [Next]_vars => TokenFits'
<1> SUFFICES ASSUME KInv, [Next]_vars, NEW c \in Clients PROVE Fits(c)'
  BY DEF TokenFits, Fits
<1>0. IInv /\ Types /\ Named /\ Located /\ Tokened /\ Fits(c)
  BY DEF KInv, IInv, TokenFits, Fits
<1>1. CASE client'[c] = client[c]
  <2>1. CASE client[c].pc = "connected"
    <3>1. At(c) \in Servers
      BY <1>0, <2>1 DEF Located
    <3> QED
      BY <1>0, <1>1, <3>1, FitsUnmoved
  <2>2. CASE client[c].pc # "connected"
    BY <1>1, <2>2 DEF Fits
  <2> QED
    BY <2>1, <2>2
<1>2. CASE ReadToken(c)
  <2>1. /\ client'[c].port = At(c) /\ client'[c].token = token /\ server' = server
        /\ client[c].pc = "found"
    BY <1>0, <1>2, ReadTokenEffect DEF ReadToken, At
  <2>2. At(c) \in Servers /\ server[At(c)].pc \notin Unwritten
    BY <1>0, <2>1 DEF Located, Named
  <2>3. Up(At(c)) => token = At(c) \/ server[At(c)].astray
                     \/ (token \in Servers /\ server[token].astray)
    BY <1>0, <2>2 DEF Tokened, Clean, Unwritten
  <2> HIDE DEF At
  <2>4. At(c)' = At(c)
    BY <2>1 DEF At
  <2> QED
    BY <2>1, <2>3, <2>4 DEF Fits, Up
<1>3. ASSUME client'[c] # client[c], ~ReadToken(c) PROVE Fits(c)'
  <2>1. ClientStep(c)
    <3>1. ~(client' = client)
      BY <1>3
    <3>2. PICK d \in Clients : ClientStep(d)
      BY <1>0, <3>1, ServerType DEF Next, vars
    <3> QED
      BY <1>0, <1>3, <3>2, ClientEffect
  <2>2. client'[c].pc # "connected"
    BY <1>0, <1>3, <2>1, ConnectedOnce
  <2> QED
    BY <2>2 DEF Fits
<1> QED
  BY <1>1, <1>2, <1>3

LEMMA TokenInvariant == KInv /\ [Next]_vars => KInv'
BY OneInvariant, LocatedStep, TokenedStep, FitsStep DEF KInv, IInv

LEMMA TokenInit == Init => KInv
<1> SUFFICES ASSUME Init PROVE KInv
  OBVIOUS
<1>1. /\ \A s \in Servers : server[s].pc = "none"
      /\ \A c \in Clients : client[c].pc = "new"
  BY DEF Init, NoProcess, NoClient
<1> QED
  BY <1>1, OneInit DEF KInv, Located, Tokened, TokenFits, Clean, Up

\* TokenFits: whoever has found a clean server has read its token, or one that an astray
\* server wrote over it.
THEOREM TokensFit == Spec => []TokenFits
<1>1. KInv => TokenFits
  BY DEF KInv
<1> QED
  BY <1>1, TokenInit, TokenInvariant, PTL DEF Spec

-----------------------------------------------------------------------------
(* The grace period.                                                         *)

LEMMA TouchedStep == Types /\ Named /\ Located /\ Touched /\ [Next]_vars => Touched'
<1> SUFFICES ASSUME Types, Named, Located, Touched, [Next]_vars, NEW s \in Servers,
                    server'[s].pc # "gone", ~server'[s].quiet
             PROVE  server'[s].fresh
                    \/ \E c \in Clients : client'[c].pc = "detaching" /\ client'[c].port = s
  BY DEF Touched, At, Runs
<1> DEFINE Leaving == \E c \in Clients : client[c].pc = "detaching" /\ client[c].port = s
<1>t. server[s].pc # "gone" /\ ~server[s].quiet => server[s].fresh \/ Leaving
  BY DEF Touched, At, Runs
<1> HIDE DEF Leaving
<1>k. ASSUME server[s].pc # "gone" /\ ~server[s].quiet, server[s].fresh => server'[s].fresh,
             \A c \in Clients : client[c].pc = "detaching" /\ client[c].port = s
                => client'[c] = client[c]
      PROVE  server'[s].fresh
             \/ \E c \in Clients : client'[c].pc = "detaching" /\ client'[c].port = s
  BY <1>t, <1>k DEF Leaving
<1>1. CASE UNCHANGED vars
  BY <1>1, <1>k DEF vars
<1>2. ASSUME NEW c \in Clients, ClientStep(c)
      PROVE  server'[s].fresh
             \/ \E d \in Clients : client'[d].pc = "detaching" /\ client'[d].port = s
  <2>0. \A d \in Clients \ {c} : client'[d] = client[d]
    BY <1>2, ClientEffect
  <2>k. ASSUME server[s].pc # "gone" /\ ~server[s].quiet, server[s].fresh => server'[s].fresh,
               client[c].pc # "detaching" \/ At(c) # s
        PROVE  server'[s].fresh
               \/ \E d \in Clients : client'[d].pc = "detaching" /\ client'[d].port = s
    BY <1>k, <2>0, <2>k DEF At
  <2>1. CASE \/ ensure_home(c) \/ ensure_server_cli(c) \/ FastPath(c) \/ acquire(c)
             \/ Recheck(c) \/ ReadToken(c)
    BY <2>1, <2>k DEF ensure_home, ensure_server_cli, FastPath, acquire, Recheck, ReadToken
  <2>2. CASE WriteHomeToken(c) \/ DeleteStale(c) \/ Poll(c) \/ TimeOut(c) \/ ClientDies(c)
    BY <2>2, <2>k, StrayEffect DEF WriteHomeToken, DeleteStale, Poll, TimeOut, ClientDies
  <2>3. CASE Spawn(c)
    BY <2>3, <2>k, SpawnEffect
  <2>4. CASE client_attached(c) \/ Refused(c) \/ RequestOnce(c)
    <3>1. RequestStep(c) /\ client[c].pc # "detaching"
      BY <2>4 DEF RequestStep, client_attached, Refused, RequestOnce
    <3> QED
      BY <2>4, <2>k, <3>1, RequestEffect DEF Requested
  <2>5. CASE client_detached(c)
    <3>1. /\ RequestStep(c) /\ client[c].pc = "attached" /\ client'[c].pc = "detaching"
          /\ client'[c].port = At(c)
      BY <2>5, GoEffect DEF RequestStep, client_detached, At
    <3>2. CASE At(c) = s
      BY <3>1, <3>2
    <3>3. CASE At(c) # s
      BY <2>5, <2>k, <3>1, <3>3, RequestEffect DEF Requested
    <3> QED
      BY <3>2, <3>3
  <2>6. CASE touch(c)
    <3>1. RequestStep(c)
      BY <2>6 DEF RequestStep
    <3>2. CASE At(c) = s
      BY <2>6, <3>1, <3>2, RequestEffect
    <3>3. CASE At(c) # s
      BY <2>6, <2>k, <3>1, <3>3, RequestEffect DEF Requested
    <3> QED
      BY <3>2, <3>3
  <2>7. CASE Lost(c)
    <3>1. server' = server /\ ~Runs(At(c)) /\ client[c].pc \in {"attaching", "attached", "detaching"}
      BY <2>7 DEF Lost
    <3>2. At(c) # s
      BY <3>1 DEF Runs
    <3> QED
      BY <2>k, <3>1, <3>2
  <2> QED
    BY <1>2, <2>1, <2>2, <2>3, <2>4, <2>5, <2>6, <2>7 DEF ClientStep
<1>3. ASSUME NEW r \in Servers, ServerStep(r)
      PROVE  server'[s].fresh
             \/ \E c \in Clients : client'[c].pc = "detaching" /\ client'[c].port = s
  <2>0. Own(r) /\ client' = client
    BY <1>3, ServerType
  <2>1. CASE r # s
    BY <1>k, <2>0, <2>1 DEF Own
  <2>2. CASE r = s
    <3>1. ~Exit(s) /\ ~Elapse(s)
      BY ExitEffect, ElapseEffect
    <3>2. WritePort(s) \/ RemovePort(s) => Overwrites(s, "serving") \/ Overwrites(s, "cleaned")
      BY DEF WritePort, RemovePort, Overwrites
    <3>3. server'[s].fresh = server[s].fresh /\ server'[s].quiet = server[s].quiet
      BY <1>3, <2>2, <3>1, <3>2, WriteTokenEffect, BindEffect, OverwriteEffect,
         ReadCountersEffect, ReadClockEffect, DeafenEffect DEF ServerStep
    <3>4. server[s].pc # "gone"
      BY <1>3, <2>2, <3>1 DEF ServerStep, WriteToken, Bind, WritePort, ReadCounters, ReadClock,
                              Deafen, RemovePort, Named
    <3> QED
      BY <1>k, <2>0, <3>3, <3>4
  <2> QED
    BY <2>1, <2>2
<1> QED
  BY <1>1, <1>2, <1>3 DEF Next

\* GraceKept: whatever clients come and go, a server ends for idleness only after a whole
\* period without a leave, or between the two steps of one.
THEOREM GraceIsKept == Spec => GraceKept
<1>1. Init => Touched
  BY DEF Init, Touched, NoProcess
<1>2. KInv /\ Touched /\ [Next]_vars => Touched'
  BY TouchedStep DEF KInv, IInv
<1>3. KInv /\ Touched /\ [Next]_vars =>
        [\A s \in Servers :
           ReadClock(s) /\ server'[s].down =>
             server[s].quiet \/ \E c \in Clients : client[c].pc = "detaching" /\ At(c) = s]_vars
  <2> SUFFICES ASSUME KInv, Touched, NEW s \in Servers, ReadClock(s), server'[s].down
               PROVE  server[s].quiet
                      \/ \E c \in Clients : client[c].pc = "detaching" /\ At(c) = s
    OBVIOUS
  <2>1. ~server[s].fresh
    BY ReadClockEffect DEF KInv, IInv
  <2>2. Runs(s)
    BY DEF ReadClock, KInv, IInv, Named, Runs
  <2> QED
    BY <2>1, <2>2 DEF Touched
<1> QED
  BY <1>1, <1>2, <1>3, TokenInit, TokenInvariant, PTL DEF Spec, GraceKept

-----------------------------------------------------------------------------
(* The count of those who are attached.                                      *)

LEMMA AttachedFinite == \A s : IsFiniteSet(AttachedTo(s)) /\ IsFiniteSet(AttachedTo(s)')
<1>1. \A s : AttachedTo(s) \subseteq Clients /\ AttachedTo(s)' \subseteq Clients
  BY DEF AttachedTo
<1> QED
  BY <1>1, ClientsAssumption, FS_Subset

\* A step that does not count leaves who is attached to a running server alone.
LEMMA CountUnmoved ==
  ASSUME Counted, NEW s \in Servers, Runs(s)' <=> Runs(s),
         server'[s].attached = server[s].attached,
         Runs(s) => AttachedTo(s)' = AttachedTo(s)
  PROVE  server'[s].attached = IF Runs(s)' THEN Cardinality(AttachedTo(s)') ELSE 0
BY DEF Counted

LEMMA AttachedUnmoved ==
  ASSUME NEW c \in Clients, \A d \in Clients \ {c} : client'[d] = client[d], NEW s,
         (c \in AttachedTo(s))' <=> c \in AttachedTo(s)
  PROVE  AttachedTo(s)' = AttachedTo(s)
BY DEF AttachedTo, At

LEMMA CountClient ==
  ASSUME Types, Named, Located, Counted, NEW c \in Clients, ClientStep(c), NEW s \in Servers
  PROVE  server'[s].attached = IF Runs(s)' THEN Cardinality(AttachedTo(s)') ELSE 0
<1>d. \A d \in Clients \ {c} : client'[d] = client[d]
  BY ClientEffect
<1>r. Runs(s)' <=> Runs(s)
  <2>1. CASE Steady
    BY <2>1 DEF Steady, Runs
  <2>2. CASE Spawn(c)
    BY <2>2, SpawnEffect DEF Runs
  <2> QED
    BY <2>1, <2>2, ClientSteady
<1> DEFINE In(pc) == pc \in {"attaching", "attached"}
<1>u. ASSUME server'[s].attached = server[s].attached,
             \/ ~In(client[c].pc) /\ ~In(client'[c].pc)
             \/ client'[c].port = client[c].port /\ (In(client'[c].pc) <=> In(client[c].pc))
             \/ ~Runs(s)
             \/ At(c) # s /\ At(c)' # s
      PROVE  server'[s].attached = IF Runs(s)' THEN Cardinality(AttachedTo(s)') ELSE 0
  <2>1. Runs(s) => ((c \in AttachedTo(s))' <=> c \in AttachedTo(s))
    BY <1>u DEF AttachedTo, At
  <2>2. Runs(s) => AttachedTo(s)' = AttachedTo(s)
    BY <1>d, <2>1, AttachedUnmoved
  <2> QED
    BY <1>u, <1>r, <2>2, CountUnmoved
<1>1. CASE \/ ensure_home(c) \/ WriteHomeToken(c) \/ acquire(c) \/ DeleteStale(c)
  <2>1. ~In(client[c].pc) /\ ~In(client'[c].pc)
    BY <1>1, GoEffect DEF ensure_home, WriteHomeToken, acquire, DeleteStale
  <2>2. server'[s].attached = server[s].attached
    BY <1>1, StrayEffect DEF ensure_home, WriteHomeToken, acquire, DeleteStale
  <2> HIDE DEF In
  <2> QED
    BY <1>u, <2>1, <2>2
<1>2. CASE ensure_server_cli(c) \/ FastPath(c) \/ Recheck(c) \/ ReadToken(c)
  <2>1. ~In(client[c].pc) /\ ~In(client'[c].pc)
    BY <1>2, GoEffect, FoundEffect, ReadTokenEffect
       DEF ensure_server_cli, FastPath, Recheck, ReadToken
  <2>2. server'[s].attached = server[s].attached
    BY <1>2 DEF ensure_server_cli, FastPath, Recheck, ReadToken
  <2> HIDE DEF In
  <2> QED
    BY <1>u, <2>1, <2>2
<1>3. CASE Spawn(c)
  <2>1. ~In(client[c].pc) /\ ~In(client'[c].pc) /\ server'[s].attached = server[s].attached
    BY <1>3, SpawnEffect
  <2> HIDE DEF In
  <2> QED
    BY <1>u, <2>1
<1>4. CASE Poll(c) \/ TimeOut(c) \/ ClientDies(c)
  <2>1. ~In(client[c].pc) /\ ~In(client'[c].pc)
    BY <1>4, PollEffect, LeaveEffect DEF Poll, TimeOut, ClientDies
  <2>2. server'[s].attached = server[s].attached
    BY <1>4, StrayEffect DEF Poll, TimeOut, ClientDies
  <2> HIDE DEF In
  <2> QED
    BY <1>u, <2>1, <2>2
<1>5. CASE Refused(c) \/ RequestOnce(c) \/ touch(c)
  <2>1. \/ ~In(client[c].pc) /\ ~In(client'[c].pc)
        \/ client'[c].port = client[c].port /\ (In(client'[c].pc) <=> In(client[c].pc))
    BY <1>5, GoEffect, LeaveEffect DEF Refused, RequestOnce, touch
  <2>2. server'[s].attached = server[s].attached
    BY <1>5, RequestEffect DEF RequestStep
  <2> HIDE DEF In
  <2> QED
    BY <1>u, <2>1, <2>2
<1>6. CASE Lost(c)
  <2>1. /\ ~Runs(s) \/ (At(c) # s /\ At(c)' # s)
        /\ server'[s].attached = server[s].attached
    BY <1>6, LeaveEffect, ClientsAssumption DEF Lost, At
  <2> HIDE DEF In
  <2> QED
    BY <1>u, <2>1
<1>7. CASE client_attached(c)
  <2>1. /\ client[c].pc = "connected" /\ client'[c].pc = "attaching"
        /\ client'[c].port = At(c) /\ Runs(At(c)) /\ RequestStep(c)
    BY <1>7, GoEffect DEF client_attached, Serves, Listening, Named, Runs, At, RequestStep
  <2>2. CASE At(c) # s
    <3>1. At(c)' # s /\ server'[s].attached = server[s].attached
      BY <1>7, <2>1, <2>2, RequestEffect DEF At, ServerStates, Types
    <3> HIDE DEF In
    <3> QED
      BY <1>u, <2>2, <3>1
  <2>3. CASE At(c) = s
    <3>1. server'[s].attached = server[s].attached + 1
      BY <1>7, <2>1, <2>3, RequestEffect
    <3>2. AttachedTo(s)' = AttachedTo(s) \cup {c} /\ c \notin AttachedTo(s)
      BY <1>d, <2>1, <2>3 DEF AttachedTo, At
    <3>3. Cardinality(AttachedTo(s)') = Cardinality(AttachedTo(s)) + 1
      BY <3>2, AttachedFinite, FS_AddElement
    <3> QED
      BY <1>r, <2>1, <2>3, <3>1, <3>3 DEF Counted
  <2> QED
    BY <2>2, <2>3
<1>8. CASE client_detached(c)
  <2>1. /\ client[c].pc = "attached" /\ client'[c].pc = "detaching"
        /\ client'[c].port = At(c) /\ Runs(At(c)) /\ RequestStep(c)
    BY <1>8, GoEffect DEF client_detached, At, RequestStep
  <2>2. CASE At(c) # s
    <3>1. At(c)' # s /\ server'[s].attached = server[s].attached
      BY <1>8, <2>1, <2>2, RequestEffect, ServerFields DEF At
    <3> HIDE DEF In
    <3> QED
      BY <1>u, <2>2, <3>1
  <2>3. CASE At(c) = s
    <3>1. server'[s].attached = server[s].attached - 1
      BY <1>8, <2>1, <2>3, RequestEffect
    <3>2. AttachedTo(s)' = AttachedTo(s) \ {c} /\ c \in AttachedTo(s)
      BY <1>d, <2>1, <2>3 DEF AttachedTo, At
    <3>3. Cardinality(AttachedTo(s)') = Cardinality(AttachedTo(s)) - 1
      BY <3>2, AttachedFinite, FS_RemoveElement
    <3> QED
      BY <1>r, <2>1, <2>3, <3>1, <3>3 DEF Counted
  <2> QED
    BY <2>2, <2>3
<1> QED
  BY <1>1, <1>2, <1>3, <1>4, <1>5, <1>6, <1>7, <1>8 DEF ClientStep

LEMMA CountStep == Types /\ Named /\ Located /\ Counted /\ [Next]_vars => Counted'
<1> SUFFICES ASSUME Types, Named, Located, Counted, [Next]_vars, NEW s \in Servers
             PROVE  server'[s].attached = IF Runs(s)' THEN Cardinality(AttachedTo(s)') ELSE 0
  BY DEF Counted
<1>1. CASE UNCHANGED vars
  BY <1>1, CountUnmoved DEF vars, Runs, AttachedTo, At
<1>2. ASSUME NEW r \in Servers, ServerStep(r)
      PROVE  server'[s].attached = IF Runs(s)' THEN Cardinality(AttachedTo(s)') ELSE 0
  <2>1. Own(r) /\ client' = client
    BY <1>2, ServerType
  <2>2. AttachedTo(s)' = AttachedTo(s)
    BY <2>1 DEF AttachedTo, At
  <2>3. CASE r # s
    BY <2>1, <2>2, <2>3, CountUnmoved DEF Own, Runs
  <2>4. CASE Exit(s)
    BY <2>4, ExitEffect DEF Runs
  <2>5. CASE r = s /\ ~Exit(s)
    <3>1. WritePort(s) \/ RemovePort(s) => Overwrites(s, "serving") \/ Overwrites(s, "cleaned")
      BY DEF WritePort, RemovePort, Overwrites
    <3>2. server'[s].attached = server[s].attached /\ server'[s].pc # "gone"
      BY <1>2, <2>5, <3>1, WriteTokenEffect, BindEffect, OverwriteEffect, ReadCountersEffect,
         ReadClockEffect, ElapseEffect, DeafenEffect, ServerFields
         DEF ServerStep, ReadCounters, ReadClock, Elapse, Deafen, Named
    <3>3. server[s].pc # "gone"
      BY <1>2, <2>5 DEF ServerStep, WriteToken, Bind, WritePort, ReadCounters, ReadClock,
                        Elapse, Deafen, RemovePort, Named
    <3> QED
      BY <2>2, <3>2, <3>3, CountUnmoved DEF Runs
  <2> QED
    BY <1>2, <2>3, <2>4, <2>5
<1> QED
  BY <1>1, <1>2, CountClient DEF Next

LEMMA CountInit == Init => Counted
<1> SUFFICES ASSUME Init, NEW s \in Servers
             PROVE  server[s].attached = 0 /\ Runs(s) /\ AttachedTo(s) = {}
  BY FS_EmptySet DEF Counted
<1> QED
  BY DEF Init, NoProcess, NoClient, Runs, AttachedTo

\* The IdleTracker of a server that runs counts exactly the clients attached to it, through
\* every way in which an attachment begins and ends: the count that keeps it from ending.
THEOREM CountIsAttached == Spec => []Counted
<1>1. KInv /\ Counted /\ [Next]_vars => Counted'
  BY CountStep DEF KInv, IInv
<1> QED
  BY <1>1, CountInit, TokenInit, TokenInvariant, PTL DEF Spec

\* The types of the files, the lock and the processes, and the bound on the count.
THEOREM TypeCorrect == Spec => []TypeOK
<1>1. KInv /\ Counted => TypeOK
  <2> SUFFICES ASSUME KInv, Counted PROVE TypeOK
    OBVIOUS
  <2>1. Types
    BY DEF KInv, IInv
  <2>2. ASSUME NEW s \in Servers PROVE server[s].attached \in 0 .. Cardinality(Clients)
    <3>1. AttachedTo(s) \subseteq Clients
      BY DEF AttachedTo
    <3>2. /\ Cardinality(AttachedTo(s)) \in Nat /\ Cardinality(Clients) \in Nat
          /\ Cardinality(AttachedTo(s)) <= Cardinality(Clients)
      BY <3>1, AttachedFinite, ClientsAssumption, FS_Subset, FS_CardinalityType
    <3> QED
      BY <3>2 DEF Counted
  <2> QED
    BY <2>1, <2>2 DEF TypeOK, Types, ClientStates
<1>2. KInv /\ Counted /\ [Next]_vars => Counted'
  BY CountStep DEF KInv, IInv
<1> QED
  BY <1>1, <1>2, CountInit, TokenInit, TokenInvariant, PTL DEF Spec
=============================================================================
