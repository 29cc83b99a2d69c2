--------------------------- MODULE ClientRights_proofs ---------------------------
(***************************************************************************)
(* What a client may do, for any number of them: write, by the lease of     *)
(* its session (WriteLease), and permit, by its answers to approvals        *)
(* (Approvals, the second half).                                            *)
(*                                                                          *)
(* The lease's invariant says three things beside the types.  Minting:      *)
(* tokens are given out upwards, no two clients hold the same one, and      *)
(* only the last can be the session's.  Awake: a lease whose stream is up   *)
(* and owns it has an age of zero when the stream has had its heartbeat in  *)
(* this tick, and of one when it has not.  Keeps: the only stream of the    *)
(* last token still finds the lease there.                                  *)
(***************************************************************************)
EXTENDS WriteLease, Approvals, TLAPS

Minting ==
  /\ \A c \in Clients : token[c] <= minted
  /\ \A c, d \in Clients : token[c] = token[d] /\ token[c] # 0 => c = d
  /\ lease.holder \in {0, minted}
  /\ writer <= minted
  /\ \A i \in Ids : streams[i].token <= minted
  /\ \A i \in Ids : streams[i].state \in {"live", "dead"} => streams[i].token # 0

Typed ==
  /\ lease \in [holder : Nat, age : Nat]
  /\ minted \in Nat /\ writer \in Nat
  /\ token \in [Clients -> Nat]
  /\ streams \in [Ids -> [token : Nat, state : {"unused", "live", "dead", "ended"},
                          owns : BOOLEAN, woke : BOOLEAN]]

Owning(i) == streams[i].state = "live" /\ streams[i].owns

Awake ==
  \A i \in Ids : Owning(i) /\ streams[i].token = lease.holder =>
    /\ lease.age <= 1
    /\ streams[i].woke => lease.age = 0

Keeps == \A i \in Ids : Owner(i) /\ OnlyStream(i) => lease.holder = streams[i].token

IInv == Typed /\ Minting /\ Awake

LEMMA InitIInv == Init => IInv /\ Keeps
  BY DEF Init, IInv, Typed, Minting, Awake, Keeps, Owning, Owner, OnlyStream, Free, NoStream

-----------------------------------------------------------------------------
(* One lemma for each part of the invariant, one step for each action.       *)

\* Cutting the connections of a token changes only the state of its live streams.
LEMMA CutStreams ==
  ASSUME Typed, NEW t
  PROVE  /\ Cut(t) \in [Ids -> [token : Nat, state : {"unused", "live", "dead", "ended"},
                                owns : BOOLEAN, woke : BOOLEAN]]
         /\ \A i \in Ids : /\ Cut(t)[i].token = streams[i].token
                           /\ Cut(t)[i].owns = streams[i].owns
                           /\ Cut(t)[i].woke = streams[i].woke
                           /\ streams[i].state # "live" => Cut(t)[i].state = streams[i].state
                           /\ Cut(t)[i].state \in {streams[i].state, "dead"}
<1> DEFINE S == [token : Nat, state : {"unused", "live", "dead", "ended"},
                 owns : BOOLEAN, woke : BOOLEAN]
<1>1. \A i \in Ids : Cut(t)[i] = IF i \in Live(t) THEN [streams[i] EXCEPT !.state = "dead"]
                                                ELSE streams[i]
  BY Zenon DEF Cut
<1>2. \A i \in Live(t) : streams[i].state = "live"
  BY DEF Live
<1>3. \A i \in Ids : streams[i] \in S
  BY DEF Typed
<1>4. \A i \in Ids : Cut(t)[i] \in S
  BY <1>1, <1>3
<1>5. Cut(t) \in [Ids -> S]
  <2>1. Cut(t) = [i \in Ids |-> Cut(t)[i]]
    BY Zenon DEF Cut
  <2> HIDE DEF S
  <2>2. QED BY <1>4, <2>1, Zenon
<1>6. ASSUME NEW i \in Ids
      PROVE  /\ Cut(t)[i].token = streams[i].token
             /\ Cut(t)[i].owns = streams[i].owns
             /\ Cut(t)[i].woke = streams[i].woke
             /\ streams[i].state # "live" => Cut(t)[i].state = streams[i].state
             /\ Cut(t)[i].state \in {streams[i].state, "dead"}
  <2>1. CASE i \in Live(t)
    <3>1. Cut(t)[i] = [streams[i] EXCEPT !.state = "dead"]
      BY <1>1, <2>1
    <3>2. QED BY <1>2, <1>3, <2>1, <3>1
  <2>2. CASE i \notin Live(t)
    <3>1. Cut(t)[i] = streams[i]
      BY <1>1, <2>2
    <3>2. QED BY <3>1
  <2>3. QED BY <2>1, <2>2
<1>7. QED BY <1>5, <1>6

LEMMA TypedStep == ASSUME IInv, [Next]_vars PROVE Typed'
<1> USE DEF IInv, Typed
<1>1. CASE UNCHANGED vars BY <1>1 DEF vars
<1>2. ASSUME NEW c \in Clients, NEW k \in BOOLEAN, acquire(c, k) PROVE Typed'
  BY <1>2 DEF acquire, Fresh, mint_holder
<1>3. ASSUME NEW c \in Clients, lease_release(c) PROVE Typed'
  BY <1>3, CutStreams DEF lease_release, release, Free
<1>4. ASSUME NEW c \in Clients, AcceptWrite(c) PROVE Typed'
  BY <1>4 DEF AcceptWrite
<1>5. ASSUME NEW c \in Clients, RefuseWrite(c) PROVE Typed'
  BY <1>5 DEF RefuseWrite, Free
<1>6. ASSUME NEW c \in Clients, OpenStream(c) PROVE Typed'
  BY <1>6 DEF OpenStream
<1>7. ASSUME NEW c \in Clients, Crash(c) PROVE Typed'
  BY <1>7, CutStreams DEF Crash
<1>8. ASSUME NEW i \in Ids, Heartbeat(i) PROVE Typed'
  BY <1>8 DEF Heartbeat, touch, Fresh
<1>9. ASSUME NEW i \in Ids, LoseConnection(i) PROVE Typed'
  BY <1>9 DEF LoseConnection
<1>10. ASSUME NEW i \in Ids, EndStream(i) PROVE Typed'
  BY <1>10 DEF EndStream, release, Free
<1>11. CASE Tick
  <2>1. lease'.holder = lease.holder /\ lease'.age \in {lease.age, lease.age + 1}
    BY <1>11, LeaseAssumption DEF Tick, Cold
  <2>2. lease' \in [holder : Nat, age : Nat]
    BY <1>11, <2>1 DEF Tick
  <2>3. streams' \in [Ids -> [token : Nat, state : {"unused", "live", "dead", "ended"},
                              owns : BOOLEAN, woke : BOOLEAN]]
    <3> DEFINE S == [token : Nat, state : {"unused", "live", "dead", "ended"},
                     owns : BOOLEAN, woke : BOOLEAN]
    <3>1. streams' = [i \in Ids |-> [streams[i] EXCEPT
                         !.woke = streams[i].state \notin {"live", "dead"}]]
      BY <1>11 DEF Tick
    <3>2. ASSUME NEW r \in S, NEW b \in BOOLEAN PROVE [r EXCEPT !.woke = b] \in S
      OBVIOUS
    <3>3. \A i \in Ids : streams[i] \in S /\ (streams[i].state \notin {"live", "dead"}) \in BOOLEAN
      OBVIOUS
    <3> HIDE DEF S, Typed
    <3>4. \A i \in Ids : [streams[i] EXCEPT
                             !.woke = streams[i].state \notin {"live", "dead"}] \in S
      BY <3>2, <3>3
    <3>5. streams' \in [Ids -> S]
      BY <3>1, <3>4, Zenon
    <3> QED
      BY <3>5 DEF S
  <2>4. QED BY <1>11, <2>2, <2>3 DEF Tick
<1>12. QED
  BY <1>1, <1>2, <1>3, <1>4, <1>5, <1>6, <1>7, <1>8, <1>9, <1>10, <1>11
  DEF Next, ClientStep

LEMMA MintingStep == ASSUME IInv, [Next]_vars PROVE Minting'
<1> USE DEF IInv, Typed, Minting
<1>1. CASE UNCHANGED vars BY <1>1 DEF vars
<1>2. ASSUME NEW c \in Clients, NEW k \in BOOLEAN, acquire(c, k) PROVE Minting'
  BY <1>2 DEF acquire, Fresh, mint_holder
<1>3. ASSUME NEW c \in Clients, lease_release(c) PROVE Minting'
  BY <1>3, CutStreams DEF lease_release, release, Free
<1>4. ASSUME NEW c \in Clients, AcceptWrite(c) PROVE Minting'
  BY <1>4 DEF AcceptWrite
<1>5. ASSUME NEW c \in Clients, RefuseWrite(c) PROVE Minting'
  BY <1>5 DEF RefuseWrite, Free
<1>6. ASSUME NEW c \in Clients, OpenStream(c) PROVE Minting'
  BY <1>6 DEF OpenStream
<1>7. ASSUME NEW c \in Clients, Crash(c) PROVE Minting'
  BY <1>7, CutStreams DEF Crash
<1>8. ASSUME NEW i \in Ids, Heartbeat(i) PROVE Minting'
  BY <1>8 DEF Heartbeat, touch, Fresh
<1>9. ASSUME NEW i \in Ids, LoseConnection(i) PROVE Minting'
  BY <1>9 DEF LoseConnection
<1>10. ASSUME NEW i \in Ids, EndStream(i) PROVE Minting'
  BY <1>10 DEF EndStream, release, Free
<1>11. CASE Tick BY <1>11 DEF Tick
<1>12. QED
  BY <1>1, <1>2, <1>3, <1>4, <1>5, <1>6, <1>7, <1>8, <1>9, <1>10, <1>11
  DEF Next, ClientStep

LEMMA AwakeStep == ASSUME IInv, [Next]_vars PROVE Awake'
<1> USE DEF IInv, Typed, Minting, Awake, Owning
<1>1. CASE UNCHANGED vars BY <1>1 DEF vars
<1>2. ASSUME NEW c \in Clients, NEW k \in BOOLEAN, acquire(c, k) PROVE Awake'
  BY <1>2 DEF acquire, Fresh, mint_holder
<1>3. ASSUME NEW c \in Clients, lease_release(c) PROVE Awake'
  BY <1>3, CutStreams DEF lease_release, release, Free
<1>4. ASSUME NEW c \in Clients, AcceptWrite(c) PROVE Awake'
  BY <1>4 DEF AcceptWrite
<1>5. ASSUME NEW c \in Clients, RefuseWrite(c) PROVE Awake'
  BY <1>5 DEF RefuseWrite, Free
<1>6. ASSUME NEW c \in Clients, OpenStream(c) PROVE Awake'
  <2>1. PICK j \in Ids :
          streams' = [streams EXCEPT ![j] =
            [token |-> token[c], state |-> "live",
             owns |-> lease = Fresh(token[c]), woke |-> TRUE]]
    BY <1>6 DEF OpenStream
  <2>4. lease = Fresh(token[c]) => lease.age = 0
    BY DEF Fresh
  <2>2. streams'[j].owns => lease.age = 0
    BY <2>1, <2>4
  <2>3. QED BY <1>6, <2>1, <2>2 DEF OpenStream
<1>7. ASSUME NEW c \in Clients, Crash(c) PROVE Awake'
  BY <1>7, CutStreams DEF Crash
<1>8. ASSUME NEW i \in Ids, Heartbeat(i) PROVE Awake'
  BY <1>8 DEF Heartbeat, touch, Fresh
<1>9. ASSUME NEW i \in Ids, LoseConnection(i) PROVE Awake'
  BY <1>9 DEF LoseConnection
<1>10. ASSUME NEW i \in Ids, EndStream(i) PROVE Awake'
  BY <1>10 DEF EndStream, release, Free
<1>11. CASE Tick
  <2>1. lease'.holder = lease.holder /\ lease'.age \in {lease.age, lease.age + 1}
    BY <1>11, LeaseAssumption DEF Tick, Cold
  <2>2. ASSUME NEW i \in Ids
        PROVE  /\ streams'[i].owns = streams[i].owns
               /\ streams'[i].state = streams[i].state
               /\ streams'[i].token = streams[i].token
               /\ streams[i].woke
               /\ streams[i].state = "live" => ~streams'[i].woke
    BY <1>11 DEF Tick
  <2>3. QED BY <2>1, <2>2
<1>12. QED
  BY <1>1, <1>2, <1>3, <1>4, <1>5, <1>6, <1>7, <1>8, <1>9, <1>10, <1>11
  DEF Next, ClientStep

LEMMA KeepsStep == ASSUME IInv, Keeps, IdleTicks >= 2, [Next]_vars PROVE Keeps'
<1> USE LeaseAssumption DEF IInv, Typed, Minting, Keeps, Owner, OnlyStream
<1>1. CASE UNCHANGED vars BY <1>1 DEF vars
<1>2. ASSUME NEW c \in Clients, NEW k \in BOOLEAN, acquire(c, k) PROVE Keeps'
  BY <1>2 DEF acquire, Fresh, mint_holder
\* The streams of the token are cut, so none of them is the live owner.
<1>3. ASSUME NEW c \in Clients, lease_release(c) PROVE Keeps'
  <2>1. \A i \in Ids : streams'[i].state = "live" => streams[i].token # token[c]
    BY <1>3 DEF lease_release, Cut, Live
  <2>2. QED BY <1>3, <2>1, CutStreams DEF lease_release, release, Free
<1>4. ASSUME NEW c \in Clients, AcceptWrite(c) PROVE Keeps'
  BY <1>4 DEF AcceptWrite
\* A lease that is dropped for its age has no live owner: Awake.
<1>5. ASSUME NEW c \in Clients, RefuseWrite(c) PROVE Keeps'
  BY <1>5 DEF RefuseWrite, Free, holds, Cold, Awake, Owning
<1>6. ASSUME NEW c \in Clients, OpenStream(c) PROVE Keeps'
  BY <1>6 DEF OpenStream, Fresh, NoStream
<1>7. ASSUME NEW c \in Clients, Crash(c) PROVE Keeps'
  BY <1>7, CutStreams DEF Crash
<1>8. ASSUME NEW i \in Ids, Heartbeat(i) PROVE Keeps'
  BY <1>8 DEF Heartbeat, touch, Fresh
<1>9. ASSUME NEW i \in Ids, LoseConnection(i) PROVE Keeps'
  BY <1>9 DEF LoseConnection
\* The stream that ends is not the only one of a live owner's token.
<1>10. ASSUME NEW i \in Ids, EndStream(i) PROVE Keeps'
  BY <1>10 DEF EndStream, release, Free
<1>11. CASE Tick BY <1>11 DEF Tick
<1>12. QED
  BY <1>1, <1>2, <1>3, <1>4, <1>5, <1>6, <1>7, <1>8, <1>9, <1>10, <1>11
  DEF Next, ClientStep

-----------------------------------------------------------------------------
(* The theorems.                                                            *)

LEMMA InductiveInvariant == Spec => []IInv
<1>1. IInv /\ [Next]_vars => IInv'
  BY TypedStep, MintingStep, AwakeStep DEF IInv
<1>2. QED BY InitIInv, <1>1, PTL DEF Spec

\* R-SRV-060, for any number of clients and takeovers: no two clients present
\* the same token, and only the last one given out can be the session's.
THEOREM OneWriter == Spec => []SingleWriter
<1>1. IInv => SingleWriter
  BY DEF IInv, Minting, SingleWriter
<1>2. QED BY <1>1, InductiveInvariant, PTL

\* A write that is accepted is the newest holder's: nobody writes after a later
\* holder has written.
THEOREM NewestHolderWrites == Spec => WritersSucceed
<1>1. ASSUME IInv, [Next]_vars, writer' # writer
      PROVE  writer < writer' /\ writer' = minted
  <2>1. PICK c \in Clients : AcceptWrite(c)
    BY <1>1 DEF Next, ClientStep, vars, acquire, lease_release, RefuseWrite, OpenStream,
                Crash, Heartbeat, LoseConnection, EndStream, Tick
  <2>2. token[c] = minted /\ writer' = minted
    BY <1>1, <2>1 DEF AcceptWrite, holds, IInv, Typed, Minting
  <2>3. QED BY <1>1, <2>2 DEF IInv, Typed, Minting
<1>2. IInv /\ [Next]_vars => [writer' # writer => writer < writer' /\ writer' = minted]_vars
  BY <1>1
<1>3. QED BY <1>2, InductiveInvariant, PTL DEF Spec, WritersSucceed

\* No client gets the lease of an owning stream that is up, but by takeover.
THEOREM AttachedNotStolen == ASSUME IdleTicks >= 2 PROVE Spec => NoSilentSteal
<1>1. ASSUME IInv, NEW c \in Clients, acquire(c, FALSE), NEW i \in Live(lease.holder)
      PROVE  ~streams[i].owns
  <2>1. i \in Ids /\ streams[i].state = "live" /\ streams[i].token = lease.holder
    BY <1>1 DEF Live
  <2>2. lease.holder # 0
    BY <1>1, <2>1 DEF IInv, Minting
  <2>3. Cold
    BY <1>1, <2>2 DEF acquire
  <2>4. QED BY <1>1, <2>1, <2>3, LeaseAssumption DEF IInv, Typed, Awake, Owning, Cold
<1>2. IInv /\ [Next]_vars =>
        [\A c \in Clients : acquire(c, FALSE) =>
           \A i \in Live(lease.holder) : ~streams[i].owns]_vars
  BY <1>1
<1>3. QED BY <1>2, InductiveInvariant, PTL DEF Spec, NoSilentSteal

\* A client whose only stream was opened with its lease, and is up, has the
\* lease and can write, unless a later token was given out.  The idle timeout has
\* to be worth two heartbeats: with less, the lease may go cold before the first.
THEOREM AttachedClientCanWrite ==
  ASSUME IdleTicks >= 2 PROVE Spec => []AttachedKeepsLease
<1>1. Spec => [](IInv /\ Keeps)
  <2>1. IInv /\ Keeps /\ [Next]_vars => (IInv /\ Keeps)'
    BY TypedStep, MintingStep, AwakeStep, KeepsStep DEF IInv
  <2>2. QED BY InitIInv, <2>1, PTL DEF Spec
<1>2. IInv /\ Keeps => AttachedKeepsLease
  BY LeaseAssumption DEF IInv, Typed, Awake, Owning, Keeps, Owner, AttachedKeepsLease, holds, Cold
<1>3. QED BY <1>1, <1>2, PTL

\* No counter of the lease passes its bound.
Capped == lease.age <= IdleTicks /\ minted <= MaxMints

LEMMA CappedStep == ASSUME IInv, Capped, [Next]_vars PROVE Capped'
<1> USE LeaseAssumption DEF IInv, Typed, Capped
<1>1. CASE UNCHANGED vars
  BY <1>1 DEF vars
<1>2. ASSUME NEW c \in Clients, ClientStep(c) PROVE Capped'
  BY <1>2 DEF ClientStep, acquire, lease_release, AcceptWrite, RefuseWrite, OpenStream, Crash,
              release, Free, Fresh, mint_holder
<1>3. ASSUME NEW i \in Ids, Heartbeat(i) \/ LoseConnection(i) \/ EndStream(i) PROVE Capped'
  BY <1>3 DEF Heartbeat, LoseConnection, EndStream, touch, release, Free, Fresh
<1>4. CASE Tick
  BY <1>4 DEF Tick, Cold
<1> QED BY <1>1, <1>2, <1>3, <1>4 DEF Next

\* The types of the lease and of its streams, and the bound on its age.
THEOREM LeaseTypeCorrect == Spec => []TypeOK
<1>1. Init => Capped
  BY LeaseAssumption DEF Init, Capped, Free
<1>2. IInv /\ Capped => TypeOK
  <2> SUFFICES ASSUME IInv, Capped PROVE TypeOK
    OBVIOUS
  <2>1. /\ lease \in [holder : Tokens, age : 0..IdleTicks]
        /\ minted \in Tokens /\ writer \in Tokens /\ token \in [Clients -> Tokens]
    BY LeaseAssumption DEF IInv, Typed, Minting, Capped, Tokens
  <2>2. streams \in [Ids -> [token : Tokens, state : {"unused", "live", "dead", "ended"},
                             owns : BOOLEAN, woke : BOOLEAN]]
    BY LeaseAssumption DEF IInv, Typed, Minting, Capped, Tokens
  <2> QED BY <2>1, <2>2 DEF TypeOK
<1>3. IInv /\ Capped /\ [Next]_vars => (IInv /\ Capped)'
  BY TypedStep, MintingStep, AwakeStep, CappedStep DEF IInv
<1> QED BY InitIInv, <1>1, <1>2, <1>3, PTL DEF Spec

-----------------------------------------------------------------------------
(* Approvals.                                                                *)

(***************************************************************************)
(* Whatever is on its way has been said: an answer that a thread carries was *)
(* sent by a user, one that is being cached is an allowance, one on its way   *)
(* to the file an always-allowance, and so is all the text read from there;   *)
(* what a slot holds is an answer to its own question.                       *)
(***************************************************************************)
Caching == {"caching", "save", "write"}
Sent(p) ==
  /\ post[p].pc \in {"found", "known", "unknown"} \cup Caching =>
       /\ post[p].answer.decision \in Decisions
       /\ post[p].answer.decision = "allow" => post[p].answer \in said
  /\ post[p].pc \in Caching => post[p].answer.decision = "allow"
  /\ post[p].pc \in {"save", "write"} => post[p].answer.scope = "always"
  /\ \A f \in post[p].text : AllowedAlways(f)
Heard == \A q \in Questions : slot[q] = "allow" => Allowed(q)

Forms ==
  /\ post = [p \in Posts |-> [pc |-> post[p].pc, answer |-> post[p].answer,
                              text |-> post[p].text]]
  /\ asker = [q \in Questions |-> [pc |-> asker[q].pc, outcome |-> asker[q].outcome]]
  /\ slot \in [Questions -> Decisions \cup {"none"}]

AInv == Forms /\ (\A p \in Posts : Sent(p)) /\ Heard /\ OnlyUsersPermit

LEMMA Starts == AskInit => AInv
<1> SUFFICES ASSUME AskInit PROVE AInv
  OBVIOUS
<1>1. Forms
  BY DEF AskInit, Forms
<1>2. \A p \in Posts : Sent(p)
  BY DEF AskInit, Sent, Caching
<1>3. Heard
  BY DEF AskInit, Heard
<1>4. OnlyUsersPermit
  BY DEF AskInit, OnlyUsersPermit, AllowedAlways
<1> QED BY <1>1, <1>2, <1>3, <1>4 DEF AInv

\* What has been said stays said.
LEMMA SaidStays ==
  ASSUME said \subseteq said'
  PROVE  /\ \A q : Allowed(q) => Allowed(q)'
         /\ \A s, f : AllowedIn(s, f) => AllowedIn(s, f)'
         /\ \A f : AllowedAlways(f) => AllowedAlways(f)'
<1>1. \A q : Allowed(q) => Allowed(q)'
  BY DEF Allowed
<1>2. \A s, f : AllowedIn(s, f) => AllowedIn(s, f)'
  BY DEF AllowedIn
<1>3. \A f : AllowedAlways(f) => AllowedAlways(f)'
  BY DEF AllowedAlways
<1> QED BY <1>1, <1>2, <1>3

LEMMA SentStays ==
  ASSUME said \subseteq said', NEW p \in Posts, post'[p] = post[p], Sent(p)
  PROVE  Sent(p)'
BY SaidStays DEF Sent

\* The thread of an answer: what is left of the answer and of the text.
LEMMA PostUpdate ==
  ASSUME Forms, NEW p \in Posts, NEW pc, NEW a, NEW t,
         post' = [post EXCEPT ![p] = [pc |-> pc, answer |-> a, text |-> t]]
  PROVE  /\ post' = [o \in Posts |-> [pc |-> post'[o].pc, answer |-> post'[o].answer,
                                      text |-> post'[o].text]]
         /\ post'[p] = [pc |-> pc, answer |-> a, text |-> t]
         /\ \A o \in Posts \ {p} : post'[o] = post[o]
<1>1. post' = [o \in Posts |-> IF o = p THEN [pc |-> pc, answer |-> a, text |-> t]
                               ELSE [pc |-> post[o].pc, answer |-> post[o].answer,
                                     text |-> post[o].text]]
  BY DEF Forms
<1>2. \A o \in Posts : post'[o] = IF o = p THEN [pc |-> pc, answer |-> a, text |-> t]
                                  ELSE [pc |-> post[o].pc, answer |-> post[o].answer,
                                        text |-> post[o].text]
  BY <1>1
<1>3. \A o \in Posts : post'[o] = [pc |-> post'[o].pc, answer |-> post'[o].answer,
                                   text |-> post'[o].text]
  BY <1>2
<1>4. \A o \in Posts : post[o] = [pc |-> post[o].pc, answer |-> post[o].answer,
                                  text |-> post[o].text]
  BY DEF Forms
<1> QED BY <1>1, <1>2, <1>3, <1>4

\* A step that is not the last leaves answer and text as they are.
LEMMA StepUpdate ==
  ASSUME Forms, NEW p \in Posts, NEW pc, Step(p, pc)
  PROVE  /\ post' = [o \in Posts |-> [pc |-> post'[o].pc, answer |-> post'[o].answer,
                                      text |-> post'[o].text]]
         /\ post'[p].pc = pc
         /\ pc # "done" => post'[p].answer = post[p].answer
         /\ post'[p].text = {} \/ post'[p].text = post[p].text
         /\ \A o \in Posts \ {p} : post'[o] = post[o]
<1>1. CASE pc = "done"
  <2>1. post' = [post EXCEPT ![p] = [pc |-> "done", answer |-> Nothing, text |-> {}]]
    BY <1>1 DEF Step, Over
  <2> QED BY <1>1, <2>1, PostUpdate
<1>2. CASE pc # "done"
  <2>1. post[p] = [pc |-> post[p].pc, answer |-> post[p].answer, text |-> post[p].text]
    BY DEF Forms
  <2>2. [post[p] EXCEPT !.pc = pc] = [pc |-> pc, answer |-> post[p].answer,
                                      text |-> post[p].text]
    BY <2>1
  <2>3. post' = [post EXCEPT ![p] = [post[p] EXCEPT !.pc = pc]]
    BY <1>2 DEF Step
  <2>4. post' = [post EXCEPT ![p] = [pc |-> pc, answer |-> post[p].answer,
                                     text |-> post[p].text]]
    BY <2>2, <2>3
  <2> QED BY <2>4, PostUpdate
<1> QED BY <1>1, <1>2

\* Two fields of the record of a thread, replaced one after the other.
LEMMA NewText ==
  ASSUME NEW r, r = [pc |-> r.pc, answer |-> r.answer, text |-> r.text], NEW pc, NEW t
  PROVE  [r EXCEPT !.pc = pc, !.text = t] = [pc |-> pc, answer |-> r.answer, text |-> t]
<1>1. PICK q : q = [r EXCEPT !.pc = pc]
  OBVIOUS
<1>2. q \in [pc : {pc}, answer : {r.answer}, text : {r.text}]
  BY <1>1
<1>3. [q EXCEPT !.text = t] = [pc |-> pc, answer |-> r.answer, text |-> t]
  BY <1>2
<1> QED BY <1>1, <1>3

\* The thread that asks concludes what its slot or the cache says.
LEMMA AskerSteps ==
  ASSUME AInv, NEW q \in Questions, request(q) \/ AskerStep(q) \/ Cancel(q)
  PROVE  AInv'
<1> USE DEF AInv
<1>1. /\ post' = post /\ sessionOk' = sessionOk /\ persistent' = persistent
      /\ config' = config /\ said' = said
  BY DEF AskerStep, request, Wake, GiveUp, remove, Cancel, cache
<1>2. \A p \in Posts : Sent(p)'
  BY <1>1, SentStays
<1>3. slot' = slot \/ slot' = [slot EXCEPT ![q] = "none"]
  BY DEF AskerStep, request, Wake, GiveUp, remove, Cancel
<1>4. slot' \in [Questions -> Decisions \cup {"none"}]
  BY <1>3 DEF Forms
<1>5. Heard'
  BY <1>1, <1>3, SaidStays DEF Heard, Forms
<1>6. PICK pc, o :
        /\ asker' = asker \/ asker' = [asker EXCEPT ![q] = [pc |-> pc, outcome |-> o]]
        /\ o = "allow" => o = asker[q].outcome \/ slot[q] = "allow"
        /\ o = "cached" => o = asker[q].outcome \/ is_approved(q)
  <2>1. asker[q] = [pc |-> asker[q].pc, outcome |-> asker[q].outcome]
    BY DEF Forms
  <2>2. CASE request(q)
    <3>1. CASE IsApproval[q] /\ is_approved(q)
      BY <2>2, <3>1 DEF request
    <3>2. CASE ~ (IsApproval[q] /\ is_approved(q))
      <4>1. asker' = [asker EXCEPT ![q] = [asker[q] EXCEPT !.pc = "waiting"]]
        BY <2>2, <3>2 DEF request
      <4>2. [asker[q] EXCEPT !.pc = "waiting"] = [pc |-> "waiting", outcome |-> asker[q].outcome]
        BY <2>1
      <4> QED BY <4>1, <4>2
    <3> QED BY <3>1, <3>2
  <2>3. CASE Wake(q)
    <3>1. slot[q] # "cached"
      BY DEF Forms, Decisions
    <3> QED BY <2>3, <3>1 DEF Wake, Conclude
  <2>4. CASE GiveUp(q)
    <3>1. asker' = [asker EXCEPT ![q] = [pc |-> "leaving", outcome |-> "unanswered"]]
      BY <2>4 DEF GiveUp, Conclude
    <3>2. "unanswered" # "allow" /\ "unanswered" # "cached"
      OBVIOUS
    <3> QED BY <3>1, <3>2, Zenon
  <2>5. CASE remove(q)
    <3>1. asker' = [asker EXCEPT ![q] = [asker[q] EXCEPT !.pc = "done"]]
      BY <2>5 DEF remove
    <3>2. [asker[q] EXCEPT !.pc = "done"] = [pc |-> "done", outcome |-> asker[q].outcome]
      BY <2>1
    <3> QED BY <3>1, <3>2
  <2>6. CASE Cancel(q)
    BY <2>6 DEF Cancel
  <2> QED BY <2>2, <2>3, <2>4, <2>5, <2>6 DEF AskerStep
<1>7. \A r \in Questions :
        /\ \/ asker'[r] = asker[r]
           \/ r = q /\ asker'[r] = [pc |-> pc, outcome |-> o]
        /\ asker'[r] = [pc |-> asker'[r].pc, outcome |-> asker'[r].outcome]
  <2>1. \A r \in Questions :
          asker[r] = [pc |-> asker[r].pc, outcome |-> asker[r].outcome]
    BY DEF Forms
  <2>2. CASE asker' = asker
    BY <2>1, <2>2
  <2>3. CASE asker' = [asker EXCEPT ![q] = [pc |-> pc, outcome |-> o]]
    <3>1. DOMAIN asker = Questions
      BY DEF Forms
    <3>2. \A r \in Questions :
            asker'[r] = IF r = q THEN [pc |-> pc, outcome |-> o] ELSE asker[r]
      BY <2>3, <3>1
    <3> QED BY <2>1, <3>2
  <2> QED BY <1>6, <2>2, <2>3
<1>8. asker' = [r \in Questions |-> asker'[r]]
  BY <1>6 DEF Forms
<1>9. asker' = [r \in Questions |-> [pc |-> asker'[r].pc, outcome |-> asker'[r].outcome]]
  BY <1>7, <1>8
<1>10. is_approved(q) => \/ AllowedIn(Session[q], Fingerprint[q])
                         \/ AllowedAlways(Fingerprint[q])
  <2>1. Fingerprint[q] \in persistent => AllowedAlways(Fingerprint[q])
    BY DEF OnlyUsersPermit
  <2>2. ASSUME <<Session[q], Fingerprint[q]>> \in sessionOk
        PROVE  AllowedIn(Session[q], Fingerprint[q])
    <3>1. AllowedIn(<<Session[q], Fingerprint[q]>>[1], <<Session[q], Fingerprint[q]>>[2])
      BY <2>2 DEF OnlyUsersPermit
    <3> QED BY <3>1
  <2> QED BY <2>1, <2>2 DEF is_approved
<1>11. \A r \in Questions :
         /\ asker'[r].outcome = "allow" => Allowed(r)
         /\ asker'[r].outcome = "cached" => \/ AllowedIn(Session[r], Fingerprint[r])
                                            \/ AllowedAlways(Fingerprint[r])
  <2> SUFFICES ASSUME NEW r \in Questions
               PROVE  /\ asker'[r].outcome = "allow" => Allowed(r)
                      /\ asker'[r].outcome = "cached" =>
                           \/ AllowedIn(Session[r], Fingerprint[r])
                           \/ AllowedAlways(Fingerprint[r])
    OBVIOUS
  <2>1. /\ asker[r].outcome = "allow" => Allowed(r)
        /\ asker[r].outcome = "cached" => \/ AllowedIn(Session[r], Fingerprint[r])
                                          \/ AllowedAlways(Fingerprint[r])
    BY DEF OnlyUsersPermit
  <2>2. CASE asker'[r] = asker[r]
    BY <2>1, <2>2
  <2>3. CASE r = q /\ asker'[r] = [pc |-> pc, outcome |-> o]
    <3>1. slot[q] = "allow" => Allowed(q)
      BY DEF Heard
    <3>2. asker'[r].outcome = o
      BY <2>3
    <3> QED BY <1>6, <1>10, <2>1, <2>3, <3>1, <3>2
  <2> QED BY <1>7, <2>2, <2>3
<1>12. OnlyUsersPermit'
  BY <1>1, <1>11, SaidStays DEF OnlyUsersPermit
<1> QED BY <1>1, <1>2, <1>4, <1>5, <1>9, <1>12 DEF Forms

\* What a step of an answer's thread has to show.
LEMMA Posted ==
  ASSUME AInv, said \subseteq said', asker' = asker, NEW p \in Posts, Sent(p)',
         post' = [o \in Posts |-> [pc |-> post'[o].pc, answer |-> post'[o].answer,
                                   text |-> post'[o].text]],
         \A o \in Posts \ {p} : post'[o] = post[o],
         slot' \in [Questions -> Decisions \cup {"none"}],
         \A q \in Questions : slot'[q] = "allow" => slot[q] = "allow" \/ Allowed(q)',
         \A e \in sessionOk' : e \in sessionOk \/ AllowedIn(e[1], e[2])',
         \A f \in persistent' \cup config' :
           f \in persistent \cup config \/ AllowedAlways(f)'
  PROVE  AInv'
<1> USE DEF AInv
<1>1. Forms'
  BY DEF Forms
<1>2. \A o \in Posts : Sent(o)'
  BY SentStays
<1>3. Heard'
  BY SaidStays DEF Heard
<1>4. \A q \in Questions :
        /\ asker'[q].outcome = "allow" => Allowed(q)'
        /\ asker'[q].outcome = "cached" => \/ AllowedIn(Session[q], Fingerprint[q])'
                                           \/ AllowedAlways(Fingerprint[q])'
  BY SaidStays DEF OnlyUsersPermit
<1>5. /\ \A e \in sessionOk' : AllowedIn(e[1], e[2])'
      /\ \A f \in persistent' \cup config' : AllowedAlways(f)'
  BY SaidStays DEF OnlyUsersPermit
<1>6. OnlyUsersPermit'
  BY <1>4, <1>5 DEF OnlyUsersPermit
<1> QED BY <1>1, <1>2, <1>3, <1>6

\* What each step of an answer's thread says, caches or writes has been allowed.
LEMMA AnswerSteps ==
  ASSUME AInv, NEW p \in Posts, PostStep(p)
  PROVE  AInv'
<1> USE DEF AInv
<1>0. PICK a : a = post[p].answer
  OBVIOUS
<1>1. Forms /\ Sent(p)
  OBVIOUS
<1>2. CASE ReadMeta(p)
  <2>1. /\ asker' = asker /\ slot' = slot /\ sessionOk' = sessionOk
        /\ persistent' = persistent /\ config' = config /\ said' = said
        /\ post[p].pc = "found"
    BY <1>2 DEF ReadMeta, cache
  <2>2. PICK pc \in {"known", "unknown"} : Step(p, pc)
    BY <1>2 DEF ReadMeta
  <2>3. Sent(p)'
    BY <1>0, <1>1, <2>1, <2>2, StepUpdate, SaidStays DEF Sent, Caching
  <2> QED BY <2>1, <2>2, <2>3, StepUpdate, Posted DEF Forms
<1>3. CASE resolve_with_meta(p)
  <2>1. /\ asker' = asker /\ sessionOk' = sessionOk
        /\ persistent' = persistent /\ config' = config /\ said' = said
        /\ post[p].pc \in {"known", "unknown"}
    BY <1>0, <1>3 DEF resolve_with_meta, cache
  <2>2. PICK pc \in {"caching", "done"} : Step(p, pc) /\ (pc = "caching" => Cacheable(a))
    BY <1>0, <1>3 DEF resolve_with_meta
  <2>3. Sent(p)'
    BY <1>0, <1>1, <2>1, <2>2, StepUpdate, SaidStays DEF Sent, Caching, Cacheable
  <2>4. a.decision \in Decisions /\ (a.decision = "allow" => a \in said)
    BY <1>0, <1>1, <2>1 DEF Sent
  <2>5. slot' = slot \/ slot' = [slot EXCEPT ![a.q] = a.decision]
    BY <1>0, <1>1, <1>3 DEF resolve_with_meta, Forms
  <2>6. slot' \in [Questions -> Decisions \cup {"none"}]
    BY <1>0, <1>1, <2>4, <2>5 DEF Forms
  <2>7. \A q \in Questions : slot'[q] = "allow" => slot[q] = "allow" \/ Allowed(q)'
    BY <1>0, <1>1, <2>1, <2>4, <2>5 DEF Forms, Allowed
  <2> QED BY <2>1, <2>2, <2>3, <2>6, <2>7, StepUpdate, Posted
<1>4. CASE approve_session(p)
  <2>1. /\ asker' = asker /\ slot' = slot
        /\ persistent' = persistent /\ config' = config /\ said' = said
        /\ post[p].pc = "caching" /\ a.scope = "session"
        /\ Step(p, "done")
        /\ sessionOk' = sessionOk \cup {<<Session[a.q], Fingerprint[a.q]>>}
    BY <1>0, <1>4 DEF approve_session
  <2>2. Sent(p)'
    BY <1>0, <1>1, <2>1, StepUpdate, SaidStays DEF Sent, Caching
  <2>3. a \in said'
    BY <1>0, <1>1, <2>1 DEF Sent, Caching
  <2>4. AllowedIn(Session[a.q], Fingerprint[a.q])'
    BY <2>1, <2>3 DEF AllowedIn
  <2>5. \A e \in sessionOk' : e \in sessionOk \/ AllowedIn(e[1], e[2])'
    <3> SUFFICES ASSUME NEW e \in sessionOk', e \notin sessionOk
                 PROVE  AllowedIn(e[1], e[2])'
      OBVIOUS
    <3>1. e = <<Session[a.q], Fingerprint[a.q]>>
      BY <2>1
    <3>2. e[1] = Session[a.q] /\ e[2] = Fingerprint[a.q]
      BY <3>1
    <3> QED BY <2>4, <3>2
  <2> QED BY <2>1, <2>2, <2>5, StepUpdate, Posted DEF Forms
<1>5. CASE approve_persistent(p)
  <2>1. /\ asker' = asker /\ slot' = slot /\ sessionOk' = sessionOk
        /\ config' = config /\ said' = said
        /\ post[p].pc = "caching" /\ a.scope = "always"
        /\ persistent' = persistent \cup {Fingerprint[a.q]}
    BY <1>0, <1>5 DEF approve_persistent
  <2>2. PICK pc \in {"done", "save"} : Step(p, pc)
    BY <1>0, <1>5 DEF approve_persistent
  <2>3. Sent(p)'
    BY <1>0, <1>1, <2>1, <2>2, StepUpdate, SaidStays DEF Sent, Caching
  <2>4. a \in said'
    BY <1>0, <1>1, <2>1 DEF Sent, Caching
  <2>5. AllowedAlways(Fingerprint[a.q])'
    BY <2>1, <2>4 DEF AllowedAlways
  <2> QED BY <2>1, <2>2, <2>3, <2>5, StepUpdate, Posted DEF Forms
<1>6. CASE ReadConfig(p)
  <2>1. /\ asker' = asker /\ slot' = slot /\ sessionOk' = sessionOk
        /\ persistent' = persistent /\ config' = config /\ said' = said
        /\ post[p].pc = "save"
    BY <1>6 DEF ReadConfig, cache
  <2>2. CASE Step(p, "done")
    <3>1. Sent(p)'
      BY <1>0, <1>1, <2>1, <2>2, StepUpdate, SaidStays DEF Sent, Caching
    <3> QED BY <2>1, <2>2, <3>1, StepUpdate, Posted DEF Forms
  <2>3. CASE post' = [post EXCEPT ![p] = [post[p] EXCEPT !.pc = "write", !.text = config]]
    <3>1. post[p] = [pc |-> post[p].pc, answer |-> a, text |-> post[p].text]
      BY <1>0 DEF Forms
    <3>2. [post[p] EXCEPT !.pc = "write", !.text = config]
            = [pc |-> "write", answer |-> a, text |-> config]
      BY <1>0, <3>1, NewText
    <3>3. post' = [post EXCEPT ![p] = [pc |-> "write", answer |-> a, text |-> config]]
      BY <2>3, <3>2
    <3>4. post'[p] = [pc |-> "write", answer |-> a, text |-> config]
      BY <1>0, <1>1, <3>3, PostUpdate
    <3>5. \A f \in config : AllowedAlways(f)
      BY DEF OnlyUsersPermit
    <3>6. Sent(p)'
      BY <1>0, <1>1, <2>1, <3>4, <3>5, SaidStays DEF Sent, Caching
    <3> QED BY <2>1, <3>3, <3>6, PostUpdate, Posted DEF Forms
  <2> QED BY <1>6, <2>2, <2>3 DEF ReadConfig
<1>7. CASE WriteConfig(p)
  <2>1. /\ asker' = asker /\ slot' = slot /\ sessionOk' = sessionOk
        /\ persistent' = persistent /\ said' = said
        /\ post[p].pc = "write" /\ Step(p, "done")
        /\ config' \in {config, post[p].text \cup {Fingerprint[a.q]}}
    BY <1>0, <1>7 DEF WriteConfig
  <2>2. Sent(p)'
    BY <1>0, <1>1, <2>1, StepUpdate, SaidStays DEF Sent, Caching
  <2>3. a \in said /\ a.scope = "always"
    BY <1>0, <1>1, <2>1 DEF Sent, Caching
  <2>4. AllowedAlways(Fingerprint[a.q])
    BY <2>3 DEF AllowedAlways
  <2>5. \A f \in config' : f \in config \/ AllowedAlways(f)'
    BY <1>0, <1>1, <2>1, <2>4, SaidStays DEF Sent
  <2> QED BY <2>1, <2>2, <2>5, StepUpdate, Posted DEF Forms
<1> QED BY <1>2, <1>3, <1>4, <1>5, <1>6, <1>7 DEF PostStep

\* What a client sends becomes the answer of its thread, or finds nothing to answer.
LEMMA LookUpdate ==
  ASSUME Forms, NEW p \in Posts, NEW q \in Questions, NEW d \in Decisions,
         NEW s \in Scopes, Look(p, Answer(q, d, s))
  PROVE  \E pc, b, t :
           /\ post' = [post EXCEPT ![p] = [pc |-> pc, answer |-> b, text |-> t]]
           /\ (pc = "found" /\ b = Answer(q, d, s)) \/ pc = "done"
           /\ t = post[p].text \/ t = {}
<1> DEFINE a == Answer(q, d, s)
<1>1. post[p] = [pc |-> post[p].pc, answer |-> post[p].answer, text |-> post[p].text]
  BY DEF Forms
<1>2. CASE q \in inner
  <2>1. a.q = q
    BY DEF Answer
  <2>2. post' = [post EXCEPT ![p] = [post[p] EXCEPT !.pc = "found", !.answer = a]]
    BY <1>2, <2>1 DEF Look
  <2>3. [post[p] EXCEPT !.pc = "found", !.answer = a]
          = [pc |-> "found", answer |-> a, text |-> post[p].text]
    <3> HIDE DEF a
    <3>1. [post[p] EXCEPT !.pc = "found"]
            = [pc |-> "found", answer |-> post[p].answer, text |-> post[p].text]
      BY <1>1
    <3>2. PICK r : r = [post[p] EXCEPT !.pc = "found"]
      OBVIOUS
    <3>3. r \in [pc : {"found"}, answer : {post[p].answer}, text : {post[p].text}]
      BY <3>1, <3>2
    <3>4. [r EXCEPT !.answer = a] = [pc |-> "found", answer |-> a, text |-> post[p].text]
      BY <3>3
    <3> QED BY <3>2, <3>4
  <2> QED BY <2>2, <2>3
<1>3. CASE q \notin inner
  <2>1. a.q = q
    BY DEF Answer
  <2>2. post' = [post EXCEPT ![p] = [pc |-> "done", answer |-> Nothing, text |-> {}]]
    BY <1>3, <2>1 DEF Look, Over
  <2> QED BY <2>2
<1> QED BY <1>2, <1>3

\* An answer arrives: from here on it has been said.
LEMMA LookStep ==
  ASSUME AInv, NEW p \in Posts, NEW q \in Questions, NEW d \in Decisions,
         NEW s \in Scopes, Look(p, Answer(q, d, s))
  PROVE  AInv'
<1> USE DEF AInv
<1> DEFINE a == Answer(q, d, s)
<1>1. /\ asker' = asker /\ slot' = slot /\ sessionOk' = sessionOk
      /\ persistent' = persistent /\ config' = config /\ post[p].pc = "idle"
      /\ said' = said \cup {o \in {a} : o.decision = "allow"}
  BY DEF Look, cache
<1>2. a.decision \in Decisions /\ (a.decision = "allow" => a \in said')
  BY <1>1 DEF Answer
<1>3. PICK pc, b, t :
        /\ post' = [post EXCEPT ![p] = [pc |-> pc, answer |-> b, text |-> t]]
        /\ (pc = "found" /\ b = a) \/ pc = "done"
        /\ t = post[p].text \/ t = {}
  BY LookUpdate
<1>4. post'[p] = [pc |-> pc, answer |-> b, text |-> t]
  BY <1>3, PostUpdate
<1>5. Sent(p)'
  <2>1. \A f \in t : AllowedAlways(f)'
    BY <1>1, <1>3, SaidStays DEF Sent
  <2> QED BY <1>2, <1>3, <1>4, <2>1 DEF Sent, Caching
<1> QED BY <1>1, <1>3, <1>5, PostUpdate, Posted DEF Forms

\* After a restart nothing is on its way, and the cache is the file.
LEMMA RestartStep == AInv /\ Restart => AInv'
<1> SUFFICES ASSUME AInv, Restart PROVE AInv'
  OBVIOUS
<1> USE DEF AInv
<1>1. /\ config' = config /\ said' = said /\ sessionOk' = {} /\ persistent' = config
      /\ slot' = [q \in Questions |-> "none"]
      /\ post' = [p \in Posts |-> IF post[p].pc = "idle" THEN post[p] ELSE Over]
      /\ asker' = [q \in Questions |-> IF asker[q].pc \in {"idle", "done"} THEN asker[q]
                                        ELSE [pc |-> "done", outcome |-> "killed"]]
  BY DEF Restart
<1>2. \A p \in Posts :
        /\ post[p] = [pc |-> post[p].pc, answer |-> post[p].answer, text |-> post[p].text]
        /\ post'[p] = post[p] \/ post'[p] = [pc |-> "done", answer |-> Nothing, text |-> {}]
  BY <1>1 DEF Forms, Over
<1>3. \A q \in Questions :
        /\ asker[q] = [pc |-> asker[q].pc, outcome |-> asker[q].outcome]
        /\ asker'[q] = asker[q] \/ asker'[q] = [pc |-> "done", outcome |-> "killed"]
  BY <1>1 DEF Forms
<1>4. Forms'
  <2>1. /\ post' = [p \in Posts |-> post'[p]]
        /\ asker' = [q \in Questions |-> asker'[q]]
    BY <1>1
  <2>2. ASSUME NEW p \in Posts
        PROVE  post'[p] = [pc |-> post'[p].pc, answer |-> post'[p].answer,
                           text |-> post'[p].text]
    <3>1. CASE post'[p] = post[p]
      BY <1>2, <3>1
    <3>2. CASE post'[p] = [pc |-> "done", answer |-> Nothing, text |-> {}]
      BY <3>2
    <3> QED BY <1>2, <3>1, <3>2
  <2>3. ASSUME NEW q \in Questions
        PROVE  asker'[q] = [pc |-> asker'[q].pc, outcome |-> asker'[q].outcome]
    <3>1. CASE asker'[q] = asker[q]
      BY <1>3, <3>1
    <3>2. CASE asker'[q] = [pc |-> "done", outcome |-> "killed"]
      BY <3>2
    <3> QED BY <1>3, <3>1, <3>2
  <2> QED BY <1>1, <2>1, <2>2, <2>3 DEF Forms
<1>5. \A p \in Posts : Sent(p)'
  <2> SUFFICES ASSUME NEW p \in Posts PROVE Sent(p)'
    OBVIOUS
  <2>1. CASE post'[p] = post[p]
    BY <1>1, <2>1, SentStays
  <2>2. CASE post'[p] = [pc |-> "done", answer |-> Nothing, text |-> {}]
    BY <2>2 DEF Sent, Caching
  <2> QED BY <1>2, <2>1, <2>2
<1>6. Heard'
  BY <1>1 DEF Heard
<1>7. \A q \in Questions :
        /\ asker'[q].outcome = "allow" => Allowed(q)
        /\ asker'[q].outcome = "cached" => \/ AllowedIn(Session[q], Fingerprint[q])
                                           \/ AllowedAlways(Fingerprint[q])
  <2> SUFFICES ASSUME NEW q \in Questions
               PROVE  /\ asker'[q].outcome = "allow" => Allowed(q)
                      /\ asker'[q].outcome = "cached" =>
                           \/ AllowedIn(Session[q], Fingerprint[q])
                           \/ AllowedAlways(Fingerprint[q])
    OBVIOUS
  <2>1. CASE asker'[q] = asker[q]
    BY <2>1 DEF OnlyUsersPermit
  <2>2. CASE asker'[q] = [pc |-> "done", outcome |-> "killed"]
    BY <2>2
  <2> QED BY <1>3, <2>1, <2>2
<1>8. OnlyUsersPermit'
  BY <1>1, <1>7, SaidStays DEF OnlyUsersPermit
<1> QED BY <1>4, <1>5, <1>6, <1>8

LEMMA AnswersInductive == AInv /\ [AskNext]_askVars => AInv'
<1> SUFFICES ASSUME AInv, [AskNext]_askVars PROVE AInv'
  OBVIOUS
<1>1. CASE askVars' = askVars
  BY <1>1, SaidStays, SentStays
     DEF askVars, AInv, Forms, Heard, OnlyUsersPermit
<1>2. CASE AskNext
  BY <1>2, AskerSteps, AnswerSteps, LookStep, RestartStep DEF AskNext
<1> QED BY <1>1, <1>2

\* A call is permitted, at once or from the cache, in this run of the server or a later
\* one, only as far as a user has said so: whatever answers, deadlines, aborts and
\* writes of the file race (Approvals).
THEOREM NoPermissionUnsaid == AskSpec => []OnlyUsersPermit
<1>1. AInv => OnlyUsersPermit
  BY DEF AInv
<1> QED BY Starts, AnswersInductive, <1>1, PTL DEF AskSpec

-----------------------------------------------------------------------------
(* The types of the approvals.                                               *)

Waypoints == {"idle", "found", "known", "unknown", "caching", "save", "write", "done"}

LEMMA LookTypes ==
  ASSUME AInv, AskTypeOK, NEW p \in Posts, NEW q \in Questions, NEW d \in Decisions,
         NEW s \in Scopes, Look(p, Answer(q, d, s))
  PROVE  AskTypeOK'
<1>1. Forms
  BY DEF AInv
<1>2. PICK pc, b, t :
        /\ post' = [post EXCEPT ![p] = [pc |-> pc, answer |-> b, text |-> t]]
        /\ (pc = "found" /\ b = Answer(q, d, s)) \/ pc = "done"
        /\ t = post[p].text \/ t = {}
  BY <1>1, LookUpdate
<1>3. \A o \in Posts : post'[o].pc \in {"found", "done"} \/ post'[o] = post[o]
  BY <1>1, <1>2, PostUpdate
<1> QED BY <1>3 DEF Look, AskTypeOK

LEMMA AskTypesStep ==
  ASSUME AInv, AskTypeOK, [AskNext]_askVars PROVE AskTypeOK'
<1> USE DEF AskTypeOK, AInv
<1>1. CASE UNCHANGED askVars
  BY <1>1 DEF askVars
<1>2. ASSUME NEW q \in Questions, request(q) PROVE AskTypeOK'
  BY <1>2 DEF request
<1>3. ASSUME NEW q \in Questions, AskerStep(q) PROVE AskTypeOK'
  BY <1>3 DEF AskerStep, Wake, GiveUp, remove, Conclude, Decisions
<1>4. ASSUME NEW q \in Questions, Cancel(q) PROVE AskTypeOK'
  BY <1>4, ApprovalsAssumption DEF Cancel
<1>5. ASSUME NEW p \in Posts, PostStep(p) PROVE AskTypeOK'
  <2>1. slot' \in [Questions -> Decisions \cup {"none"}]
    BY <1>5, AnswerSteps DEF Forms
  <2>2. post'[p].pc \in Waypoints /\ \A o \in Posts \ {p} : post'[o] = post[o]
    <3>1. CASE \E pc \in Waypoints : Step(p, pc)
      BY <3>1, StepUpdate
    <3>2. CASE post' = [post EXCEPT ![p] = [post[p] EXCEPT !.pc = "write", !.text = config]]
      <4>1. post[p] = [pc |-> post[p].pc, answer |-> post[p].answer, text |-> post[p].text]
        BY DEF Forms
      <4>2. post' = [post EXCEPT
              ![p] = [pc |-> "write", answer |-> post[p].answer, text |-> config]]
        BY <3>2, <4>1, NewText
      <4> QED BY <4>2, PostUpdate DEF Waypoints
    <3> QED
      BY <1>5, <3>1, <3>2 DEF PostStep, ReadMeta, resolve_with_meta, approve_session,
         approve_persistent, ReadConfig, WriteConfig, Waypoints
  <2>3. UNCHANGED <<asker, inner, meta, cancelled>>
    BY <1>5 DEF PostStep, ReadMeta, resolve_with_meta, approve_session, approve_persistent,
                ReadConfig, WriteConfig
  <2> QED BY <2>1, <2>2, <2>3 DEF Waypoints
<1>6. ASSUME NEW p \in Posts, NEW q \in Questions, NEW d \in Decisions, NEW s \in Scopes,
             Look(p, Answer(q, d, s))
      PROVE  AskTypeOK'
  BY <1>6, LookTypes
<1>7. CASE Restart
  BY <1>7 DEF Restart, Over
<1> QED BY <1>1, <1>2, <1>3, <1>4, <1>5, <1>6, <1>7 DEF AskNext

\* The types of the askers, of the answers on their way and of the tables of slots.
THEOREM AskTypeCorrect == AskSpec => []AskTypeOK
<1>1. AskInit => AskTypeOK
  BY DEF AskInit, AskTypeOK
<1> QED BY Starts, AnswersInductive, AskTypesStep, <1>1, PTL DEF AskSpec
=============================================================================
