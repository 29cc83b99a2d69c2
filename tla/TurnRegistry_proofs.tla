------------------------ MODULE TurnRegistry_proofs ------------------------
(* Proofs about TurnRegistry: its type invariant, that a registration never   *)
(* outlives the turn it was made for, and, of the client that has one prompt  *)
(* or compaction outstanding at a time, what the server's comments promise it. *)
EXTENDS TurnRegistry, FiniteSetTheorems, TLAPS

(***************************************************************************)
(* SlotHasLiveOwner is not inductive alone: the Drop of one thread could    *)
(* take away the id another slot relies on.  What rules that out is that    *)
(* ids are minted once, so no two threads share one and none is above the   *)
(* counter; and that only a thread that has registered has one.             *)
(***************************************************************************)
IdsMintedOnce ==
  /\ \A w \in Workers : worker[w].id < nextTurnId
  /\ \A v, w \in Workers :
       worker[v].id = worker[w].id /\ worker[v].id # NoTurn => v = w

Unregistered(w) == worker[w].pc \in {"none", "spawned"}
IdIffRegistered == \A w \in Workers : Unregistered(w) <=> worker[w].id = NoTurn

USE DEF NoTurn

IInv == TypeOK /\ IdleCountExact /\ IdsMintedOnce /\ IdIffRegistered
        /\ SlotHasLiveOwner

Counted == {w \in Workers : worker[w].pc \in CountedPcs}

-----------------------------------------------------------------------------
(* The steps, one name each: the case distinction every proof below makes.   *)

RequestStep ==
  \E r \in Requests :
    \/ \E s \in Sessions : PromptGate(r, s) \/ SteerGate(r, s) \/ CompactGate(r, s)
    \/ PromptAccept(r) \/ SteerQueue(r) \/ SteerAppend(r) \/ CompactAccept(r)

LEMMA NextCases ==
  ASSUME Next
  PROVE  \/ RequestStep
         \/ \E s \in Sessions : Abort(s)
         \/ \E w \in Workers : WorkerStep(w)
         \/ \E w \in Workers : Panic(w)
BY DEF Next, Route, RequestStep

\* A new session's thread record is well typed.
LEMMA NoWorkerType ==
  ASSUME NEW s \in Sessions
  PROVE  NoWorker(s) \in [pc : WorkerPcs, kind : Kinds, session : Sessions,
                          id : Nat, round : Nat, seen : Nat]
BY DEF NoWorker, WorkerPcs, Kinds

LEMMA AnySessionType == AnySession \in Sessions
BY ConstantsAssumption DEF AnySession

LEMMA AppendToType ==
  ASSUME TypeOK, NEW s \in Sessions, NEW e \in Entries, AppendTo(s, e)
  PROVE  log' \in [Sessions -> Seq(Entries)]
BY DEF TypeOK, AppendTo

-----------------------------------------------------------------------------
(* Type correctness.                                                         *)

LEMMA TypeInit == Init => TypeOK
<1> SUFFICES ASSUME Init PROVE TypeOK
  OBVIOUS
<1>1. worker \in [Workers -> [pc : WorkerPcs, kind : Kinds, session : Sessions,
                              id : Nat, round : Nat, seen : Nat]]
  BY NoWorkerType, AnySessionType DEF Init
<1>2. request \in [Requests -> [pc : {"new", "passed", "rejected", "done"},
                                op : Ops, session : Sessions, by : SUBSET Kinds]]
  BY AnySessionType DEF Init, NoRequest, Ops
<1> QED
  BY <1>1, <1>2 DEF Init, TypeOK, ClientStates

LEMMA TypeRequest == TypeOK /\ RequestStep => TypeOK'
<1> SUFFICES ASSUME TypeOK, NEW r \in Requests,
                    \/ \E s \in Sessions : PromptGate(r, s) \/ SteerGate(r, s)
                                           \/ CompactGate(r, s)
                    \/ PromptAccept(r) \/ SteerQueue(r) \/ SteerAppend(r)
                    \/ CompactAccept(r)
             PROVE  TypeOK'
  BY DEF RequestStep
<1> USE DEF TypeOK
<1>1. ASSUME NEW s \in Sessions, NEW op \in Ops, Reject(r, s, op)
      PROVE  request' \in [Requests -> [pc : {"new", "passed", "rejected", "done"},
                             op : Ops, session : Sessions, by : SUBSET Kinds]]
  <2>1. HolderKinds(s) \subseteq Kinds
    BY DEF HolderKinds
  <2> QED
    BY <1>1, <2>1 DEF Reject
<1>2. ASSUME NEW s \in Sessions, NEW op \in Ops, Pass(r, s, op)
      PROVE  request' \in [Requests -> [pc : {"new", "passed", "rejected", "done"},
                             op : Ops, session : Sessions, by : SUBSET Kinds]]
  BY <1>2 DEF Pass
<1>3. ASSUME Finish(r)
      PROVE  request' \in [Requests -> [pc : {"new", "passed", "rejected", "done"},
                             op : Ops, session : Sessions, by : SUBSET Kinds]]
  BY <1>3 DEF Finish
<1>4. ASSUME NEW s \in Sessions, NEW kind \in Kinds, NEW n \in Nat, Spawn(kind, s, n)
      PROVE  worker' \in [Workers -> [pc : WorkerPcs, kind : Kinds,
                            session : Sessions, id : Nat, round : Nat, seen : Nat]]
  <2>1. PICK w \in Workers :
          worker' = [worker EXCEPT ![w] = [NoWorker(s) EXCEPT
                       !.pc = "spawned", !.kind = kind, !.seen = n]]
    BY <1>4 DEF Spawn
  <2>2. [NoWorker(s) EXCEPT !.pc = "spawned", !.kind = kind, !.seen = n]
          \in [pc : WorkerPcs, kind : Kinds, session : Sessions, id : Nat,
              round : Nat, seen : Nat]
    BY DEF NoWorker, WorkerPcs, Kinds
  <2> QED
    BY <2>1, <2>2
<1>5. request[r].session \in Sessions
  OBVIOUS
<1>a. ASSUME NEW s \in Sessions, PromptGate(r, s) PROVE TypeOK'
  BY <1>a, <1>1, <1>2 DEF PromptGate, Ops, ClientStates
<1>b. ASSUME NEW s \in Sessions, SteerGate(r, s) PROVE TypeOK'
  <2>1. (IF is_turn_running(s) THEN "queue" ELSE "append") \in Ops
    BY DEF Ops
  <2> QED
    BY <1>b, <1>2, <2>1 DEF SteerGate
<1>c. ASSUME NEW s \in Sessions, CompactGate(r, s) PROVE TypeOK'
  BY <1>c, <1>1, <1>2 DEF CompactGate, Await, Ops, ClientStates
<1>d. CASE PromptAccept(r)
  <2>1. Entry("user", NoTurn, 0) \in Entries
    BY DEF Entry, Entries
  <2>2. log' \in [Sessions -> Seq(Entries)]
    BY <1>d, <1>5, <2>1, AppendToType DEF PromptAccept
  <2> QED
    BY <1>d, <1>3, <1>4, <1>5, <2>2 DEF PromptAccept, Kinds
<1>e. CASE SteerQueue(r)
  BY <1>e, <1>3, <1>5 DEF SteerQueue
<1>f. CASE SteerAppend(r)
  <2>1. Entry("steer", NoTurn, 0) \in Entries
    BY DEF Entry, Entries
  <2>2. log' \in [Sessions -> Seq(Entries)]
    BY <1>f, <1>5, <2>1, AppendToType DEF SteerAppend
  <2> QED
    BY <1>f, <1>3, <1>5, <2>2 DEF SteerAppend
<1>g. CASE CompactAccept(r)
  <2>1. Len(log[request[r].session]) \in Nat
    BY <1>5
  <2>2. client' \in [Sessions -> ClientStates]
    BY <1>g, <1>5 DEF CompactAccept, Resume, ClientStates
  <2>3. worker' \in [Workers -> [pc : WorkerPcs, kind : Kinds,
                       session : Sessions, id : Nat, round : Nat, seen : Nat]]
    BY <1>g, <1>4, <1>5, <2>1 DEF CompactAccept, Kinds
  <2> QED
    BY <1>g, <1>3, <2>2, <2>3 DEF CompactAccept
<1> QED
  BY <1>a, <1>b, <1>c, <1>d, <1>e, <1>f, <1>g

\* A thread record with some of its fields replaced by values of their types.
Threads == [pc : WorkerPcs, kind : Kinds, session : Sessions,
            id : Nat, round : Nat, seen : Nat]

LEMMA ThreadFields ==
  ASSUME NEW r \in Threads, NEW pc \in WorkerPcs, NEW id \in Nat, NEW round \in Nat,
         NEW seen \in Nat
  PROVE  /\ [r EXCEPT !.pc = pc] \in Threads
         /\ [r EXCEPT !.pc = pc, !.id = id] \in Threads
         /\ [r EXCEPT !.pc = pc, !.round = round] \in Threads
         /\ [r EXCEPT !.pc = pc, !.seen = seen] \in Threads
         /\ [r EXCEPT !.seen = seen, !.pc = pc] \in Threads
         /\ [r EXCEPT !.seen = seen] \in Threads
BY DEF Threads

LEMMA ThreadUpdate ==
  ASSUME worker \in [Workers -> Threads], NEW w \in Workers, NEW r \in Threads,
         worker' = [worker EXCEPT ![w] = r]
  PROVE  worker' \in [Workers -> Threads]
OBVIOUS

LEMMA TypeWorker ==
  ASSUME TypeOK, IdleCountExact, NEW w \in Workers, WorkerStep(w) \/ Panic(w)
  PROVE  TypeOK'
<1> USE DEF TypeOK
<1>1. worker[w].session \in Sessions
  OBVIOUS
<1>w. worker \in [Workers -> Threads] /\ worker[w] \in Threads
  BY DEF Threads
<1>2. ASSUME NEW pc \in WorkerPcs, Goto(w, pc)
      PROVE  worker' \in [Workers -> [pc : WorkerPcs, kind : Kinds, session : Sessions,
                                     id : Nat, round : Nat, seen : Nat]]
  <2> HIDE DEF TypeOK
  <2>1. worker' = [worker EXCEPT ![w] = [worker[w] EXCEPT !.pc = pc]]
    BY <1>2 DEF Goto
  <2>2. worker' \in [Workers -> Threads]
    BY <1>w, <2>1, ThreadFields, ThreadUpdate
  <2> QED
    BY <2>2 DEF Threads
<1>3. ASSUME NEW id \in Nat, release_turn(worker[w].session, id)
      PROVE  aborts' \in [Sessions -> Nat]
  BY <1>1, <1>3 DEF release_turn
<1>4. ASSUME NEW e \in Entries, AppendTo(worker[w].session, e)
      PROVE  log' \in [Sessions -> Seq(Entries)]
  BY <1>1, <1>4, AppendToType
<1>a. CASE Claim(w)
  <2>1. worker' = [worker EXCEPT ![w] = [worker[w] EXCEPT
                     !.pc = "claimed", !.id = nextTurnId]]
    BY <1>a DEF Claim
  <2>2. "claimed" \in WorkerPcs
    BY DEF WorkerPcs
  <2>3. worker' \in [Workers -> Threads] /\ nextTurnId' \in Nat \ {0}
    <3>1. nextTurnId \in Nat \ {0} /\ nextTurnId' = nextTurnId + 1
      BY <1>a DEF Claim
    <3> HIDE DEF TypeOK
    <3>2. [worker[w] EXCEPT !.pc = "claimed", !.id = nextTurnId] \in Threads
      BY <1>w, <2>2, <3>1, ThreadFields
    <3> QED
      BY <1>w, <2>1, <3>1, <3>2, ThreadUpdate
  <2> QED
    BY <1>a, <1>1, <2>3 DEF Claim, Threads
<1>b. CASE Count(w)
  BY <1>b, <1>2 DEF Count, WorkerPcs, CountedPcs, LoopPcs, TailPcs
<1>c. CASE Compose(w)
  BY <1>c, <1>2 DEF Compose, WorkerPcs, CountedPcs, LoopPcs, TailPcs
<1>d. CASE StartRound(w)
  <2>1. worker' = [worker EXCEPT ![w] = [worker[w] EXCEPT
                     !.pc = "streaming", !.round = worker[w].round + 1]]
    BY <1>d DEF StartRound
  <2>2. "streaming" \in WorkerPcs
    BY DEF WorkerPcs, CountedPcs, LoopPcs
  <2>3. worker[w].round + 1 \in Nat
    OBVIOUS
  <2>4. worker' \in [Workers -> Threads]
    <3> HIDE DEF TypeOK
    <3>1. [worker[w] EXCEPT !.pc = "streaming", !.round = worker[w].round + 1] \in Threads
      BY <1>w, <2>2, <2>3, ThreadFields
    <3> QED
      BY <1>w, <2>1, <3>1, ThreadUpdate
  <2> QED
    BY <1>d, <1>1, <2>4 DEF StartRound, ClientStates, Threads
<1>e. CASE StreamEnds(w)
  BY <1>e, <1>2 DEF StreamEnds, WorkerPcs, CountedPcs, LoopPcs, TailPcs
<1>f. CASE AppendCalls(w)
  <2>1. Entry("call", worker[w].id, worker[w].round) \in Entries
    BY DEF Entry, Entries
  <2>2. log' \in [Sessions -> Seq(Entries)]
    BY <1>f, <1>4, <2>1 DEF AppendCalls
  <2> QED
    BY <1>f, <1>2, <2>2 DEF AppendCalls, WorkerPcs, CountedPcs, LoopPcs, TailPcs
<1>g. CASE AppendResults(w)
  <2>1. Entry("result", worker[w].id, worker[w].round) \in Entries
    BY DEF Entry, Entries
  <2>2. log' \in [Sessions -> Seq(Entries)]
    BY <1>g, <1>4, <2>1 DEF AppendResults
  <2> QED
    BY <1>g, <1>2, <2>2 DEF AppendResults, WorkerPcs, CountedPcs, LoopPcs, TailPcs
<1>h. CASE AppendAnswer(w)
  <2>1. Entry("answer", worker[w].id, worker[w].round) \in Entries
    BY DEF Entry, Entries
  <2>2. log' \in [Sessions -> Seq(Entries)]
    BY <1>h, <1>4, <2>1 DEF AppendAnswer
  <2> QED
    BY <1>h, <1>2, <2>2 DEF AppendAnswer, WorkerPcs, CountedPcs, LoopPcs, TailPcs
<1>i. CASE AppendFollowup(w)
  <2>1. Entry("user", worker[w].id, worker[w].round) \in Entries
    BY DEF Entry, Entries
  <2>2. log' \in [Sessions -> Seq(Entries)]
    BY <1>i, <1>4, <2>1 DEF AppendFollowup
  <2> QED
    BY <1>i, <1>2, <2>2 DEF AppendFollowup, WorkerPcs, CountedPcs, LoopPcs, TailPcs
<1>j. CASE DrainSteering(w)
  <2>1. CASE worker[w].id \in cancelled
    BY <1>j, <1>1, <1>2, <2>1 DEF DrainSteering, WorkerPcs, CountedPcs, LoopPcs, TailPcs
  <2>2. CASE worker[w].id \notin cancelled
    <3>1. worker' = [worker EXCEPT ![w] = [worker[w] EXCEPT
                       !.pc = "injecting",
                       !.seen = pendingSteering[worker[w].session]]]
      BY <1>j, <2>2 DEF DrainSteering
    <3>2. "injecting" \in WorkerPcs
      BY DEF WorkerPcs, CountedPcs, LoopPcs
    <3>3. worker' \in [Workers -> Threads]
      <4>1. pendingSteering[worker[w].session] \in Nat
        BY <1>1
      <4> HIDE DEF TypeOK
      <4>2. [worker[w] EXCEPT !.pc = "injecting",
                              !.seen = pendingSteering[worker[w].session]] \in Threads
        BY <1>w, <3>2, <4>1, ThreadFields
      <4> QED
        BY <1>w, <3>1, <4>2, ThreadUpdate
    <3>4. pendingSteering' \in [Sessions -> Nat]
      BY <1>j, <1>1, <2>2 DEF DrainSteering
    <3>5. UNCHANGED <<aborts, nextTurnId, cancelled, runningTurns, request, log,
                      client>>
      BY <1>j DEF DrainSteering
    <3> QED
      BY <3>3, <3>4, <3>5 DEF Threads
  <2> QED
    BY <2>1, <2>2
<1>k. CASE InjectSteering(w)
  <2>1. Entry("steer", worker[w].id, 1) \in Entries
    BY DEF Entry, Entries
  <2>2. log' \in [Sessions -> Seq(Entries)]
    BY <1>k, <1>4, <2>1 DEF InjectSteering
  <2>3. worker' \in [Workers -> Threads]
    <3>1. CASE worker[w].seen = 0
      BY <1>k, <1>2, <3>1 DEF Threads, InjectSteering, WorkerPcs, CountedPcs, LoopPcs, TailPcs
    <3>2. CASE worker[w].seen # 0
      <4>1. worker' = [worker EXCEPT ![w] = [worker[w] EXCEPT
                         !.seen = worker[w].seen - 1]]
        BY <1>k, <3>2 DEF InjectSteering
      <4>2. worker[w].seen - 1 \in Nat
        BY <3>2
      <4> HIDE DEF TypeOK
      <4>3. [worker[w] EXCEPT !.seen = worker[w].seen - 1] \in Threads
        <5>1. "injecting" \in WorkerPcs
          BY DEF WorkerPcs, CountedPcs, LoopPcs
        <5> QED
          BY <1>w, <4>2, <5>1, ThreadFields
      <4> QED
        BY <1>w, <4>1, <4>3, ThreadUpdate
    <3> QED
      BY <3>1, <3>2
  <2> QED
    BY <1>k, <2>2, <2>3 DEF InjectSteering, Threads
<1>l. CASE PublishStatus(w)
  BY <1>l, <1>1, <1>2 DEF PublishStatus, ClientStates, WorkerPcs, CountedPcs, LoopPcs, TailPcs
<1>m. CASE FinishLook(w)
  <2> DEFINE id == aborts[worker[w].session]
             pc == IF id = NoTurn THEN "ending" ELSE "releasing"
  <2>1. worker' = [worker EXCEPT ![w] = [worker[w] EXCEPT !.seen = id, !.pc = pc]]
    <3> HIDE DEF TypeOK
    <3> QED
      BY <1>m DEF FinishLook
  <2>2. pc \in WorkerPcs /\ id \in Nat
    BY <1>1 DEF WorkerPcs, CountedPcs, TailPcs
  <2>3. worker' \in [Workers -> Threads]
    <3> HIDE DEF TypeOK, id, pc
    <3>1. [worker[w] EXCEPT !.seen = id, !.pc = pc] \in Threads
      BY <1>w, <2>2, ThreadFields
    <3> QED
      BY <1>w, <2>1, <3>1, ThreadUpdate
  <2>4. UNCHANGED <<aborts, nextTurnId, cancelled, runningTurns, request, pendingSteering,
                    log, client>>
    BY <1>m DEF FinishLook
  <2> QED
    BY <2>3, <2>4 DEF Threads
<1>n. CASE FinishRelease(w)
  BY <1>n, <1>2, <1>3 DEF FinishRelease, WorkerPcs, CountedPcs, LoopPcs, TailPcs
<1>o. CASE PublishEnded(w)
  BY <1>o, <1>1, <1>2 DEF PublishEnded, ClientStates, WorkerPcs, CountedPcs, LoopPcs, TailPcs
<1>p. CASE Autotitle(w)
  BY <1>p, <1>2 DEF Autotitle, WorkerPcs, CountedPcs, LoopPcs, TailPcs
<1>q. CASE CompactDone(w)
  <2>1. Entry("compacted", worker[w].id, worker[w].seen) \in Entries
    BY DEF Entry, Entries
  <2>2. log' \in [Sessions -> Seq(Entries)]
    BY <1>q, <1>4, <2>1 DEF CompactDone
  <2>3. client' \in [Sessions -> ClientStates]
    BY <1>q, <1>1 DEF CompactDone, Resume, ClientStates
  <2> QED
    BY <1>q, <1>2, <2>2, <2>3 DEF CompactDone, WorkerPcs, CountedPcs, LoopPcs, TailPcs
<1>r. CASE CompactFails(w)
  BY <1>r, <1>1, <1>2 DEF CompactFails, Resume, ClientStates, WorkerPcs, CountedPcs, LoopPcs, TailPcs
<1>s. CASE DropRelease(w)
  BY <1>s, <1>2, <1>3 DEF DropRelease, WorkerPcs, CountedPcs, LoopPcs, TailPcs
<1>t. CASE DropCount(w)
  <2>1. Counted # {}
    BY <1>t DEF DropCount, Counted, CountedPcs
  <2>2. IsFiniteSet(Counted)
    BY ConstantsAssumption, FS_Subset DEF Counted
  <2>3. runningTurns # 0
    BY <2>1, <2>2, FS_EmptySet DEF IdleCountExact, Counted
  <2>4. worker' \in [Workers -> [pc : WorkerPcs, kind : Kinds, session : Sessions,
                               id : Nat, round : Nat, seen : Nat]]
    BY <1>t, <1>2 DEF DropCount, WorkerPcs
  <2>5. runningTurns' \in Nat
    BY <1>t, <2>3 DEF DropCount
  <2>6. UNCHANGED <<aborts, nextTurnId, cancelled, request, pendingSteering, log, client>>
    BY <1>t DEF DropCount
  <2> QED
    BY <2>4, <2>5, <2>6
<1>u. CASE Panic(w)
  BY <1>u, <1>2 DEF Panic, WorkerPcs, CountedPcs, LoopPcs, TailPcs
<1> QED
  BY <1>a, <1>b, <1>c, <1>d, <1>e, <1>f, <1>g, <1>h, <1>i, <1>j, <1>k, <1>l, <1>m,
     <1>n, <1>o, <1>p, <1>q, <1>r, <1>s, <1>t, <1>u DEF WorkerStep, LoopStep, EndStep

-----------------------------------------------------------------------------
(* What a step does to the registration.  All but four actions of a thread   *)
(* are quiet: the thread keeps its id and stays between Count and the Drop,   *)
(* and no slot is filled.                                                    *)

Active == CountedPcs \ {"uncounting"}

Quiet(w) ==
  /\ \A v \in Workers \ {w} : worker'[v] = worker[v]
  /\ worker'[w].id = worker[w].id /\ worker'[w].session = worker[w].session
  /\ worker[w].pc \in Active /\ worker'[w].pc \in Active
  /\ UNCHANGED <<nextTurnId, runningTurns>>
  /\ \A s \in Sessions : aborts'[s] \in {aborts[s], NoTurn}

LEMMA QuietSteps ==
  ASSUME TypeOK, NEW w \in Workers, WorkerStep(w) \/ Panic(w)
  PROVE  Quiet(w) \/ Claim(w) \/ Count(w) \/ DropRelease(w) \/ DropCount(w)
<1> USE DEF TypeOK, Quiet
<1>a. CASE Compose(w)
  BY <1>a DEF Compose, Goto, Active, CountedPcs, LoopPcs, TailPcs
<1>b. CASE StartRound(w)
  BY <1>b DEF StartRound, Goto, Active, CountedPcs, LoopPcs, TailPcs
<1>c. CASE StreamEnds(w)
  BY <1>c DEF StreamEnds, Goto, Active, CountedPcs, LoopPcs, TailPcs
<1>d. CASE AppendCalls(w)
  BY <1>d DEF AppendCalls, Goto, Active, CountedPcs, LoopPcs, TailPcs
<1>e. CASE AppendResults(w)
  BY <1>e DEF AppendResults, Goto, Active, CountedPcs, LoopPcs, TailPcs
<1>f. CASE DrainSteering(w)
  BY <1>f DEF DrainSteering, Goto, Active, CountedPcs, LoopPcs, TailPcs
<1>g. CASE InjectSteering(w)
  BY <1>g DEF InjectSteering, Goto, Active, CountedPcs, LoopPcs, TailPcs
<1>h. CASE AppendAnswer(w)
  BY <1>h DEF AppendAnswer, Goto, Active, CountedPcs, LoopPcs, TailPcs
<1>i. CASE AppendFollowup(w)
  BY <1>i DEF AppendFollowup, Goto, Active, CountedPcs, LoopPcs, TailPcs
<1>j. CASE PublishStatus(w)
  BY <1>j DEF PublishStatus, Goto, Active, CountedPcs, LoopPcs, TailPcs
<1>k. CASE FinishLook(w)
  BY <1>k DEF FinishLook, Goto, Active, CountedPcs, LoopPcs, TailPcs
<1>l. CASE FinishRelease(w)
  BY <1>l DEF FinishRelease, Goto, Active, CountedPcs, LoopPcs, TailPcs, release_turn
<1>m. CASE PublishEnded(w)
  BY <1>m DEF PublishEnded, Goto, Active, CountedPcs, LoopPcs, TailPcs
<1>n. CASE Autotitle(w)
  BY <1>n DEF Autotitle, Goto, Active, CountedPcs, LoopPcs, TailPcs
<1>o. CASE CompactDone(w)
  BY <1>o DEF CompactDone, Goto, Active, CountedPcs, LoopPcs, TailPcs
<1>p. CASE CompactFails(w)
  BY <1>p DEF CompactFails, Goto, Active, CountedPcs, LoopPcs, TailPcs
<1>q. CASE Panic(w)
  BY <1>q DEF Panic, Goto, Active, CountedPcs, LoopPcs, TailPcs
<1> QED
  BY <1>a, <1>b, <1>c, <1>d, <1>e, <1>f, <1>g, <1>h, <1>i, <1>j, <1>k, <1>l, <1>m, <1>n, <1>o, <1>p, <1>q
     DEF WorkerStep, LoopStep, EndStep

\* A request registers nothing: at most it spawns a thread.
LEMMA RequestSteps ==
  ASSUME TypeOK, RequestStep
  PROVE  /\ UNCHANGED <<aborts, nextTurnId, runningTurns>>
         /\ \/ UNCHANGED worker
            \/ \E w \in Workers :
                 /\ worker[w].pc = "none" /\ worker'[w].pc = "spawned"
                 /\ worker'[w].id = NoTurn
                 /\ \A v \in Workers \ {w} : worker'[v] = worker[v]
<1> PICK r \in Requests :
      \/ \E s \in Sessions : PromptGate(r, s) \/ SteerGate(r, s) \/ CompactGate(r, s)
      \/ PromptAccept(r) \/ SteerQueue(r) \/ SteerAppend(r) \/ CompactAccept(r)
  BY DEF RequestStep
<1>1. ASSUME NEW kind, NEW s, NEW n, Spawn(kind, s, n)
      PROVE  \E w \in Workers :
               /\ worker[w].pc = "none" /\ worker'[w].pc = "spawned"
               /\ worker'[w].id = NoTurn
               /\ \A v \in Workers \ {w} : worker'[v] = worker[v]
  BY <1>1 DEF Spawn, NoWorker, TypeOK
<1>2. CASE \E s \in Sessions : PromptGate(r, s) \/ SteerGate(r, s) \/ CompactGate(r, s)
  BY <1>2 DEF PromptGate, SteerGate, CompactGate
<1>3. CASE PromptAccept(r)
  BY <1>1, <1>3 DEF PromptAccept
<1>4. CASE SteerQueue(r) \/ SteerAppend(r)
  BY <1>4 DEF SteerQueue, SteerAppend
<1>5. CASE CompactAccept(r)
  BY <1>1, <1>5 DEF CompactAccept
<1> QED
  BY <1>2, <1>3, <1>4, <1>5

-----------------------------------------------------------------------------
(* The step cases of the invariant, over the effects above.                  *)

Bookkeeping == IdsMintedOnce /\ IdIffRegistered /\ SlotHasLiveOwner

LEMMA BookkeepingRequest == TypeOK /\ Bookkeeping /\ RequestStep => Bookkeeping'
<1> SUFFICES ASSUME TypeOK, Bookkeeping, RequestStep PROVE Bookkeeping'
  OBVIOUS
<1> USE DEF TypeOK, Bookkeeping
<1>1. UNCHANGED <<aborts, nextTurnId>>
  BY RequestSteps
<1>2. \A v \in Workers : worker'[v].id = worker[v].id
  BY RequestSteps DEF IdIffRegistered, Unregistered
<1>3. \A v \in Workers : \/ worker'[v] = worker[v]
                         \/ Unregistered(v) /\ Unregistered(v)'
  BY RequestSteps DEF Unregistered
<1>4. IdsMintedOnce'
  BY <1>1, <1>2 DEF IdsMintedOnce
<1>5. IdIffRegistered'
  BY <1>2, <1>3 DEF IdIffRegistered, Unregistered
<1>6. ASSUME NEW v \in Workers, NEW s \in Sessions, Owns(v, s) PROVE Owns(v, s)'
  <2>1. ~Unregistered(v)
    BY <1>6 DEF Owns, HoldsSlot, Unregistered, CountedPcs, LoopPcs, TailPcs
  <2> QED
    BY <1>1, <1>3, <1>6, <2>1 DEF Owns, HoldsSlot
<1> QED
  BY <1>1, <1>4, <1>5, <1>6 DEF SlotHasLiveOwner, is_turn_running

\* One thread changes; it has an id as soon as it has registered.
LEMMA IdIffKept ==
  ASSUME IdIffRegistered, NEW w \in Workers,
         \A v \in Workers \ {w} : worker'[v] = worker[v],
         worker'[w].pc \notin {"none", "spawned"},
         worker'[w].id # NoTurn
  PROVE  IdIffRegistered'
BY DEF IdIffRegistered, Unregistered

LEMMA BookkeepingWorker ==
  ASSUME TypeOK, TypeOK', Bookkeeping, NEW w \in Workers, WorkerStep(w) \/ Panic(w)
  PROVE  Bookkeeping'
<1> USE DEF TypeOK, Bookkeeping
<1>1. CASE Quiet(w)
  <2>1. IdsMintedOnce'
    <3>1. nextTurnId' = nextTurnId /\ \A v \in Workers : worker'[v].id = worker[v].id
      BY <1>1 DEF Quiet
    <3> QED
      BY <3>1 DEF IdsMintedOnce
  <2>2. IdIffRegistered'
    <3>1. /\ \A v \in Workers \ {w} : worker'[v] = worker[v]
          /\ worker'[w].id = worker[w].id
          /\ worker[w].pc \in Active /\ worker'[w].pc \in Active
      BY <1>1 DEF Quiet
    <3>2. worker[w].pc \notin {"none", "spawned"} /\ worker'[w].pc \notin {"none", "spawned"}
      BY <3>1 DEF Active, CountedPcs, LoopPcs, TailPcs
    <3> HIDE DEF TypeOK
    <3>3. worker[w].id # NoTurn
      BY <3>2 DEF IdIffRegistered, Unregistered
    <3> QED
      BY <3>1, <3>2, <3>3, IdIffKept
  <2>3. ASSUME NEW s \in Sessions, is_turn_running(s)' PROVE \E v \in Workers : Owns(v, s)'
    <3>1. aborts'[s] = aborts[s] /\ is_turn_running(s)
      BY <1>1, <2>3 DEF Quiet, is_turn_running
    <3>2. PICK v \in Workers : Owns(v, s)
      BY <3>1 DEF SlotHasLiveOwner
    <3>3. Owns(v, s)'
      BY <1>1, <3>1, <3>2 DEF Quiet, Owns, HoldsSlot, Active
    <3> QED
      BY <3>3
  <2> QED
    BY <2>1, <2>2, <2>3 DEF SlotHasLiveOwner
<1>2. CASE Claim(w)
  <2>1. /\ worker'[w].id = nextTurnId /\ worker'[w].pc = "claimed"
        /\ worker'[w].session = worker[w].session
        /\ \A v \in Workers \ {w} : worker'[v] = worker[v]
        /\ nextTurnId' = nextTurnId + 1
    BY <1>2 DEF Claim
  <2>2. IdsMintedOnce'
    <3>1. \A v \in Workers : worker[v].id \in Nat /\ worker[v].id < nextTurnId
      BY DEF IdsMintedOnce
    <3>3. ASSUME NEW v \in Workers PROVE worker'[v].id < nextTurnId'
      <4>1. nextTurnId \in Nat /\ nextTurnId' = nextTurnId + 1
        BY <2>1
      <4>2. CASE v = w
        BY <2>1, <4>1, <4>2
      <4>3. CASE v # w
        <5>1. worker'[v].id = worker[v].id
          BY <2>1, <4>3
        <5>2. worker[v].id \in Nat /\ worker[v].id < nextTurnId
          BY <3>1
        <5> QED
          <6> HIDE DEF TypeOK, Bookkeeping
          <6> QED
            BY <4>1, <5>1, <5>2
      <4> QED
        BY <4>2, <4>3
    <3>4. ASSUME NEW u \in Workers, NEW v \in Workers,
                 worker'[u].id = worker'[v].id, worker'[u].id # NoTurn
          PROVE  u = v
      <4>1. CASE u = w \/ v = w
        <5>1. \A x \in Workers : worker[x].id # nextTurnId
          <6> HIDE DEF TypeOK, Bookkeeping
          <6> QED
            BY <3>1
        <5> QED
          BY <2>1, <3>4, <4>1, <5>1
      <4>2. CASE u # w /\ v # w
        BY <2>1, <3>4, <4>2 DEF IdsMintedOnce
      <4> QED
        BY <4>1, <4>2
    <3> QED
      BY <3>3, <3>4 DEF IdsMintedOnce
  <2>3. IdIffRegistered'
    <3>1. worker'[w].pc \notin {"none", "spawned"}
      BY <2>1
    <3>2. worker'[w].id # NoTurn
      BY <2>1
    <3> HIDE DEF TypeOK
    <3> QED
      BY <2>1, <3>1, <3>2, IdIffKept
  <2>4. ASSUME NEW s \in Sessions, is_turn_running(s)' PROVE \E v \in Workers : Owns(v, s)'
    <3>1. CASE s = worker[w].session
      BY <1>2, <2>1, <3>1 DEF Claim, Owns, HoldsSlot
    <3>2. CASE s # worker[w].session
      <4>1. aborts'[s] = aborts[s]
        BY <1>2, <3>2 DEF Claim
      <4>2. PICK v \in Workers : Owns(v, s)
        BY <2>4, <4>1 DEF SlotHasLiveOwner, is_turn_running
      <4>3. v # w
        BY <3>2, <4>2 DEF Owns
      <4> QED
        BY <2>1, <4>1, <4>2, <4>3 DEF Owns, HoldsSlot
    <3> QED
      BY <3>1, <3>2
  <2> QED
    BY <2>2, <2>3, <2>4 DEF SlotHasLiveOwner
<1>3. CASE Count(w)
  <2>1. /\ worker'[w].id = worker[w].id /\ worker'[w].session = worker[w].session
        /\ worker[w].pc = "claimed" /\ worker'[w].pc \in {"composing", "compacting"}
        /\ \A v \in Workers \ {w} : worker'[v] = worker[v]
        /\ UNCHANGED <<aborts, nextTurnId>>
    BY <1>3 DEF Count, Goto
  <2>2. IdsMintedOnce'
    <3>1. nextTurnId' = nextTurnId /\ \A v \in Workers : worker'[v].id = worker[v].id
      BY <2>1
    <3> QED
      BY <3>1 DEF IdsMintedOnce
  <2>3. IdIffRegistered'
    <3>1. worker'[w].pc \notin {"none", "spawned"}
      BY <2>1
    <3>2. worker'[w].id # NoTurn
      BY <2>1 DEF IdIffRegistered, Unregistered
    <3> HIDE DEF TypeOK
    <3> QED
      BY <2>1, <3>1, <3>2, IdIffKept
  <2>4. ASSUME NEW v \in Workers, NEW s \in Sessions, Owns(v, s) PROVE Owns(v, s)'
    BY <2>1, <2>4 DEF Owns, HoldsSlot, CountedPcs
  <2> QED
    BY <2>1, <2>2, <2>3, <2>4 DEF SlotHasLiveOwner, is_turn_running
<1>4. CASE DropRelease(w)
  <2>1. /\ worker'[w].id = worker[w].id /\ worker'[w].pc = "uncounting"
        /\ worker[w].pc = "dropping"
        /\ \A v \in Workers \ {w} : worker'[v] = worker[v]
        /\ nextTurnId' = nextTurnId
    BY <1>4 DEF DropRelease, Goto
  <2>2. IdsMintedOnce'
    <3>1. nextTurnId' = nextTurnId /\ \A v \in Workers : worker'[v].id = worker[v].id
      BY <2>1
    <3> QED
      BY <3>1 DEF IdsMintedOnce
  <2>3. IdIffRegistered'
    <3>1. worker'[w].pc \notin {"none", "spawned"}
      BY <2>1
    <3>2. worker'[w].id # NoTurn
      BY <2>1 DEF IdIffRegistered, Unregistered
    <3> HIDE DEF TypeOK
    <3> QED
      BY <2>1, <3>1, <3>2, IdIffKept
  <2>4. ASSUME NEW s \in Sessions, is_turn_running(s)' PROVE \E v \in Workers : Owns(v, s)'
    <3>1. aborts'[s] = aborts[s] /\ is_turn_running(s)
      BY <1>4, <2>4 DEF DropRelease, release_turn, is_turn_running
    <3>2. PICK v \in Workers : Owns(v, s)
      BY <3>1 DEF SlotHasLiveOwner
    <3>3. v # w
      BY <1>4, <2>4, <3>1, <3>2 DEF DropRelease, release_turn, is_turn_running, Owns
    <3> QED
      BY <2>1, <3>1, <3>2, <3>3 DEF Owns, HoldsSlot
  <2> QED
    BY <2>2, <2>3, <2>4 DEF SlotHasLiveOwner
<1>5. CASE DropCount(w)
  <2>1. /\ worker'[w].id = worker[w].id /\ worker'[w].pc = "done"
        /\ worker[w].pc = "uncounting"
        /\ \A v \in Workers \ {w} : worker'[v] = worker[v]
        /\ UNCHANGED <<aborts, nextTurnId>>
    BY <1>5 DEF DropCount, Goto
  <2>2. IdsMintedOnce'
    <3>1. nextTurnId' = nextTurnId /\ \A v \in Workers : worker'[v].id = worker[v].id
      BY <2>1
    <3> QED
      BY <3>1 DEF IdsMintedOnce
  <2>3. IdIffRegistered'
    <3>1. worker'[w].pc \notin {"none", "spawned"}
      BY <2>1
    <3>2. worker'[w].id # NoTurn
      BY <2>1 DEF IdIffRegistered, Unregistered
    <3> HIDE DEF TypeOK
    <3> QED
      BY <2>1, <3>1, <3>2, IdIffKept
  <2>4. ASSUME NEW v \in Workers, NEW s \in Sessions, Owns(v, s) PROVE Owns(v, s)'
    BY <2>1, <2>4 DEF Owns, HoldsSlot
  <2> QED
    BY <2>1, <2>2, <2>3, <2>4 DEF SlotHasLiveOwner, is_turn_running
<1> QED
  BY <1>1, <1>2, <1>3, <1>4, <1>5, QuietSteps

-----------------------------------------------------------------------------
(* The idle count.                                                           *)

LEMMA CountedFinite == IsFiniteSet(Counted)
BY ConstantsAssumption, FS_Subset DEF Counted

LEMMA CountRequest == TypeOK /\ IdleCountExact /\ RequestStep => IdleCountExact'
<1> SUFFICES ASSUME TypeOK, IdleCountExact, RequestStep PROVE IdleCountExact'
  OBVIOUS
<1>1. Counted' = Counted
  BY RequestSteps DEF Counted, CountedPcs, LoopPcs, TailPcs
<1> QED
  BY <1>1, RequestSteps DEF IdleCountExact, Counted

LEMMA CountWorker ==
  ASSUME TypeOK, IdleCountExact, NEW w \in Workers, WorkerStep(w) \/ Panic(w)
  PROVE  IdleCountExact'
<1> USE DEF TypeOK, IdleCountExact
<1>1. CASE Quiet(w)
  <2>1. Counted' = Counted
    BY <1>1 DEF Quiet, Counted, Active
  <2> QED
    BY <1>1, <2>1 DEF Quiet, Counted
<1>2. CASE Claim(w) \/ DropRelease(w)
  <2>1. \A v \in Workers : worker'[v].pc \in CountedPcs <=> worker[v].pc \in CountedPcs
    <3>1. ASSUME Claim(w)
          PROVE  worker[w].pc = "spawned" /\ worker'[w].pc = "claimed"
                 /\ \A v \in Workers \ {w} : worker'[v] = worker[v]
      BY <3>1 DEF Claim
    <3>2. ASSUME DropRelease(w)
          PROVE  worker[w].pc = "dropping" /\ worker'[w].pc = "uncounting"
                 /\ \A v \in Workers \ {w} : worker'[v] = worker[v]
      BY <3>2 DEF DropRelease, Goto
    <3> QED
      BY <1>2, <3>1, <3>2 DEF CountedPcs, LoopPcs, TailPcs
  <2>2. Counted' = Counted
    BY <2>1 DEF Counted
  <2>3. runningTurns' = runningTurns
    BY <1>2 DEF Claim, DropRelease
  <2> QED
    BY <2>2, <2>3 DEF Counted
<1>3. CASE Count(w)
  <2>1. Counted' = Counted \cup {w} /\ w \notin Counted
    BY <1>3 DEF Count, Goto, Counted, CountedPcs, LoopPcs, TailPcs
  <2>2. Cardinality(Counted') = Cardinality(Counted) + 1
    BY <2>1, CountedFinite, FS_AddElement
  <2> QED
    BY <1>3, <2>2 DEF Count, Counted
<1>4. CASE DropCount(w)
  <2>1. Counted' = Counted \ {w} /\ w \in Counted
    BY <1>4 DEF DropCount, Goto, Counted, CountedPcs, LoopPcs, TailPcs
  <2>2. Cardinality(Counted') = Cardinality(Counted) - 1
    BY <2>1, CountedFinite, FS_RemoveElement
  <2> QED
    BY <1>4, <2>2 DEF DropCount, Counted
<1> QED
  BY <1>1, <1>2, <1>3, <1>4, QuietSteps

-----------------------------------------------------------------------------
(* The inductive invariant.                                                  *)

LEMMA IInvInit == Init => IInv
<1> SUFFICES ASSUME Init PROVE IInv
  OBVIOUS
<1>1. \A w \in Workers : worker[w].pc = "none" /\ worker[w].id = NoTurn
  BY DEF Init, NoWorker
<1>2. Counted = {}
  BY <1>1 DEF Counted, CountedPcs, LoopPcs, TailPcs
<1>3. IdleCountExact
  BY <1>2, FS_EmptySet DEF IdleCountExact, Counted, Init
<1> QED
  BY <1>1, <1>3, TypeInit
     DEF Init, IInv, IdsMintedOnce, IdIffRegistered, Unregistered, SlotHasLiveOwner,
         is_turn_running

LEMMA IInvStep == IInv /\ [Next]_vars => IInv'
<1> SUFFICES ASSUME IInv, [Next]_vars PROVE IInv'
  OBVIOUS
<1> USE DEF IInv, Bookkeeping
<1>1. CASE RequestStep
  BY <1>1, TypeRequest, BookkeepingRequest, CountRequest
<1>2. ASSUME NEW s \in Sessions, Abort(s) PROVE IInv'
  <2>1. UNCHANGED <<aborts, nextTurnId, runningTurns, worker>>
    BY <1>2 DEF Abort
  <2>2. TypeOK'
    BY <1>2 DEF Abort, TypeOK
  <2> QED
    BY <2>1, <2>2
       DEF IdsMintedOnce, IdIffRegistered, Unregistered, SlotHasLiveOwner, Owns,
           HoldsSlot, is_turn_running, IdleCountExact
<1>3. ASSUME NEW w \in Workers, WorkerStep(w) \/ Panic(w) PROVE IInv'
  BY <1>3, TypeWorker, BookkeepingWorker, CountWorker
<1>4. CASE UNCHANGED vars
  BY <1>4 DEF vars, TypeOK, IdsMintedOnce, IdIffRegistered, Unregistered,
              SlotHasLiveOwner, Owns, HoldsSlot, is_turn_running, IdleCountExact
<1> QED
  BY <1>1, <1>2, <1>3, <1>4, NextCases

-----------------------------------------------------------------------------
\* Every variable keeps its type.
THEOREM TypeCorrect == Spec => []TypeOK
<1>1. IInv => TypeOK
  BY DEF IInv
<1> QED
  BY <1>1, IInvInit, IInvStep, PTL DEF Spec

\* turn.rs:131-132: a registered turn always has a live thread whose Drop is
\* still to come, for any number of sessions, threads and requests.
THEOREM SlotNeverOrphaned == Spec => []SlotHasLiveOwner
<1>1. IInv => SlotHasLiveOwner
  BY DEF IInv
<1> QED
  BY <1>1, IInvInit, IInvStep, PTL DEF Spec

\* state.rs:69: the idle counter is exactly the number of threads between
\* register and the end of Drop.
THEOREM IdleCountNeverDrifts == Spec => []IdleCountExact
<1>1. IInv => IdleCountExact
  BY DEF IInv
<1> QED
  BY <1>1, IInvInit, IInvStep, PTL DEF Spec

-----------------------------------------------------------------------------
(* The careful client.                                                       *)

(***************************************************************************)
(* The client that has one accepted prompt or compaction outstanding at a    *)
(* time.  Whatever is outstanding, as an accepted request, as a thread that   *)
(* is not at its TurnEnded yet, or as a turn that fell before it, is alone in *)
(* its session, and the client knows that it is not idle.                     *)
(***************************************************************************)
Accepted(r) == request[r].pc = "passed" /\ request[r].op \in {"prompt", "compact"}

\* It may append to the log still; it has a registration to keep; it has an end to report.
Writing == {"spawned", "claimed", "composing", "compacting"} \cup LoopPcs
Registered == (Writing \ {"spawned"}) \cup {"settling", "finishing", "releasing"}
Working == Writing \cup {"settling", "finishing", "releasing", "ending"}

\* A turn that has panicked, or found no provider, before its slot is dropped.
Fallen(w) == /\ worker[w].pc = "dropping" /\ worker[w].kind = "turn"
             /\ aborts[worker[w].session] = worker[w].id
Engaged(w) == worker[w].pc \in Working \/ Fallen(w)

OneRequest == \A q, r \in Requests :
  request[q].pc = "passed" /\ request[r].pc = "passed"
    /\ request[q].session = request[r].session => q = r
AcceptedAlone == \A r \in Requests : Accepted(r) =>
  /\ client[request[r].session] = "sent"
  /\ \A w \in Workers : Engaged(w) => worker[w].session # request[r].session
EngagedAlone == \A v, w \in Workers :
  Engaged(v) /\ Engaged(w) /\ worker[v].session = worker[w].session => v = w
ClientWaits == \A w \in Workers :
  /\ Engaged(w) => client[worker[w].session] # "idle"
  /\ worker[w].pc = "spawned" => client[worker[w].session] = "sent"
AppendsUnmixed == \A r \in Requests, w \in Workers :
  request[r].pc = "passed" /\ request[r].op = "append" /\ worker[w].pc \in Writing
    => worker[w].session # request[r].session
KeepsSlot == \A w \in Workers :
  /\ worker[w].pc \in Registered => aborts[worker[w].session] = worker[w].id
  /\ worker[w].pc = "releasing" => worker[w].seen = worker[w].id
  /\ worker[w].pc \in {"ending", "titling"} => aborts[worker[w].session] # worker[w].id
KindFits == \A w \in Workers :
  /\ worker[w].pc \in LoopPcs \cup TailPcs \cup {"composing"} => worker[w].kind = "turn"
  /\ worker[w].pc = "compacting" => worker[w].kind = "compact"

Orderly == /\ OneRequest /\ AcceptedAlone /\ EngagedAlone /\ ClientWaits
           /\ AppendsUnmixed /\ KeepsSlot /\ KindFits

\* The log: every call of a turn that may still append is answered, but for the one
\* that is at work; and a planned span ends where the log does.
Answered(s, i) == i < Len(log[s]) /\ log[s][i + 1] = [log[s][i] EXCEPT !.kind = "result"]
EntriesKnown == \A s \in Sessions : \A i \in 1 .. Len(log[s]) :
  /\ log[s][i].turn < nextTurnId
  /\ log[s][i].kind = "call" => log[s][i].turn # NoTurn
CallAtWork == \A w \in Workers : worker[w].pc = "tools" =>
  LET s == worker[w].session
  IN  Len(log[s]) > 0 /\ log[s][Len(log[s])] = Entry("call", worker[w].id, worker[w].round)
OwnAnswered == \A w \in Workers : worker[w].pc \in Writing \ {"spawned"} =>
  LET s == worker[w].session
  IN  \A i \in 1 .. Len(log[s]) :
        log[s][i].kind = "call" /\ log[s][i].turn = worker[w].id =>
          Answered(s, i) \/ (worker[w].pc = "tools" /\ i = Len(log[s]))
SpanEndsLog == \A w \in Workers :
  worker[w].kind = "compact" /\ worker[w].pc \in {"spawned", "claimed", "compacting"} =>
    worker[w].seen = Len(log[worker[w].session])

LogOrderly == /\ EntriesKnown /\ CallAtWork /\ OwnAnswered /\ SpanEndsLog
              /\ CallAnsweredNext /\ CompactionUnraced

CInv == IInv /\ Orderly /\ LogOrderly /\ NoSpurious409

\* What every step of a thread leaves alone.
Only(w) == /\ \A v \in Workers \ {w} : worker'[v] = worker[v]
           /\ worker'[w].session = worker[w].session /\ worker'[w].kind = worker[w].kind

LEMMA MovesOnly ==
  ASSUME TypeOK, NEW w \in Workers, NEW pc, Goto(w, pc)
  PROVE  /\ Only(w) /\ worker'[w].pc = pc /\ worker'[w].id = worker[w].id
         /\ worker'[w].seen = worker[w].seen /\ worker'[w].round = worker[w].round
BY DEF Only, Goto, TypeOK

\* The thread goes on, with its registration.
Runs(w) ==
  /\ Only(w) /\ worker'[w].id = worker[w].id
  /\ UNCHANGED <<aborts, request, nextTurnId>>
  /\ worker[w].pc \in Registered /\ worker'[w].pc \in Registered
  /\ worker'[w].pc \in Writing => worker[w].pc \in Writing
  /\ worker'[w].pc = "releasing" => worker'[w].seen = worker[w].id
  /\ worker'[w].pc = "compacting" => worker[w].kind = "compact"
  /\ worker'[w].pc \in LoopPcs \cup TailPcs \cup {"composing"} => worker[w].kind = "turn"
  /\ client' \in {client, [client EXCEPT ![worker[w].session] = "running"]}

\* It ends before its TurnEnded; it ends, and tells the client; its TurnEnded; its title.
Falls(w) ==
  /\ Only(w) /\ worker'[w].id = worker[w].id
  /\ UNCHANGED <<aborts, request, nextTurnId, client>>
  /\ worker[w].pc \in Registered \cup {"titling"} /\ worker'[w].pc = "dropping"
Tells(w) ==
  /\ Only(w) /\ worker'[w].id = worker[w].id
  /\ UNCHANGED <<aborts, request, nextTurnId>>
  /\ client' = [client EXCEPT ![worker[w].session] = "idle"]
  /\ \/ worker[w].pc = "ending" /\ worker'[w].pc = "titling" /\ worker[w].kind = "turn"
     \/ /\ worker[w].pc = "compacting" /\ worker'[w].pc = "dropping"
        /\ worker[w].kind = "compact"

LEMMA CarefulSteps ==
  ASSUME ClientRule = "careful", IInv, Orderly, NEW w \in Workers, WorkerStep(w) \/ Panic(w)
  PROVE  \/ Runs(w) \/ Falls(w) \/ Tells(w)
         \/ Claim(w) \/ FinishRelease(w) \/ DropRelease(w) \/ DropCount(w)
<1>0. TypeOK /\ KindFits /\ KeepsSlot
  BY DEF IInv, Orderly
<1>k. worker[w].kind \in {"turn", "compact"}
  BY <1>0 DEF TypeOK, Kinds
<1> USE DEF Writing, Registered, LoopPcs, TailPcs
<1>a. CASE Count(w)
  <2>1. worker[w].pc = "claimed" /\ UNCHANGED <<aborts, request, nextTurnId, client>>
    BY <1>a DEF Count
  <2>2. Goto(w, IF worker[w].kind = "turn" THEN "composing" ELSE "compacting")
    BY <1>a DEF Count
  <2> QED
    BY <1>0, <1>k, <2>1, <2>2, MovesOnly DEF Runs
<1>b. CASE Compose(w)
  <2>1. worker[w].pc = "composing" /\ UNCHANGED <<aborts, request, nextTurnId, client>>
    BY <1>b DEF Compose
  <2>2. Goto(w, "starting") \/ Goto(w, "dropping")
    BY <1>b DEF Compose
  <2>3. worker[w].kind = "turn"
    BY <1>0, <2>1 DEF KindFits
  <2> QED
    BY <1>0, <2>1, <2>2, <2>3, MovesOnly DEF Runs, Falls
<1>c. CASE StartRound(w)
  <2>1. /\ Only(w) /\ worker'[w].pc = "streaming" /\ worker'[w].id = worker[w].id
    BY <1>0, <1>c DEF StartRound, Only, TypeOK
  <2>2. /\ worker[w].pc = "starting" /\ UNCHANGED <<aborts, request, nextTurnId>>
        /\ client' = [client EXCEPT ![worker[w].session] = "running"]
    BY <1>c DEF StartRound
  <2>3. worker[w].kind = "turn"
    BY <1>0, <2>2 DEF KindFits
  <2> QED
    BY <2>1, <2>2, <2>3 DEF Runs
<1>d. CASE StreamEnds(w)
  <2>1. worker[w].pc = "streaming" /\ UNCHANGED <<aborts, request, nextTurnId, client>>
    BY <1>d DEF StreamEnds
  <2>2. \E pc \in {"settling", "answering", "calling"} : Goto(w, pc)
    BY <1>d DEF StreamEnds
  <2>3. worker[w].kind = "turn"
    BY <1>0, <2>1 DEF KindFits
  <2> QED
    BY <1>0, <2>1, <2>2, <2>3, MovesOnly DEF Runs
<1>e. CASE AppendCalls(w) \/ AppendResults(w) \/ AppendAnswer(w) \/ AppendFollowup(w)
  <2>1. /\ worker[w].pc \in {"calling", "tools", "answering", "following"}
        /\ UNCHANGED <<aborts, request, nextTurnId, client>>
    BY <1>e DEF AppendCalls, AppendResults, AppendAnswer, AppendFollowup
  <2>2. \E pc \in {"tools", "steering", "settling", "following", "starting"} : Goto(w, pc)
    BY <1>e DEF AppendCalls, AppendResults, AppendAnswer, AppendFollowup
  <2>3. worker[w].kind = "turn"
    BY <1>0, <2>1 DEF KindFits
  <2> QED
    BY <1>0, <2>1, <2>2, <2>3, MovesOnly DEF Runs
<1>f. CASE DrainSteering(w) \/ InjectSteering(w)
  <2>1. /\ worker[w].pc \in {"steering", "injecting"}
        /\ UNCHANGED <<aborts, request, nextTurnId, client>>
    BY <1>f DEF DrainSteering, InjectSteering
  <2>2. /\ Only(w) /\ worker'[w].id = worker[w].id
        /\ worker'[w].pc \in {"settling", "injecting", "starting"}
    <3>1. ASSUME NEW pc \in {"settling", "injecting", "starting"}, Goto(w, pc)
          PROVE  Only(w) /\ worker'[w].id = worker[w].id /\ worker'[w].pc = pc
      BY <1>0, <3>1, MovesOnly
    <3>2. CASE DrainSteering(w) /\ worker[w].id \in cancelled
      BY <3>1, <3>2 DEF DrainSteering
    <3>3. CASE DrainSteering(w) /\ worker[w].id \notin cancelled
      <4>1. worker' = [worker EXCEPT ![w] = [worker[w] EXCEPT
                         !.pc = "injecting", !.seen = pendingSteering[worker[w].session]]]
        BY <3>3 DEF DrainSteering
      <4> QED
        BY <1>0, <4>1 DEF Only, TypeOK
    <3>4. CASE InjectSteering(w) /\ worker[w].seen = 0
      BY <3>1, <3>4 DEF InjectSteering
    <3>5. CASE InjectSteering(w) /\ worker[w].seen # 0
      <4>1. worker' = [worker EXCEPT ![w] = [worker[w] EXCEPT !.seen = worker[w].seen - 1]]
        BY <3>5 DEF InjectSteering
      <4> QED
        BY <1>0, <2>1, <3>5, <4>1 DEF Only, TypeOK, InjectSteering
    <3> QED
      BY <1>f, <3>2, <3>3, <3>4, <3>5
  <2>3. worker[w].kind = "turn"
    BY <1>0, <2>1 DEF KindFits
  <2> QED
    BY <2>1, <2>2, <2>3 DEF Runs
<1>g. CASE PublishStatus(w)
  <2>1. /\ worker[w].pc = "settling" /\ UNCHANGED <<aborts, request, nextTurnId>>
        /\ Goto(w, "finishing")
    BY <1>g DEF PublishStatus
  <2>2. client' = client
    BY <1>0, <1>g DEF PublishStatus, TypeOK
  <2>3. worker[w].kind = "turn"
    BY <1>0, <2>1 DEF KindFits
  <2> QED
    BY <1>0, <2>1, <2>2, <2>3, MovesOnly DEF Runs
<1>h. CASE FinishLook(w)
  <2>1. worker[w].pc = "finishing" /\ UNCHANGED <<aborts, request, nextTurnId, client>>
    BY <1>h DEF FinishLook
  <2>2. aborts[worker[w].session] = worker[w].id /\ worker[w].id # NoTurn
    BY <1>0, <2>1 DEF KeepsSlot, IInv, IdIffRegistered, Unregistered
  <2>3. /\ Only(w) /\ worker'[w].pc = "releasing" /\ worker'[w].id = worker[w].id
        /\ worker'[w].seen = worker[w].id
    BY <1>0, <1>h, <2>2 DEF FinishLook, Only, TypeOK
  <2>4. worker[w].kind = "turn"
    BY <1>0, <2>1 DEF KindFits
  <2> QED
    BY <2>1, <2>3, <2>4 DEF Runs
<1>i. CASE PublishEnded(w)
  <2>1. /\ worker[w].pc = "ending" /\ UNCHANGED <<aborts, request, nextTurnId>>
        /\ Goto(w, "titling") /\ client' = [client EXCEPT ![worker[w].session] = "idle"]
    BY <1>i DEF PublishEnded
  <2>2. worker[w].kind = "turn"
    BY <1>0, <2>1 DEF KindFits
  <2> QED
    BY <1>0, <2>1, <2>2, MovesOnly DEF Tells
<1>j. CASE Autotitle(w) \/ Panic(w)
  <2>1. /\ worker[w].pc \in Registered \cup {"titling"} /\ Goto(w, "dropping")
        /\ UNCHANGED <<aborts, request, nextTurnId, client>>
    BY <1>j DEF Autotitle, Panic
  <2> QED
    BY <1>0, <2>1, MovesOnly DEF Falls
<1>l. CASE CompactDone(w) \/ CompactFails(w)
  <2>1. /\ worker[w].pc = "compacting" /\ UNCHANGED <<aborts, request, nextTurnId>>
        /\ Goto(w, "dropping") /\ client' = [client EXCEPT ![worker[w].session] = "idle"]
    BY <1>l DEF CompactDone, CompactFails, Resume
  <2>2. worker[w].kind = "compact"
    BY <1>0, <2>1 DEF KindFits
  <2> QED
    BY <1>0, <2>1, <2>2, MovesOnly DEF Tells
<1> QED
  BY <1>a, <1>b, <1>c, <1>d, <1>e, <1>f, <1>g, <1>h, <1>i, <1>j, <1>l
     DEF WorkerStep, LoopStep, EndStep

\* What a thread's step does to the order: it may end being engaged, and it speaks to the
\* client only while it is.
LEMMA StaysAlone ==
  ASSUME IInv, Orderly, NEW w \in Workers, Only(w), request' = request,
         \A v \in Workers : Engaged(v)' => Engaged(v),
         worker'[w].pc \in Writing => worker[w].pc \in Writing,
         worker'[w].pc # "spawned",
         \A s \in Sessions :
           \/ client'[s] = client[s]
           \/ /\ s = worker[w].session /\ Engaged(w)
              /\ client'[s] = "idle" => ~Engaged(w)'
  PROVE  OneRequest' /\ AcceptedAlone' /\ EngagedAlone' /\ ClientWaits' /\ AppendsUnmixed'
<1>0. /\ \A v \in Workers : worker[v].session \in Sessions
      /\ \A r \in Requests : request[r].session \in Sessions
  BY DEF IInv, TypeOK
<1>1. \A v \in Workers : worker'[v].session = worker[v].session
  BY DEF Only
<1>2. OneRequest'
  BY DEF Orderly, OneRequest
<1>3. AcceptedAlone'
  <2> SUFFICES ASSUME NEW r \in Requests, Accepted(r)'
               PROVE  /\ client'[request[r].session] = "sent"
                      /\ \A v \in Workers : Engaged(v)' => worker'[v].session # request[r].session
    BY DEF AcceptedAlone
  <2>1. Accepted(r)
    BY DEF Accepted
  <2>2. /\ client[request[r].session] = "sent"
        /\ \A v \in Workers : Engaged(v) => worker[v].session # request[r].session
    BY <2>1 DEF Orderly, AcceptedAlone
  <2> QED
    BY <1>0, <1>1, <2>2
<1>4. EngagedAlone'
  BY <1>1 DEF Orderly, EngagedAlone
<1>5. ClientWaits'
  <2>1. ASSUME NEW v \in Workers, Engaged(v)' PROVE client'[worker[v].session] # "idle"
    <3>1. Engaged(v) /\ client[worker[v].session] # "idle"
      BY <2>1 DEF Orderly, ClientWaits
    <3>2. worker[v].session = worker[w].session /\ Engaged(w) => v = w
      BY <3>1 DEF Orderly, EngagedAlone
    <3> QED
      BY <1>0, <2>1, <3>1, <3>2
  <2>2. ASSUME NEW v \in Workers, worker'[v].pc = "spawned"
        PROVE  client'[worker[v].session] = "sent"
    <3>1. v # w /\ worker[v].pc = "spawned"
      BY <2>2 DEF Only
    <3>2. Engaged(v) /\ client[worker[v].session] = "sent"
      BY <3>1 DEF Orderly, ClientWaits, Engaged, Working, Writing
    <3>3. ~(worker[v].session = worker[w].session /\ Engaged(w))
      BY <3>1, <3>2 DEF Orderly, EngagedAlone
    <3> QED
      BY <1>0, <3>2, <3>3
  <2> QED
    BY <1>1, <2>1, <2>2 DEF ClientWaits
<1>6. AppendsUnmixed'
  <2>1. \A v \in Workers : worker'[v].pc \in Writing => worker[v].pc \in Writing
    BY DEF Only
  <2> QED
    BY <1>1, <2>1 DEF Orderly, AppendsUnmixed
<1> QED
  BY <1>2, <1>3, <1>4, <1>5, <1>6

\* ... and to the registrations: it makes its own, or clears its own.
Reregisters(w) == \A s \in Sessions :
  \/ aborts'[s] = aborts[s]
  \/ s = worker[w].session /\ aborts[s] = worker[w].id /\ aborts'[s] = NoTurn
  \/ s = worker[w].session /\ worker[w].pc = "spawned" /\ aborts'[s] = nextTurnId

LEMMA OthersKeepSlot ==
  ASSUME IInv, Orderly, NEW w \in Workers, Only(w), Reregisters(w),
         NEW v \in Workers \ {w}
  PROVE  /\ worker'[v].pc \in Registered => aborts'[worker'[v].session] = worker'[v].id
         /\ worker'[v].pc = "releasing" => worker'[v].seen = worker'[v].id
         /\ worker'[v].pc \in {"ending", "titling"}
              => aborts'[worker'[v].session] # worker'[v].id
         /\ Engaged(v)' => Engaged(v)
<1>0. /\ worker'[v] = worker[v] /\ worker[v].session \in Sessions
      /\ worker[w].id \in Nat /\ worker[v].id \in Nat /\ nextTurnId \in Nat
      /\ worker[v].id < nextTurnId
      /\ worker[v].id = worker[w].id => worker[v].id = NoTurn
  BY DEF Only, IInv, TypeOK, IdsMintedOnce
<1>1. /\ worker[v].pc \in Registered => aborts[worker[v].session] = worker[v].id
      /\ worker[v].pc = "releasing" => worker[v].seen = worker[v].id
      /\ worker[v].pc \in {"ending", "titling"} => aborts[worker[v].session] # worker[v].id
  BY DEF Orderly, KeepsSlot
<1>2. worker[v].pc \in Registered \cup {"ending", "titling", "dropping"} => worker[v].id # NoTurn
  BY DEF IInv, IdIffRegistered, Unregistered, Registered, Writing, LoopPcs
<1>3. ASSUME worker[v].pc \in Registered, aborts'[worker[v].session] # aborts[worker[v].session]
      PROVE  FALSE
  <2>1. worker[v].session = worker[w].session
    BY <1>0, <1>3 DEF Reregisters
  <2>2. Engaged(v)
    BY <1>3 DEF Engaged, Registered, Working
  <2>3. CASE aborts[worker[v].session] = worker[w].id
    BY <1>0, <1>1, <1>2, <1>3, <2>3
  <2>4. CASE worker[w].pc = "spawned"
    <3>1. Engaged(w)
      BY <2>4 DEF Engaged, Working, Writing
    <3> QED
      BY <2>1, <2>2, <3>1 DEF Orderly, EngagedAlone
  <2> QED
    BY <1>0, <1>3, <2>3, <2>4 DEF Reregisters
<1>4. worker[v].pc \in {"ending", "titling", "dropping"} /\ aborts'[worker[v].session] = worker[v].id
        => aborts[worker[v].session] = worker[v].id
  BY <1>0, <1>2 DEF Reregisters
<1> QED
  BY <1>0, <1>1, <1>3, <1>4 DEF Engaged, Fallen

LEMMA OrderlyThread ==
  ASSUME ClientRule = "careful", IInv, Orderly, NEW w \in Workers, WorkerStep(w) \/ Panic(w)
  PROVE  Orderly'
<1>0. /\ worker[w].id \in Nat /\ nextTurnId \in Nat /\ worker[w].id < nextTurnId
      /\ worker[w].session \in Sessions
      /\ aborts \in [Sessions -> Nat] /\ client \in [Sessions -> ClientStates]
      /\ worker[w].pc = "spawned" => worker[w].id = NoTurn
      /\ worker[w].pc \in Registered \cup {"ending", "titling", "dropping"}
           => worker[w].id # NoTurn
  BY DEF IInv, TypeOK, IdsMintedOnce, IdIffRegistered, Unregistered, Registered, Writing,
         LoopPcs
<1>s. /\ worker[w].pc \in Registered => aborts[worker[w].session] = worker[w].id
      /\ worker[w].pc = "releasing" => worker[w].seen = worker[w].id
      /\ worker[w].pc \in {"ending", "titling"} => aborts[worker[w].session] # worker[w].id
  BY DEF Orderly, KeepsSlot
<1>k. /\ worker[w].pc \in LoopPcs \cup TailPcs \cup {"composing"} => worker[w].kind = "turn"
      /\ worker[w].pc = "compacting" => worker[w].kind = "compact"
  BY DEF Orderly, KindFits
\* It is enough to look at the thread itself.
<1>1. ASSUME Only(w), Reregisters(w), request' = request,
             worker'[w].pc # "spawned", Engaged(w)' => Engaged(w),
             worker'[w].pc \in Writing => worker[w].pc \in Writing,
             \A s \in Sessions :
               \/ client'[s] = client[s]
               \/ /\ s = worker[w].session /\ Engaged(w)
                  /\ client'[s] = "idle" => ~Engaged(w)',
             worker'[w].pc \in Registered => aborts'[worker[w].session] = worker'[w].id,
             worker'[w].pc = "releasing" => worker'[w].seen = worker'[w].id,
             worker'[w].pc \in {"ending", "titling"}
               => aborts'[worker[w].session] # worker'[w].id,
             worker'[w].pc \in LoopPcs \cup TailPcs \cup {"composing"}
               => worker[w].kind = "turn",
             worker'[w].pc = "compacting" => worker[w].kind = "compact"
      PROVE  Orderly'
  <2>1. \A v \in Workers : Engaged(v)' => Engaged(v)
    BY <1>1, OthersKeepSlot
  <2>2. OneRequest' /\ AcceptedAlone' /\ EngagedAlone' /\ ClientWaits' /\ AppendsUnmixed'
    BY <1>1, <2>1, StaysAlone
  <2>3. KeepsSlot'
    <3>1. worker'[w].session = worker[w].session
      BY <1>1 DEF Only
    <3> QED
      BY <1>1, <3>1, OthersKeepSlot DEF KeepsSlot
  <2>4. KindFits'
    <3>1. worker'[w].kind = worker[w].kind /\ \A v \in Workers \ {w} : worker'[v] = worker[v]
      BY <1>1 DEF Only
    <3> QED
      BY <1>1, <3>1 DEF Orderly, KindFits
  <2> QED
    BY <2>2, <2>3, <2>4 DEF Orderly
<1>2. CASE Runs(w)
  <2>1. Engaged(w)
    BY <1>2 DEF Runs, Engaged, Registered, Working
  <2>2. /\ Only(w) /\ Reregisters(w) /\ request' = request /\ aborts' = aborts
        /\ worker'[w].id = worker[w].id /\ worker'[w].pc # "spawned"
        /\ worker'[w].pc \in Writing => worker[w].pc \in Writing
        /\ worker'[w].pc = "releasing" => worker'[w].seen = worker[w].id
        /\ worker'[w].pc = "compacting" => worker[w].kind = "compact"
        /\ worker'[w].pc \in LoopPcs \cup TailPcs \cup {"composing"}
             => worker[w].kind = "turn"
    BY <1>2 DEF Runs, Reregisters, Registered, Writing, LoopPcs
  <2>3. \A s \in Sessions : \/ client'[s] = client[s]
                            \/ s = worker[w].session /\ client'[s] = "running"
    BY <1>0, <1>2 DEF Runs
  <2>4. aborts[worker[w].session] = worker[w].id /\ worker'[w].pc \notin {"ending", "titling"}
    BY <1>2, <1>s DEF Runs, Registered, Writing, LoopPcs
  <2> QED
    BY <1>1, <2>1, <2>2, <2>3, <2>4
<1>3. CASE Falls(w)
  <2>1. /\ Only(w) /\ Reregisters(w) /\ request' = request /\ aborts' = aborts
        /\ worker'[w].id = worker[w].id /\ worker'[w].pc = "dropping" /\ client' = client
        /\ worker[w].pc \in Registered \cup {"titling"}
    BY <1>3 DEF Falls, Reregisters
  <2>2. Engaged(w)' => Engaged(w)
    <3>1. CASE worker[w].pc = "titling"
      BY <1>s, <2>1, <3>1 DEF Engaged, Working, Fallen, Writing, LoopPcs, Only
    <3>2. CASE worker[w].pc \in Registered
      BY <3>2 DEF Engaged, Working, Registered
    <3> QED
      BY <2>1, <3>1, <3>2
  <2>3. "dropping" \notin Registered \cup LoopPcs \cup TailPcs \cup {"composing", "compacting"}
    BY DEF Registered, Writing, LoopPcs, TailPcs
  <2>4. "dropping" \notin Writing
    BY DEF Writing, LoopPcs
  <2> QED
    BY <1>1, <2>1, <2>2, <2>3, <2>4
<1>4. CASE Tells(w)
  <2>1. /\ Only(w) /\ Reregisters(w) /\ request' = request /\ aborts' = aborts
        /\ worker'[w].id = worker[w].id
        /\ \A s \in Sessions : s # worker[w].session => client'[s] = client[s]
    BY <1>0, <1>4 DEF Tells, Reregisters
  <2>2. /\ \/ worker[w].pc = "ending" /\ worker'[w].pc = "titling" /\ worker[w].kind = "turn"
           \/ /\ worker[w].pc = "compacting" /\ worker'[w].pc = "dropping"
              /\ worker[w].kind = "compact"
    BY <1>4 DEF Tells
  <2>3. Engaged(w) /\ ~Engaged(w)'
    BY <2>1, <2>2 DEF Engaged, Working, Fallen, Writing, LoopPcs, Only
  <2>4. {"dropping", "titling"} \cap (Registered \cup Writing) = {}
    BY DEF Registered, Writing, LoopPcs
  <2>5. "dropping" \notin LoopPcs \cup TailPcs
    BY DEF LoopPcs, TailPcs
  <2> QED
    BY <1>1, <1>s, <2>1, <2>2, <2>3, <2>4, <2>5
<1>5. CASE Claim(w)
  <2>1. /\ Only(w) /\ request' = request /\ client' = client
        /\ worker[w].pc = "spawned" /\ worker'[w].pc = "claimed"
        /\ worker'[w].id = nextTurnId
        /\ aborts' = [aborts EXCEPT ![worker[w].session] = nextTurnId]
    BY <1>5 DEF Claim, Only, IInv, TypeOK
  <2>2. Reregisters(w) /\ aborts'[worker[w].session] = nextTurnId
    BY <1>0, <2>1 DEF Reregisters
  <2>3. "spawned" \in Writing /\ Engaged(w)
    BY <2>1 DEF Engaged, Working, Writing
  <2>4. "claimed" \notin LoopPcs \cup TailPcs
    BY DEF LoopPcs, TailPcs
  <2> QED
    BY <1>1, <2>1, <2>2, <2>3, <2>4
<1>6. CASE FinishRelease(w)
  <2>1. /\ request' = request /\ client' = client /\ worker[w].pc = "releasing"
        /\ Goto(w, "ending") /\ release_turn(worker[w].session, worker[w].seen)
    BY <1>6 DEF FinishRelease
  <2>2. Only(w) /\ worker'[w].pc = "ending" /\ worker'[w].id = worker[w].id
    BY <2>1, MovesOnly DEF IInv
  <2>3. /\ aborts[worker[w].session] = worker[w].id /\ worker[w].seen = worker[w].id
        /\ worker[w].id # NoTurn
    BY <1>0, <1>s, <2>1 DEF Registered
  <2>4. Reregisters(w) /\ aborts'[worker[w].session] = NoTurn
    BY <1>0, <2>1, <2>3 DEF release_turn, Reregisters
  <2>5. Engaged(w)
    BY <2>1 DEF Engaged, Working
  <2>6. "ending" \notin Registered \cup Writing /\ worker[w].kind = "turn"
    BY <1>k, <2>1 DEF Registered, Writing, LoopPcs, TailPcs
  <2> QED
    BY <1>1, <2>1, <2>2, <2>3, <2>4, <2>5, <2>6
<1>7. CASE DropRelease(w)
  <2>1. /\ request' = request /\ client' = client /\ worker[w].pc = "dropping"
        /\ Goto(w, "uncounting") /\ release_turn(worker[w].session, worker[w].id)
    BY <1>7 DEF DropRelease
  <2>2. Only(w) /\ worker'[w].pc = "uncounting" /\ worker'[w].id = worker[w].id
    BY <2>1, MovesOnly DEF IInv
  <2>3. Reregisters(w)
    BY <1>0, <2>1 DEF release_turn, Reregisters
  <2>4. ~Engaged(w)'
    BY <2>2 DEF Engaged, Working, Fallen, Writing, LoopPcs
  <2>5. "uncounting" \notin Registered \cup Writing \cup LoopPcs \cup TailPcs
    BY DEF Registered, Writing, LoopPcs, TailPcs
  <2> QED
    BY <1>1, <2>1, <2>2, <2>3, <2>4, <2>5
<1>8. CASE DropCount(w)
  <2>1. /\ request' = request /\ client' = client /\ aborts' = aborts
        /\ Goto(w, "done")
    BY <1>8 DEF DropCount
  <2>2. Only(w) /\ worker'[w].pc = "done" /\ Reregisters(w)
    BY <2>1, MovesOnly DEF IInv, Reregisters
  <2>4. ~Engaged(w)'
    BY <2>2 DEF Engaged, Working, Fallen, Writing, LoopPcs
  <2>5. "done" \notin Registered \cup Writing \cup LoopPcs \cup TailPcs
    BY DEF Registered, Writing, LoopPcs, TailPcs
  <2> QED
    BY <1>1, <2>1, <2>2, <2>4, <2>5
<1> QED
  BY <1>2, <1>3, <1>4, <1>5, <1>6, <1>7, <1>8, CarefulSteps

\* A request's step.  The careful client sends nothing while another request is open, and
\* prompts or compacts only when idle.
LEMMA GateIsOpen ==
  ASSUME ClientRule = "careful", NEW r \in Requests, NEW s \in Sessions, NEW op, MaySend(s, op)
  PROVE  /\ \A q \in Requests : request[q].pc = "passed" => request[q].session # s
         /\ op # "steer" => client[s] = "idle"
         /\ client[s] \in {"idle", "running"}
BY DEF MaySend, OpenRequests

\* The steps of a request that leave the threads alone.
LEMMA OrderlyGate ==
  ASSUME ClientRule = "careful", IInv, Orderly, NEW r \in Requests, NEW s \in Sessions,
         PromptGate(r, s) \/ SteerGate(r, s) \/ CompactGate(r, s)
  PROVE  Orderly'
<1>0. /\ client \in [Sessions -> ClientStates]
      /\ \A q \in Requests : request[q].session \in Sessions
      /\ request = [q \in Requests |-> request[q]]
      /\ \A w \in Workers : worker[w].session \in Sessions
  BY DEF IInv, TypeOK
<1>1. /\ worker' = worker /\ aborts' = aborts
      /\ \A q \in Requests \ {r} : request'[q] = request[q]
  BY <1>0 DEF PromptGate, SteerGate, CompactGate, Reject, Pass
<1>2. \A w \in Workers : Engaged(w)' <=> Engaged(w)
  BY <1>1 DEF Engaged, Fallen
<1>3. KeepsSlot' /\ KindFits' /\ EngagedAlone'
  BY <1>1, <1>2 DEF Orderly, KeepsSlot, KindFits, EngagedAlone
<1>o. /\ \A q \in Requests : request[q].pc = "passed" => request[q].session # s
      /\ client[s] \in {"idle", "running"}
  BY GateIsOpen DEF PromptGate, SteerGate, CompactGate, Arrive
<1>4. CASE client' = client /\ request'[r].pc = "rejected"
  <2>1. \A q \in Requests : request'[q].pc = "passed" =>
          request[q].pc = "passed" /\ request'[q] = request[q]
    BY <1>1, <1>4
  <2> QED
    BY <1>1, <1>2, <1>3, <1>4, <2>1
       DEF Orderly, OneRequest, AcceptedAlone, Accepted, ClientWaits, AppendsUnmixed
<1>5. CASE /\ client[s] = "idle" /\ client' = [client EXCEPT ![s] = "sent"]
           /\ request'[r].session = s /\ request'[r].op \in {"prompt", "compact"}
  <2>1. OneRequest'
    BY <1>1, <1>5, <1>o DEF Orderly, OneRequest
  <2>2. client'[s] = "sent" /\ \A x \in Sessions \ {s} : client'[x] = client[x]
    BY <1>0, <1>5
  <2>3. \A w \in Workers : Engaged(w) => worker[w].session # s
    BY <1>5 DEF Orderly, ClientWaits
  <2>4. AcceptedAlone'
    <3> SUFFICES ASSUME NEW q \in Requests, Accepted(q)'
                 PROVE  /\ client'[request'[q].session] = "sent"
                        /\ \A w \in Workers : Engaged(w) => worker[w].session # request'[q].session
      BY <1>1, <1>2 DEF AcceptedAlone
    <3>1. CASE q = r
      BY <1>5, <2>2, <2>3, <3>1
    <3>2. CASE q # r
      <4>1. Accepted(q) /\ request'[q] = request[q]
        BY <1>1, <3>2 DEF Accepted
      <4>2. request[q].session # s
        BY <1>o, <4>1 DEF Accepted
      <4> QED
        BY <1>0, <2>2, <4>1, <4>2 DEF Orderly, AcceptedAlone
    <3> QED
      BY <3>1, <3>2
  <2>5. ClientWaits'
    BY <1>0, <1>1, <1>2, <2>2 DEF Orderly, ClientWaits
  <2>6. AppendsUnmixed'
    BY <1>1, <1>5 DEF Orderly, AppendsUnmixed
  <2> QED
    BY <1>3, <2>1, <2>4, <2>5, <2>6 DEF Orderly
<1>6. CASE /\ client' = client /\ request'[r].session = s
           /\ request'[r].op = (IF is_turn_running(s) THEN "queue" ELSE "append")
  <2>1. OneRequest'
    BY <1>1, <1>6, <1>o DEF Orderly, OneRequest
  <2>2. AcceptedAlone' /\ ClientWaits'
    BY <1>1, <1>2, <1>6 DEF Orderly, AcceptedAlone, Accepted, ClientWaits
  <2>3. ASSUME request'[r].op = "append", NEW w \in Workers, worker[w].pc \in Writing,
               worker[w].session = s
        PROVE  FALSE
    <3>1. aborts[s] = NoTurn
      BY <1>6, <2>3 DEF is_turn_running
    <3>2. CASE worker[w].pc = "spawned"
      BY <1>o, <2>3, <3>2 DEF Orderly, ClientWaits
    <3>3. CASE worker[w].pc # "spawned"
      <4>1. aborts[s] = worker[w].id
        BY <2>3, <3>3 DEF Orderly, KeepsSlot, Registered
      <4>2. worker[w].id # NoTurn
        BY <2>3, <3>3 DEF IInv, IdIffRegistered, Unregistered, Writing, LoopPcs
      <4> QED
        BY <3>1, <4>1, <4>2
    <3> QED
      BY <3>2, <3>3
  <2>4. AppendsUnmixed'
    BY <1>1, <1>6, <2>3 DEF Orderly, AppendsUnmixed
  <2> QED
    BY <1>3, <2>1, <2>2, <2>4 DEF Orderly
<1>7. ASSUME NEW op, Reject(r, s, op) PROVE request'[r].pc = "rejected"
  BY <1>0, <1>7 DEF Reject
<1>8. ASSUME NEW op, Pass(r, s, op) PROVE request'[r].session = s /\ request'[r].op = op
  BY <1>0, <1>8 DEF Pass
<1>a. CASE PromptGate(r, s)
  <2>1. client[s] = "idle"
    BY <1>a, GateIsOpen DEF PromptGate, Arrive
  <2> QED
    BY <1>4, <1>5, <1>7, <1>8, <1>a, <2>1 DEF PromptGate
<1>b. CASE SteerGate(r, s)
  BY <1>6, <1>8, <1>b DEF SteerGate
<1>c. CASE CompactGate(r, s)
  <2>1. client[s] = "idle"
    BY <1>c, GateIsOpen DEF CompactGate, Arrive
  <2> QED
    BY <1>4, <1>5, <1>7, <1>8, <1>c, <2>1 DEF CompactGate, Await
<1> QED
  BY <1>a, <1>b, <1>c

\* What spawning a thread does.
Spawned(w, s, kind, n) ==
  /\ worker[w].pc = "none" /\ worker'[w].pc = "spawned" /\ worker'[w].session = s
  /\ worker'[w].kind = kind /\ worker'[w].seen = n
  /\ \A v \in Workers \ {w} : worker'[v] = worker[v]

LEMMA SpawnEffect ==
  ASSUME TypeOK, NEW s \in Sessions, NEW kind, NEW n, Spawn(kind, s, n)
  PROVE  \E w \in Workers : Spawned(w, s, kind, n)
<1>1. PICK w \in Workers :
        /\ worker[w].pc = "none"
        /\ worker' = [worker EXCEPT ![w] = [NoWorker(s) EXCEPT
                        !.pc = "spawned", !.kind = kind, !.seen = n]]
  BY DEF Spawn
<1>2. worker'[w] = [NoWorker(s) EXCEPT !.pc = "spawned", !.kind = kind, !.seen = n]
      /\ \A v \in Workers \ {w} : worker'[v] = worker[v]
  BY <1>1 DEF TypeOK
<1>3. /\ worker'[w].pc = "spawned" /\ worker'[w].kind = kind /\ worker'[w].seen = n
      /\ worker'[w].session = s
  BY <1>2 DEF NoWorker
<1> QED
  BY <1>1, <1>2, <1>3 DEF Spawned

LEMMA OrderlyEffect ==
  ASSUME ClientRule = "careful", IInv, Orderly, NEW r \in Requests,
         PromptAccept(r) \/ SteerQueue(r) \/ SteerAppend(r) \/ CompactAccept(r)
  PROVE  Orderly'
<1> DEFINE s == request[r].session
<1>0. /\ client \in [Sessions -> ClientStates] /\ s \in Sessions
      /\ \A q \in Requests : request[q].session \in Sessions
      /\ request = [q \in Requests |-> request[q]]
      /\ \A w \in Workers : worker[w].session \in Sessions
  BY DEF IInv, TypeOK
<1>1. /\ request[r].pc = "passed" /\ aborts' = aborts
      /\ request'[r].pc = "done" /\ \A q \in Requests \ {r} : request'[q] = request[q]
  <2>1. request[r].pc = "passed" /\ aborts' = aborts /\ Finish(r)
    BY DEF PromptAccept, SteerQueue, SteerAppend, CompactAccept
  <2>2. request \in [Requests -> [pc : {"new", "passed", "rejected", "done"},
                                  op : Ops, session : Sessions, by : SUBSET Kinds]]
    BY DEF IInv, TypeOK
  <2> QED
    BY <2>1, <2>2 DEF Finish
<1>2. \A q \in Requests : request'[q].pc = "passed" =>
        request'[q] = request[q] /\ request[q].session # s
  BY <1>1 DEF Orderly, OneRequest
<1>3. OneRequest'
  BY <1>2 DEF Orderly, OneRequest
<1>4. CASE worker' = worker
  <2>1. \A w \in Workers : Engaged(w)' <=> Engaged(w)
    BY <1>1, <1>4 DEF Engaged, Fallen
  <2>2. KeepsSlot' /\ KindFits' /\ EngagedAlone' /\ AppendsUnmixed'
    BY <1>1, <1>2, <1>4, <2>1
       DEF Orderly, KeepsSlot, KindFits, EngagedAlone, AppendsUnmixed
  <2>3. CASE client' = client
    BY <1>2, <1>3, <1>4, <2>1, <2>2, <2>3 DEF Orderly, AcceptedAlone, Accepted, ClientWaits
  <2>4. CASE CompactAccept(r) /\ client' # client
    <3>1. Accepted(r) /\ client' = [client EXCEPT ![s] = "idle"]
      BY <2>4 DEF CompactAccept, Accepted, Resume
    <3>2. \A w \in Workers : Engaged(w) => worker[w].session # s
      BY <3>1 DEF Orderly, AcceptedAlone
    <3>3. \A x \in Sessions \ {s} : client'[x] = client[x]
      BY <1>0, <3>1
    <3>4. AcceptedAlone'
      BY <1>0, <1>2, <1>4, <2>1, <3>3 DEF Orderly, AcceptedAlone, Accepted
    <3>5. ClientWaits'
      <4>1. \A w \in Workers : worker[w].pc = "spawned" => Engaged(w)
        BY DEF Engaged, Working, Writing
      <4> QED
        BY <1>0, <1>4, <2>1, <3>2, <3>3, <4>1 DEF Orderly, ClientWaits
    <3> QED
      BY <1>3, <2>2, <3>4, <3>5 DEF Orderly
  <2> QED
    BY <2>3, <2>4 DEF PromptAccept, SteerQueue, SteerAppend, CompactAccept
<1>5. ASSUME NEW w \in Workers, NEW kind, NEW n, Spawned(w, s, kind, n), Accepted(r),
             client' = client
      PROVE  Orderly'
  <2>1. /\ \A v \in Workers \ {w} : worker'[v] = worker[v] /\ (Engaged(v)' <=> Engaged(v))
        /\ worker'[w].session = s /\ worker'[w].pc = "spawned"
    BY <1>1, <1>5 DEF Spawned, Engaged, Fallen
  <2>2. /\ client[s] = "sent"
        /\ \A v \in Workers : Engaged(v) => worker[v].session # s
    BY <1>5 DEF Orderly, AcceptedAlone
  <2>3. AcceptedAlone'
    BY <1>2, <1>5, <2>1 DEF Orderly, AcceptedAlone, Accepted
  <2>4. EngagedAlone'
    BY <2>1, <2>2 DEF Orderly, EngagedAlone
  <2>5. ClientWaits'
    BY <1>5, <2>1, <2>2 DEF Orderly, ClientWaits
  <2>6. AppendsUnmixed'
    BY <1>2, <2>1 DEF Orderly, AppendsUnmixed
  <2>7. KeepsSlot' /\ KindFits'
    <3>1. "spawned" \notin Registered \cup LoopPcs \cup TailPcs
      BY DEF Registered, LoopPcs, TailPcs
    <3> QED
      BY <1>1, <2>1, <3>1 DEF Orderly, KeepsSlot, KindFits
  <2> QED
    BY <1>3, <2>3, <2>4, <2>5, <2>6, <2>7 DEF Orderly
<1>a. CASE PromptAccept(r)
  <2>1. Accepted(r) /\ client' = client /\ Spawn("turn", s, NoTurn)
    BY <1>a DEF PromptAccept, Accepted
  <2> QED
    BY <1>0, <1>5, <2>1, SpawnEffect DEF IInv
<1>b. CASE SteerQueue(r) \/ SteerAppend(r)
  BY <1>4, <1>b DEF SteerQueue, SteerAppend
<1>c. CASE CompactAccept(r) /\ worker' # worker
  <2>1. Accepted(r) /\ client' = client /\ Spawn("compact", s, Len(log[s]))
    BY <1>c DEF CompactAccept, Accepted
  <2> QED
    BY <1>0, <1>5, <2>1, SpawnEffect DEF IInv
<1> QED
  BY <1>4, <1>a, <1>b, <1>c

LEMMA OrderlyStep ==
  ASSUME ClientRule = "careful", IInv, Orderly, [Next]_vars
  PROVE  Orderly'
<1>1. CASE RequestStep
  BY <1>1, OrderlyGate, OrderlyEffect DEF RequestStep
<1>2. CASE (\E s \in Sessions : Abort(s)) \/ UNCHANGED vars
  <2>1. UNCHANGED <<aborts, worker, request, client>>
    BY <1>2 DEF Abort, vars
  <2> QED
    BY <2>1 DEF Orderly, OneRequest, AcceptedAlone, Accepted, EngagedAlone, Engaged, Fallen,
                ClientWaits, AppendsUnmixed, KeepsSlot, KindFits
<1>3. ASSUME NEW w \in Workers, WorkerStep(w) \/ Panic(w) PROVE Orderly'
  BY <1>3, OrderlyThread
<1> QED
  BY <1>1, <1>2, <1>3, NextCases

-----------------------------------------------------------------------------
(* The log, with the careful client.                                         *)

\* A step that appends nothing.
LEMMA LogKept ==
  ASSUME LogOrderly, log' = log, nextTurnId' \in Nat, nextTurnId \in Nat,
         nextTurnId <= nextTurnId', log \in [Sessions -> Seq(Entries)],
         \A v \in Workers :
           /\ worker'[v].pc = "tools" => worker'[v] = worker[v]
           /\ worker'[v].pc \in Writing \ {"spawned"} =>
                /\ worker'[v].session = worker[v].session /\ worker[v].session \in Sessions
                /\ \/ /\ worker[v].pc \in Writing \ {"spawned"}
                      /\ worker[v].pc = "tools" => worker'[v].pc = "tools"
                      /\ worker'[v].id = worker[v].id
                   \/ worker'[v].id = nextTurnId
           /\ worker'[v].kind = "compact"
                /\ worker'[v].pc \in {"spawned", "claimed", "compacting"} =>
                worker'[v].seen = Len(log[worker'[v].session])
  PROVE  LogOrderly'
<1>0. ASSUME NEW s \in Sessions, NEW i \in 1 .. Len(log[s]) PROVE log[s][i].turn \in Nat
  <2>1. log[s] \in Seq(Entries)
    OBVIOUS
  <2>2. log[s][i] \in Entries
    BY <2>1
  <2> QED
    BY <2>2 DEF Entries
<1>1. EntriesKnown'
  BY <1>0 DEF LogOrderly, EntriesKnown
<1>2. CallAtWork'
  BY DEF LogOrderly, CallAtWork
<1>3. OwnAnswered'
  <2> SUFFICES ASSUME NEW v \in Workers, worker'[v].pc \in Writing \ {"spawned"},
                      NEW i \in 1 .. Len(log[worker[v].session]),
                      log[worker[v].session][i].kind = "call",
                      log[worker[v].session][i].turn = worker'[v].id
               PROVE  \/ Answered(worker[v].session, i)
                      \/ worker'[v].pc = "tools" /\ i = Len(log[worker[v].session])
    BY DEF OwnAnswered, Answered
  <2>1. CASE worker'[v].id = nextTurnId
    BY <1>0, <2>1 DEF LogOrderly, EntriesKnown
  <2>2. CASE worker'[v].id # nextTurnId
    BY <2>2 DEF LogOrderly, OwnAnswered
  <2> QED
    BY <2>1, <2>2
<1>4. SpanEndsLog'
  BY DEF SpanEndsLog
<1>5. CallAnsweredNext' /\ CompactionUnraced'
  BY DEF LogOrderly, CallAnsweredNext, CompactionUnraced
<1> QED
  BY <1>1, <1>2, <1>3, <1>4, <1>5 DEF LogOrderly

\* The log of one session grows by one entry.
LEMMA Appended ==
  ASSUME log \in [Sessions -> Seq(Entries)], NEW s \in Sessions, NEW e \in Entries,
         AppendTo(s, e)
  PROVE  /\ \A t \in Sessions \ {s} : log'[t] = log[t]
         /\ Len(log'[s]) = Len(log[s]) + 1 /\ log'[s][Len(log[s]) + 1] = e
         /\ Len(log[s]) \in Nat
         /\ \A i \in 1 .. Len(log[s]) : log'[s][i] = log[s][i]
         /\ \A t \in Sessions : \A i \in 1 .. Len(log[t]) :
              log'[t][i] = log[t][i] /\ (Answered(t, i) => Answered(t, i)')
<1>1. log'[s] = Append(log[s], e) /\ \A t \in Sessions \ {s} : log'[t] = log[t]
  BY DEF AppendTo
<1>2. log[s] \in Seq(Entries)
  OBVIOUS
<1>3. /\ Len(log'[s]) = Len(log[s]) + 1 /\ log'[s][Len(log[s]) + 1] = e
      /\ Len(log[s]) \in Nat
      /\ \A i \in 1 .. Len(log[s]) : log'[s][i] = log[s][i]
  BY <1>1, <1>2
<1>4. ASSUME NEW t \in Sessions, NEW i \in 1 .. Len(log[t])
      PROVE  log'[t][i] = log[t][i] /\ (Answered(t, i) => Answered(t, i)')
  <2>1. CASE t = s
    <3>1. log'[s][i] = log[s][i]
      BY <1>3, <2>1
    <3>2. ASSUME Answered(s, i) PROVE Answered(s, i)'
      <4>1. i + 1 \in 1 .. Len(log[s]) /\ i < Len(log'[s])
        BY <1>3, <2>1, <3>2 DEF Answered
      <4>2. log'[s][i + 1] = log[s][i + 1]
        BY <1>3, <4>1
      <4> QED
        BY <3>1, <3>2, <4>1, <4>2 DEF Answered
    <3> QED
      BY <2>1, <3>1, <3>2
  <2>2. CASE t # s
    BY <1>1, <2>2 DEF Answered
  <2> QED
    BY <2>1, <2>2
<1> QED
  BY <1>1, <1>3, <1>4

\* An entry of a turn that is the only one to write (or of none, 0), in a session where
\* no other thread does.
LEMMA LogGrows ==
  ASSUME LogOrderly, IInv, NEW s \in Sessions, NEW e \in Entries, AppendTo(s, e),
         nextTurnId' = nextTurnId, e.turn < nextTurnId,
         e.kind = "call" => e.turn # NoTurn,
         e.kind = "compacted" => e.n = Len(log[s]),
         \* whoever writes it
         \A i \in 1 .. Len(log[s]) : log[s][i].kind = "call" /\ log[s][i].turn = e.turn =>
           \/ Answered(s, i)
           \/ i = Len(log[s]) /\ e = [log[s][i] EXCEPT !.kind = "result"],
         \* the threads after it
         \A v \in Workers :
           worker'[v].pc \in Writing \ {"spawned"} =>
             /\ worker[v].pc \in Writing \ {"spawned"}
             /\ worker'[v].session = worker[v].session /\ worker'[v].id = worker[v].id
             /\ worker[v].session \in Sessions
             /\ worker[v].session = s =>
                  /\ worker'[v].id = e.turn
                  /\ worker'[v].pc = "tools" <=> e.kind = "call"
                  /\ worker'[v].pc = "tools" => e = Entry("call", worker'[v].id, worker'[v].round)
             /\ worker[v].session # s => worker'[v] = worker[v],
         \A v \in Workers :
           worker'[v].kind = "compact" /\ worker'[v].pc \in {"spawned", "claimed", "compacting"}
             => /\ worker'[v] = worker[v] /\ worker[v].session \in Sessions \ {s}
  PROVE  LogOrderly'
<1>l. log \in [Sessions -> Seq(Entries)] /\ log' \in [Sessions -> Seq(Entries)]
  BY AppendToType DEF IInv, TypeOK
<1> DEFINE n == Len(log[s])
<1>a. /\ \A t \in Sessions \ {s} : log'[t] = log[t]
      /\ Len(log'[s]) = n + 1 /\ log'[s][n + 1] = e /\ n \in Nat
      /\ \A i \in 1 .. n : log'[s][i] = log[s][i]
      /\ \A t \in Sessions : \A i \in 1 .. Len(log[t]) :
              log'[t][i] = log[t][i] /\ (Answered(t, i) => Answered(t, i)')
  BY <1>l, Appended
<1>i. \A i \in 1 .. Len(log'[s]) : i \in 1 .. n \/ i = n + 1
  BY <1>a
<1> HIDE DEF n
<1>1. EntriesKnown'
  <2>1. ASSUME NEW t \in Sessions, NEW i \in 1 .. Len(log'[t])
        PROVE  /\ log'[t][i].turn < nextTurnId
               /\ log'[t][i].kind = "call" => log'[t][i].turn # NoTurn
    <3>1. CASE t = s /\ i = n + 1
      BY <1>a, <3>1
    <3>2. CASE i \in 1 .. Len(log[t])
      BY <1>a, <3>2 DEF LogOrderly, EntriesKnown
    <3> QED
      BY <1>a, <1>i, <3>1, <3>2 DEF n
  <2> QED
    BY <2>1 DEF EntriesKnown
<1>2. CallAtWork'
  <2> SUFFICES ASSUME NEW v \in Workers, worker'[v].pc = "tools"
               PROVE  LET t == worker'[v].session
                      IN  /\ Len(log'[t]) > 0
                          /\ log'[t][Len(log'[t])] = Entry("call", worker'[v].id, worker'[v].round)
    BY DEF CallAtWork, Entry
  <2>1. /\ worker'[v].session = worker[v].session /\ worker[v].session \in Sessions
        /\ worker[v].session = s => e = Entry("call", worker'[v].id, worker'[v].round)
        /\ worker[v].session # s => worker'[v] = worker[v]
    BY DEF Writing, LoopPcs
  <2>2. CASE worker[v].session = s
    BY <1>a, <2>1, <2>2
  <2>3. CASE worker[v].session # s
    BY <1>a, <2>1, <2>3 DEF LogOrderly, CallAtWork
  <2> QED
    BY <2>2, <2>3
<1>3. OwnAnswered'
  <2> SUFFICES ASSUME NEW v \in Workers, worker'[v].pc \in Writing \ {"spawned"},
                      NEW t \in Sessions, t = worker'[v].session,
                      NEW i \in 1 .. Len(log'[t]),
                      log'[t][i].kind = "call", log'[t][i].turn = worker'[v].id
               PROVE  \/ Answered(t, i)'
                      \/ worker'[v].pc = "tools" /\ i = Len(log'[t])
    BY DEF OwnAnswered, Answered
  <2>1. /\ worker[v].pc \in Writing \ {"spawned"}
        /\ worker[v].session = t /\ worker'[v].id = worker[v].id
    OBVIOUS
  <2>2. CASE t # s
    <3>1. worker'[v] = worker[v] /\ log'[t] = log[t]
      BY <1>a, <2>1, <2>2
    <3>2. Answered(t, i) \/ (worker[v].pc = "tools" /\ i = Len(log[t]))
      BY <2>1, <3>1 DEF LogOrderly, OwnAnswered
    <3> QED
      BY <3>1, <3>2 DEF Answered
  <2>3. CASE t = s /\ i = n + 1
    BY <1>a, <2>1, <2>3
  <2>4. CASE t = s /\ i \in 1 .. n
    <3>1. worker'[v].id = e.turn /\ log'[s][i] = log[s][i]
      BY <1>a, <2>1, <2>4
    <3>2. Answered(s, i) \/ (i = n /\ e = [log[s][i] EXCEPT !.kind = "result"])
      BY <2>4, <3>1 DEF n
    <3>3. Answered(s, i) => Answered(s, i)'
      BY <1>a, <2>4 DEF n
    <3>4. i = n /\ e = [log[s][i] EXCEPT !.kind = "result"] => Answered(s, i)'
      BY <1>a, <2>4, <3>1 DEF Answered
    <3> QED
      BY <2>4, <3>2, <3>3, <3>4
  <2> QED
    BY <1>i, <2>2, <2>3, <2>4
<1>4. SpanEndsLog'
  BY <1>a DEF LogOrderly, SpanEndsLog
<1>5. CallAnsweredNext'
  <2> SUFFICES ASSUME NEW t \in Sessions, NEW i \in 1 .. Len(log'[t]), log'[t][i].kind = "call"
               PROVE  \/ i = Len(log'[t])
                      \/ log'[t][i + 1] = [log'[t][i] EXCEPT !.kind = "result"]
                      \/ \A j \in (i + 1) .. Len(log'[t]) : log'[t][j].turn # log'[t][i].turn
    BY DEF CallAnsweredNext
  <2>1. CASE t # s
    <3>1. log'[t] = log[t]
      BY <1>a, <2>1
    <3>2. \/ i = Len(log[t])
          \/ log[t][i + 1] = [log[t][i] EXCEPT !.kind = "result"]
          \/ \A j \in (i + 1) .. Len(log[t]) : log[t][j].turn # log[t][i].turn
      BY <3>1 DEF LogOrderly, CallAnsweredNext
    <3> QED
      BY <3>1, <3>2
  <2>2. CASE t = s /\ i = n + 1
    BY <1>a, <2>2
  <2>3. CASE t = s /\ i \in 1 .. n
    <3>1. log'[s][i] = log[s][i]
      BY <1>a, <2>3
    <3>2. ASSUME Answered(s, i) \/ (i = n /\ e = [log[s][i] EXCEPT !.kind = "result"])
          PROVE  log'[s][i + 1] = [log'[s][i] EXCEPT !.kind = "result"]
      <4>1. CASE Answered(s, i)
        BY <1>a, <2>3, <4>1 DEF Answered, n
      <4>2. CASE i = n /\ e = [log[s][i] EXCEPT !.kind = "result"]
        BY <1>a, <3>1, <4>2
      <4> QED
        BY <3>2, <4>1, <4>2
    <3>3. CASE log[s][i].turn = e.turn
      BY <2>3, <3>1, <3>2, <3>3 DEF n
    <3>4. CASE log[s][i].turn # e.turn
      <4>1. \/ i = n
            \/ log[s][i + 1] = [log[s][i] EXCEPT !.kind = "result"]
            \/ \A j \in (i + 1) .. n : log[s][j].turn # log[s][i].turn
        BY <2>3, <3>1 DEF LogOrderly, CallAnsweredNext, n
      <4>2. \A j \in (i + 1) .. (n + 1) : j = n + 1 \/ (j \in (i + 1) .. n /\ j \in 1 .. n)
        BY <1>a, <2>3
      <4>3. CASE i = n
        BY <1>a, <2>3, <3>1, <3>4, <4>3
      <4>4. CASE i # n /\ log[s][i + 1] = [log[s][i] EXCEPT !.kind = "result"]
        <5>1. i + 1 \in 1 .. n
          BY <1>a, <2>3, <4>4
        <5> QED
          BY <1>a, <2>3, <3>1, <4>4, <5>1
      <4>5. CASE \A j \in (i + 1) .. n : log[s][j].turn # log[s][i].turn
        <5>1. ASSUME NEW j \in (i + 1) .. (n + 1) PROVE log'[s][j].turn # log[s][i].turn
          BY <1>a, <2>3, <3>4, <4>2, <4>5
        <5> QED
          BY <1>a, <2>3, <3>1, <5>1
      <4> QED
        BY <4>1, <4>3, <4>4, <4>5
    <3> QED
      BY <3>3, <3>4
  <2> QED
    BY <1>i, <2>1, <2>2, <2>3
<1>6. CompactionUnraced'
  <2>1. ASSUME NEW t \in Sessions, NEW i \in 1 .. Len(log'[t]), log'[t][i].kind = "compacted"
        PROVE  log'[t][i].n = i - 1
    <3>1. CASE t = s /\ i = n + 1
      BY <1>a, <2>1, <3>1 DEF n
    <3>2. CASE i \in 1 .. Len(log[t])
      BY <1>a, <2>1, <3>2 DEF LogOrderly, CompactionUnraced
    <3> QED
      BY <1>a, <1>i, <3>1, <3>2 DEF n
  <2> QED
    BY <2>1 DEF CompactionUnraced
<1> QED
  BY <1>1, <1>2, <1>3, <1>4, <1>5, <1>6 DEF LogOrderly

\* The other threads of the session do not write while one does.
LEMMA OthersSilent ==
  ASSUME IInv, Orderly, NEW w \in Workers, worker[w].pc \in Writing,
         NEW v \in Workers \ {w}, worker[v].pc \in Writing
  PROVE  worker[v].session # worker[w].session
BY DEF Orderly, EngagedAlone, Engaged, Working

\* A thread's own entry.
LEMMA LogOwn ==
  ASSUME IInv, Orderly, LogOrderly, NEW w \in Workers, Only(w),
         worker[w].pc \in Writing \ {"spawned"}, NEW e \in Entries,
         AppendTo(worker[w].session, e), nextTurnId' = nextTurnId, e.turn = worker[w].id,
         e.kind = "compacted" => e.n = Len(log[worker[w].session]),
         worker[w].pc = "tools" => e = Entry("result", worker[w].id, worker[w].round),
         worker'[w].pc = "tools" <=> e.kind = "call",
         worker'[w].pc = "tools" => e = Entry("call", worker'[w].id, worker'[w].round),
         worker'[w].id = worker[w].id,
         worker'[w].pc \notin {"spawned", "claimed", "compacting"}
  PROVE  LogOrderly'
<1> DEFINE s == worker[w].session
<1>0. /\ s \in Sessions /\ worker[w].id < nextTurnId /\ worker[w].id # NoTurn
      /\ \A v \in Workers : worker[v].session \in Sessions
  BY DEF IInv, TypeOK, IdsMintedOnce, IdIffRegistered, Unregistered, Writing, LoopPcs
<1>1. ASSUME NEW i \in 1 .. Len(log[s]), log[s][i].kind = "call", log[s][i].turn = e.turn
      PROVE  Answered(s, i) \/ (i = Len(log[s]) /\ e = [log[s][i] EXCEPT !.kind = "result"])
  <2>1. Answered(s, i) \/ (worker[w].pc = "tools" /\ i = Len(log[s]))
    BY <1>0, <1>1 DEF LogOrderly, OwnAnswered
  <2>2. ASSUME worker[w].pc = "tools", i = Len(log[s])
        PROVE  e = [log[s][i] EXCEPT !.kind = "result"]
    <3>1. log[s][i] = Entry("call", worker[w].id, worker[w].round)
      BY <2>2 DEF LogOrderly, CallAtWork
    <3> QED
      BY <2>2, <3>1 DEF Entry
  <2> QED
    BY <2>1, <2>2
<1>2. ASSUME NEW v \in Workers, worker'[v].pc \in Writing \ {"spawned"}
      PROVE  /\ worker[v].pc \in Writing \ {"spawned"}
             /\ worker'[v].session = worker[v].session /\ worker'[v].id = worker[v].id
             /\ worker[v].session \in Sessions
             /\ worker[v].session = s =>
                  /\ worker'[v].id = e.turn
                  /\ worker'[v].pc = "tools" <=> e.kind = "call"
                  /\ worker'[v].pc = "tools"
                       => e = Entry("call", worker'[v].id, worker'[v].round)
             /\ worker[v].session # s => worker'[v] = worker[v]
  <2>1. CASE v = w
    BY <1>0, <2>1 DEF Only
  <2>2. CASE v # w
    <3>1. worker'[v] = worker[v]
      BY <2>2 DEF Only
    <3>2. worker[v].session # s
      BY <1>2, <2>2, <3>1, OthersSilent
    <3> QED
      BY <1>0, <1>2, <3>1, <3>2
  <2> QED
    BY <2>1, <2>2
<1>3. ASSUME NEW v \in Workers, worker'[v].pc \in {"spawned", "claimed", "compacting"}
      PROVE  worker'[v] = worker[v] /\ worker[v].session \in Sessions \ {s}
  <2>1. v # w /\ worker'[v] = worker[v]
    BY <1>3 DEF Only
  <2>2. worker[v].pc \in Writing
    BY <1>3, <2>1 DEF Writing
  <2> QED
    BY <1>0, <2>1, <2>2, OthersSilent
<1> QED
  BY <1>0, <1>1, <1>2, <1>3, LogGrows

LEMMA ThreadSessions ==
  ASSUME IInv
  PROVE  /\ nextTurnId \in Nat /\ log \in [Sessions -> Seq(Entries)]
         /\ \A v \in Workers : /\ worker[v].session \in Sessions /\ worker[v].id \in Nat
                               /\ worker[v].round \in Nat /\ worker[v].seen \in Nat
BY DEF IInv, TypeOK

\* A thread's step that appends nothing.
LEMMA LogAlone ==
  ASSUME IInv, LogOrderly, NEW w \in Workers, Only(w), log' = log, TypeOK',
         nextTurnId <= nextTurnId', worker'[w].pc # "tools",
         worker'[w].pc \in Writing \ {"spawned"} =>
           \/ worker[w].pc \in Writing \ {"spawned", "tools"} /\ worker'[w].id = worker[w].id
           \/ worker'[w].id = nextTurnId,
         worker'[w].pc \in {"spawned", "claimed", "compacting"} =>
           /\ worker[w].pc \in {"spawned", "claimed", "compacting"}
           /\ worker'[w].seen = worker[w].seen
  PROVE  LogOrderly'
<1>0. /\ nextTurnId \in Nat /\ nextTurnId' \in Nat /\ log \in [Sessions -> Seq(Entries)]
      /\ \A v \in Workers : worker[v].session \in Sessions
  <2>1. nextTurnId' \in Nat
    BY DEF TypeOK
  <2>2. /\ nextTurnId \in Nat /\ log \in [Sessions -> Seq(Entries)]
        /\ \A v \in Workers : worker[v].session \in Sessions
    BY ThreadSessions
  <2> QED
    BY <2>1, <2>2
<1>1. ASSUME NEW v \in Workers
      PROVE  /\ worker'[v].pc = "tools" => worker'[v] = worker[v]
             /\ worker'[v].pc \in Writing \ {"spawned"} =>
                  /\ worker'[v].session = worker[v].session /\ worker[v].session \in Sessions
                  /\ \/ /\ worker[v].pc \in Writing \ {"spawned"}
                        /\ worker[v].pc = "tools" => worker'[v].pc = "tools"
                        /\ worker'[v].id = worker[v].id
                     \/ worker'[v].id = nextTurnId
             /\ worker'[v].kind = "compact"
                  /\ worker'[v].pc \in {"spawned", "claimed", "compacting"} =>
                  worker'[v].seen = Len(log[worker'[v].session])
  <2>1. CASE v = w
    BY <1>0, <2>1 DEF Only, LogOrderly, SpanEndsLog
  <2>2. CASE v # w
    BY <1>0, <2>2 DEF Only, LogOrderly, SpanEndsLog
  <2> QED
    BY <2>1, <2>2
<1> QED
  BY <1>0, <1>1, LogKept

LEMMA LogThread ==
  ASSUME ClientRule = "careful", IInv, TypeOK', Orderly, LogOrderly, NEW w \in Workers,
         WorkerStep(w) \/ Panic(w)
  PROVE  LogOrderly'
<1>0. /\ TypeOK /\ nextTurnId \in Nat /\ nextTurnId <= nextTurnId + 1
      /\ worker[w].session \in Sessions /\ worker[w].id \in Nat /\ worker[w].round \in Nat
      /\ worker[w].seen \in Nat
  BY ThreadSessions DEF IInv
<1>1. ASSUME NEW pc, Goto(w, pc)
      PROVE  /\ Only(w) /\ worker'[w].pc = pc /\ worker'[w].id = worker[w].id
             /\ worker'[w].seen = worker[w].seen /\ worker'[w].round = worker[w].round
  BY <1>0, <1>1, MovesOnly
<1>2. ASSUME NEW e \in Entries
      PROVE  e.kind \in {"user", "steer", "call", "result", "answer", "compacted"}
  BY DEF Entries
<1> USE DEF Writing, LoopPcs
<1>a. CASE Claim(w)
  <2>1. /\ Only(w) /\ worker'[w].id = nextTurnId /\ worker'[w].pc = "claimed"
        /\ worker'[w].seen = worker[w].seen
    BY <1>0, <1>a DEF Claim, Only, TypeOK
  <2>2. worker[w].pc = "spawned" /\ log' = log /\ nextTurnId' = nextTurnId + 1
    BY <1>a DEF Claim
  <2> QED
    BY <1>0, <2>1, <2>2, LogAlone
<1>b. CASE Count(w)
  <2>1. /\ worker[w].pc = "claimed" /\ log' = log /\ nextTurnId' = nextTurnId
        /\ Goto(w, IF worker[w].kind = "turn" THEN "composing" ELSE "compacting")
    BY <1>b DEF Count
  <2> QED
    BY <1>0, <1>1, <2>1, LogAlone
<1>c. CASE \/ Compose(w) \/ StreamEnds(w) \/ PublishStatus(w) \/ FinishRelease(w)
           \/ PublishEnded(w) \/ Autotitle(w) \/ Panic(w) \/ CompactFails(w)
           \/ DropRelease(w) \/ DropCount(w)
  <2>1. /\ log' = log /\ nextTurnId' = nextTurnId
        /\ \/ \E pc \in {"dropping", "settling", "finishing", "ending", "titling",
                         "uncounting", "done"} : Goto(w, pc)
           \/ /\ worker[w].pc \in {"composing", "streaming"}
              /\ \E pc \in {"starting", "answering", "calling"} : Goto(w, pc)
    BY <1>c DEF Compose, StreamEnds, PublishStatus, FinishRelease, PublishEnded, Autotitle,
                Panic, CompactFails, DropRelease, DropCount
  <2> QED
    BY <1>0, <1>1, <2>1, LogAlone
<1>d. CASE StartRound(w)
  <2>1. /\ Only(w) /\ worker'[w].pc = "streaming" /\ worker'[w].id = worker[w].id
    BY <1>0, <1>d DEF StartRound, Only, TypeOK
  <2>2. worker[w].pc = "starting" /\ log' = log /\ nextTurnId' = nextTurnId
    BY <1>d DEF StartRound
  <2> QED
    BY <1>0, <2>1, <2>2, LogAlone
<1>e. CASE AppendCalls(w)
  <2> DEFINE e == Entry("call", worker[w].id, worker[w].round)
  <2>1. /\ worker[w].pc = "calling" /\ nextTurnId' = nextTurnId
        /\ AppendTo(worker[w].session, e) /\ Goto(w, "tools")
    BY <1>e DEF AppendCalls
  <2>2. e \in Entries /\ e.turn = worker[w].id /\ e.kind = "call"
    BY <1>0 DEF Entry, Entries
  <2>3. /\ Only(w) /\ worker'[w].pc = "tools" /\ worker'[w].id = worker[w].id
        /\ e = Entry("call", worker'[w].id, worker'[w].round)
    BY <1>1, <2>1
  <2> HIDE DEF e
  <2> QED
    BY <2>1, <2>2, <2>3, LogOwn
<1>f. CASE AppendResults(w)
  <2> DEFINE e == Entry("result", worker[w].id, worker[w].round)
  <2>1. /\ worker[w].pc = "tools" /\ nextTurnId' = nextTurnId
        /\ AppendTo(worker[w].session, e) /\ Goto(w, "steering")
    BY <1>f DEF AppendResults
  <2>2. e \in Entries /\ e.turn = worker[w].id /\ e.kind = "result"
    BY <1>0 DEF Entry, Entries
  <2>3. /\ Only(w) /\ worker'[w].pc = "steering" /\ worker'[w].id = worker[w].id
        /\ e = Entry("result", worker[w].id, worker[w].round)
    BY <1>1, <2>1
  <2> HIDE DEF e
  <2> QED
    BY <2>1, <2>2, <2>3, LogOwn
<1>g. CASE AppendAnswer(w) \/ AppendFollowup(w)
  <2>1. PICK kind \in {"answer", "user"} :
          AppendTo(worker[w].session, Entry(kind, worker[w].id, worker[w].round))
    BY <1>g DEF AppendAnswer, AppendFollowup
  <2> DEFINE e == Entry(kind, worker[w].id, worker[w].round)
  <2>2. /\ worker[w].pc \in {"answering", "following"} /\ nextTurnId' = nextTurnId
        /\ \E pc \in {"settling", "following", "starting"} : Goto(w, pc)
    BY <1>g DEF AppendAnswer, AppendFollowup
  <2>3. /\ e \in Entries /\ e.turn = worker[w].id /\ e.kind \in {"answer", "user"}
        /\ AppendTo(worker[w].session, e)
    BY <1>0, <2>1 DEF Entry, Entries
  <2>4. /\ Only(w) /\ worker'[w].pc \in {"settling", "following", "starting"}
        /\ worker'[w].id = worker[w].id
    BY <1>1, <2>2
  <2> HIDE DEF e
  <2> QED
    BY <2>2, <2>3, <2>4, LogOwn
<1>h. CASE DrainSteering(w)
  <2>1. worker[w].pc = "steering" /\ log' = log /\ nextTurnId' = nextTurnId
    BY <1>h DEF DrainSteering
  <2>2. /\ Only(w) /\ worker'[w].pc \in {"settling", "injecting"}
        /\ worker'[w].id = worker[w].id
    <3>1. CASE worker[w].id \in cancelled
      BY <1>1, <1>h, <3>1 DEF DrainSteering
    <3>2. CASE worker[w].id \notin cancelled
      <4>1. worker' = [worker EXCEPT ![w] = [worker[w] EXCEPT
                         !.pc = "injecting", !.seen = pendingSteering[worker[w].session]]]
        BY <1>h, <3>2 DEF DrainSteering
      <4> QED
        BY <1>0, <4>1 DEF Only, TypeOK
    <3> QED
      BY <3>1, <3>2
  <2> QED
    BY <1>0, <2>1, <2>2, LogAlone
<1>i. CASE InjectSteering(w) /\ worker[w].seen = 0
  <2>1. /\ worker[w].pc = "injecting" /\ log' = log /\ nextTurnId' = nextTurnId
        /\ Goto(w, "starting")
    BY <1>i DEF InjectSteering
  <2> QED
    BY <1>0, <1>1, <2>1, LogAlone
<1>j. CASE InjectSteering(w) /\ worker[w].seen # 0
  <2> DEFINE e == Entry("steer", worker[w].id, 1)
  <2>1. /\ worker[w].pc = "injecting" /\ nextTurnId' = nextTurnId
        /\ AppendTo(worker[w].session, e)
        /\ worker' = [worker EXCEPT ![w] = [worker[w] EXCEPT !.seen = worker[w].seen - 1]]
    BY <1>j DEF InjectSteering
  <2>2. Only(w) /\ worker'[w].pc = "injecting" /\ worker'[w].id = worker[w].id
    BY <1>0, <2>1 DEF Only, TypeOK
  <2>3. e \in Entries /\ e.turn = worker[w].id /\ e.kind = "steer"
    BY <1>0 DEF Entry, Entries
  <2> HIDE DEF e
  <2> QED
    BY <2>1, <2>2, <2>3, LogOwn
<1>k. CASE FinishLook(w)
  <2>1. /\ log' = log /\ nextTurnId' = nextTurnId
        /\ worker'[w].pc \in {"ending", "releasing"} /\ Only(w)
    BY <1>0, <1>k DEF FinishLook, Only, TypeOK
  <2> QED
    BY <1>0, <2>1, LogAlone
<1>l. CASE CompactDone(w)
  <2> DEFINE e == Entry("compacted", worker[w].id, worker[w].seen)
  <2>1. /\ worker[w].pc = "compacting" /\ nextTurnId' = nextTurnId
        /\ AppendTo(worker[w].session, e) /\ Goto(w, "dropping")
    BY <1>l DEF CompactDone
  <2>2. Only(w) /\ worker'[w].pc = "dropping" /\ worker'[w].id = worker[w].id
    BY <1>1, <2>1
  <2>3. /\ e \in Entries /\ e.turn = worker[w].id /\ e.kind = "compacted"
        /\ e.n = worker[w].seen
    BY <1>0 DEF Entry, Entries
  <2>4. worker[w].seen = Len(log[worker[w].session])
    BY <2>1 DEF Orderly, KindFits, LogOrderly, SpanEndsLog
  <2> HIDE DEF e
  <2> QED
    BY <2>1, <2>2, <2>3, <2>4, LogOwn
<1> QED
  BY <1>a, <1>b, <1>c, <1>d, <1>e, <1>f, <1>g, <1>h, <1>i, <1>j, <1>k, <1>l
     DEF WorkerStep, LoopStep, EndStep

LEMMA LogRequest ==
  ASSUME ClientRule = "careful", IInv, Orderly, LogOrderly, RequestStep
  PROVE  LogOrderly'
<1> PICK r \in Requests :
      \/ \E s \in Sessions : PromptGate(r, s) \/ SteerGate(r, s) \/ CompactGate(r, s)
      \/ PromptAccept(r) \/ SteerQueue(r) \/ SteerAppend(r) \/ CompactAccept(r)
  BY DEF RequestStep
<1> DEFINE s == request[r].session
<1>0. /\ TypeOK /\ nextTurnId \in Nat /\ 0 < nextTurnId /\ s \in Sessions
      /\ log \in [Sessions -> Seq(Entries)]
      /\ \A v \in Workers : worker[v].session \in Sessions
  BY DEF IInv, TypeOK
<1>1. ASSUME log' = log, worker' = worker, nextTurnId' = nextTurnId PROVE LogOrderly'
  <2>1. \A v \in Workers : worker[v].kind = "compact"
            /\ worker[v].pc \in {"spawned", "claimed", "compacting"} =>
          worker[v].seen = Len(log[worker[v].session])
    BY DEF LogOrderly, SpanEndsLog
  <2> QED
    BY <1>0, <1>1, <2>1, LogKept
\* A message of a client: no thread of the session may write.
<1>2. ASSUME NEW kind \in {"user", "steer"}, AppendTo(s, Entry(kind, NoTurn, 0)),
             nextTurnId' = nextTurnId,
             \A v \in Workers : worker[v].pc \in Writing => worker[v].session # s,
             \A v \in Workers : \/ worker'[v] = worker[v]
                                \/ worker'[v].pc = "spawned" /\ worker'[v].kind = "turn"
      PROVE  LogOrderly'
  <2> DEFINE e == Entry(kind, NoTurn, 0)
  <2>1. /\ e \in Entries /\ e.turn = NoTurn /\ e.kind \in {"user", "steer"}
        /\ AppendTo(s, e)
    BY <1>2 DEF Entry, Entries
  <2>2. \A i \in 1 .. Len(log[s]) : log[s][i].kind = "call" => log[s][i].turn # NoTurn
    BY <1>0 DEF LogOrderly, EntriesKnown
  <2>3. \A v \in Workers : worker'[v].pc \in Writing \ {"spawned"} =>
          /\ worker'[v] = worker[v] /\ worker[v].pc \in Writing \ {"spawned"}
          /\ worker[v].session # s
    BY <1>2
  <2>4. \A v \in Workers :
          worker'[v].kind = "compact" /\ worker'[v].pc \in {"spawned", "claimed", "compacting"}
            => worker'[v] = worker[v] /\ worker[v].session # s
    <3>1. {"spawned", "claimed", "compacting"} \subseteq Writing
      BY DEF Writing
    <3> QED
      BY <1>2, <3>1
  <2> HIDE DEF e, s
  <2> QED
    BY <1>0, <1>2, <2>1, <2>2, <2>3, <2>4, LogGrows
<1>3. Accepted(r) => \A v \in Workers : worker[v].pc \in Writing => worker[v].session # s
  BY DEF Orderly, AcceptedAlone, Engaged, Working
<1>a. CASE PromptAccept(r)
  <2>1. /\ Accepted(r) /\ nextTurnId' = nextTurnId /\ AppendTo(s, Entry("user", NoTurn, 0))
        /\ Spawn("turn", s, NoTurn)
    BY <1>a DEF PromptAccept, Accepted
  <2>2. PICK w \in Workers : Spawned(w, s, "turn", NoTurn)
    BY <1>0, <2>1, SpawnEffect
  <2>3. \A v \in Workers : \/ worker'[v] = worker[v]
                           \/ worker'[v].pc = "spawned" /\ worker'[v].kind = "turn"
    BY <2>2 DEF Spawned
  <2> QED
    BY <1>2, <1>3, <2>1, <2>3
<1>b. CASE SteerAppend(r)
  <2>1. /\ request[r].pc = "passed" /\ request[r].op = "append" /\ worker' = worker
        /\ nextTurnId' = nextTurnId /\ AppendTo(s, Entry("steer", NoTurn, 0))
    BY <1>b DEF SteerAppend
  <2>2. \A v \in Workers : worker[v].pc \in Writing => worker[v].session # s
    BY <2>1 DEF Orderly, AppendsUnmixed
  <2> QED
    BY <1>2, <2>1, <2>2
<1>c. CASE CompactAccept(r) /\ worker' # worker
  <2>1. /\ nextTurnId' = nextTurnId /\ log' = log /\ Spawn("compact", s, Len(log[s]))
    BY <1>c DEF CompactAccept
  <2>2. PICK w \in Workers : Spawned(w, s, "compact", Len(log[s]))
    BY <1>0, <2>1, SpawnEffect
  <2>3. ASSUME NEW v \in Workers
        PROVE  \/ worker'[v] = worker[v]
               \/ /\ worker'[v].pc = "spawned" /\ worker'[v].session = s
                  /\ worker'[v].seen = Len(log[s])
    BY <2>2 DEF Spawned
  <2>4. \A v \in Workers : worker'[v].kind = "compact"
            /\ worker'[v].pc \in {"spawned", "claimed", "compacting"} =>
          worker'[v].seen = Len(log[worker'[v].session])
    BY <2>3 DEF LogOrderly, SpanEndsLog
  <2>5. \A v \in Workers :
          /\ worker'[v].pc = "tools" => worker'[v] = worker[v]
          /\ worker'[v].pc \in Writing \ {"spawned"} => worker'[v] = worker[v]
    BY <2>3
  <2> QED
    BY <1>0, <2>1, <2>4, <2>5, LogKept
<1> QED
  BY <1>1, <1>a, <1>b, <1>c
     DEF PromptGate, SteerGate, CompactGate, SteerQueue, CompactAccept

\* Whoever is told 409 is told so because of a compaction.
LEMMA RejectedForCompaction ==
  ASSUME ClientRule = "careful", IInv, Orderly, NoSpurious409, [Next]_vars
  PROVE  NoSpurious409'
<1>0. /\ request = [q \in Requests |-> request[q]]
  BY DEF IInv, TypeOK
<1>1. ASSUME NEW r \in Requests, NEW s \in Sessions, client[s] = "idle", is_turn_running(s)
      PROVE  "turn" \notin HolderKinds(s)
  <2> SUFFICES ASSUME NEW v \in Workers, worker[v].id = aborts[s], worker[v].kind = "turn"
               PROVE  FALSE
    BY DEF HolderKinds
  <2>1. PICK w \in Workers : Owns(w, s)
    BY <1>1 DEF IInv, SlotHasLiveOwner
  <2>2. v = w /\ worker[w].session = s /\ worker[w].id = aborts[s] /\ HoldsSlot(w)
    BY <1>1, <2>1 DEF Owns, IInv, IdsMintedOnce, is_turn_running
  <2>3. worker[w].pc \notin Working
    BY <1>1, <2>2 DEF Orderly, ClientWaits, Engaged
  <2>4. worker[w].pc \in {"titling", "dropping"}
    BY <2>2, <2>3 DEF HoldsSlot, CountedPcs, LoopPcs, TailPcs, Working, Writing
  <2>5. CASE worker[w].pc = "titling"
    BY <2>2, <2>5 DEF Orderly, KeepsSlot
  <2>6. CASE worker[w].pc = "dropping"
    BY <1>1, <2>2, <2>6 DEF Orderly, ClientWaits, Engaged, Fallen
  <2> QED
    BY <2>4, <2>5, <2>6
<1>2. ASSUME NEW r \in Requests, NEW s \in Sessions, PromptGate(r, s) \/ CompactGate(r, s)
      PROVE  NoSpurious409'
  <2>1. client[s] = "idle"
    BY <1>2, GateIsOpen DEF PromptGate, CompactGate, Arrive
  <2>2. CASE is_turn_running(s)
    <3>1. PICK op : Reject(r, s, op)
      BY <1>2, <2>2 DEF PromptGate, CompactGate
    <3>2. /\ request'[r].by = HolderKinds(s)
          /\ \A q \in Requests \ {r} : request'[q] = request[q]
      BY <1>0, <3>1 DEF Reject
    <3> QED
      BY <1>1, <2>1, <2>2, <3>2 DEF NoSpurious409
  <2>3. CASE ~is_turn_running(s)
    <3>1. PICK op : Pass(r, s, op)
      BY <1>2, <2>3 DEF PromptGate, CompactGate
    <3>2. request'[r].pc = "passed" /\ \A q \in Requests \ {r} : request'[q] = request[q]
      BY <1>0, <3>1 DEF Pass
    <3> QED
      BY <3>2 DEF NoSpurious409
  <2> QED
    BY <2>2, <2>3
<1>3. ASSUME NEW r \in Requests, NEW s \in Sessions, SteerGate(r, s) PROVE NoSpurious409'
  <2>1. request'[r].pc = "passed" /\ \A q \in Requests \ {r} : request'[q] = request[q]
    BY <1>0, <1>3 DEF SteerGate, Pass
  <2> QED
    BY <2>1 DEF NoSpurious409
<1>4. ASSUME NEW r \in Requests,
             PromptAccept(r) \/ SteerQueue(r) \/ SteerAppend(r) \/ CompactAccept(r)
      PROVE  NoSpurious409'
  <2>1. Finish(r)
    BY <1>4 DEF PromptAccept, SteerQueue, SteerAppend, CompactAccept
  <2>2. request \in [Requests -> [pc : {"new", "passed", "rejected", "done"},
                                  op : Ops, session : Sessions, by : SUBSET Kinds]]
    BY DEF IInv, TypeOK
  <2>3. request'[r].pc = "done" /\ \A q \in Requests \ {r} : request'[q] = request[q]
    BY <2>1, <2>2 DEF Finish
  <2> QED
    BY <2>3 DEF NoSpurious409
<1>5. ASSUME NEW w \in Workers, WorkerStep(w) \/ Panic(w) PROVE request' = request
  BY <1>5, CarefulSteps
     DEF Runs, Falls, Tells, Claim, FinishRelease, DropRelease, DropCount
<1>6. CASE (\E s \in Sessions : Abort(s)) \/ UNCHANGED vars
  BY <1>6 DEF Abort, vars, NoSpurious409
<1> QED
  BY <1>2, <1>3, <1>4, <1>5, <1>6, NextCases DEF RequestStep, NoSpurious409

LEMMA CInvInit == Init => CInv
<1> SUFFICES ASSUME Init PROVE CInv
  OBVIOUS
<1>0. /\ \A w \in Workers : worker[w].pc = "none" /\ worker[w].id = NoTurn
      /\ \A r \in Requests : request[r].pc = "new"
      /\ \A s \in Sessions : log[s] = <<>> /\ Len(log[s]) = 0
  BY DEF Init, NoWorker, NoRequest
<1>1. "none" \notin Working \cup Registered \cup TailPcs \cup LoopPcs \cup Writing
  BY DEF Working, Registered, Writing, LoopPcs, TailPcs
<1>2. Orderly
  BY <1>0, <1>1 DEF Orderly, OneRequest, AcceptedAlone, Accepted, EngagedAlone, Engaged,
                    Fallen, ClientWaits, AppendsUnmixed, KeepsSlot, KindFits
<1>3. LogOrderly
  BY <1>0, <1>1 DEF LogOrderly, EntriesKnown, CallAtWork, OwnAnswered, SpanEndsLog,
                    CallAnsweredNext, CompactionUnraced
<1> QED
  BY <1>0, <1>2, <1>3, IInvInit DEF CInv, NoSpurious409

LEMMA CInvStep == ClientRule = "careful" /\ CInv /\ [Next]_vars => CInv'
<1> SUFFICES ASSUME ClientRule = "careful", CInv, [Next]_vars PROVE CInv'
  OBVIOUS
<1>0. IInv /\ Orderly /\ LogOrderly /\ NoSpurious409
  BY DEF CInv
<1>1. IInv' /\ TypeOK'
  BY <1>0, IInvStep DEF IInv
<1>2. Orderly' /\ NoSpurious409'
  BY <1>0, OrderlyStep, RejectedForCompaction
<1>3. LogOrderly'
  <2>1. CASE RequestStep
    BY <1>0, <2>1, LogRequest
  <2>2. CASE (\E s \in Sessions : Abort(s)) \/ UNCHANGED vars
    BY <1>0, <2>2 DEF Abort, vars, LogOrderly, EntriesKnown, CallAtWork, OwnAnswered, Answered,
                      SpanEndsLog, CallAnsweredNext, CompactionUnraced
  <2>3. ASSUME NEW w \in Workers, WorkerStep(w) \/ Panic(w) PROVE LogOrderly'
    BY <1>0, <1>1, <2>3, LogThread
  <2> QED
    BY <2>1, <2>2, <2>3, NextCases
<1> QED
  BY <1>1, <1>2, <1>3 DEF CInv

-----------------------------------------------------------------------------
\* What the comments of the server promise the client they have in mind, for any number of
\* its sessions and of its requests.

\* A turn in its loop is the registered one: abort reaches it, a steer is queued for it.
THEOREM RunningTurnRegistered ==
  ASSUME ClientRule = "careful" PROVE Spec => []RunningTurnKnown
<1>1. CInv => RunningTurnKnown
  BY DEF CInv, Orderly, KeepsSlot, Registered, Writing, InLoop, LoopPcs, RunningTurnKnown
<1>2. CInv /\ [Next]_vars => CInv'
  BY CInvStep
<1> QED
  BY <1>1, <1>2, CInvInit, PTL DEF Spec

\* session.rs:328-330: no message comes between a tool call and its result.
THEOREM ResultFollowsCall ==
  ASSUME ClientRule = "careful" PROVE Spec => []CallAnsweredNext
<1>1. CInv => CallAnsweredNext
  BY DEF CInv, LogOrderly
<1>2. CInv /\ [Next]_vars => CInv'
  BY CInvStep
<1> QED
  BY <1>1, <1>2, CInvInit, PTL DEF Spec

\* react/turn.rs:84-89: to prompt the instant TurnEnded is seen is never refused for the
\* turn that has ended.
THEOREM PromptAfterEndPasses ==
  ASSUME ClientRule = "careful" PROVE Spec => []NoSpurious409
<1>1. CInv => NoSpurious409
  BY DEF CInv
<1>2. CInv /\ [Next]_vars => CInv'
  BY CInvStep
<1> QED
  BY <1>1, <1>2, CInvInit, PTL DEF Spec

\* The span of a compaction ends where the log does when it is appended.
THEOREM CompactionFindsLogAsPlanned ==
  ASSUME ClientRule = "careful" PROVE Spec => []CompactionUnraced
<1>1. CInv => CompactionUnraced
  BY DEF CInv, LogOrderly
<1>2. CInv /\ [Next]_vars => CInv'
  BY CInvStep
<1> QED
  BY <1>1, <1>2, CInvInit, PTL DEF Spec

\* bus.rs:141-143: a TurnFinishing releases its own turn's registration, and no other.
THEOREM FinishIsScoped ==
  ASSUME ClientRule = "careful" PROVE Spec => FinishReleasesOwn
<1>1. CInv /\ [Next]_vars =>
        [\A w \in Workers :
           FinishRelease(w) => aborts'[worker[w].session] # NoTurn
                               \/ aborts[worker[w].session] \in {NoTurn, worker[w].id}]_vars
  BY DEF CInv, Orderly, KeepsSlot, Registered, FinishRelease
<1>2. CInv /\ [Next]_vars => CInv'
  BY CInvStep
<1> QED
  BY <1>1, <1>2, CInvInit, PTL DEF Spec, FinishReleasesOwn
=============================================================================
