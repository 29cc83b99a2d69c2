-------------------------- MODULE SseAttach_proofs --------------------------
(* Proofs about SseAttach: a cursor is safe to resume from, a transient       *)
(* trails what it speaks of, and the stream implements EventStream.           *)
EXTENDS SseAttach, SequenceTheorems, TLAPS

(***************************************************************************)
(* What a client has been shown, what it has lost for good, and what is on  *)
(* its way to it: the frames of the prelude, then the ring.  An entry speaks *)
(* of everything up to its reach.  The invariant is that at every entry the  *)
(* client will know, from what comes before it, all that it speaks of; and    *)
(* that the whole covers what has been echoed, so that the next entry is in    *)
(* the same position.                                                       *)
(***************************************************************************)
Reach(e) == IF e.seq = 0 THEN e.after ELSE e.seq
Carried(s) == {s[i].seq : i \in 1..Len(s)}
Chain(K, s) ==
  \A i \in 1..Len(s) : 1..Reach(s[i]) \subseteq K \cup {s[j].seq : j \in 1..i}

Known(c) == {0} \cup have[c] \cup dropped[c]
Queued(c) == Known(c) \cup Carried(frames[c])
Attached(c) == stage[c] \in {"flush", "write", "live"}
Echoed == IF pending = {} THEN head ELSE head - 1

\* Nothing speaks of more than has been committed.
InLog(s) == \A i \in 1..Len(s) : s[i].seq \in 0..head /\ s[i].after \in 0..head
Bounded(c) ==
  /\ have[c] \subseteq 1..head /\ last[c] \in 0..head
  /\ from[c] \in 0..head /\ upto[c] \in 0..head
  /\ InLog(ring[c]) /\ InLog(frames[c])
  /\ stage[c] \notin {"flush", "write"} => frames[c] = <<>>

Covered(c) ==
  /\ 1..last[c] \subseteq Known(c) /\ 1..from[c] \subseteq Known(c)
  /\ Attached(c) => /\ 1..upto[c] \subseteq Queued(c)
                    /\ 1..Echoed \subseteq Queued(c) \cup Carried(ring[c])
                    /\ Chain(Known(c), frames[c])
                    /\ Chain(Queued(c), ring[c])

Prefix(c) == dropped[c] = {} => \E m \in 0..head : have[c] = 1..m

\* With one writer at a time, only the newest event can be without its echo.
OneUnechoed == pending = {} \/ pending = {head}

IInv == /\ TypeOK /\ OneUnechoed
        /\ \A c \in Clients : Bounded(c) /\ Covered(c) /\ Prefix(c)

\* ResumeSafe, with what it means while the prelude is put together.
Resumable(c) ==
  /\ stage[c] \in {"flush", "write", "live"} =>
       (from[c] + 1)..contiguous[c] \subseteq have[c] \cup Carried(frames[c])
  /\ stage[c] \in {"flush", "write"} /\ ~gap[c] =>
       Carried(frames[c]) \subseteq 0..contiguous[c]
  /\ stage[c] \notin {"flush", "write"} => frames[c] = <<>>
RInv == TypeOK /\ \A c \in Clients : Resumable(c)

-----------------------------------------------------------------------------
(* Queues of entries.                                                        *)

LEMMA EntryType ==
  ASSUME NEW e \in Entries
  PROVE  e.seq \in Nat /\ e.after \in Nat /\ Reach(e) \in Nat
BY AttachAssumption DEF Entries, Seqs, Reach

LEMMA TailEntries ==
  ASSUME NEW s \in Seq(Entries), s # <<>>
  PROVE  /\ Head(s) = s[1] /\ Head(s) \in Entries
         /\ Tail(s) \in Seq(Entries) /\ Len(Tail(s)) = Len(s) - 1
         /\ Len(s) \in Nat \ {0}
         /\ \A i \in 1..Len(Tail(s)) : i + 1 \in 1..Len(s) /\ Tail(s)[i] = s[i + 1]
OBVIOUS

LEMMA AppendEntries ==
  ASSUME NEW s \in Seq(Entries), NEW e \in Entries
  PROVE  /\ Append(s, e) \in Seq(Entries)
         /\ Len(s) \in Nat /\ Len(Append(s, e)) = Len(s) + 1
         /\ \A i \in 1..Len(s) : Append(s, e)[i] = s[i]
         /\ Append(s, e)[Len(s) + 1] = e
OBVIOUS

LEMMA CarriedTail ==
  ASSUME NEW s \in Seq(Entries), s # <<>>
  PROVE  Carried(s) = {Head(s).seq} \cup Carried(Tail(s))
<1>1. ASSUME NEW i \in 1..Len(s) PROVE s[i].seq \in {Head(s).seq} \cup Carried(Tail(s))
  <2>1. CASE i = 1
    BY <2>1, TailEntries
  <2>2. CASE i # 1
    <3>1. i - 1 \in 1..Len(Tail(s)) /\ Tail(s)[i - 1] = s[i]
      BY <2>2, TailEntries
    <3> QED
      BY <3>1 DEF Carried
  <2> QED
    BY <2>1, <2>2
<1>2. ASSUME NEW i \in 1..Len(Tail(s)) PROVE Tail(s)[i].seq \in Carried(s)
  BY TailEntries DEF Carried
<1>3. Head(s).seq \in Carried(s)
  BY TailEntries DEF Carried
<1> QED
  BY <1>1, <1>2, <1>3 DEF Carried

LEMMA CarriedAppend ==
  ASSUME NEW s \in Seq(Entries), NEW e \in Entries
  PROVE  Carried(Append(s, e)) = Carried(s) \cup {e.seq}
<1>1. ASSUME NEW i \in 1..Len(Append(s, e)) PROVE Append(s, e)[i].seq \in Carried(s) \cup {e.seq}
  BY AppendEntries DEF Carried
<1>2. ASSUME NEW i \in 1..Len(s) PROVE s[i].seq \in Carried(Append(s, e))
  BY AppendEntries DEF Carried
<1>3. e.seq \in Carried(Append(s, e))
  BY AppendEntries DEF Carried
<1> QED
  BY <1>1, <1>2, <1>3 DEF Carried

LEMMA ChainMono ==
  ASSUME NEW s, NEW K, NEW L, K \subseteq L, Chain(K, s)
  PROVE  Chain(L, s)
BY DEF Chain

\* Whoever knows the head's event has the rest of the queue in order.
LEMMA ChainTail ==
  ASSUME NEW s \in Seq(Entries), s # <<>>, NEW K, Chain(K, s), Head(s).seq \in K
  PROVE  1..Reach(Head(s)) \subseteq K /\ Chain(K, Tail(s))
<1>1. 1..Reach(Head(s)) \subseteq K
  <2>1. 1..Reach(s[1]) \subseteq K \cup {s[j].seq : j \in 1..1}
    BY TailEntries DEF Chain
  <2> QED
    BY <2>1, TailEntries
<1>2. ASSUME NEW i \in 1..Len(Tail(s)), NEW q \in 1..Reach(Tail(s)[i])
      PROVE  q \in K \cup {Tail(s)[j].seq : j \in 1..i}
  <2>1. i + 1 \in 1..Len(s) /\ Tail(s)[i] = s[i + 1]
    BY TailEntries
  <2>2. q \in K \cup {s[j].seq : j \in 1..(i + 1)}
    BY <2>1 DEF Chain
  <2>3. CASE q \in K
    BY <2>3
  <2>4. CASE \E j \in 1..(i + 1) : q = s[j].seq
    <3>1. PICK j \in 1..(i + 1) : q = s[j].seq
      BY <2>4
    <3>2. CASE j = 1
      BY <3>1, <3>2, TailEntries
    <3>3. CASE j # 1
      <4>1. j - 1 \in 1..i /\ j - 1 \in 1..Len(Tail(s)) /\ Tail(s)[j - 1] = s[j]
        BY <3>3, TailEntries
      <4> QED
        BY <3>1, <4>1
    <3> QED
      BY <3>2, <3>3
  <2> QED
    BY <2>2, <2>3, <2>4
<1> QED
  BY <1>1, <1>2 DEF Chain

LEMMA ChainAppend ==
  ASSUME NEW s \in Seq(Entries), NEW e \in Entries, NEW K, Chain(K, s),
         1..Reach(e) \subseteq K \cup Carried(s) \cup {e.seq}
  PROVE  Chain(K, Append(s, e))
<1>1. ASSUME NEW i \in 1..Len(Append(s, e)), NEW q \in 1..Reach(Append(s, e)[i])
      PROVE  q \in K \cup {Append(s, e)[j].seq : j \in 1..i}
  <2>1. CASE i = Len(s) + 1
    <3>1. q \in K \cup Carried(s) \cup {e.seq}
      BY <2>1, AppendEntries
    <3>2. ASSUME q \in Carried(s) PROVE \E j \in 1..i : q = Append(s, e)[j].seq
      BY <2>1, <3>2, AppendEntries DEF Carried
    <3>3. Append(s, e)[i] = e
      BY <2>1, AppendEntries
    <3>4. i \in 1..i
      BY <2>1, AppendEntries
    <3> QED
      BY <3>1, <3>2, <3>3, <3>4
  <2>2. CASE i # Len(s) + 1
    <3>1. i \in 1..Len(s) /\ Append(s, e)[i] = s[i]
      BY <2>2, AppendEntries
    <3>2. q \in K \cup {s[j].seq : j \in 1..i}
      BY <3>1 DEF Chain
    <3>3. \A j \in 1..i : Append(s, e)[j] = s[j]
      BY <3>1, AppendEntries
    <3> QED
      BY <3>2, <3>3
  <2> QED
    BY <2>1, <2>2
<1> QED
  BY <1>1 DEF Chain

LEMMA PushedType ==
  ASSUME NEW s \in Seq(Entries), NEW e \in Entries, Len(s) <= Capacity
  PROVE  Pushed(s, e) \in Seq(Entries) /\ Len(Pushed(s, e)) <= Capacity
<1>1. CASE Len(s) = Capacity
  <2>1. s # <<>>
    BY <1>1, AttachAssumption
  <2>2. Tail(s) \in Seq(Entries) /\ Len(Tail(s)) = Capacity - 1
    BY <1>1, <2>1, TailEntries
  <2> QED
    BY <1>1, <2>2, AppendEntries, AttachAssumption DEF Pushed
<1>2. CASE Len(s) # Capacity
  BY <1>2, AppendEntries, AttachAssumption DEF Pushed
<1> QED
  BY <1>1, <1>2

\* A push: who knows the event that it evicts knows what every entry left speaks of.
LEMMA PushedChain ==
  ASSUME NEW s \in Seq(Entries), NEW e \in Entries, NEW K, NEW L, K \subseteq L,
         Chain(K, s), 1..Reach(e) \subseteq K \cup Carried(s) \cup {e.seq},
         Len(s) = Capacity => Head(s).seq \in L
  PROVE  /\ Chain(L, Pushed(s, e))
         /\ Carried(s) \cup {e.seq} \subseteq L \cup Carried(Pushed(s, e))
<1>1. Chain(L, s)
  BY ChainMono
<1>2. CASE Len(s) = Capacity
  <2>1. s # <<>>
    BY <1>2, AttachAssumption
  <2>2. Tail(s) \in Seq(Entries)
    BY <2>1, TailEntries
  <2>3. Chain(L, Tail(s))
    BY <1>1, <1>2, <2>1, ChainTail
  <2>4. Carried(s) \subseteq L \cup Carried(Tail(s))
    BY <1>2, <2>1, CarriedTail
  <2>5. 1..Reach(e) \subseteq L \cup Carried(Tail(s)) \cup {e.seq}
    BY <2>4
  <2>6. Chain(L, Append(Tail(s), e))
    BY <2>2, <2>3, <2>5, ChainAppend
  <2>7. Carried(Append(Tail(s), e)) = Carried(Tail(s)) \cup {e.seq}
    BY <2>2, CarriedAppend
  <2>8. Pushed(s, e) = Append(Tail(s), e)
    BY <1>2 DEF Pushed
  <2> QED
    BY <2>4, <2>6, <2>7, <2>8
<1>3. CASE Len(s) # Capacity
  <2>1. 1..Reach(e) \subseteq L \cup Carried(s) \cup {e.seq}
    OBVIOUS
  <2> QED
    BY <1>1, <1>3, <2>1, ChainAppend, CarriedAppend DEF Pushed
<1> QED
  BY <1>2, <1>3

LEMMA InLogTail ==
  ASSUME NEW s \in Seq(Entries), s # <<>>, InLog(s)
  PROVE  InLog(Tail(s)) /\ Head(s).seq \in 0..head /\ Head(s).after \in 0..head
BY TailEntries DEF InLog

LEMMA InLogAppend ==
  ASSUME NEW s \in Seq(Entries), NEW e \in Entries, InLog(s),
         e.seq \in 0..head, e.after \in 0..head
  PROVE  InLog(Append(s, e))
BY AppendEntries DEF InLog

LEMMA InLogPushed ==
  ASSUME NEW s \in Seq(Entries), NEW e \in Entries, InLog(s),
         e.seq \in 0..head, e.after \in 0..head
  PROVE  InLog(Pushed(s, e))
<1>1. CASE Len(s) = Capacity
  <2>1. s # <<>>
    BY <1>1, AttachAssumption
  <2> QED
    BY <1>1, <2>1, TailEntries, InLogTail, InLogAppend DEF Pushed
<1>2. CASE Len(s) # Capacity
  BY <1>2, InLogAppend DEF Pushed
<1> QED
  BY <1>1, <1>2

-----------------------------------------------------------------------------
(* Type correctness.                                                         *)

LEMMA DurableType == ASSUME NEW q \in Seqs PROVE Durable(q) \in Entries
BY AttachAssumption DEF Durable, Entries, Seqs

LEMMA TransientType == ASSUME NEW k \in Seqs PROVE Transient(k) \in Entries
BY AttachAssumption DEF Transient, Entries, Seqs

LEMMA PublishType ==
  ASSUME TypeOK, NEW e \in Entries, publish(e)
  PROVE  /\ ring' \in [Clients -> Seq(Entries)]
         /\ \A c \in Clients : Len(ring'[c]) <= Capacity
         /\ dropped' \in [Clients -> SUBSET Seqs]
<1>1. ASSUME NEW c \in Clients
      PROVE  ring'[c] \in Seq(Entries) /\ Len(ring'[c]) <= Capacity
  BY PushedType DEF TypeOK, publish
<1>2. ASSUME NEW c \in Clients PROVE Evicted(c) \subseteq Seqs
  <2>1. CASE Len(ring[c]) = Capacity
    <3>1. ring[c] \in Seq(Entries) /\ ring[c] # <<>>
      BY <2>1, AttachAssumption DEF TypeOK
    <3>2. Head(ring[c]) \in Entries
      BY <3>1, TailEntries
    <3> QED
      BY <3>2 DEF Evicted, Entries
  <2>2. CASE Len(ring[c]) # Capacity
    BY <2>2 DEF Evicted
  <2> QED
    BY <2>1, <2>2
<1> QED
  BY <1>1, <1>2 DEF publish, TypeOK

LEMMA ShowType ==
  ASSUME TypeOK, NEW c \in Clients, NEW e \in Entries, Show(c, e)
  PROVE  /\ have' \in [Clients -> SUBSET Seqs] /\ last' \in [Clients -> Seqs]
         /\ sent' \in [Clients -> Seq(Seqs)]
<1>1. CASE e.seq = 0
  BY <1>1 DEF Show, client, TypeOK
<1>2. CASE e.seq # 0
  <2>1. e.seq \in Seqs
    BY DEF Entries
  <2>2. Append(sent[c], e.seq) \in Seq(Seqs)
    BY <2>1 DEF TypeOK
  <2>3. have[c] \cup {e.seq} \in SUBSET Seqs
    BY <2>1 DEF TypeOK
  <2>4. sent' = [sent EXCEPT ![c] = Append(sent[c], e.seq)]
    BY <1>2 DEF Show
  <2>5. have' = [have EXCEPT ![c] = have[c] \cup {e.seq}] /\ last' = [last EXCEPT ![c] = e.seq]
    BY <1>2 DEF Show
  <2>6. sent' \in [Clients -> Seq(Seqs)]
    BY <2>2, <2>4 DEF TypeOK
  <2> QED
    BY <2>1, <2>3, <2>5, <2>6 DEF TypeOK
<1> QED
  BY <1>1, <1>2

LEMMA BacklogType ==
  ASSUME TypeOK, NEW c \in Clients
  PROVE  Backlog(c) \in Seq(Entries)
<1>1. head \in 0..MaxEvents /\ from[c] \in 0..MaxEvents /\ MaxEvents \in Nat
  BY AttachAssumption DEF TypeOK, Seqs
<1>2. PICK n \in Nat : 1..(head - from[c]) = 1..n /\ \A i \in 1..n : from[c] + i <= head
  <2>1. CASE from[c] <= head
    <3>1. head - from[c] \in Nat
      BY <1>1, <2>1
    <3> QED
      BY <1>1, <3>1
  <2>2. CASE from[c] > head
    <3>1. 1..(head - from[c]) = 1..0 /\ 0 \in Nat
      BY <1>1, <2>2
    <3>2. \A i \in 1..0 : from[c] + i <= head
      OBVIOUS
    <3> QED
      BY <3>1, <3>2
  <2> QED
    BY <1>1, <2>1, <2>2
<1>3. ASSUME NEW i \in 1..n PROVE Durable(from[c] + i) \in Entries
  BY <1>1, <1>2, DurableType DEF Seqs
<1>4. Backlog(c) = [i \in 1..n |-> Durable(from[c] + i)]
  BY <1>2 DEF Backlog
<1> QED
  BY <1>3, <1>4, IsASeq

LEMMA TypeStep == TypeOK /\ [Next]_vars => TypeOK'
<1> SUFFICES ASSUME TypeOK, [Next]_vars PROVE TypeOK'
  OBVIOUS
<1> USE DEF server, client
<1>0. /\ MaxEvents \in Nat /\ MaxTransients \in Nat /\ MaxConnects \in Nat
      /\ head \in 0..MaxEvents
  BY AttachAssumption DEF TypeOK, Seqs
<1>1. CASE Commit
  BY <1>0, <1>1 DEF Commit, TypeOK, Seqs
<1>2. CASE Echo
  <2>1. PICK q \in pending : publish(Durable(q)) /\ pending' = pending \ {q}
    BY <1>2 DEF Echo
  <2>2. q \in Seqs
    BY <1>0, <2>1 DEF TypeOK, Seqs
  <2> QED
    BY <1>2, <2>1, <2>2, DurableType, PublishType DEF Echo, TypeOK
<1>3. CASE Emit
  <2>1. Transient(head) \in Entries
    BY TransientType DEF TypeOK
  <2> QED
    BY <1>0, <1>3, <2>1, PublishType DEF Emit, TypeOK
<1>4. ASSUME NEW c \in Clients, EnterSession(c) PROVE TypeOK'
  BY <1>0, <1>4 DEF EnterSession, TypeOK, Seqs
<1>5. ASSUME NEW c \in Clients, Subscribe(c) PROVE TypeOK'
  BY <1>0, <1>5, AttachAssumption DEF Subscribe, TypeOK
<1>6. ASSUME NEW c \in Clients, ReadBacklog(c) PROVE TypeOK'
  <2>1. Backlog(c) \in Seq(Entries)
    BY BacklogType
  <2> QED
    BY <1>0, <1>6, <2>1 DEF ReadBacklog, TypeOK
<1>7. ASSUME NEW c \in Clients, FlushOne(c) PROVE TypeOK'
  <2>1. /\ ring[c] \in Seq(Entries) /\ ring[c] # <<>> /\ Head(ring[c]) \in Entries
        /\ Tail(ring[c]) \in Seq(Entries) /\ Len(Tail(ring[c])) = Len(ring[c]) - 1
    BY <1>7, TailEntries DEF FlushOne, TypeOK
  <2>2. Append(frames[c], Head(ring[c])) \in Seq(Entries)
    BY <2>1, AppendEntries DEF TypeOK
  <2>3. /\ ring' \in [Clients -> Seq(Entries)]
        /\ \A d \in Clients : Len(ring'[d]) <= Capacity
    BY <1>7, <2>1, AttachAssumption DEF FlushOne, TypeOK
  <2>4. /\ frames' \in [Clients -> Seq(Entries)]
        /\ contiguous' \in [Clients -> Seqs] /\ gap' \in [Clients -> BOOLEAN]
    <3>1. Through(c, Head(ring[c])) \in Seqs
      BY <2>1 DEF Through, Entries, TypeOK
    <3>2. (Head(ring[c]).seq > contiguous[c] + 1) \in BOOLEAN
      OBVIOUS
    <3>3. CASE Fresh(c, Head(ring[c]))
      <4>1. frames' \in [Clients -> Seq(Entries)] /\ contiguous' \in [Clients -> Seqs]
        BY <1>7, <2>2, <3>1, <3>3 DEF FlushOne, TypeOK
      <4>2. gap' \in [Clients -> BOOLEAN]
        <5>1. gap' = [gap EXCEPT ![c] = gap[c] \/ Head(ring[c]).seq > contiguous[c] + 1]
          BY <1>7, <3>3 DEF FlushOne
        <5>2. (gap[c] \/ Head(ring[c]).seq > contiguous[c] + 1) \in BOOLEAN
          BY <3>2 DEF TypeOK
        <5> QED
          BY <5>1, <5>2, Zenon DEF TypeOK
      <4> QED
        BY <4>1, <4>2
    <3>4. CASE ~Fresh(c, Head(ring[c]))
      BY <1>7, <3>4 DEF FlushOne, TypeOK
    <3> QED
      BY <3>3, <3>4
  <2> QED
    BY <1>7, <2>3, <2>4 DEF FlushOne, TypeOK
<1>8. ASSUME NEW c \in Clients, FlushDone(c) PROVE TypeOK'
  BY <1>8 DEF FlushDone, TypeOK
<1>9. ASSUME NEW c \in Clients, WriteFrame(c) PROVE TypeOK'
  <2>1. Head(frames[c]) \in Entries /\ Tail(frames[c]) \in Seq(Entries)
    BY <1>9, TailEntries DEF WriteFrame, TypeOK
  <2>2. /\ have' \in [Clients -> SUBSET Seqs] /\ last' \in [Clients -> Seqs]
        /\ sent' \in [Clients -> Seq(Seqs)]
    BY <1>9, <2>1, ShowType DEF WriteFrame
  <2> QED
    BY <1>9, <2>1, <2>2 DEF WriteFrame, TypeOK
<1>10. ASSUME NEW c \in Clients, GoLive(c) PROVE TypeOK'
  BY <1>10 DEF GoLive, TypeOK
<1>11. ASSUME NEW c \in Clients, Forward(c) PROVE TypeOK'
  <2>1. /\ Head(ring[c]) \in Entries /\ Tail(ring[c]) \in Seq(Entries)
        /\ Len(Tail(ring[c])) = Len(ring[c]) - 1 /\ Len(ring[c]) \in Nat
    BY <1>11, TailEntries DEF Forward, TypeOK
  <2>2. /\ have' \in [Clients -> SUBSET Seqs] /\ last' \in [Clients -> Seqs]
        /\ sent' \in [Clients -> Seq(Seqs)]
    BY <1>11, <2>1, ShowType DEF Forward
  <2>3. /\ ring' \in [Clients -> Seq(Entries)]
        /\ \A d \in Clients : Len(ring'[d]) <= Capacity
    BY <1>11, <2>1, AttachAssumption DEF Forward, TypeOK
  <2> QED
    BY <1>11, <2>2, <2>3 DEF Forward, TypeOK
<1>12. ASSUME NEW c \in Clients, Disconnect(c) PROVE TypeOK'
  BY <1>12, AttachAssumption DEF Disconnect, TypeOK
<1>13. CASE UNCHANGED vars
  BY <1>13 DEF vars, TypeOK
<1> QED
  BY <1>1, <1>2, <1>3, <1>4, <1>5, <1>6, <1>7, <1>8, <1>9, <1>10, <1>11, <1>12, <1>13
     DEF Next, StreamStep

THEOREM TypeCorrect == Spec => []TypeOK
<1>1. Init => TypeOK
  BY AttachAssumption DEF Init, TypeOK, Seqs
<1> QED
  BY <1>1, TypeStep, PTL DEF Spec

-----------------------------------------------------------------------------
(* ResumeSafe, whoever writes to the session.                                *)

LEMMA CarriedType ==
  ASSUME NEW s \in Seq(Entries)
  PROVE  Carried(s) \subseteq Nat
BY EntryType DEF Carried

LEMMA CarriedBacklog ==
  ASSUME TypeOK, NEW c \in Clients
  PROVE  Carried(Backlog(c)) = (from[c] + 1)..head
<1>1. head \in Nat /\ from[c] \in Nat
  BY AttachAssumption DEF TypeOK, Seqs
<1>2. CASE from[c] <= head
  <2> DEFINE n == head - from[c]
  <2>1. n \in Nat
    BY <1>1, <1>2
  <2>2. Len(Backlog(c)) = n /\ \A i \in 1..n : Backlog(c)[i].seq = from[c] + i
    BY <1>1, <2>1 DEF Backlog, Durable
  <2>3. ASSUME NEW q \in (from[c] + 1)..head PROVE q \in Carried(Backlog(c))
    <3>1. q - from[c] \in 1..n /\ q = from[c] + (q - from[c])
      BY <1>1, <1>2
    <3> QED
      BY <2>2, <3>1 DEF Carried
  <2>4. ASSUME NEW i \in 1..n PROVE Backlog(c)[i].seq \in (from[c] + 1)..head
    BY <1>1, <2>2, <2>4
  <2> QED
    BY <2>2, <2>3, <2>4 DEF Carried
<1>3. CASE from[c] > head
  <2>1. Backlog(c) = [i \in 1..0 |-> Durable(from[c] + i)]
    BY <1>1, <1>3 DEF Backlog
  <2>2. Len(Backlog(c)) = 0
    BY <2>1
  <2>3. (from[c] + 1)..head = {}
    BY <1>1, <1>3
  <2> QED
    BY <2>2, <2>3 DEF Carried
<1> QED
  BY <1>1, <1>2, <1>3

LEMMA ResumableUnmoved ==
  ASSUME NEW d \in Clients, Resumable(d), stage'[d] = stage[d], from'[d] = from[d],
         contiguous'[d] = contiguous[d], gap'[d] = gap[d], have'[d] = have[d],
         frames'[d] = frames[d]
  PROVE  Resumable(d)'
BY DEF Resumable, Carried

LEMMA ResumableStep == RInv /\ [Next]_vars => RInv'
<1> SUFFICES ASSUME RInv, [Next]_vars PROVE RInv'
  OBVIOUS
<1> USE DEF server, client
<1>0. TypeOK /\ TypeOK'
  BY TypeStep DEF RInv
<1> SUFFICES ASSUME NEW d \in Clients PROVE Resumable(d)'
  BY <1>0 DEF RInv
<1>r. Resumable(d)
  BY DEF RInv
<1>1. CASE Commit \/ Echo \/ Emit
  BY <1>r, <1>1, ResumableUnmoved DEF Commit, Echo, Emit
<1>2. ASSUME NEW c \in Clients, c # d,
             \/ EnterSession(c) \/ Subscribe(c) \/ StreamStep(c) \/ Disconnect(c)
      PROVE  Resumable(d)'
  <2>1. /\ stage'[d] = stage[d] /\ from'[d] = from[d] /\ contiguous'[d] = contiguous[d]
        /\ gap'[d] = gap[d] /\ have'[d] = have[d] /\ frames'[d] = frames[d]
    <3>1. CASE EnterSession(c) \/ Subscribe(c) \/ Disconnect(c)
      BY <1>0, <1>2, <3>1 DEF EnterSession, Subscribe, Disconnect, TypeOK
    <3>2. CASE ReadBacklog(c) \/ FlushDone(c) \/ GoLive(c)
      BY <1>0, <1>2, <3>2 DEF ReadBacklog, FlushDone, GoLive, TypeOK
    <3>3. CASE FlushOne(c)
      BY <1>0, <1>2, <3>3 DEF FlushOne, TypeOK
    <3>4. CASE WriteFrame(c)
      BY <1>0, <1>2, <3>4 DEF WriteFrame, Show, TypeOK
    <3>5. CASE Forward(c)
      BY <1>0, <1>2, <3>5 DEF Forward, Show, TypeOK
    <3> QED
      BY <1>2, <3>1, <3>2, <3>3, <3>4, <3>5 DEF StreamStep
  <2> QED
    BY <1>r, <2>1, ResumableUnmoved
<1>3. CASE EnterSession(d)
  BY <1>0, <1>r, <1>3 DEF EnterSession, Resumable, TypeOK
<1>4. CASE Subscribe(d)
  BY <1>0, <1>r, <1>4 DEF Subscribe, Resumable, TypeOK
<1>5. CASE ReadBacklog(d)
  <2>1. /\ stage'[d] = "flush" /\ from'[d] = from[d] /\ contiguous'[d] = head
        /\ frames'[d] = Backlog(d)
    BY <1>0, <1>5 DEF ReadBacklog, TypeOK
  <2>2. Carried(frames[d])' = (from[d] + 1)..head
    BY <1>0, <2>1, CarriedBacklog DEF Carried
  <2>3. head \in Nat /\ from[d] \in Nat
    BY <1>0, AttachAssumption DEF TypeOK, Seqs
  <2> QED
    BY <2>1, <2>2, <2>3 DEF Resumable
<1>6. CASE FlushOne(d)
  <2> DEFINE e == Head(ring[d])
  <2>1. /\ ring[d] \in Seq(Entries) /\ ring[d] # <<>> /\ e \in Entries /\ e.seq \in Nat
        /\ frames[d] \in Seq(Entries) /\ contiguous[d] \in Nat /\ from[d] \in Nat
    BY <1>0, <1>6, TailEntries, EntryType, AttachAssumption DEF FlushOne, TypeOK, Seqs
  <2>2. /\ stage[d] = "flush" /\ stage'[d] = "flush" /\ from'[d] = from[d]
        /\ have'[d] = have[d]
    BY <1>6 DEF FlushOne
  <2>3. CASE Fresh(d, e)
    <3>1. /\ frames'[d] = Append(frames[d], e) /\ contiguous'[d] = Through(d, e)
          /\ gap'[d] = (gap[d] \/ e.seq > contiguous[d] + 1)
      BY <1>0, <1>6, <2>3 DEF FlushOne, TypeOK
    <3>2. Carried(frames[d])' = Carried(frames[d]) \cup {e.seq}
      BY <2>1, <3>1, CarriedAppend DEF Carried
    <3>3. (from[d] + 1)..contiguous'[d] \subseteq have[d] \cup Carried(frames[d]) \cup {e.seq}
      BY <1>r, <2>1, <2>2, <3>1 DEF Resumable, Through
    <3>4. ASSUME ~gap'[d] PROVE Carried(frames[d])' \subseteq 0..contiguous'[d]
      <4>1. ~gap[d] /\ ~(e.seq > contiguous[d] + 1)
        BY <3>1, <3>4
      <4>2. Carried(frames[d]) \subseteq 0..contiguous[d]
        BY <1>r, <2>2, <4>1 DEF Resumable
      <4>3. e.seq \in 0..contiguous'[d] /\ 0..contiguous[d] \subseteq 0..contiguous'[d]
        BY <2>1, <3>1, <4>1 DEF Through
      <4> QED
        BY <3>2, <4>2, <4>3
    <3> QED
      BY <2>2, <3>2, <3>3, <3>4 DEF Resumable
  <2>4. CASE ~Fresh(d, e)
    BY <1>r, <1>6, <2>4, ResumableUnmoved DEF FlushOne
  <2> QED
    BY <2>3, <2>4
<1>7. CASE FlushDone(d)
  BY <1>0, <1>r, <1>7 DEF FlushDone, Resumable, TypeOK, Carried
<1>8. CASE WriteFrame(d)
  <2>1. /\ frames[d] \in Seq(Entries) /\ frames[d] # <<>> /\ have[d] \subseteq Nat
    BY <1>0, <1>8, AttachAssumption DEF WriteFrame, TypeOK, Seqs
  <2>2. Carried(frames[d]) = {Head(frames[d]).seq} \cup Carried(frames[d])'
    <3>1. frames'[d] = Tail(frames[d])
      BY <1>0, <1>8 DEF WriteFrame, TypeOK
    <3>2. Carried(frames[d])' = Carried(Tail(frames[d]))
      BY <3>1 DEF Carried
    <3> QED
      BY <2>1, <3>2, CarriedTail
  <2>3. have'[d] \cup {0} = have[d] \cup {0, Head(frames[d]).seq}
    BY <1>0, <1>8 DEF WriteFrame, Show, TypeOK
  <2>4. /\ stage[d] = "write" /\ stage'[d] = "write" /\ from'[d] = from[d]
        /\ contiguous'[d] = contiguous[d] /\ gap'[d] = gap[d] /\ from[d] \in Nat
    BY <1>0, <1>8, AttachAssumption DEF WriteFrame, TypeOK, Seqs
  <2> QED
    BY <1>r, <2>2, <2>3, <2>4 DEF Resumable
<1>9. CASE GoLive(d)
  BY <1>0, <1>r, <1>9 DEF GoLive, Resumable, TypeOK, Carried
<1>10. CASE Forward(d)
  <2>1. /\ stage[d] = "live" /\ stage'[d] = "live" /\ from'[d] = from[d]
        /\ contiguous'[d] = contiguous[d] /\ frames'[d] = frames[d]
    BY <1>10 DEF Forward
  <2>2. have[d] \subseteq have'[d]
    BY <1>0, <1>10 DEF Forward, Show, TypeOK
  <2> QED
    BY <1>r, <2>1, <2>2 DEF Resumable, Carried
<1>11. CASE Disconnect(d)
  BY <1>0, <1>r, <1>11 DEF Disconnect, Resumable, TypeOK
<1>12. CASE UNCHANGED vars
  BY <1>r, <1>12, ResumableUnmoved DEF vars
<1> QED
  BY <1>1, <1>2, <1>3, <1>4, <1>5, <1>6, <1>7, <1>8, <1>9, <1>10, <1>11, <1>12
     DEF Next, StreamStep

LEMMA ResumableSafe == RInv => ResumeSafe
<1> SUFFICES ASSUME RInv, NEW c \in Clients
             PROVE  /\ stage[c] = "live" => (from[c] + 1)..contiguous[c] \subseteq have[c]
                    /\ stage[c] = "write" /\ ~gap[c] => InFrames(c) \subseteq 1..contiguous[c]
  BY DEF ResumeSafe
<1>1. /\ Resumable(c) /\ frames[c] \in Seq(Entries) /\ contiguous[c] \in Nat
      /\ from[c] \in Nat
  BY AttachAssumption DEF RInv, TypeOK, Seqs
<1>2. InFrames(c) = Carried(frames[c]) \ {0}
  BY <1>1 DEF InFrames, Carried
<1>3. ASSUME stage[c] = "live" PROVE (from[c] + 1)..contiguous[c] \subseteq have[c]
  <2>1. Carried(frames[c]) = {}
    BY <1>1, <1>3 DEF Resumable, Carried
  <2> QED
    BY <1>1, <1>3, <2>1 DEF Resumable
<1>4. ASSUME stage[c] = "write", ~gap[c] PROVE InFrames(c) \subseteq 1..contiguous[c]
  <2>1. Carried(frames[c]) \subseteq 0..contiguous[c]
    BY <1>1, <1>4 DEF Resumable
  <2> QED
    BY <1>1, <1>2, <2>1
<1> QED
  BY <1>3, <1>4

\* Whoever writes and however many streams are opened and lost, the cursor that a
\* prelude ends with is one to resume from.
THEOREM CursorIsSafe == Spec => []ResumeSafe
<1>1. Init => RInv
  BY AttachAssumption DEF Init, RInv, Resumable, TypeOK, Seqs
<1> QED
  BY <1>1, ResumableStep, ResumableSafe, PTL DEF Spec

-----------------------------------------------------------------------------
(* The invariant of the stream, with one writer at a time.                   *)

Good(c) == Bounded(c) /\ Covered(c) /\ Prefix(c)

LEMMA LogType ==
  ASSUME TypeOK
  PROVE  /\ head \in Nat /\ Seqs \subseteq Nat /\ \A c \in Clients :
              /\ ring[c] \in Seq(Entries) /\ frames[c] \in Seq(Entries)
              /\ from[c] \in Nat /\ upto[c] \in Nat /\ last[c] \in Nat
              /\ have[c] \subseteq Nat /\ dropped[c] \subseteq Nat
BY AttachAssumption DEF TypeOK, Seqs

\* A step that leaves a client's stream alone, and no event without its echo more.
LEMMA Unmoved ==
  ASSUME NEW c \in Clients, Good(c), head' = head, pending' = pending,
         stage'[c] = stage[c], ring'[c] = ring[c], from'[c] = from[c],
         upto'[c] = upto[c], frames'[c] = frames[c], have'[c] = have[c],
         last'[c] = last[c], dropped'[c] = dropped[c]
  PROVE  Good(c)'
<1>1. Bounded(c)'
  BY DEF Good, Bounded, InLog
<1>2. Covered(c)'
  <2>1. Known(c)' = Known(c) /\ Attached(c)' = Attached(c) /\ Echoed' = Echoed
    BY DEF Known, Attached, Echoed
  <2>2. Queued(c)' = Queued(c) /\ Carried(ring[c])' = Carried(ring[c])
    BY <2>1 DEF Queued, Carried
  <2>3. Covered(c)
    BY DEF Good
  <2>4. Attached(c) => Chain(Known(c), frames[c])'
    BY <2>1, <2>3 DEF Covered, Chain, Reach
  <2>5. Attached(c) => Chain(Queued(c), ring[c])'
    BY <2>2, <2>3 DEF Covered, Chain, Reach
  <2> QED
    BY <2>1, <2>2, <2>3, <2>4, <2>5 DEF Covered
<1>3. Prefix(c)'
  BY DEF Good, Prefix
<1> QED
  BY <1>1, <1>2, <1>3 DEF Good

\* A commit: nothing is on its way yet, and all that was before it has been echoed.
LEMMA GoodCommit ==
  ASSUME Serial, IInv, Commit, NEW c \in Clients
  PROVE  Good(c)'
<1>1. /\ head \in Nat /\ head' = head + 1 /\ pending = {} /\ pending' = {head + 1}
      /\ Good(c) /\ stage' = stage /\ ring' = ring /\ from' = from /\ upto' = upto
      /\ frames' = frames /\ have' = have /\ last' = last /\ dropped' = dropped
  BY LogType DEF IInv, Commit, server, client, Good
<1>2. Bounded(c)'
  BY <1>1 DEF Good, Bounded, InLog
<1>3. Echoed = head /\ Echoed' = head
  BY <1>1 DEF Echoed
<1>4. Covered(c)'
  <2>1. Known(c)' = Known(c) /\ Attached(c)' = Attached(c)
    BY <1>1 DEF Known, Attached
  <2>2. Queued(c)' = Queued(c) /\ Carried(ring[c])' = Carried(ring[c])
    BY <1>1, <2>1 DEF Queued, Carried
  <2>3. Covered(c)
    BY <1>1 DEF Good
  <2>4. Attached(c) => Chain(Known(c), frames[c])'
    BY <1>1, <2>1, <2>3 DEF Covered, Chain, Reach
  <2>5. Attached(c) => Chain(Queued(c), ring[c])'
    BY <1>1, <2>2, <2>3 DEF Covered, Chain, Reach
  <2> QED
    BY <1>1, <1>3, <2>1, <2>2, <2>3, <2>4, <2>5 DEF Covered
<1>5. Prefix(c)'
  BY <1>1 DEF Good, Prefix
<1> QED
  BY <1>2, <1>4, <1>5 DEF Good

\* A push, of an entry that speaks of no more than what has been echoed by now.
LEMMA GoodPublish ==
  ASSUME TypeOK, NEW c \in Clients, Good(c), NEW e \in Entries, publish(e),
         e.seq \in 0..head, e.after \in 0..head, head' = head,
         1..Reach(e) \subseteq 1..Echoed \cup {e.seq},
         1..Echoed' \subseteq 1..Echoed \cup {e.seq},
         UNCHANGED <<stage, server, client>>
  PROVE  Good(c)'
<1> USE DEF server, client
<1>1. ring[c] \in Seq(Entries) /\ head \in Nat
  BY LogType
<1>2. CASE Subscribed(c)
  <2>1. ring'[c] = Pushed(ring[c], e) /\ dropped'[c] = dropped[c] \cup Evicted(c)
    BY <1>2 DEF publish
  <2>2. InLog(ring[c])'
    BY <1>1, <2>1, InLogPushed DEF Good, Bounded, InLog
  <2>3. Bounded(c)'
    BY <2>2 DEF Good, Bounded, InLog
  <2>4. Known(c) \subseteq Known(c)' /\ Queued(c) \subseteq Queued(c)'
    BY <2>1 DEF Known, Queued, Carried
  <2>5. ASSUME Attached(c)
        PROVE  /\ Chain(Queued(c), ring[c])'
               /\ 1..Echoed' \subseteq Queued(c)' \cup Carried(ring[c])'
    <3>1. /\ Chain(Queued(c), ring[c]) /\ 1..upto[c] \subseteq Queued(c)
          /\ 1..Echoed \subseteq Queued(c) \cup Carried(ring[c])
      BY <2>5 DEF Good, Covered
    <3>2. ASSUME Len(ring[c]) = Capacity PROVE Head(ring[c]).seq \in Queued(c)'
      <4>1. ring[c] # <<>>
        BY <3>2, AttachAssumption
      <4>2. Head(ring[c]).seq \in Nat /\ upto[c] \in Nat
        BY <1>1, <4>1, TailEntries, EntryType, LogType
      <4>3. CASE Head(ring[c]).seq > upto[c]
        <5>1. Evicted(c) = {Head(ring[c]).seq}
          BY <2>5, <3>2, <4>3 DEF Evicted, Attached
        <5> QED
          BY <2>1, <5>1 DEF Queued, Known
      <4>4. CASE Head(ring[c]).seq = 0
        BY <4>4 DEF Queued, Known
      <4>5. CASE Head(ring[c]).seq \in 1..upto[c]
        BY <2>4, <3>1, <4>5
      <4> QED
        BY <4>2, <4>3, <4>4, <4>5
    <3>3. 1..Reach(e) \subseteq Queued(c) \cup Carried(ring[c]) \cup {e.seq}
      BY <3>1
    <3>4. /\ Chain(Queued(c)', Pushed(ring[c], e))
          /\ Carried(ring[c]) \cup {e.seq} \subseteq Queued(c)' \cup Carried(Pushed(ring[c], e))
      BY <1>1, <2>4, <3>1, <3>2, <3>3, PushedChain
    <3>5. Chain(Queued(c), ring[c])' /\ Carried(ring[c])' = Carried(Pushed(ring[c], e))
      BY <2>1, <3>4 DEF Chain, Carried, Reach
    <3> QED
      BY <2>4, <3>1, <3>4, <3>5
  <2>6. ASSUME Attached(c) PROVE Chain(Known(c), frames[c])'
    <3>1. Chain(Known(c)', frames[c])
      BY <2>4, <2>6, ChainMono DEF Good, Covered
    <3> QED
      BY <3>1 DEF Chain, Reach
  <2>7. Covered(c)'
    <3>1. Attached(c)' <=> Attached(c)
      BY DEF Attached
    <3> QED
      BY <2>4, <2>5, <2>6, <3>1 DEF Good, Covered
  <2>8. Prefix(c)'
    BY <2>1 DEF Good, Prefix
  <2> QED
    BY <2>3, <2>7, <2>8 DEF Good
<1>3. CASE ~Subscribed(c)
  <2>1. ring'[c] = ring[c] /\ dropped'[c] = dropped[c] /\ ~Attached(c)
    BY <1>3 DEF publish, Subscribed, Attached
  <2>2. Bounded(c)'
    BY <2>1 DEF Good, Bounded, InLog
  <2>3. Covered(c)'
    BY <2>1 DEF Good, Covered, Known, Attached
  <2>4. Prefix(c)'
    BY <2>1 DEF Good, Prefix
  <2> QED
    BY <2>2, <2>3, <2>4 DEF Good
<1> QED
  BY <1>2, <1>3

LEMMA GoodEcho ==
  ASSUME IInv, Echo, NEW c \in Clients
  PROVE  Good(c)' /\ OneUnechoed'
<1>1. PICK q \in pending : publish(Durable(q)) /\ pending' = pending \ {q}
  BY DEF Echo
<1>2. /\ TypeOK /\ Good(c) /\ head \in Nat /\ q = head /\ head \in 1..head /\ pending' = {}
      /\ head \in Seqs /\ head' = head /\ UNCHANGED <<stage, server, client>>
  BY <1>1, LogType DEF IInv, OneUnechoed, TypeOK, Good, Echo
<1>3. Durable(q) \in Entries /\ Durable(q).seq = q /\ Durable(q).after = 0
  BY <1>2, DurableType DEF Durable
<1>4. Reach(Durable(q)) = head /\ Echoed = head - 1 /\ Echoed' = head
  BY <1>1, <1>2, <1>3 DEF Reach, Echoed
<1>5. 1..head \subseteq 1..(head - 1) \cup {head}
  BY <1>2
<1>6. 0 \in 0..head /\ head \in 0..head
  BY <1>2
<1>7. Good(c)'
  BY <1>1, <1>2, <1>3, <1>4, <1>5, <1>6, GoodPublish
<1> QED
  BY <1>2, <1>7 DEF OneUnechoed

LEMMA GoodEmit ==
  ASSUME Serial, IInv, Emit, NEW c \in Clients
  PROVE  Good(c)'
<1>1. /\ publish(Transient(head)) /\ pending = {} /\ pending' = {} /\ head' = head
      /\ TypeOK /\ Good(c) /\ head \in Nat /\ head \in Seqs
      /\ UNCHANGED <<stage, server, client>>
  BY LogType DEF Emit, IInv, Good, TypeOK
<1>2. Transient(head) \in Entries /\ Transient(head).seq = 0 /\ Transient(head).after = head
  BY <1>1, TransientType DEF Transient
<1>3. Reach(Transient(head)) = head /\ Echoed = head /\ Echoed' = head
  BY <1>1, <1>2 DEF Reach, Echoed
<1>4. 0 \in 0..head /\ head \in 0..head
  BY <1>1
<1> QED
  BY <1>1, <1>2, <1>3, <1>4, GoodPublish

\* A frame is shown when the client knows all that it speaks of.
LEMMA ShowKnown ==
  ASSUME TypeOK, NEW c \in Clients, Good(c), NEW e \in Entries, Show(c, e),
         e.seq \in 0..head, 1..Reach(e) \subseteq Known(c) \cup {e.seq},
         head' = head, dropped' = dropped
  PROVE  /\ Known(c)' = Known(c) \cup {e.seq}
         /\ have'[c] \subseteq 1..head /\ last'[c] \in 0..head
         /\ 1..last'[c] \subseteq Known(c)'
         /\ Prefix(c)'
<1>0. /\ head \in Nat /\ have[c] \subseteq 1..head /\ last[c] \in 0..head
      /\ 1..last[c] \subseteq Known(c) /\ Prefix(c)
  BY LogType DEF Good, Bounded, Covered
<1>1. CASE e.seq = 0
  BY <1>0, <1>1 DEF Show, client, Known, Prefix
<1>2. CASE e.seq # 0
  <2>1. have'[c] = have[c] \cup {e.seq} /\ last'[c] = e.seq
    BY <1>2 DEF Show, TypeOK
  <2>2. Known(c)' = Known(c) \cup {e.seq}
    BY <2>1 DEF Known
  <2>3. e.seq \in 1..head /\ Reach(e) = e.seq
    BY <1>0, <1>2 DEF Reach
  <2>4. Prefix(c)'
    <3> SUFFICES ASSUME dropped[c] = {} PROVE \E m \in 0..head : have'[c] = 1..m
      BY DEF Prefix
    <3>1. PICK m \in 0..head : have[c] = 1..m
      BY <1>0 DEF Prefix
    <3>2. CASE e.seq <= m
      BY <1>0, <2>1, <2>3, <3>1, <3>2
    <3>3. CASE e.seq > m
      <4>1. \A q \in 1..e.seq : q \in 1..m \/ q = e.seq
        BY <1>0, <2>3, <3>1 DEF Known
      <4>2. m + 1 \in 1..e.seq /\ m + 1 \notin 1..m
        BY <1>0, <2>3, <3>1, <3>3
      <4>3. e.seq = m + 1
        BY <4>1, <4>2
      <4> QED
        BY <1>0, <2>1, <2>3, <3>1, <4>3
    <3> QED
      BY <1>0, <2>3, <3>1, <3>2, <3>3
  <2> QED
    BY <1>0, <2>1, <2>2, <2>3, <2>4
<1> QED
  BY <1>1, <1>2

LEMMA GoodWriteFrame ==
  ASSUME TypeOK, NEW c \in Clients, Good(c), WriteFrame(c)
  PROVE  /\ Good(c)'
         /\ 1..Reach(Head(frames[c])) \subseteq Known(c) \cup {Head(frames[c]).seq}
<1> DEFINE e == Head(frames[c])
<1>1. /\ frames[c] \in Seq(Entries) /\ frames[c] # <<>> /\ frames'[c] = Tail(frames[c])
      /\ head \in Nat
  BY LogType DEF WriteFrame, TypeOK
<1>2. /\ head' = head /\ pending' = pending /\ stage' = stage /\ ring' = ring
      /\ from' = from /\ upto' = upto /\ dropped' = dropped /\ Show(c, e)
      /\ stage[c] = "write"
  BY DEF WriteFrame
<1>3. Attached(c) /\ Attached(c)' /\ InLog(frames[c]) /\ InLog(ring[c])
  BY <1>2 DEF Attached, Good, Bounded
<1>4. e \in Entries /\ e.seq \in 0..head
  BY <1>1, <1>3, TailEntries, InLogTail
<1>5. /\ 1..Reach(e) \subseteq Known(c) \cup {e.seq}
      /\ Chain(Known(c) \cup {e.seq}, Tail(frames[c]))
  <2>1. Chain(Known(c) \cup {e.seq}, frames[c])
    BY <1>3, ChainMono DEF Good, Covered
  <2> HIDE DEF e
  <2> QED
    BY <1>1, <2>1, ChainTail DEF e
<1>6. /\ Known(c)' = Known(c) \cup {e.seq} /\ have'[c] \subseteq 1..head
      /\ last'[c] \in 0..head /\ 1..last'[c] \subseteq Known(c)' /\ Prefix(c)'
  BY <1>2, <1>4, <1>5, ShowKnown
<1>7. Queued(c)' = Queued(c)
  <2>1. Carried(frames[c]) = {e.seq} \cup Carried(Tail(frames[c]))
    BY <1>1, CarriedTail
  <2>2. Carried(frames[c])' = Carried(Tail(frames[c]))
    BY <1>1 DEF Carried
  <2> QED
    BY <1>6, <2>1, <2>2 DEF Queued
<1>8. Bounded(c)'
  <2>1. InLog(Tail(frames[c]))
    BY <1>1, <1>3, InLogTail
  <2>2. InLog(frames[c])' /\ InLog(ring[c])'
    BY <1>1, <1>2, <1>3, <2>1 DEF InLog
  <2> QED
    BY <1>2, <1>6, <2>2 DEF Good, Bounded
<1>9. Covered(c)'
  <2>1. Chain(Known(c), frames[c])'
    <3>1. Chain(Known(c)', Tail(frames[c]))
      BY <1>5, <1>6
    <3>2. frames'[c] = Tail(frames[c])
      BY <1>1
    <3> HIDE DEF e
    <3> QED
      BY <3>1, <3>2 DEF Chain, Reach
  <2>2. /\ Chain(Queued(c), ring[c])' /\ 1..upto'[c] \subseteq Queued(c)'
        /\ 1..Echoed' \subseteq Queued(c)' \cup Carried(ring[c])'
    BY <1>2, <1>3, <1>7 DEF Good, Covered, Chain, Reach, Carried, Echoed
  <2>3. 1..from'[c] \subseteq Known(c)'
    BY <1>2, <1>6 DEF Good, Covered
  <2> QED
    BY <1>6, <2>1, <2>2, <2>3 DEF Covered
<1> QED
  BY <1>5, <1>6, <1>8, <1>9 DEF Good

LEMMA GoodForward ==
  ASSUME TypeOK, NEW c \in Clients, Good(c), Forward(c)
  PROVE  /\ Good(c)'
         /\ 1..Reach(Head(ring[c])) \subseteq Known(c) \cup {Head(ring[c]).seq}
<1> DEFINE e == Head(ring[c])
<1>1. /\ ring[c] \in Seq(Entries) /\ ring[c] # <<>> /\ ring'[c] = Tail(ring[c])
      /\ head \in Nat
  BY LogType DEF Forward, TypeOK
<1>2. /\ head' = head /\ pending' = pending /\ stage' = stage /\ frames' = frames
      /\ from' = from /\ upto' = upto /\ dropped' = dropped /\ Show(c, e)
      /\ stage[c] = "live"
  BY DEF Forward, server
<1>3. /\ Attached(c) /\ Attached(c)' /\ InLog(frames[c]) /\ InLog(ring[c])
      /\ frames[c] = <<>>
  BY <1>2 DEF Attached, Good, Bounded
<1>4. Queued(c) = Known(c) /\ Queued(c)' = Known(c)'
  BY <1>2, <1>3 DEF Queued, Carried
<1>5. e \in Entries /\ e.seq \in 0..head
  BY <1>1, <1>3, TailEntries, InLogTail
<1>6. /\ 1..Reach(e) \subseteq Known(c) \cup {e.seq}
      /\ Chain(Known(c) \cup {e.seq}, Tail(ring[c]))
  <2>1. Chain(Known(c) \cup {e.seq}, ring[c])
    BY <1>3, <1>4, ChainMono DEF Good, Covered
  <2> HIDE DEF e
  <2> QED
    BY <1>1, <2>1, ChainTail DEF e
<1>7. /\ Known(c)' = Known(c) \cup {e.seq} /\ have'[c] \subseteq 1..head
      /\ last'[c] \in 0..head /\ 1..last'[c] \subseteq Known(c)' /\ Prefix(c)'
  BY <1>2, <1>5, <1>6, ShowKnown
<1>8. Bounded(c)'
  <2>1. InLog(Tail(ring[c]))
    BY <1>1, <1>3, InLogTail
  <2>2. InLog(frames[c])' /\ InLog(ring[c])'
    BY <1>1, <1>2, <1>3, <2>1 DEF InLog
  <2> QED
    BY <1>2, <1>7, <2>2 DEF Good, Bounded
<1>9. Covered(c)'
  <2>1. Chain(Known(c), frames[c])'
    BY <1>2, <1>3 DEF Chain
  <2>2. Chain(Queued(c), ring[c])'
    BY <1>1, <1>4, <1>6, <1>7 DEF Chain, Reach
  <2>3. 1..Echoed' \subseteq Queued(c)' \cup Carried(ring[c])'
    <3>1. Carried(ring[c]) = {e.seq} \cup Carried(Tail(ring[c]))
      BY <1>1, CarriedTail
    <3>2. Carried(ring[c])' = Carried(Tail(ring[c]))
      BY <1>1 DEF Carried
    <3>3. Echoed' = Echoed
      BY <1>2 DEF Echoed
    <3> QED
      BY <1>3, <1>4, <1>7, <3>1, <3>2, <3>3 DEF Good, Covered
  <2>4. 1..from'[c] \subseteq Known(c)' /\ 1..upto'[c] \subseteq Queued(c)'
    BY <1>2, <1>3, <1>4, <1>7 DEF Good, Covered
  <2> QED
    BY <1>7, <2>1, <2>2, <2>3, <2>4 DEF Covered
<1> QED
  BY <1>6, <1>7, <1>8, <1>9 DEF Good

LEMMA GoodReadBacklog ==
  ASSUME TypeOK, NEW c \in Clients, Good(c), ReadBacklog(c)
  PROVE  Good(c)'
<1>1. /\ head \in Nat /\ from[c] \in 0..head /\ head' = head /\ pending' = pending
      /\ ring' = ring /\ from' = from /\ have' = have /\ last' = last
      /\ dropped' = dropped /\ stage'[c] = "flush" /\ upto'[c] = head
      /\ frames'[c] = Backlog(c)
  BY LogType DEF ReadBacklog, client, TypeOK, Good, Bounded
<1>2. /\ Len(Backlog(c)) = head - from[c]
      /\ \A i \in 1..Len(Backlog(c)) : /\ Backlog(c)[i].seq = from[c] + i
                                       /\ Backlog(c)[i].after = 0
  BY <1>1 DEF Backlog, Durable
<1>3. Known(c)' = Known(c) /\ 1..from[c] \subseteq Known(c)
  BY <1>1 DEF Known, Good, Covered
<1>4. Queued(c)' = Known(c) \cup (from[c] + 1)..head
  BY <1>1, <1>3, CarriedBacklog DEF Queued, Carried
<1>5. 1..head \subseteq Queued(c)'
  <2>1. \A q \in 1..head : q \in 1..from[c] \/ q \in (from[c] + 1)..head
    BY <1>1
  <2> QED
    BY <1>3, <1>4, <2>1
<1>6. Bounded(c)'
  <2>1. \A i \in 1..Len(Backlog(c)) : from[c] + i \in 0..head /\ 0 \in 0..head
    BY <1>1, <1>2
  <2>2. InLog(Backlog(c))
    BY <1>2, <2>1 DEF InLog
  <2>3. InLog(frames[c])' /\ InLog(ring[c])'
    BY <1>1, <2>2 DEF Good, Bounded, InLog
  <2> QED
    BY <1>1, <2>3 DEF Good, Bounded
<1>7. Chain(Known(c), Backlog(c))
  <2> SUFFICES ASSUME NEW i \in 1..Len(Backlog(c)), NEW q \in 1..Reach(Backlog(c)[i])
               PROVE  q \in Known(c) \cup {Backlog(c)[j].seq : j \in 1..i}
    BY DEF Chain
  <2>1. i \in Nat /\ i >= 1 /\ i <= head - from[c] /\ Backlog(c)[i].seq = from[c] + i
    BY <1>1, <1>2
  <2>2. q \in 1..(from[c] + i)
    BY <1>1, <2>1 DEF Reach
  <2>3. CASE q <= from[c]
    BY <1>1, <1>3, <2>2, <2>3
  <2>4. CASE q > from[c]
    <3>1. q - from[c] \in 1..i /\ q - from[c] \in 1..Len(Backlog(c))
      BY <1>1, <1>2, <2>1, <2>2, <2>4
    <3>2. Backlog(c)[q - from[c]].seq = q
      <4>1. from[c] \in Nat /\ q \in Nat
        BY <1>1, <2>1, <2>2
      <4>2. from[c] + (q - from[c]) = q
        BY <4>1
      <4> QED
        BY <1>2, <3>1, <4>2
    <3> QED
      BY <3>1, <3>2
  <2> QED
    BY <1>1, <2>2, <2>3, <2>4
<1>8. Covered(c)'
  <2>1. Chain(Known(c), frames[c])'
    BY <1>1, <1>3, <1>7 DEF Chain, Reach
  <2>2. Chain(Queued(c), ring[c])'
    <3>1. ASSUME NEW i \in 1..Len(ring[c]) PROVE 1..Reach(ring[c][i]) \subseteq 1..head
      BY <1>1 DEF Good, Bounded, InLog, Reach
    <3> QED
      BY <1>1, <1>5, <3>1 DEF Chain, Reach
  <2>3. 1..Echoed' \subseteq 1..head
    BY <1>1 DEF Echoed
  <2> QED
    BY <1>1, <1>3, <1>5, <2>1, <2>2, <2>3 DEF Good, Covered
<1>9. Prefix(c)'
  BY <1>1 DEF Good, Prefix
<1> QED
  BY <1>6, <1>8, <1>9 DEF Good

LEMMA GoodFlushOne ==
  ASSUME TypeOK, NEW c \in Clients, Good(c), FlushOne(c)
  PROVE  Good(c)'
<1> DEFINE e == Head(ring[c])
<1>1. /\ ring[c] \in Seq(Entries) /\ ring[c] # <<>> /\ ring'[c] = Tail(ring[c])
      /\ frames[c] \in Seq(Entries) /\ head \in Nat /\ upto[c] \in Nat
  BY LogType DEF FlushOne, TypeOK
<1>2. /\ head' = head /\ pending' = pending /\ stage' = stage /\ from' = from
      /\ upto' = upto /\ have' = have /\ last' = last /\ dropped' = dropped
      /\ stage[c] = "flush"
  BY DEF FlushOne, client
<1>3. Attached(c) /\ Attached(c)' /\ InLog(frames[c]) /\ InLog(ring[c])
  BY <1>2 DEF Attached, Good, Bounded
<1>4. /\ e \in Entries /\ e.seq \in 0..head /\ e.after \in 0..head
      /\ InLog(Tail(ring[c]))
  BY <1>1, <1>3, TailEntries, InLogTail
<1>5. Known(c)' = Known(c)
  BY <1>2 DEF Known
<1>6. /\ 1..Reach(e) \subseteq Queued(c) \cup {e.seq}
      /\ Chain(Queued(c) \cup {e.seq}, Tail(ring[c]))
  <2>1. Chain(Queued(c) \cup {e.seq}, ring[c])
    BY <1>3, ChainMono DEF Good, Covered
  <2> HIDE DEF e
  <2> QED
    BY <1>1, <2>1, ChainTail DEF e
<1>7. /\ Queued(c)' = Queued(c) \cup {e.seq} /\ InLog(frames[c])'
      /\ Chain(Known(c), frames[c])'
  <2>1. CASE Fresh(c, e)
    <3>1. frames'[c] = Append(frames[c], e)
      BY <1>1, <2>1 DEF FlushOne, TypeOK
    <3>2. Carried(frames[c])' = Carried(frames[c]) \cup {e.seq}
      <4>1. Carried(frames[c])' = Carried(Append(frames[c], e))
        BY <3>1 DEF Carried
      <4> QED
        BY <1>1, <1>4, <4>1, CarriedAppend
    <3>3. InLog(Append(frames[c], e))
      BY <1>1, <1>3, <1>4, InLogAppend
    <3>4. Chain(Known(c), Append(frames[c], e))
      <4>1. 1..Reach(e) \subseteq Known(c) \cup Carried(frames[c]) \cup {e.seq}
        BY <1>6 DEF Queued
      <4> QED
        BY <1>1, <1>3, <1>4, <4>1, ChainAppend DEF Good, Covered
    <3>5. Queued(c)' = Queued(c) \cup {e.seq}
      BY <1>5, <3>2 DEF Queued
    <3>6. InLog(frames[c])'
      BY <1>2, <3>1, <3>3 DEF InLog
    <3>7. Chain(Known(c), frames[c])'
      BY <1>5, <3>1, <3>4 DEF Chain, Reach
    <3> QED
      BY <3>5, <3>6, <3>7
  <2>2. CASE ~Fresh(c, e)
    <3>1. e.seq \in 1..upto[c]
      BY <1>1, <1>4, <2>2 DEF Fresh
    <3>2. e.seq \in Queued(c)
      BY <1>3, <3>1 DEF Good, Covered
    <3>3. frames' = frames
      BY <2>2 DEF FlushOne
    <3>4. Queued(c)' = Queued(c) \cup {e.seq}
      BY <1>5, <3>2, <3>3 DEF Queued, Carried
    <3>5. InLog(frames[c])'
      BY <1>2, <1>3, <3>3 DEF InLog
    <3>6. Chain(Known(c), frames[c])'
      BY <1>3, <1>5, <3>3 DEF Good, Covered, Chain, Reach
    <3> QED
      BY <3>4, <3>5, <3>6
  <2> QED
    BY <2>1, <2>2
<1>8. Bounded(c)'
  <2>1. InLog(ring[c])'
    BY <1>1, <1>2, <1>4 DEF InLog
  <2> QED
    BY <1>2, <1>7, <2>1 DEF Good, Bounded
<1>9. Covered(c)'
  <2>1. Chain(Queued(c), ring[c])'
    BY <1>1, <1>6, <1>7 DEF Chain, Reach
  <2>2. 1..Echoed' \subseteq Queued(c)' \cup Carried(ring[c])'
    <3>1. Carried(ring[c]) = {e.seq} \cup Carried(Tail(ring[c]))
      BY <1>1, CarriedTail
    <3>2. Carried(ring[c])' = Carried(Tail(ring[c])) /\ Echoed' = Echoed
      BY <1>1, <1>2 DEF Carried, Echoed
    <3> QED
      BY <1>3, <1>7, <3>1, <3>2 DEF Good, Covered
  <2> QED
    BY <1>2, <1>3, <1>5, <1>7, <2>1, <2>2 DEF Good, Covered
<1>10. Prefix(c)'
  BY <1>2 DEF Good, Prefix
<1> QED
  BY <1>8, <1>9, <1>10 DEF Good

\* The steps that move a client's stream on without an entry.
LEMMA GoodStage ==
  ASSUME TypeOK, NEW c \in Clients, Good(c), FlushDone(c) \/ GoLive(c)
  PROVE  Good(c)'
<1> USE DEF server, client
<1>1. /\ head' = head /\ pending' = pending /\ ring' = ring /\ from' = from
      /\ upto' = upto /\ frames' = frames /\ have' = have /\ last' = last
      /\ dropped' = dropped /\ Attached(c) /\ Attached(c)'
      /\ stage'[c] \notin {"flush", "write"} => frames[c] = <<>>
  BY DEF FlushDone, GoLive, Attached, TypeOK
<1>2. Bounded(c)'
  BY <1>1 DEF Good, Bounded, InLog
<1>3. Covered(c)'
  BY <1>1 DEF Good, Covered, Known, Queued, Echoed, Carried, Chain, Reach
<1>4. Prefix(c)'
  BY <1>1 DEF Good, Prefix
<1> QED
  BY <1>2, <1>3, <1>4 DEF Good

LEMMA GoodOutside ==
  ASSUME TypeOK, NEW c \in Clients, Good(c),
         EnterSession(c) \/ Subscribe(c) \/ Disconnect(c)
  PROVE  Good(c)'
<1> USE DEF server, client
<1>0. head \in Nat
  BY LogType
<1>1. head' = head /\ dropped' = dropped /\ stage'[c] \in {"out", "subscribed"}
  BY DEF EnterSession, Subscribe, Disconnect, TypeOK
<1>2. CASE EnterSession(c)
  <2>1. /\ have'[c] = 1..head /\ last'[c] = head /\ from' = from /\ upto' = upto
        /\ ring' = ring /\ frames' = frames /\ stage[c] = "new"
    BY <1>2 DEF EnterSession, TypeOK
  <2>2. Bounded(c)'
    BY <1>0, <1>1, <2>1 DEF Good, Bounded, InLog
  <2>3. Covered(c)'
    BY <1>0, <1>1, <2>1 DEF Good, Bounded, Covered, Known, Attached
  <2>4. Prefix(c)'
    BY <1>0, <1>1, <2>1 DEF Prefix
  <2> QED
    BY <2>2, <2>3, <2>4 DEF Good
<1>3. CASE Subscribe(c)
  <2>1. /\ have' = have /\ last' = last /\ from'[c] = last[c] /\ upto' = upto
        /\ ring'[c] = <<>> /\ frames' = frames /\ stage[c] = "out"
    BY <1>3 DEF Subscribe, TypeOK
  <2>2. Bounded(c)'
    BY <1>0, <1>1, <2>1 DEF Good, Bounded, InLog
  <2>3. Covered(c)'
    BY <1>0, <1>1, <2>1 DEF Good, Covered, Known, Attached
  <2>4. Prefix(c)'
    BY <1>0, <1>1, <2>1 DEF Good, Prefix
  <2> QED
    BY <2>2, <2>3, <2>4 DEF Good
<1>4. CASE Disconnect(c)
  <2>1. /\ have' = have /\ last' = last /\ from' = from /\ upto' = upto
        /\ ring'[c] = <<>> /\ frames'[c] = <<>>
    BY <1>4 DEF Disconnect, TypeOK
  <2>2. Bounded(c)'
    BY <1>0, <1>1, <2>1 DEF Good, Bounded, InLog
  <2>3. Covered(c)'
    <3>1. stage'[c] = "out"
      BY <1>4 DEF Disconnect, TypeOK
    <3> QED
      BY <1>0, <1>1, <2>1, <3>1 DEF Good, Covered, Known, Attached
  <2>4. Prefix(c)'
    BY <1>0, <1>1, <2>1 DEF Good, Prefix
  <2> QED
    BY <2>2, <2>3, <2>4 DEF Good
<1> QED
  BY <1>2, <1>3, <1>4

LEMMA StreamInvariant == Serial /\ IInv /\ [Next]_vars => IInv'
<1> SUFFICES ASSUME Serial, IInv, [Next]_vars PROVE IInv'
  OBVIOUS
<1> USE DEF server, client
<1>0. TypeOK /\ TypeOK' /\ OneUnechoed /\ \A c \in Clients : Good(c)
  BY TypeStep DEF IInv, Good
<1>1. CASE Commit
  <2>1. OneUnechoed'
    BY <1>1 DEF Commit, OneUnechoed
  <2> QED
    BY <1>0, <1>1, <2>1, GoodCommit DEF IInv, Good
<1>2. CASE Echo
  <2>1. OneUnechoed'
    <3>1. PICK q \in pending : pending' = pending \ {q}
      BY <1>2 DEF Echo
    <3> QED
      BY <1>0, <3>1 DEF OneUnechoed
  <2> QED
    BY <1>0, <1>2, <2>1, GoodEcho DEF IInv, Good
<1>3. CASE Emit
  <2>1. OneUnechoed'
    BY <1>0, <1>3 DEF Emit, OneUnechoed
  <2> QED
    BY <1>0, <1>3, <2>1, GoodEmit DEF IInv, Good
<1>4. ASSUME NEW c \in Clients,
             EnterSession(c) \/ Subscribe(c) \/ StreamStep(c) \/ Disconnect(c)
      PROVE  IInv'
  <2>1. head' = head /\ pending' = pending
    BY <1>4 DEF EnterSession, Subscribe, StreamStep, Disconnect, ReadBacklog, FlushOne,
                FlushDone, WriteFrame, GoLive, Forward
  <2>2. OneUnechoed'
    BY <1>0, <2>1 DEF OneUnechoed
  <2>3. Good(c)'
    BY <1>0, <1>4, GoodOutside, GoodReadBacklog, GoodFlushOne, GoodStage, GoodWriteFrame,
       GoodForward DEF StreamStep
  <2>4. ASSUME NEW d \in Clients, d # c PROVE Good(d)'
    <3>1. /\ stage'[d] = stage[d] /\ ring'[d] = ring[d] /\ from'[d] = from[d]
          /\ upto'[d] = upto[d] /\ frames'[d] = frames[d] /\ have'[d] = have[d]
          /\ last'[d] = last[d] /\ dropped'[d] = dropped[d]
      <4>1. CASE EnterSession(c) \/ Subscribe(c) \/ Disconnect(c)
        BY <1>0, <2>4, <4>1 DEF EnterSession, Subscribe, Disconnect, TypeOK
      <4>2. CASE ReadBacklog(c) \/ FlushDone(c) \/ GoLive(c)
        BY <1>0, <2>4, <4>2 DEF ReadBacklog, FlushDone, GoLive, TypeOK
      <4>3. CASE FlushOne(c)
        BY <1>0, <2>4, <4>3 DEF FlushOne, TypeOK
      <4>4. CASE WriteFrame(c)
        BY <1>0, <2>4, <4>4 DEF WriteFrame, Show, TypeOK
      <4>5. CASE Forward(c)
        BY <1>0, <2>4, <4>5 DEF Forward, Show, TypeOK
      <4> QED
        BY <1>4, <4>1, <4>2, <4>3, <4>4, <4>5 DEF StreamStep
    <3> QED
      BY <1>0, <2>1, <3>1, Unmoved
  <2> QED
    BY <1>0, <2>2, <2>3, <2>4 DEF IInv, Good
<1>5. CASE UNCHANGED vars
  <2>1. \A c \in Clients : Good(c)'
    BY <1>0, <1>5, Unmoved DEF vars
  <2>2. OneUnechoed'
    BY <1>0, <1>5 DEF vars, OneUnechoed
  <2> QED
    BY <1>0, <2>1, <2>2 DEF IInv, Good
<1> QED
  BY <1>1, <1>2, <1>3, <1>4, <1>5 DEF Next

LEMMA StreamInit == Init => IInv
<1> SUFFICES ASSUME Init PROVE IInv
  OBVIOUS
<1>1. TypeOK /\ OneUnechoed
  BY AttachAssumption DEF Init, TypeOK, Seqs, OneUnechoed
<1>2. ASSUME NEW c \in Clients PROVE Bounded(c) /\ Prefix(c)
  <2>1. Bounded(c)
    BY DEF Init, Bounded, InLog
  <2>2. have[c] = 1..0 /\ 0 \in 0..head
    BY DEF Init
  <2> QED
    BY <2>1, <2>2 DEF Prefix
<1>3. ASSUME NEW c \in Clients PROVE Covered(c)
  BY DEF Init, Covered, Known, Attached
<1> QED
  BY <1>1, <1>2, <1>3 DEF IInv

-----------------------------------------------------------------------------
(* What the invariant is for.                                                *)

LEMMA StepTrails ==
  IInv /\ [Next]_vars =>
    [\A c \in Clients :
       /\ WriteFrame(c) /\ Head(frames[c]).seq = 0 =>
            1..Head(frames[c]).after \subseteq have[c] \cup dropped[c]
       /\ Forward(c) /\ Head(ring[c]).seq = 0 =>
            1..Head(ring[c]).after \subseteq have[c] \cup dropped[c]]_vars
<1> SUFFICES ASSUME IInv, NEW c \in Clients
             PROVE  /\ WriteFrame(c) /\ Head(frames[c]).seq = 0 =>
                         1..Head(frames[c]).after \subseteq have[c] \cup dropped[c]
                    /\ Forward(c) /\ Head(ring[c]).seq = 0 =>
                         1..Head(ring[c]).after \subseteq have[c] \cup dropped[c]
  OBVIOUS
<1>0. TypeOK /\ Good(c)
  BY DEF IInv, Good
<1>1. ASSUME NEW n \in Nat, 1..n \subseteq Known(c) \cup {0}
      PROVE  1..n \subseteq have[c] \cup dropped[c]
  BY <1>1 DEF Known
<1>2. ASSUME WriteFrame(c), Head(frames[c]).seq = 0
      PROVE  1..Head(frames[c]).after \subseteq have[c] \cup dropped[c]
  <2>1. Head(frames[c]) \in Entries
    BY <1>0, <1>2, TailEntries DEF WriteFrame, TypeOK
  <2>2. /\ Reach(Head(frames[c])) = Head(frames[c]).after
        /\ Head(frames[c]).after \in Nat
    BY <1>2, <2>1, EntryType DEF Reach
  <2> QED
    BY <1>0, <1>1, <1>2, <2>2, GoodWriteFrame
<1>3. ASSUME Forward(c), Head(ring[c]).seq = 0
      PROVE  1..Head(ring[c]).after \subseteq have[c] \cup dropped[c]
  <2>1. Head(ring[c]) \in Entries
    BY <1>0, <1>3, TailEntries DEF Forward, TypeOK
  <2>2. Reach(Head(ring[c])) = Head(ring[c]).after /\ Head(ring[c]).after \in Nat
    BY <1>3, <2>1, EntryType DEF Reach
  <2> QED
    BY <1>0, <1>1, <1>3, <2>2, GoodForward
<1> QED
  BY <1>2, <1>3

\* With one writer at a time, a client that is shown a transient, a TurnEnded say,
\* has been shown, or has lost for good, every event that was committed before it.
THEOREM TransientsNeverLead ==
  ASSUME Serial
  PROVE  Spec => TransientsTrail
BY StreamInit, StreamInvariant, StepTrails, PTL DEF Spec, TransientsTrail

-----------------------------------------------------------------------------
(* The refinement of EventStream, step by step.                              *)

\* A client that is shown something: the next event, one it has already, or, once
\* it is holed, anything of the log.
LEMMA ShownIsAbstract ==
  ASSUME IInv, IInv', NEW c \in Clients, head' = head, dropped' = dropped,
         have' = [have EXCEPT ![c] = have'[c]], have[c] \subseteq have'[c]
  PROVE  Abstract!Show(c) \/ Abstract!Drift(c) \/ UNCHANGED Abstract!vars
<1>0. /\ head \in Nat /\ have[c] \subseteq 1..head /\ have'[c] \subseteq 1..head
      /\ have \in [Clients -> SUBSET Seqs] /\ Prefix(c)'
  <2>1. Bounded(c) /\ Bounded(c)' /\ Prefix(c)'
    BY DEF IInv
  <2> QED
    BY <2>1, LogType DEF IInv, Bounded, TypeOK
<1>1. [d \in Clients |-> Holed(d)]' = [d \in Clients |-> Holed(d)]
  BY DEF Holed
<1>2. CASE Holed(c)
  <2>1. have' = [have EXCEPT ![c] = @ \cup have'[c]]
    BY <1>0
  <2>2. have'[c] \in SUBSET (1..head)
    BY <1>0
  <2>3. \E more \in SUBSET (1..head) : have' = [have EXCEPT ![c] = @ \cup more]
    BY <2>1, <2>2
  <2> QED
    BY <1>1, <1>2, <2>3 DEF Abstract!Drift
<1>3. CASE ~Holed(c)
  <2>1. PICK m \in 0..head : have'[c] = 1..m
    BY <1>0, <1>3 DEF Prefix, Holed
  <2>2. CASE m = 0
    <3>1. have'[c] = have[c]
      BY <1>0, <2>1, <2>2
    <3>2. have' = have
      BY <1>0, <3>1
    <3> QED
      BY <1>1, <3>2 DEF Abstract!vars
  <2>3. CASE m # 0
    <3>1. /\ m \in 1..head /\ have[c] \subseteq 1..m
          /\ have' = [have EXCEPT ![c] = 1..m]
      BY <1>0, <2>1, <2>3
    <3> QED
      BY <1>1, <1>3, <3>1 DEF Abstract!Show
  <2> QED
    BY <2>2, <2>3
<1> QED
  BY <1>2, <1>3

\* A push can be too much for any number of rings.
LEMMA PublishIsAbstract ==
  ASSUME NEW e, publish(e), head' = head, have' = have
  PROVE  Abstract!Lose
<1> DEFINE lost == {c \in Clients : dropped'[c] # {}}
<1>1. \A c \in Clients : dropped[c] \subseteq dropped'[c]
  BY DEF publish
<1>2. [c \in Clients |-> Holed(c)]'
        = [c \in Clients |-> [d \in Clients |-> Holed(d)][c] \/ c \in lost]
  BY <1>1 DEF Holed
<1> QED
  BY <1>2 DEF Abstract!Lose

LEMMA StepSimulation ==
  ASSUME IInv, IInv', [Next]_vars
  PROVE  [Abstract!Next]_(Abstract!vars)
<1> USE DEF server, client
<1>0. TypeOK /\ TypeOK'
  BY DEF IInv
<1>1. CASE Commit
  BY <1>1 DEF Commit, Abstract!Next, Abstract!Append, Holed
<1>2. CASE Echo
  <2>1. PICK q \in pending : publish(Durable(q))
    BY <1>2 DEF Echo
  <2>2. Abstract!Lose
    BY <1>2, <2>1, PublishIsAbstract DEF Echo
  <2> QED
    BY <2>2 DEF Abstract!Next
<1>3. CASE Emit
  <2>1. Abstract!Lose
    BY <1>3, PublishIsAbstract DEF Emit
  <2> QED
    BY <2>1 DEF Abstract!Next
<1>4. ASSUME NEW c \in Clients, EnterSession(c) \/ WriteFrame(c) \/ Forward(c)
      PROVE  [Abstract!Next]_(Abstract!vars)
  <2>1. /\ head' = head /\ dropped' = dropped
        /\ have' = [have EXCEPT ![c] = have'[c]] /\ have[c] \subseteq have'[c]
    <3>1. CASE EnterSession(c)
      <4>1. Bounded(c)
        BY DEF IInv
      <4> QED
        BY <1>0, <3>1, <4>1 DEF EnterSession, Bounded, TypeOK
    <3>2. CASE WriteFrame(c)
      BY <1>0, <3>2 DEF WriteFrame, Show, TypeOK
    <3>3. CASE Forward(c)
      BY <1>0, <3>3 DEF Forward, Show, TypeOK
    <3> QED
      BY <1>4, <3>1, <3>2, <3>3
  <2>2. Abstract!Show(c) \/ Abstract!Drift(c) \/ UNCHANGED Abstract!vars
    BY <2>1, ShownIsAbstract
  <2> QED
    BY <2>2 DEF Abstract!Next
<1>5. ASSUME NEW c \in Clients,
             \/ Subscribe(c) \/ ReadBacklog(c) \/ FlushOne(c) \/ FlushDone(c) \/ GoLive(c)
             \/ Disconnect(c)
      PROVE  [Abstract!Next]_(Abstract!vars)
  <2>1. head' = head /\ have' = have /\ dropped' = dropped
    BY <1>5 DEF Subscribe, ReadBacklog, FlushOne, FlushDone, GoLive, Disconnect
  <2> QED
    BY <2>1 DEF Abstract!vars, Holed
<1>6. CASE UNCHANGED vars
  BY <1>6 DEF vars, Abstract!vars, Holed
<1> QED
  BY <1>1, <1>2, <1>3, <1>4, <1>5, <1>6 DEF Next, StreamStep

\* With one writer at a time the stream keeps the promise of EventStream, for any
\* number of clients, rings of any capacity and streams lost at any point.
THEOREM StreamImplementsPromise ==
  ASSUME Serial
  PROVE  Spec => ImplementsEventStream
<1>1. Init => Abstract!Init
  BY DEF Init, Abstract!Init, Holed
<1> QED
  BY <1>1, StreamInit, StreamInvariant, StepSimulation, PTL
     DEF Spec, ImplementsEventStream, Abstract!Spec

=============================================================================
