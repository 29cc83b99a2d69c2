-------------------------- MODULE ReactLoop_proofs --------------------------
(* Proofs about ReactLoop: what a round may cost, what the results of a batch *)
(* say, and that the log never holds a call without its result but at the end  *)
(* of a run that broke off.                                                  *)
EXTENDS ReactLoop, SequenceTheorems, TLAPS

(***************************************************************************)
(* Of a round's provider calls every one that is over has been charged to    *)
(* one of its two budgets; and when the store offered a span, planning has    *)
(* charged the call that is still to come.                                  *)
(***************************************************************************)
Asking == {"plan", "compact", "replan", "request"}
Charged ==
  /\ pc \in Asking => /\ truncN <= TruncationAttempts /\ replans <= MaxContextReplans
                      /\ spent <= truncN + replans
  /\ pc \in Asking \ {"plan"} /\ offered => spent + 1 <= truncN + replans
  /\ SpendBounded

(***************************************************************************)
(* The batch: how far each pass has come, and what that says of each call.   *)
(***************************************************************************)
Apart == {"running", "sent", "panicked"}   \* on a thread of its own
Passes == {"launch", "inline", "collect"}

InHand ==
  /\ pc \in {"round", "plan", "compact", "replan", "request", "stop"} => calls = <<>>
  /\ pc \in BatchSteps => calls # <<>>
  /\ pc \in {"append", "authorize"} => at = 1
  /\ pc \in Passes => at \in Indices
Judged ==
  /\ Len(plan) <= Len(calls)
  /\ pc \in Passes => Len(plan) = Len(calls)
  /\ \A i \in 1 .. Len(plan) : plan[i] # "deny" => calls[i] \notin Disabled
  /\ \A i \in 1 .. Len(plan) : plan[i] = "ask" => i = Len(plan) /\ pc = "authorize"
Fates == \A i \in Indices :
  /\ result[i] \in {"denied", "aborted", "unknown"} => thread[i] = "none"
  /\ result[i] = "own" => thread[i] \in {"sent", "finished"}
  /\ thread[i] # "none" => i <= Len(plan) /\ plan[i] = "execute"
Passed == \A i \in Indices :
  /\ pc \in {"append", "authorize"} => thread[i] = "none" /\ result[i] = "none"
  /\ pc = "launch" => thread[i] \in Apart \cup {"none"} /\ result[i] = "none"
  /\ pc = "inline" /\ i < at => result[i] # "none" \/ thread[i] \in Apart
  /\ pc = "inline" /\ i >= at =>
       /\ result[i] = "none"
       /\ thread[i] \in Apart \cup {"none"} \/ (i = at /\ thread[i] = "inline")
  /\ pc = "collect" => result[i] # "none" \/ thread[i] \in Apart
  /\ pc = "collect" /\ i < at => result[i] # "none"
  /\ pc = "results" => result[i] # "none"

(***************************************************************************)
(* The log: while a batch is in hand, the answer it comes from is the last.  *)
(***************************************************************************)
AnswerLast == pc \in BatchSteps =>
  Len(log) > 0 /\ log[Len(log)] = Message("assistant", calls)

IInv == /\ TypeOK /\ Charged /\ InHand /\ Judged /\ Fates /\ Passed
        /\ AnswerLast /\ CallsAnsweredInOrder

-----------------------------------------------------------------------------
(* Types.                                                                    *)

Status == {"none", "running", "sent", "panicked", "inline", "finished"}
Verdicts == {"execute", "ask", "deny"}
Entries == [kind : {"user", "assistant", "tool", "compacted"}, calls : Seq(Tools)]

LEMMA Types ==
  TypeOK <=>
    /\ pc \in Steps \cup BatchSteps \cup {"steer"} \cup Ended
    /\ turn \in Nat /\ truncN \in Nat /\ replans \in Nat /\ spent \in Nat
    /\ offered \in BOOLEAN /\ cancelled \in BOOLEAN
    /\ calls \in Seq(Tools) /\ plan \in Seq(Verdicts)
    /\ at \in Nat \ {0}
    /\ thread \in [Indices -> Status] /\ result \in [Indices -> Origins]
    /\ log \in Seq(Entries)
BY DEF TypeOK, Status, Verdicts, Entries

LEMMA BatchType ==
  ASSUME NEW cs \in Batches
  PROVE  cs \in Seq(Tools) /\ DOMAIN cs = 1 .. Len(cs)
<1>1. PICK n \in 0 .. MaxCalls : cs \in [1 .. n -> Tools]
  BY DEF Batches
<1> QED
  BY <1>1, ReactAssumption

LEMMA Verdict == ASSUME NEW replies PROVE before_tool_call(replies) \in Verdicts
BY DEF before_tool_call, Verdicts

LEMMA EntryType ==
  ASSUME NEW k \in {"user", "assistant", "tool", "compacted"}, NEW cs \in Seq(Tools)
  PROVE  Message(k, cs) \in Entries /\ Plain(k) \in Entries
BY DEF Message, Plain, Entries

LEMMA LogType ==
  ASSUME log \in Seq(Entries), NEW k \in {"user", "assistant", "tool", "compacted"},
         NEW cs \in Seq(Tools)
  PROVE  Append(log, Message(k, cs)) \in Seq(Entries) /\ Append(log, Plain(k)) \in Seq(Entries)
<1>1. \A e \in Entries : Append(log, e) \in Seq(Entries)
  OBVIOUS
<1> QED
  BY <1>1, EntryType

\* The steps that leave the batch alone, and those that leave the budgets alone.
LEMMA AttemptEffect ==
  ASSUME Attempts
  PROVE  UNCHANGED batch \/ (pc = "request" /\ Completed)
BY DEF Attempts, run, PlanRequest, run_compaction, Replan, provider_attempt, AppendAnswer,
       ShouldStop

LEMMA BatchEffect ==
  ASSUME Batch
  PROVE  /\ UNCHANGED budget
         /\ pc \in BatchSteps \cup {"steer"}
         /\ pc' \in BatchSteps \cup {"steer", "round", "idle", "failed"}
BY DEF Batch, authorize, request_approval, Snapshot, Launch, SkipLaunched, execute_one,
       ExecuteInline, InlineDone, Collect, SkipCollected, AppendResults, Steer, Pass, Goto,
       end_turn, BatchSteps

\* A step of the loop on its own: the loop goes on, or ends.
LEMMA TypeAttempts == TypeOK /\ Attempts => TypeOK'
<1> SUFFICES ASSUME TypeOK, Attempts PROVE TypeOK'
  OBVIOUS
<1>t. /\ pc \in Steps \cup BatchSteps \cup {"steer"} \cup Ended
      /\ turn \in Nat /\ truncN \in Nat /\ replans \in Nat /\ spent \in Nat
      /\ offered \in BOOLEAN /\ cancelled \in BOOLEAN
      /\ calls \in Seq(Tools) /\ plan \in Seq(Verdicts)
      /\ at \in Nat \ {0}
      /\ thread \in [Indices -> Status] /\ result \in [Indices -> Origins]
      /\ log \in Seq(Entries)
  BY Types
<1>1. pc' \in Steps \cup BatchSteps \cup {"steer"} \cup Ended
  BY DEF Attempts, run, PlanRequest, run_compaction, Replan, provider_attempt, AppendAnswer,
         ShouldStop, Truncated, Overflow, Completed, end_turn, Goto, Steps, BatchSteps, Ended
<1>2. /\ turn' \in Nat /\ truncN' \in Nat /\ replans' \in Nat /\ spent' \in Nat
      /\ offered' \in BOOLEAN /\ cancelled' \in BOOLEAN
  <2>1. CASE provider_attempt
    BY <1>t, <2>1 DEF provider_attempt, Truncated, Overflow, Completed
  <2>2. CASE run
    BY <1>t, <2>2 DEF run, budget
  <2>4. CASE PlanRequest
    <3>1. UNCHANGED <<turn, truncN, spent, cancelled>>
      BY <2>4 DEF PlanRequest
    <3>2. \/ UNCHANGED <<offered, replans>>
          \/ offered' \in BOOLEAN /\ replans' \in {replans, replans + 1}
      BY <2>4 DEF PlanRequest
    <3> QED
      BY <1>t, <3>1, <3>2
  <2>3. CASE run_compaction \/ Replan \/ AppendAnswer \/ ShouldStop
    BY <1>t, <2>3 DEF run_compaction, Replan, AppendAnswer, ShouldStop, budget
  <2> QED
    BY <2>1, <2>2, <2>3, <2>4 DEF Attempts
<1>3. /\ calls' \in Seq(Tools) /\ plan' \in Seq(Verdicts) /\ at' \in Nat \ {0}
      /\ thread' \in [Indices' -> Status] /\ result' \in [Indices' -> Origins]
  <2>1. CASE UNCHANGED batch
    BY <1>t, <2>1 DEF batch, Indices
  <2>2. CASE Completed
    <3>1. PICK cs \in Batches : /\ calls' = cs
                                /\ thread' = [i \in DOMAIN cs |-> "none"]
                                /\ result' = [i \in DOMAIN cs |-> "none"]
      BY <2>2 DEF Completed
    <3>2. plan' = <<>> /\ at' = 1
      BY <2>2 DEF Completed
    <3> QED
      BY <3>1, <3>2, BatchType DEF Indices, Status, Origins
  <2> QED
    BY <2>1, <2>2, AttemptEffect
<1>4. log' \in Seq(Entries)
  <2>1. ASSUME NEW k \in {"user", "assistant", "compacted"}, NEW cs \in Seq(Tools),
               log' = Append(log, Message(k, cs)) \/ log' = Append(log, Plain(k))
        PROVE  log' \in Seq(Entries)
    BY <1>t, <2>1, LogType
  <2>2. \/ log' = log
        \/ \E k \in {"user", "compacted"} : log' = Append(log, Plain(k))
        \/ log' = Append(log, Message("assistant", calls))
    BY DEF Attempts, run, PlanRequest, run_compaction, Replan, provider_attempt,
           AppendAnswer, ShouldStop
  <2> QED
    BY <1>t, <2>1, <2>2
<1> QED
  BY <1>1, <1>2, <1>3, <1>4 DEF TypeOK, Status, Verdicts, Entries

LEMMA TypeBatch == TypeOK /\ InHand /\ Batch => TypeOK'
<1> SUFFICES ASSUME TypeOK, InHand, Batch PROVE TypeOK'
  OBVIOUS
<1>t. /\ pc \in Steps \cup BatchSteps \cup {"steer"} \cup Ended
      /\ turn \in Nat /\ truncN \in Nat /\ replans \in Nat /\ spent \in Nat
      /\ offered \in BOOLEAN /\ cancelled \in BOOLEAN
      /\ calls \in Seq(Tools) /\ plan \in Seq(Verdicts)
      /\ at \in Nat \ {0}
      /\ thread \in [Indices -> Status] /\ result \in [Indices -> Origins]
      /\ log \in Seq(Entries)
  BY Types
<1>1. pc' \in Steps \cup BatchSteps \cup {"steer"} \cup Ended
  BY BatchEffect DEF Steps, Ended
<1>2. /\ turn' \in Nat /\ truncN' \in Nat /\ replans' \in Nat /\ spent' \in Nat
      /\ offered' \in BOOLEAN /\ cancelled' \in BOOLEAN
  BY <1>t DEF Batch, authorize, request_approval, Snapshot, Launch, SkipLaunched,
         execute_one, ExecuteInline, InlineDone, Collect, SkipCollected, AppendResults, Steer,
         budget
<1>3. at' \in Nat \ {0}
  BY <1>t DEF Batch, authorize, request_approval, Snapshot, Launch, SkipLaunched,
         execute_one, ExecuteInline, InlineDone, Collect, SkipCollected, AppendResults, Steer,
         Pass, batch
<1>4. plan' \in Seq(Verdicts)
  <2>1. ASSUME NEW v \in Verdicts, plan' = Append(plan, v) PROVE plan' \in Seq(Verdicts)
    BY <1>t, <2>1
  <2>2. CASE authorize
    BY <2>1, <2>2, Verdict DEF authorize, Verdicts
  <2>3. CASE request_approval
    <3>1. PICK v \in Verdicts : plan' = [plan EXCEPT ![Len(plan)] = v]
      BY <2>3 DEF request_approval, Verdicts
    <3> QED
      BY <1>t, <2>3, <3>1, ExceptSeq DEF request_approval
  <2>4. CASE Steer
    BY <2>4 DEF Steer
  <2> QED
    BY <1>t, <2>2, <2>3, <2>4 DEF Batch, Snapshot, Launch, SkipLaunched, execute_one,
       ExecuteInline, InlineDone, Collect, SkipCollected, AppendResults, batch
<1>5. /\ calls' \in Seq(Tools)
      /\ thread' \in [Indices' -> Status] /\ result' \in [Indices' -> Origins]
  <2>1. CASE Steer
    BY <2>1 DEF Steer, Indices
  <2>2. CASE ~Steer
    <3>1. calls' = calls /\ Indices' = Indices
      BY <2>2 DEF Indices, Batch, authorize, request_approval, Snapshot, Launch, SkipLaunched,
         execute_one, ExecuteInline, InlineDone, Collect, SkipCollected, AppendResults, batch
    <3>2. /\ \/ thread' = thread
             \/ \E v \in Status : thread' = [thread EXCEPT ![at] = v]
      BY <2>2 DEF Batch, authorize, request_approval, Snapshot, Launch, SkipLaunched,
         execute_one, ExecuteInline, InlineDone, Collect, SkipCollected, AppendResults, batch,
         Status
    <3>3. \A i : recv_parallel_result(i) \in Origins /\ Answered(i) \in Origins
      BY DEF recv_parallel_result, Answered, Origins
    <3>4. \/ result' = result
          \/ \E v \in Origins : result' = [result EXCEPT ![at] = v]
          \/ Fill
      BY <2>2, <3>3 DEF Batch, authorize, request_approval, Snapshot, Launch, SkipLaunched,
         execute_one, ExecuteInline, InlineDone, Collect, SkipCollected, AppendResults, batch,
         Origins
    <3>5. thread' \in [Indices -> Status]
      BY <1>t, <3>2
    <3>6. result' \in [Indices -> Origins]
      BY <1>t, <3>4 DEF Fill, Origins
    <3> QED
      BY <1>t, <3>1, <3>5, <3>6
  <2> QED
    BY <2>1, <2>2
<1>6. log' \in Seq(Entries)
  <2>1. \/ log' = log \/ log' = Append(log, Plain("user"))
        \/ log' = Append(log, Message("tool", calls))
    BY DEF Batch, authorize, request_approval, Snapshot, Launch, SkipLaunched,
           execute_one, ExecuteInline, InlineDone, Collect, SkipCollected, AppendResults, Steer
  <2> QED
    BY <1>t, <2>1, LogType
<1> QED
  BY <1>1, <1>2, <1>3, <1>4, <1>5, <1>6 DEF TypeOK, Status, Verdicts, Entries

LEMMA TypeStep == TypeOK /\ InHand /\ [Next]_vars => TypeOK'
<1> SUFFICES ASSUME TypeOK, InHand, [Next]_vars PROVE TypeOK'
  OBVIOUS
<1>1. CASE InlinePanics \/ Cancel
  BY <1>1 DEF InlinePanics, Cancel, Goto, TypeOK, Indices, batch, budget, Ended
<1>2. ASSUME NEW i \in Indices, ThreadEnds(i) PROVE TypeOK'
  <2>1. PICK end \in {"sent", "panicked"} : thread' = [thread EXCEPT ![i] = end]
    BY <1>2 DEF ThreadEnds
  <2>2. /\ Indices' = Indices
        /\ UNCHANGED <<pc, turn, truncN, replans, offered, spent, cancelled, calls, plan, at,
                       result, log>>
    BY <1>2 DEF ThreadEnds, Indices, budget
  <2> QED
    BY <2>1, <2>2 DEF TypeOK
<1>3. CASE UNCHANGED vars
  BY <1>3 DEF vars, TypeOK, Indices
<1> QED
  BY <1>1, <1>2, <1>3, TypeAttempts, TypeBatch DEF Next, LoopStep

-----------------------------------------------------------------------------
(* The budgets.                                                              *)

LEMMA ChargedStep == TypeOK /\ Charged /\ [Next]_vars => Charged'
<1> SUFFICES ASSUME TypeOK, Charged, [Next]_vars PROVE Charged'
  OBVIOUS
<1>t. /\ truncN \in Nat /\ replans \in Nat /\ spent \in Nat /\ offered \in BOOLEAN
  BY Types
<1>a. /\ TruncationAttempts \in Nat /\ MaxContextReplans \in Nat
  BY ReactAssumption
<1>0. SpendBounded' <=> spent' <= TruncationAttempts + MaxContextReplans + 1
  BY DEF SpendBounded
<1> USE DEF Charged, SpendBounded, Asking, Goto, end_turn
<1>1. CASE run
  BY <1>1, <1>t, <1>a DEF run, budget
<1>2. CASE PlanRequest
  BY <1>2, <1>t, <1>a DEF PlanRequest
<1>3. CASE run_compaction
  BY <1>3, <1>t DEF run_compaction, budget
<1>4. CASE Replan
  BY <1>4, <1>t DEF Replan, budget
<1>5. CASE provider_attempt
  <2>1. /\ pc = "request" /\ spent' = spent + 1 /\ offered' = offered
    BY <1>5 DEF provider_attempt
  <2>2. /\ truncN <= TruncationAttempts /\ replans <= MaxContextReplans
        /\ spent <= truncN + replans /\ offered => spent + 1 <= truncN + replans
    BY <2>1
  <2>3. spent' <= TruncationAttempts + MaxContextReplans + 1
    BY <1>t, <1>a, <2>1, <2>2
  <2>4. CASE Truncated
    BY <1>t, <1>a, <2>1, <2>2, <2>3, <2>4 DEF Truncated
  <2>5. CASE Overflow
    BY <1>t, <1>a, <2>1, <2>2, <2>3, <2>5 DEF Overflow
  <2>6. CASE pc' \in {"idle", "failed", "append"}
    BY <2>3, <2>6
  <2> QED
    BY <1>5, <2>4, <2>5, <2>6 DEF provider_attempt, Completed
<1>6. CASE AppendAnswer \/ ShouldStop
  BY <1>6 DEF AppendAnswer, ShouldStop, budget
<1>7. CASE Batch
  BY <1>7, BatchEffect DEF BatchSteps, budget
<1>8. CASE InlinePanics \/ Cancel \/ (\E i \in Indices : ThreadEnds(i)) \/ UNCHANGED vars
  BY <1>8 DEF InlinePanics, Cancel, ThreadEnds, budget, vars
<1> QED
  BY <1>1, <1>2, <1>3, <1>4, <1>5, <1>6, <1>7, <1>8 DEF Next, LoopStep, Attempts

-----------------------------------------------------------------------------
(* The batch.                                                                *)

BatchInv == InHand /\ Judged /\ Fates /\ Passed

\* A step that does not touch the batch, and leads to no pass over it.
LEMMA BatchKept ==
  ASSUME BatchInv, UNCHANGED batch,
         pc' \in {"round", "plan", "compact", "replan", "request", "stop"} => calls = <<>>,
         pc # "authorize", pc' \notin BatchSteps \cup {"append"}
  PROVE  BatchInv'
BY DEF BatchInv, InHand, Judged, Fates, Passed, batch, Indices, BatchSteps, Passes

LEMMA BatchAttempts == TypeOK /\ BatchInv /\ Attempts => BatchInv'
<1> SUFFICES ASSUME TypeOK, BatchInv, Attempts PROVE BatchInv'
  OBVIOUS
<1> USE DEF Goto, end_turn
<1>1. CASE run \/ PlanRequest \/ run_compaction \/ Replan \/ ShouldStop
  <2>1. /\ UNCHANGED batch /\ pc \in {"round", "plan", "compact", "replan", "stop"}
        /\ pc' \in {"plan", "compact", "replan", "request", "round", "idle", "failed"}
    BY <1>1 DEF run, PlanRequest, run_compaction, Replan, ShouldStop
  <2>2. calls = <<>>
    BY <2>1 DEF BatchInv, InHand
  <2> QED
    BY <2>1, <2>2, BatchKept DEF BatchSteps
<1>2. CASE provider_attempt /\ ~Completed
  <2>1. pc = "request" /\ UNCHANGED batch /\ pc' \in {"plan", "idle", "failed"}
    BY <1>2 DEF provider_attempt, Truncated, Overflow
  <2>2. calls = <<>>
    BY <2>1 DEF BatchInv, InHand
  <2> QED
    BY <2>1, <2>2, BatchKept DEF BatchSteps
<1>3. CASE Completed
  <2>1. PICK cs \in Batches : /\ calls' = cs
                              /\ thread' = [i \in DOMAIN cs |-> "none"]
                              /\ result' = [i \in DOMAIN cs |-> "none"]
    BY <1>3 DEF Completed
  <2>2. plan' = <<>> /\ at' = 1 /\ pc' = "append"
    BY <1>3 DEF Completed
  <2>3. \A i \in Indices' : thread'[i] = "none" /\ result'[i] = "none"
    BY <2>1, BatchType DEF Indices
  <2>4. Len(plan') = 0 /\ Len(calls') \in Nat
    BY <2>1, <2>2, BatchType
  <2> QED
    BY <2>2, <2>3, <2>4 DEF BatchInv, InHand, Judged, Fates, Passed, BatchSteps, Passes
<1>4. CASE AppendAnswer
  <2>1. /\ pc = "append" /\ UNCHANGED batch
        /\ \/ pc' = "stop" /\ calls = <<>>
           \/ pc' = "authorize" /\ calls # <<>>
           \/ pc' = "failed"
    BY <1>4 DEF AppendAnswer
  <2>2. CASE pc' = "authorize" /\ calls # <<>>
    BY <2>1, <2>2 DEF BatchInv, InHand, Judged, Fates, Passed, batch, Indices, Passes
  <2>3. CASE (pc' = "stop" /\ calls = <<>>) \/ pc' = "failed"
    BY <2>1, <2>3, BatchKept DEF BatchSteps
  <2> QED
    BY <2>1, <2>2, <2>3
<1> QED
  BY <1>1, <1>2, <1>3, <1>4, AttemptEffect DEF Attempts

\* A verdict: one that permits a call is of a tool that is switched on.
LEMMA BatchVerdict ==
  ASSUME TypeOK, BatchInv, pc = "authorize", pc' = pc,
         UNCHANGED <<calls, at, thread, result>>, plan' \in Seq(Verdicts),
         Len(plan') <= Len(calls),
         \A i \in 1 .. Len(plan') :
           plan'[i] = "deny" \/ (i \in 1 .. Len(plan) /\ plan[i] # "deny")
                             \/ calls[i] \notin Disabled,
         \A i \in 1 .. Len(plan') : plan'[i] = "ask" => i = Len(plan')
  PROVE  BatchInv'
<1>1. \A i \in Indices : thread[i] = "none" /\ result[i] = "none"
  BY DEF BatchInv, Passed
<1>2. Judged'
  BY DEF BatchInv, Judged, Passes
<1>3. Fates'
  BY <1>1 DEF Fates, Indices
<1>4. InHand' /\ Passed'
  BY <1>1 DEF BatchInv, InHand, Passed, Indices, Passes
<1> QED
  BY <1>2, <1>3, <1>4 DEF BatchInv

LEMMA AuthorizeStep == TypeOK /\ BatchInv /\ (authorize \/ request_approval) => BatchInv'
<1> SUFFICES ASSUME TypeOK, BatchInv, authorize \/ request_approval PROVE BatchInv'
  OBVIOUS
<1>0. plan \in Seq(Verdicts) /\ calls \in Seq(Tools) /\ Len(plan) \in Nat /\ Len(calls) \in Nat
  BY Types
<1>1. CASE authorize
  <2>1. /\ pc = "authorize" /\ pc' = pc /\ Len(plan) < Len(calls)
        /\ UNCHANGED <<calls, at, thread, result>>
    BY <1>1 DEF authorize
  <2>2. PICK v \in Verdicts : /\ plan' = Append(plan, v)
                              /\ v = "deny" \/ calls[Len(plan) + 1] \notin Disabled
    BY <1>1, Verdict DEF authorize, Verdicts
  <2>3. /\ plan' \in Seq(Verdicts) /\ Len(plan') = Len(plan) + 1
        /\ \A i \in 1 .. Len(plan') : \/ i \in 1 .. Len(plan) /\ plan'[i] = plan[i]
                                      \/ i = Len(plan) + 1 /\ plan'[i] = v
    BY <1>0, <2>2
  <2>4. \A i \in 1 .. Len(plan') :
          plan'[i] = "deny" \/ (i \in 1 .. Len(plan) /\ plan[i] # "deny")
                            \/ calls[i] \notin Disabled
    BY <2>2, <2>3
  <2>5. plan # <<>> => plan[Len(plan)] # "ask"
    BY <1>1 DEF authorize
  <2>6. \A i \in 1 .. Len(plan) : plan[i] # "ask"
    BY <1>0, <2>5 DEF BatchInv, Judged
  <2>7. \A i \in 1 .. Len(plan') : plan'[i] = "ask" => i = Len(plan')
    BY <1>0, <2>3, <2>6
  <2> QED
    BY <1>0, <2>1, <2>3, <2>4, <2>7, BatchVerdict
<1>2. CASE request_approval
  <2>1. /\ pc = "authorize" /\ pc' = pc /\ UNCHANGED <<calls, at, thread, result>>
        /\ plan # <<>> /\ plan[Len(plan)] = "ask"
    BY <1>2 DEF request_approval
  <2>2. PICK v \in {"execute", "deny"} : plan' = [plan EXCEPT ![Len(plan)] = v]
    BY <1>2 DEF request_approval, Verdicts
  <2>3. /\ plan' \in Seq(Verdicts) /\ Len(plan') = Len(plan)
        /\ \A i \in 1 .. Len(plan) : i = Len(plan) \/ plan'[i] = plan[i]
    <3>1. v \in Verdicts /\ Len(plan) \in 1 .. Len(plan)
      BY <1>0, <2>1 DEF Verdicts
    <3> QED
      BY <1>0, <2>2, <3>1, ExceptSeq
  <2>4. \A i \in 1 .. Len(plan') :
          plan'[i] = "deny" \/ (i \in 1 .. Len(plan) /\ plan[i] # "deny")
    BY <2>1, <2>3
  <2>5. Len(plan') <= Len(calls)
    BY <2>3 DEF BatchInv, Judged
  <2>6. \A i \in 1 .. Len(plan') : plan'[i] = "ask" => i = Len(plan')
    BY <1>0, <2>3 DEF BatchInv, Judged
  <2> QED
    BY <2>1, <2>3, <2>4, <2>5, <2>6, BatchVerdict
<1> QED
  BY <1>1, <1>2

\* A pass looks at the call at `at`, and goes on to the next one or to the next pass.
LEMMA PassEffect ==
  ASSUME TypeOK, InHand, NEW p \in Passes, NEW next, next # p, Pass(p, next)
  PROVE  /\ at \in Indices /\ at' \in Indices
         /\ \/ pc' = p /\ at' = at + 1 /\ pc = p
            \/ pc' = next /\ at' = 1 /\ at = Len(calls) /\ pc = p
         /\ \A i \in Indices : pc' = p => (i < at' <=> (i < at \/ i = at))
         /\ \A i \in Indices : pc' # p => (i < at \/ i = at)
<1>0. calls \in Seq(Tools) /\ Len(calls) \in Nat /\ at \in Nat \ {0}
  BY Types
<1>1. at \in Indices /\ pc = p
  BY DEF InHand, Pass
<1>2. at <= Len(calls) /\ at >= 1
  BY <1>0, <1>1 DEF Indices
<1>3. CASE at < Len(calls)
  <2>1. at' = at + 1 /\ pc' = p
    BY <1>1, <1>3 DEF Pass
  <2> QED
    BY <1>0, <1>1, <1>2, <1>3, <2>1 DEF Indices
<1>4. CASE ~(at < Len(calls))
  <2>1. at' = 1 /\ pc' = next /\ at = Len(calls)
    BY <1>0, <1>2, <1>4 DEF Pass, Goto
  <2> QED
    BY <1>0, <1>1, <1>2, <2>1 DEF Indices
<1> QED
  BY <1>3, <1>4

LEMMA LaunchStep == TypeOK /\ BatchInv /\ (Snapshot \/ Launch) => BatchInv'
<1> SUFFICES ASSUME TypeOK, BatchInv, Snapshot \/ Launch PROVE BatchInv'
  OBVIOUS
<1>0. /\ thread \in [Indices -> Status] /\ Len(calls) \in Nat /\ Len(plan) \in Nat
      /\ calls \in Seq(Tools)
  BY Types
<1>1. CASE Snapshot
  <2>1. /\ pc = "authorize" /\ pc' = "launch" /\ Len(plan) = Len(calls) /\ UNCHANGED batch
    BY <1>1 DEF Snapshot, Goto
  <2>2. calls # <<>> /\ at = 1
    BY <2>1 DEF BatchInv, InHand, BatchSteps
  <2>3. 1 \in Indices
    BY <1>0, <2>2 DEF Indices
  <2>4. \A i \in 1 .. Len(plan) : plan[i] # "ask"
    BY <1>0, <1>1 DEF Snapshot, BatchInv, Judged
  <2> QED
    BY <2>1, <2>2, <2>3, <2>4
       DEF BatchInv, InHand, Judged, Fates, Passed, batch, Indices, BatchSteps, Passes
<1>2. CASE Launch
  <2>1. Pass("launch", "inline") /\ UNCHANGED <<calls, plan, result>>
    BY <1>2 DEF Launch
  <2>2. /\ at \in Indices /\ at' \in Indices /\ pc = "launch" /\ pc' \in {"launch", "inline"}
        /\ pc' = "inline" => at' = 1
    BY <2>1, PassEffect DEF BatchInv, Passes
  <2>3. \A i \in Indices : \/ thread'[i] = thread[i]
                           \/ thread'[i] = "running" /\ plan[i] = "execute"
    BY <1>0, <1>2 DEF Launch, Launchable
  <2>4. \A i \in Indices : thread[i] \in Apart \cup {"none"} /\ result[i] = "none"
    BY <2>2 DEF BatchInv, Passed
  <2>5. InHand' /\ Judged'
    BY <2>1, <2>2 DEF BatchInv, InHand, Judged, Indices, BatchSteps, Passes
  <2>6. Fates'
    <3>1. Len(plan) = Len(calls)
      BY <2>2 DEF BatchInv, Judged, Passes
    <3> QED
      BY <2>1, <2>3, <2>4, <3>1 DEF BatchInv, Fates, Indices
  <2>7. Passed'
    BY <2>1, <2>2, <2>3, <2>4 DEF Passed, Indices, Apart
  <2> QED
    BY <2>5, <2>6, <2>7 DEF BatchInv
<1> QED
  BY <1>1, <1>2

\* A pass over the calls on no thread leaves behind, at `at`, a call with a result
\* or on a thread.
LEMMA InlinePass ==
  ASSUME TypeOK, BatchInv, Pass("inline", "collect"), UNCHANGED <<calls, plan>>,
         \A i \in Indices : i # at => thread'[i] = thread[i] /\ result'[i] = result[i],
         result'[at] # "none" \/ thread'[at] \in Apart,
         result'[at] \in {"denied", "aborted", "unknown"} => thread'[at] = "none",
         result'[at] = "own" => thread'[at] = "finished",
         thread'[at] = "none" \/ thread[at] # "none"
  PROVE  BatchInv'
<1>0. /\ Len(calls) \in Nat /\ calls \in Seq(Tools)
      /\ Indices' = Indices /\ \A i \in Indices : i \in Nat
  BY Types DEF Indices
<1>1. /\ at \in Indices /\ at' \in Indices /\ pc = "inline"
      /\ pc' = "inline" \/ (pc' = "collect" /\ at' = 1)
      /\ \A i \in Indices : pc' = "inline" => (i < at' <=> (i < at \/ i = at))
      /\ \A i \in Indices : pc' # "inline" => (i < at \/ i = at)
  <2>1. InHand /\ "inline" \in Passes
    BY DEF BatchInv, Passes
  <2>2. /\ at \in Indices /\ at' \in Indices
        /\ \/ pc' = "inline" /\ at' = at + 1 /\ pc = "inline"
           \/ pc' = "collect" /\ at' = 1 /\ at = Len(calls) /\ pc = "inline"
        /\ \A i \in Indices : pc' = "inline" => (i < at' <=> (i < at \/ i = at))
        /\ \A i \in Indices : pc' # "inline" => (i < at \/ i = at)
    BY <2>1, PassEffect
  <2> QED
    BY <2>2
<1>2. \A i \in Indices : i < at => result[i] # "none" \/ thread[i] \in Apart
  BY <1>1 DEF BatchInv, Passed
<1>3. \A i \in Indices : i >= at =>
        /\ result[i] = "none"
        /\ \/ thread[i] \in Apart \cup {"none"}
           \/ i = at /\ thread[i] = "inline"
  BY <1>1 DEF BatchInv, Passed
<1>4. InHand' /\ Judged'
  BY <1>0, <1>1 DEF BatchInv, InHand, Judged, BatchSteps, Passes
<1>5. Fates'
  BY <1>0, <1>1 DEF BatchInv, Fates
<1>6. \A i \in Indices : i < at \/ i = at => result'[i] # "none" \/ thread'[i] \in Apart
  BY <1>0, <1>1, <1>2
<1>7. \A i \in Indices : i < at' <=> ~(i >= at')
  BY <1>0, <1>1
<1>8. \A i \in Indices : i < at <=> ~(i >= at)
  BY <1>0, <1>1
<1>9. CASE pc' = "inline"
  <2>1. \A i \in Indices : i >= at' => i >= at /\ i # at
    BY <1>1, <1>7, <1>8, <1>9
  <2>2. \A i \in Indices : i >= at' =>
          result'[i] = "none" /\ thread'[i] \in Apart \cup {"none"}
    BY <1>3, <2>1
  <2> QED
    BY <1>0, <1>1, <1>4, <1>5, <1>6, <1>9, <2>2 DEF BatchInv, Passed
<1>10. CASE pc' = "collect"
  <2>1. at' = 1 /\ \A i \in Indices : ~(i < at')
    BY <1>0, <1>1, <1>10 DEF Indices
  <2> QED
    BY <1>0, <1>1, <1>4, <1>5, <1>6, <1>10, <2>1 DEF BatchInv, Passed
<1> QED
  BY <1>1, <1>9, <1>10

LEMMA InlineStep ==
  TypeOK /\ BatchInv /\ (SkipLaunched \/ execute_one \/ InlineDone) => BatchInv'
<1> SUFFICES ASSUME TypeOK, BatchInv, SkipLaunched \/ execute_one \/ InlineDone
    PROVE  BatchInv'
  OBVIOUS
<1>0. thread \in [Indices -> Status] /\ result \in [Indices -> Origins] /\ at \in Nat
  BY Types
<1>1. Pass("inline", "collect") /\ UNCHANGED <<calls, plan>>
  BY DEF SkipLaunched, execute_one, InlineDone
<1>2. at \in Indices /\ pc = "inline"
  BY <1>1, PassEffect DEF BatchInv, Passes
<1>3. /\ result[at] = "none"
      /\ thread[at] \in Apart \cup {"none", "inline"}
  BY <1>0, <1>2 DEF BatchInv, Passed
<1>4. CASE SkipLaunched
  <2>1. UNCHANGED <<thread, result>> /\ thread[at] \in Apart
    BY <1>3, <1>4 DEF SkipLaunched
  <2> QED
    BY <1>1, <1>3, <2>1, InlinePass DEF Apart
<1>5. CASE execute_one
  <2>1. /\ thread' = thread /\ thread[at] = "none"
        /\ result' = [result EXCEPT ![at] = Answered(at)]
        /\ Answered(at) \in {"denied", "aborted", "unknown"}
    BY <1>5 DEF execute_one, Answered
  <2>2. /\ result'[at] \in {"denied", "aborted", "unknown"}
        /\ \A i \in Indices : i # at => result'[i] = result[i]
    BY <1>0, <1>2, <2>1
  <2> QED
    BY <1>1, <2>1, <2>2, InlinePass
<1>6. CASE InlineDone
  <2>1. /\ thread[at] = "inline"
        /\ thread' = [thread EXCEPT ![at] = "finished"]
        /\ result' = [result EXCEPT ![at] = "own"]
    BY <1>6 DEF InlineDone
  <2>2. /\ result'[at] = "own" /\ thread'[at] = "finished"
        /\ \A i \in Indices : i # at => thread'[i] = thread[i] /\ result'[i] = result[i]
    BY <1>0, <1>2, <2>1
  <2> QED
    BY <1>1, <2>1, <2>2, InlinePass
<1> QED
  BY <1>4, <1>5, <1>6

LEMMA InlineStarts == TypeOK /\ BatchInv /\ ExecuteInline => BatchInv'
<1> SUFFICES ASSUME TypeOK, BatchInv, ExecuteInline PROVE BatchInv'
  OBVIOUS
<1>0. /\ thread \in [Indices -> Status] /\ at \in Nat /\ Len(calls) \in Nat
      /\ plan \in Seq(Verdicts)
  BY Types
<1>1. /\ pc = "inline" /\ pc' = pc /\ UNCHANGED <<calls, plan, at, result>>
      /\ thread[at] = "none" /\ Answered(at) = "none"
      /\ thread' = [thread EXCEPT ![at] = "inline"]
  BY DEF ExecuteInline
<1>2. at \in Indices /\ Len(plan) = Len(calls)
  BY <1>1 DEF BatchInv, InHand, Judged, Passes
<1>3. result[at] = "none"
  BY <1>0, <1>1, <1>2 DEF BatchInv, Passed
<1>4. /\ thread'[at] = "inline"
      /\ \A i \in Indices : i # at => thread'[i] = thread[i]
  BY <1>0, <1>1, <1>2
<1>5. plan[at] = "execute"
  <2>1. plan[at] # "deny"
    BY <1>1 DEF Answered
  <2>2. at \in 1 .. Len(plan) /\ plan[at] # "ask"
    BY <1>1, <1>2 DEF Indices, BatchInv, Judged
  <2> QED
    BY <1>0, <2>1, <2>2 DEF Verdicts
<1>6. InHand' /\ Judged'
  BY <1>1 DEF BatchInv, InHand, Judged, Indices
<1>7. Fates'
  <2>1. at <= Len(plan)
    BY <1>0, <1>2 DEF Indices
  <2> QED
    BY <1>1, <1>3, <1>4, <1>5, <2>1 DEF BatchInv, Fates, Indices
<1>8. Passed'
  <2>1. \A i \in Indices : i < at => i # at
    BY <1>0 DEF Indices
  <2> QED
    BY <1>1, <1>3, <1>4, <2>1 DEF BatchInv, Passed, Indices
<1> QED
  BY <1>6, <1>7, <1>8 DEF BatchInv

LEMMA CollectStep == TypeOK /\ BatchInv /\ (Collect \/ SkipCollected) => BatchInv'
<1> SUFFICES ASSUME TypeOK, BatchInv, Collect \/ SkipCollected PROVE BatchInv'
  OBVIOUS
<1>0. /\ thread \in [Indices -> Status] /\ result \in [Indices -> Origins]
      /\ \A i \in Indices : i \in Nat
  BY Types DEF Indices
<1>1. Pass("collect", "results") /\ UNCHANGED <<calls, plan, thread>> /\ Indices' = Indices
  BY DEF Collect, SkipCollected, Indices
<1>2. /\ at \in Indices /\ at' \in Indices
      /\ \/ pc' = "collect" /\ at' = at + 1 /\ pc = "collect"
         \/ pc' = "results" /\ at' = 1 /\ at = Len(calls) /\ pc = "collect"
      /\ \A i \in Indices : pc' = "collect" => (i < at' <=> (i < at \/ i = at))
      /\ \A i \in Indices : pc' # "collect" => (i < at \/ i = at)
  <2>1. InHand /\ "collect" \in Passes
    BY DEF BatchInv, Passes
  <2> QED
    BY <1>1, <2>1, PassEffect
<1>3. \A i \in Indices : /\ result[i] # "none" \/ thread[i] \in Apart
                         /\ i < at => result[i] # "none"
  BY <1>2 DEF BatchInv, Passed
\* What a thread answers, or an abandoned thread is taken to have answered.
<1>4. /\ result'[at] # "none"
      /\ \A i \in Indices :
           result'[i] = result[i] \/ (result'[i] = "own" /\ thread[i] = "sent")
                                  \/ result'[i] \in {"panicked", "abandoned"}
      /\ \A i \in Indices : i # at => result'[i] = result[i]
  <2>1. CASE Collect
    <3>1. /\ result' = [result EXCEPT ![at] = recv_parallel_result(at)]
          /\ recv_parallel_result(at) # "none"
      BY <2>1 DEF Collect
    <3>2. \/ recv_parallel_result(at) = "own" /\ thread[at] = "sent"
          \/ recv_parallel_result(at) \in {"panicked", "abandoned"}
      BY <3>1 DEF recv_parallel_result
    <3> QED
      BY <1>0, <1>2, <3>1, <3>2
  <2>2. CASE SkipCollected
    BY <2>2 DEF SkipCollected
  <2> QED
    BY <2>1, <2>2
<1>5. InHand' /\ Judged'
  BY <1>1, <1>2 DEF BatchInv, InHand, Judged, BatchSteps, Passes
<1>6. Fates'
  BY <1>1, <1>4 DEF BatchInv, Fates
<1>7. \A i \in Indices : i < at \/ i = at => result'[i] # "none"
  BY <1>0, <1>3, <1>4
<1>8. \A i \in Indices : result'[i] # "none" \/ thread'[i] \in Apart
  BY <1>1, <1>3, <1>7, <1>4
<1>9. Passed'
  BY <1>1, <1>2, <1>7, <1>8 DEF Passed
<1> QED
  BY <1>5, <1>6, <1>9 DEF BatchInv

LEMMA ResultsStep == TypeOK /\ BatchInv /\ (AppendResults \/ Steer) => BatchInv'
<1> SUFFICES ASSUME TypeOK, BatchInv, AppendResults \/ Steer PROVE BatchInv'
  OBVIOUS
<1>1. CASE AppendResults
  <2>1. /\ pc = "results" /\ pc' \in {"idle", "steer", "failed"} /\ Fill
        /\ UNCHANGED <<calls, plan, at, thread>>
    BY <1>1 DEF AppendResults, Goto, end_turn
  <2>2. \A i \in Indices : result[i] # "none"
    BY <2>1 DEF BatchInv, Passed
  <2>3. \A i \in Indices : result'[i] = result[i]
    BY <2>1, <2>2 DEF Fill
  <2> QED
    BY <2>1, <2>3
       DEF BatchInv, InHand, Judged, Fates, Passed, Indices, BatchSteps, Passes
<1>2. CASE Steer
  <2>1. /\ calls' = <<>> /\ plan' = <<>> /\ pc' \in {"round", "failed"}
    BY <1>2 DEF Steer, Goto, end_turn
  <2>2. Indices' = {} /\ Len(plan') = 0 /\ Len(calls') = 0
    BY <2>1 DEF Indices
  <2> QED
    BY <2>1, <2>2 DEF BatchInv, InHand, Judged, Fates, Passed, BatchSteps, Passes
<1> QED
  BY <1>1, <1>2

LEMMA OtherStep ==
  TypeOK /\ BatchInv /\ (InlinePanics \/ Cancel \/ (\E i \in Indices : ThreadEnds(i))
                         \/ UNCHANGED vars) => BatchInv'
<1> SUFFICES ASSUME TypeOK, BatchInv,
                    InlinePanics \/ Cancel \/ (\E i \in Indices : ThreadEnds(i))
                    \/ UNCHANGED vars
             PROVE  BatchInv'
  OBVIOUS
<1>1. CASE InlinePanics
  BY <1>1, BatchKept DEF InlinePanics, Goto, BatchSteps
<1>2. CASE Cancel \/ UNCHANGED vars
  BY <1>2 DEF Cancel, vars, batch, BatchInv, InHand, Judged, Fates, Passed, Indices
<1>3. ASSUME NEW j \in Indices, ThreadEnds(j) PROVE BatchInv'
  <2>1. /\ UNCHANGED <<pc, calls, plan, at, result>> /\ thread[j] = "running"
        /\ Indices' = Indices
    BY <1>3 DEF ThreadEnds, Indices
  <2>2. /\ thread'[j] \in {"sent", "panicked"}
        /\ \A i \in Indices : i # j => thread'[i] = thread[i]
    BY <1>3, Types DEF ThreadEnds
  <2>3. InHand' /\ Judged'
    BY <2>1 DEF BatchInv, InHand, Judged
  <2>4. Fates'
    BY <2>1, <2>2 DEF BatchInv, Fates
  <2>5. \A i \in Indices : /\ thread[i] \in Apart => thread'[i] \in Apart
                           /\ thread[i] = "none" => thread'[i] = "none"
                           /\ thread[i] = "inline" => thread'[i] = "inline"
    BY <2>1, <2>2 DEF Apart
  <2>6. Passed'
    BY <2>1, <2>5 DEF BatchInv, Passed
  <2> QED
    BY <2>3, <2>4, <2>6 DEF BatchInv
<1> QED
  BY <1>1, <1>2, <1>3

LEMMA BatchStep == TypeOK /\ BatchInv /\ [Next]_vars => BatchInv'
BY BatchAttempts, AuthorizeStep, LaunchStep, InlineStep, InlineStarts, CollectStep,
   ResultsStep, OtherStep DEF Next, LoopStep, Batch

-----------------------------------------------------------------------------
(* The log.                                                                  *)

Open == BatchSteps \cup {"failed", "unwound"}
LogInv == AnswerLast /\ CallsAnsweredInOrder

\* A step that appends nothing: a batch begins only with its answer.
LEMMA LogKept ==
  ASSUME LogInv, UNCHANGED log, pc \in Open => pc' \in Open,
         pc' \in BatchSteps => pc \in BatchSteps /\ calls' = calls
  PROVE  LogInv'
BY DEF LogInv, AnswerLast, CallsAnsweredInOrder, Open

\* A step that appends an entry to a log whose last call is answered, or answers it.
LEMMA LogGrows ==
  ASSUME TypeOK, LogInv, NEW e \in Entries, log' = Append(log, e),
         pc \in Open => /\ log # <<>> /\ log[Len(log)].kind = "assistant"
                        /\ e = Message("tool", log[Len(log)].calls),
         e.kind = "assistant" /\ e.calls # <<>> => pc' \in Open,
         pc' \in BatchSteps => e = Message("assistant", calls')
  PROVE  LogInv'
<1>0. log \in Seq(Entries) /\ Len(log) \in Nat
  BY Types
<1>1. /\ Len(log') = Len(log) + 1 /\ log'[Len(log) + 1] = e
      /\ \A i \in 1 .. Len(log) : log'[i] = log[i]
  BY <1>0
<1>2. AnswerLast'
  BY <1>0, <1>1 DEF AnswerLast
<1>3. ASSUME NEW i \in 1 .. Len(log'), log'[i].calls # <<>>, log'[i].kind = "assistant"
      PROVE  IF i < Len(log') THEN log'[i + 1] = Message("tool", log'[i].calls)
             ELSE pc' \in Open
  <2>1. CASE i < Len(log)
    <3>1. i \in 1 .. Len(log) /\ i + 1 \in 1 .. Len(log) /\ i < Len(log')
      BY <1>0, <1>1, <2>1
    <3>2. log[i + 1] = Message("tool", log[i].calls)
      BY <1>1, <1>3, <2>1, <3>1 DEF LogInv, CallsAnsweredInOrder
    <3> QED
      BY <1>1, <3>1, <3>2
  <2>2. CASE i = Len(log)
    <3>1. i \in 1 .. Len(log) /\ i < Len(log') /\ ~(i < Len(log))
      BY <1>0, <1>1, <2>2
    <3>2. pc \in Open
      BY <1>1, <1>3, <3>1 DEF LogInv, CallsAnsweredInOrder, Open
    <3>3. log'[i + 1] = Message("tool", log[i].calls)
      BY <1>1, <2>2, <3>2
    <3> QED
      BY <1>1, <3>1, <3>3
  <2>3. CASE i = Len(log) + 1
    BY <1>0, <1>1, <1>3, <2>3
  <2> QED
    BY <1>0, <1>1, <2>1, <2>2, <2>3
<1> QED
  BY <1>2, <1>3 DEF LogInv, CallsAnsweredInOrder, Open

LEMMA LogStep == TypeOK /\ BatchInv /\ LogInv /\ [Next]_vars => LogInv'
<1> SUFFICES ASSUME TypeOK, BatchInv, LogInv, [Next]_vars PROVE LogInv'
  OBVIOUS
<1>t. calls \in Seq(Tools)
  BY Types
<1>p. \A k \in {"user", "compacted"} :
        /\ Plain(k) \in Entries /\ Plain(k).kind = k /\ Plain(k).kind # "assistant"
  BY DEF Plain, Message, Entries
<1>m. \A k \in {"assistant", "tool"} : LET m == Message(k, calls) IN
        m \in Entries /\ m.kind = k /\ m.calls = calls
  BY <1>t DEF Message, Entries
<1> USE DEF Goto, end_turn
<1>1. CASE run \/ PlanRequest \/ Replan \/ provider_attempt \/ InlinePanics
  BY <1>1, LogKept DEF run, PlanRequest, Replan, provider_attempt, InlinePanics, Truncated,
     Overflow, Completed, Open, BatchSteps
<1>2. CASE run_compaction
  <2>1. pc = "compact" /\ pc' \in {"idle", "failed", "replan"}
    BY <1>2 DEF run_compaction
  <2>2. UNCHANGED log \/ log' = Append(log, Plain("compacted"))
    BY <1>2 DEF run_compaction
  <2> QED
    BY <1>p, <2>1, <2>2, LogKept, LogGrows DEF Open, BatchSteps
<1>3. CASE AppendAnswer
  <2>1. /\ pc = "append" /\ calls' = calls
        /\ \/ pc' = "failed" /\ UNCHANGED log
           \/ /\ log' = Append(log, Message("assistant", calls))
              /\ pc' = "failed" \/ (pc' = "authorize" /\ calls # <<>>)
                                \/ (pc' = "stop" /\ calls = <<>>)
    BY <1>3 DEF AppendAnswer, batch
  <2>2. CASE pc' = "failed" /\ UNCHANGED log
    BY <2>1, <2>2, LogKept DEF Open, BatchSteps
  <2>3. CASE log' = Append(log, Message("assistant", calls))
    <3>1. pc \notin Open /\ (calls # <<>> => pc' \in Open)
      BY <2>1, <2>3 DEF Open, BatchSteps
    <3> QED
      BY <1>m, <2>1, <2>3, <3>1, LogGrows
  <2> QED
    BY <2>1, <2>2, <2>3
<1>4. CASE ShouldStop \/ Steer
  <2>1. pc \in {"stop", "steer"} /\ pc' \in {"idle", "round", "failed"}
    BY <1>4 DEF ShouldStop, Steer
  <2>2. UNCHANGED log \/ log' = Append(log, Plain("user"))
    BY <1>4 DEF ShouldStop, Steer
  <2> QED
    BY <1>p, <2>1, <2>2, LogKept, LogGrows DEF Open, BatchSteps
<1>5. CASE AppendResults
  <2>1. /\ pc = "results" /\ pc' \in {"idle", "steer", "failed"}
        /\ \/ pc' = "failed" /\ UNCHANGED log
           \/ log' = Append(log, Message("tool", calls))
    BY <1>5 DEF AppendResults
  <2>2. log # <<>> /\ log[Len(log)] = Message("assistant", calls)
    BY <2>1 DEF LogInv, AnswerLast, BatchSteps
  <2>3. /\ log[Len(log)].kind = "assistant"
        /\ Message("tool", calls) = Message("tool", log[Len(log)].calls)
    BY <1>m, <2>2
  <2>4. CASE UNCHANGED log /\ pc' = "failed"
    BY <2>4, LogKept DEF Open, BatchSteps
  <2>5. CASE log' = Append(log, Message("tool", calls))
    <3>1. pc' \notin BatchSteps /\ Message("tool", calls).kind # "assistant"
      BY <1>m, <2>1 DEF BatchSteps
    <3> QED
      BY <1>m, <2>2, <2>3, <2>5, <3>1, LogGrows
  <2> QED
    BY <2>1, <2>4, <2>5
<1>6. CASE Batch /\ ~AppendResults /\ ~Steer
  <2>1. UNCHANGED <<log, calls>> /\ pc \in BatchSteps /\ pc' \in BatchSteps
    BY <1>6 DEF Batch, authorize, request_approval, Snapshot, Launch, SkipLaunched,
       execute_one, ExecuteInline, InlineDone, Collect, SkipCollected, Pass, BatchSteps, batch
  <2> QED
    BY <2>1, LogKept DEF Open
<1>7. CASE Cancel \/ (\E i \in Indices : ThreadEnds(i)) \/ UNCHANGED vars
  BY <1>7, LogKept DEF Cancel, ThreadEnds, vars, batch
<1> QED
  BY <1>1, <1>2, <1>3, <1>4, <1>5, <1>6, <1>7 DEF Next, LoopStep, Attempts, Batch

-----------------------------------------------------------------------------
LEMMA InitInv == Init => IInv
<1> SUFFICES ASSUME Init PROVE IInv
  OBVIOUS
<1> USE DEF Init
<1>1. Len(calls) = 0 /\ Len(plan) = 0 /\ Indices = {}
  BY DEF Indices
<1>2. Plain("user") \in Entries /\ Plain("user").kind = "user"
  BY DEF Plain, Message, Entries
<1>3. Len(log) = 1 /\ log[1] = Plain("user") /\ log \in Seq(Entries)
  BY <1>2
<1>4. TypeOK
  <2>1. thread \in [Indices -> Status] /\ result \in [Indices -> Origins]
    BY <1>1
  <2>2. pc \in Steps \cup BatchSteps \cup {"steer"} \cup Ended
    BY DEF Steps
  <2>5. offered \in BOOLEAN /\ cancelled \in BOOLEAN
    OBVIOUS
  <2>6. /\ turn \in Nat /\ truncN \in Nat /\ replans \in Nat /\ spent \in Nat
        /\ at \in Nat \ {0}
    OBVIOUS
  <2>3. <<>> \in Seq(Tools) /\ <<>> \in Seq(Verdicts)
    OBVIOUS
  <2>4. calls \in Seq(Tools) /\ plan \in Seq(Verdicts)
    BY <2>3
  <2> QED
    BY <1>3, <2>1, <2>2, <2>4, <2>5, <2>6, Types
<1>5. Charged
  BY ReactAssumption DEF Charged, SpendBounded, Asking
<1>6. InHand /\ Judged /\ Fates /\ Passed
  BY <1>1 DEF InHand, Judged, Fates, Passed, BatchSteps, Passes
<1>7. AnswerLast /\ CallsAnsweredInOrder
  BY <1>2, <1>3 DEF AnswerLast, CallsAnsweredInOrder, BatchSteps
<1> QED
  BY <1>4, <1>5, <1>6, <1>7 DEF IInv

LEMMA StepInv == IInv /\ [Next]_vars => IInv'
BY TypeStep, ChargedStep, BatchStep, LogStep DEF IInv, BatchInv, LogInv

LEMMA Invariance == Spec => []IInv
BY InitInv, StepInv, PTL DEF Spec

\* The loop's variables keep their types: in particular every pass over the calls
\* looks at a call that exists.
THEOREM TypeCorrect == Spec => []TypeOK
<1>1. IInv => TypeOK
  BY DEF IInv
<1> QED
  BY <1>1, Invariance, PTL

\* For every number of retries the two budgets allow, and whatever the store and the
\* provider say in a round, its provider calls are at most one more than both.
THEOREM RoundIsBounded == Spec => []SpendBounded
<1>1. IInv => SpendBounded
  BY DEF IInv, Charged
<1> QED
  BY <1>1, Invariance, PTL

\* For every set of tools, number of plugins and length of a batch: the model is told
\* of each call what happened to it, and a tool that ran had been permitted.
THEOREM FatesAreTold == Spec => []ResultsAreTrue
<1>1. IInv => ResultsAreTrue
  BY DEF IInv, ResultsAreTrue, Fates, Judged, Indices
<1> QED
  BY <1>1, Invariance, PTL

\* For every set of tools and length of a batch, and any number of rounds: an answer
\* with calls is directly followed by their results.
THEOREM CallsAnswered == Spec => []CallsAnsweredInOrder
<1>1. IInv => CallsAnsweredInOrder
  BY DEF IInv
<1> QED
  BY <1>1, Invariance, PTL
=============================================================================
