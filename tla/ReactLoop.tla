------------------------------ MODULE ReactLoop ------------------------------
(***************************************************************************)
(* One run of the ReAct loop (kn9t-react/src/turn.rs, exec.rs, hooks.rs):    *)
(* rounds of plan, compact, call the provider, append its answer, judge and   *)
(* run its tool calls, append their results, go on.  The loop is one thread;  *)
(* parallel-safe tools have threads of their own.  The provider, the store,    *)
(* the compactor, the hooks and the tools do what they like; the user may      *)
(* cancel at any time.                                                       *)
(***************************************************************************)
EXTENDS Naturals, Sequences, FiniteSets

CONSTANTS
  Tools,             \* tool names a model may call
  Known,             \* those in the registry
  ParallelSafe,      \* those that may run on a thread of their own
  Disabled,          \* those switched off for the session
  Plugins,           \* how many plugins are asked before a tool call
  HasCompactor,      \* whether a compactor plugin is installed
  TruncationAttempts, MaxContextReplans,   \* ReactConfig
  MaxTurns,          \* ReactConfig::max_turns, set
  MaxCalls           \* bound: calls in one answer

ASSUME ReactAssumption ==
  /\ Known \subseteq Tools /\ ParallelSafe \subseteq Tools /\ Disabled \subseteq Tools
  /\ Plugins \in Nat /\ HasCompactor \in BOOLEAN
  /\ TruncationAttempts \in Nat /\ MaxContextReplans \in Nat
  /\ MaxTurns \in Nat /\ MaxCalls \in Nat

VARIABLES
  pc,         \* where the loop is
  turn,       \* rounds begun
  truncN, replans,   \* the two retry budgets of the round
  offered,    \* the store offered a span to compact in this attempt
  spent,      \* provider calls of the round
  cancelled,  \* Cancel
  calls,      \* the tool calls of the answer in hand
  plan,       \* what authorize said of each, so far
  at,         \* index of the running pass over calls
  thread,     \* [1 .. Len(calls) -> what became of the tool's execution]
  result,     \* [1 .. Len(calls) -> the result's origin]
  log         \* the messages appended

vars == <<pc, turn, truncN, replans, offered, spent, cancelled, calls, plan, at,
          thread, result, log>>
budget == <<truncN, replans, offered, spent>>
batch == <<calls, plan, at, thread, result>>

-----------------------------------------------------------------------------
Batches == UNION {[1 .. n -> Tools] : n \in 0 .. MaxCalls}
Indices == 1 .. Len(calls)

Message(k, cs) == [kind |-> k, calls |-> cs]
Plain(k) == Message(k, <<>>)

Goto(p) == pc' = p

Init ==
  /\ pc = "round" /\ turn = 0
  /\ truncN = 0 /\ replans = 0 /\ offered = FALSE /\ spent = 0
  /\ cancelled = FALSE
  /\ calls = <<>> /\ plan = <<>> /\ at = 1 /\ thread = <<>> /\ result = <<>>
  /\ log = <<Plain("user")>>

\* Every way out of the loop passes end_turn: TurnFinishing, then TurnEnded.
\* "failed": an error, possibly with the calls in hand unanswered.
end_turn(p) == p \in {"idle", "failed"} /\ Goto(p)

-----------------------------------------------------------------------------
run ==
  /\ pc = "round"
  /\ IF turn >= MaxTurns
       THEN end_turn("failed") /\ UNCHANGED <<turn, budget>>
       ELSE /\ Goto("plan")
            /\ turn' = turn + 1
            /\ truncN' = 0 /\ replans' = 0 /\ spent' = 0 /\ UNCHANGED offered
  /\ UNCHANGED <<cancelled, batch, log>>

\* plan_request; a span to compact is charged to replans before anything else.
PlanRequest ==
  /\ pc = "plan"
  /\ \/ /\ Goto("request") /\ offered' = FALSE /\ UNCHANGED replans
     \/ /\ offered' = TRUE /\ replans' = replans + 1
        /\ IF replans + 1 > MaxContextReplans THEN end_turn("failed") ELSE Goto("compact")
     \/ end_turn("failed") /\ UNCHANGED <<offered, replans>>
  /\ UNCHANGED <<turn, truncN, spent, cancelled, batch, log>>

\* A cancelled run ends before the compactor is asked; without a compactor, or if
\* it fails or hands off calls it was not given, the turn ends.
run_compaction ==
  /\ pc = "compact"
  /\ IF cancelled THEN end_turn("idle") /\ UNCHANGED log
     ELSE \/ end_turn("failed") /\ UNCHANGED log
          \/ /\ HasCompactor
             /\ log' = Append(log, Plain("compacted"))
             /\ Goto("replan") \/ end_turn("failed")
  /\ UNCHANGED <<turn, budget, cancelled, batch>>

Replan ==
  /\ pc = "replan"
  /\ Goto("request") \/ end_turn("failed")
  /\ UNCHANGED <<turn, budget, cancelled, batch, log>>

\* Slip: an overflow the store knows nothing of is retried for free.
SlipOverflow ==
  /\ Goto("plan")
  /\ UNCHANGED <<truncN, replans>>

\* The provider says "too long".  When the store saw nothing to compact, the next
\* request will be the same one, so it is charged here.
Overflow ==
  /\ IF offered
       THEN Goto("plan") /\ UNCHANGED replans
       ELSE /\ replans' = replans + 1
            /\ IF replans + 1 > MaxContextReplans THEN end_turn("failed") ELSE Goto("plan")
  /\ UNCHANGED truncN

Truncated ==
  /\ truncN' = truncN + 1
  /\ IF truncN + 1 > TruncationAttempts THEN end_turn("failed") ELSE Goto("plan")
  /\ UNCHANGED replans

Completed ==
  /\ \E cs \in Batches :
       /\ calls' = cs
       /\ thread' = [i \in DOMAIN cs |-> "none"]
       /\ result' = [i \in DOMAIN cs |-> "none"]
  /\ plan' = <<>> /\ at' = 1
  /\ Goto("append")
  /\ UNCHANGED <<truncN, replans>>

\* One stream, up to the look at cancel once it is assembled.  An answer that
\* arrives after the cancel is dropped.
provider_attempt ==
  /\ pc = "request"
  /\ spent' = spent + 1
  /\ \/ (Truncated \/ Overflow) /\ UNCHANGED batch
     \/ cancelled /\ end_turn("idle") /\ UNCHANGED <<truncN, replans, batch>>
     \/ ~cancelled /\ end_turn("failed") /\ UNCHANGED <<truncN, replans, batch>>
     \/ ~cancelled /\ Completed
  /\ UNCHANGED <<turn, offered, cancelled, log>>

\* The assistant message and its usage.  Either append may fail.
AppendAnswer ==
  /\ pc = "append"
  /\ \/ /\ log' = Append(log, Message("assistant", calls))
        /\ IF calls = <<>> THEN Goto("stop") ELSE Goto("authorize")
     \/ log' \in {log, Append(log, Message("assistant", calls))} /\ end_turn("failed")
  /\ UNCHANGED <<turn, budget, cancelled, batch>>

\* No calls: any plugin may stop the run, and a follow-up may prolong it.
ShouldStop ==
  /\ pc = "stop"
  /\ \/ end_turn("idle") /\ UNCHANGED log
     \/ log' = Append(log, Plain("user")) /\ Goto("round")
     \/ end_turn("failed") /\ UNCHANGED log
  /\ UNCHANGED <<turn, budget, cancelled, batch>>

-----------------------------------------------------------------------------
(* The tool batch.                                                          *)

\* ComposedHookHost: the strictest reply wins, but one that rewrites the arguments
\* permits the call whatever the plugins before it said.  A hook that fails denies.
before_tool_call(replies) ==
  IF "replace" \in replies THEN "execute"
  ELSE IF "deny" \in replies THEN "deny"
  ELSE IF "ask" \in replies THEN "ask" ELSE "execute"

\* Denied at once: a tool that is switched off or of a stopped plugin, and
\* arguments that are no object.  The rest is for the plugins.
authorize ==
  /\ pc = "authorize" /\ Len(plan) < Len(calls)
  /\ plan # <<>> => plan[Len(plan)] # "ask"
  /\ \/ plan' = Append(plan, "deny")
     \/ /\ calls[Len(plan) + 1] \notin Disabled
        /\ \E replies \in SUBSET {"allow", "ask", "deny", "replace"} :
             /\ Cardinality(replies) <= Plugins
             /\ plan' = Append(plan, before_tool_call(replies))
  /\ UNCHANGED <<pc, turn, budget, cancelled, calls, at, thread, result, log>>

\* The user's answer, a time-out or a cancel ends the wait.
request_approval ==
  /\ pc = "authorize" /\ plan # <<>> /\ plan[Len(plan)] = "ask"
  /\ \E verdict \in {"execute", "deny"} : plan' = [plan EXCEPT ![Len(plan)] = verdict]
  /\ UNCHANGED <<pc, turn, budget, cancelled, calls, at, thread, result, log>>

\* One registry snapshot for the batch, then three passes over the calls.
Snapshot ==
  /\ pc = "authorize" /\ Len(plan) = Len(calls) /\ plan[Len(plan)] # "ask"
  /\ Goto("launch")
  /\ UNCHANGED <<turn, budget, cancelled, batch, log>>

Pass(p, next) ==
  /\ pc = p
  /\ IF at < Len(calls) THEN at' = at + 1 /\ UNCHANGED pc ELSE at' = 1 /\ Goto(next)

Launchable(i) == plan[i] = "execute" /\ calls[i] \in Known \cap ParallelSafe

Launch ==
  /\ Pass("launch", "inline")
  /\ thread' = IF Launchable(at) /\ ~cancelled
                 THEN [thread EXCEPT ![at] = "running"] ELSE thread
  /\ UNCHANGED <<turn, budget, cancelled, calls, plan, result, log>>

\* The calls on no thread, in order: what answers each without running it.
Answered(i) == IF plan[i] = "deny" THEN "denied"
               ELSE IF cancelled THEN "aborted"
               ELSE IF calls[i] \notin Known THEN "unknown"
               ELSE "none"

SkipLaunched ==
  /\ Pass("inline", "collect")
  /\ thread[at] \notin {"none", "inline"}
  /\ UNCHANGED <<turn, budget, cancelled, calls, plan, thread, result, log>>

\* Slip: the launched calls are not left out of the sequential pass.
Slipexecute_one ==
  /\ Pass("inline", "collect")
  /\ Answered(at) # "none"
  /\ result' = [result EXCEPT ![at] = Answered(at)]
  /\ UNCHANGED <<turn, budget, cancelled, calls, plan, thread, log>>

execute_one ==
  /\ Pass("inline", "collect")
  /\ thread[at] = "none" /\ Answered(at) # "none"
  /\ result' = [result EXCEPT ![at] = Answered(at)]
  /\ UNCHANGED <<turn, budget, cancelled, calls, plan, thread, log>>

ExecuteInline ==
  /\ pc = "inline" /\ thread[at] = "none" /\ Answered(at) = "none"
  /\ thread' = [thread EXCEPT ![at] = "inline"]
  /\ UNCHANGED <<pc, turn, budget, cancelled, calls, plan, at, result, log>>

\* The tool returns, an answer or an error; after_tool_call may rewrite it.
InlineDone ==
  /\ Pass("inline", "collect")
  /\ thread[at] = "inline"
  /\ thread' = [thread EXCEPT ![at] = "finished"]
  /\ result' = [result EXCEPT ![at] = "own"]
  /\ UNCHANGED <<turn, budget, cancelled, calls, plan, log>>

\* A tool that panics on the loop's own thread takes the turn with it.
InlinePanics ==
  /\ pc = "inline" /\ thread[at] = "inline"
  /\ Goto("unwound")
  /\ UNCHANGED <<turn, budget, cancelled, batch, log>>

\* Slip: the results of threads are taken as they come.
Sliprecv_parallel_result(i) ==
  CASE thread[i] = "sent"     -> "own"
    [] thread[i] = "panicked" -> "panicked"
    [] OTHER -> "none"

\* recv_timeout in a loop: once cancelled, a thread that has not answered within
\* the grace is abandoned.
recv_parallel_result(i) ==
  CASE thread[i] = "sent"     -> "own"
    [] thread[i] = "panicked" -> "panicked"
    [] thread[i] = "running" /\ cancelled -> "abandoned"
    [] OTHER -> "none"

Collect ==
  /\ Pass("collect", "results")
  /\ result[at] = "none" /\ recv_parallel_result(at) # "none"
  /\ result' = [result EXCEPT ![at] = recv_parallel_result(at)]
  /\ UNCHANGED <<turn, budget, cancelled, calls, plan, thread, log>>

SkipCollected ==
  /\ Pass("collect", "results")
  /\ result[at] # "none"
  /\ UNCHANGED <<turn, budget, cancelled, calls, plan, thread, result, log>>

\* A parallel tool answers or panics, on its own thread, perhaps after it has
\* been abandoned: its send then fails and nobody hears.
ThreadEnds(i) ==
  /\ i \in Indices /\ thread[i] = "running"
  /\ \E end \in {"sent", "panicked"} : thread' = [thread EXCEPT ![i] = end]
  /\ UNCHANGED <<pc, turn, budget, cancelled, calls, plan, at, result, log>>

\* A call that no pass has answered still gets a result.
Fill == result' = [i \in Indices |-> IF result[i] = "none" THEN "aborted" ELSE result[i]]

\* Slip: a cancelled batch ends the turn before its results are appended.
SlipAppendResults ==
  /\ pc = "results"
  /\ Fill
  /\ IF cancelled THEN end_turn("idle") /\ UNCHANGED log
     ELSE \/ log' = Append(log, Message("tool", calls)) /\ Goto("steer")
          \/ end_turn("failed") /\ UNCHANGED log
  /\ UNCHANGED <<turn, budget, cancelled, calls, plan, at, thread>>

\* The results, in call order, then a look at cancel.
AppendResults ==
  /\ pc = "results"
  /\ Fill
  /\ \/ /\ log' = Append(log, Message("tool", calls))
        /\ IF cancelled THEN end_turn("idle") ELSE Goto("steer")
     \/ end_turn("failed") /\ UNCHANGED log
  /\ UNCHANGED <<turn, budget, cancelled, calls, plan, at, thread>>

\* What has been steered meanwhile.  The batch's locals go out of scope; the
\* threads it abandoned run on, and their sends fail.
Steer ==
  /\ pc = "steer"
  /\ \/ Goto("round") /\ log' \in {log, Append(log, Plain("user"))}
     \/ end_turn("failed") /\ UNCHANGED log
  /\ calls' = <<>> /\ plan' = <<>> /\ at' = 1 /\ thread' = <<>> /\ result' = <<>>
  /\ UNCHANGED <<turn, budget, cancelled>>

Cancel ==
  /\ ~cancelled /\ pc \notin {"idle", "failed", "unwound"}
  /\ cancelled' = TRUE
  /\ UNCHANGED <<pc, turn, budget, batch, log>>

-----------------------------------------------------------------------------
Attempts == run \/ PlanRequest \/ run_compaction \/ Replan \/ provider_attempt
            \/ AppendAnswer \/ ShouldStop
Batch == authorize \/ request_approval \/ Snapshot \/ Launch \/ SkipLaunched
         \/ execute_one \/ ExecuteInline \/ InlineDone \/ Collect \/ SkipCollected
         \/ AppendResults \/ Steer
LoopStep == Attempts \/ Batch
Next == LoopStep \/ InlinePanics \/ Cancel \/ \E i \in Indices : ThreadEnds(i)
Spec == Init /\ [][Next]_vars

\* The loop's thread is scheduled; a stream, a hook, a store call, an approval and
\* an inline tool return, at the latest after a cancel.  A parallel tool need not.
FairSpec == Spec /\ WF_vars(LoopStep)

-----------------------------------------------------------------------------
Steps == {"round", "plan", "compact", "replan", "request", "append", "stop"}
BatchSteps == {"authorize", "launch", "inline", "collect", "results"}
Ended == {"idle", "failed", "unwound"}
Origins == {"none", "own", "denied", "aborted", "unknown", "panicked", "abandoned"}

TypeOK ==
  /\ pc \in Steps \cup BatchSteps \cup {"steer"} \cup Ended
  /\ {turn, truncN, replans, spent} \subseteq Nat
  /\ {offered, cancelled} \subseteq BOOLEAN
  /\ calls \in Seq(Tools)
  /\ plan \in Seq({"execute", "ask", "deny"})
  /\ at \in Nat \ {0}
  /\ thread \in [Indices -> {"none", "running", "sent", "panicked", "inline", "finished"}]
  /\ result \in [Indices -> Origins]
  /\ log \in Seq([kind : {"user", "assistant", "tool", "compacted"}, calls : Seq(Tools)])

\* What providers insist on: an answer with calls is directly followed by one
\* result for each, in call order, whatever was denied, cancelled, abandoned or
\* panicked.  Only a turn that a store failure or a panicking inline tool ends
\* leaves them open, and the loop appends nothing after that.
CallsAnsweredInOrder ==
  \A i \in 1 .. Len(log) : log[i].calls # <<>> /\ log[i].kind = "assistant" =>
    IF i < Len(log) THEN log[i + 1] = Message("tool", log[i].calls)
    ELSE pc \in BatchSteps \cup {"failed", "unwound"}

\* What the model reads of a call is what happened to it: a tool whose call was
\* denied or "aborted by user" never ran, and one that ran had been allowed.
ResultsAreTrue ==
  pc \notin {"append", "stop"} => \A i \in Indices :
    /\ result[i] \in {"denied", "aborted", "unknown"} => thread[i] = "none"
    /\ result[i] = "own" => thread[i] \in {"sent", "finished"}
    /\ thread[i] # "none" => plan[i] = "execute" /\ calls[i] \notin Disabled

\* A round that makes no progress ends: the provider is paid at most once for each
\* retry of the two budgets, and once more.
SpendBounded == spent <= TruncationAttempts + MaxContextReplans + 1

\* ESC ends the run, even when parallel tools never return.
CancelEndsRun == cancelled ~> pc \in Ended
=============================================================================
