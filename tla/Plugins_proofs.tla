--------------------------- MODULE Plugins_proofs ---------------------------
(* Proofs about the plugins.  First PluginRpc and SubAgent: whatever the plugin  *)
(* does, no call and no request is lost between the two processes; a turn inside *)
(* a turn uses the connection as PluginRpc allows and cannot cancel the turn     *)
(* that holds it.  Then PluginRegistry: whatever the requests, the               *)
(* readers and the boot interleave, the tables say what the processes are.       *)
EXTENDS SubAgent, PluginRegistry, SequenceTheorems, WellFoundedInduction, TLAPS

(***************************************************************************)
(* The inductive invariant of the connection: NothingLost, and what it rests *)
(* on: a call is in the table before its hook is written and until it has    *)
(* left, so that the reader finds it whenever its answer comes.              *)
(***************************************************************************)
InTable == \A c \in Calls : caller[c].pc \in InFlight => c \in pending
HasMessage == reader.to # {} => reader.msg # "none"
TInv == TypeOK /\ HasMessage
IInv == TInv /\ InTable /\ NothingLost

CallerStates == [pc : {"idle", "checked", "done"} \cup InFlight, out : Outcomes]
Replies == {"chunk", "final", "err"}
ToPlugin == [t : {"hook", "cancel", "reply"}, c : Calls]
ToHost == [t : {"chunk", "final", "kv", "request"}, c : Calls] \cup {Garbage}

-----------------------------------------------------------------------------
(* Pipes: first in, first out.                                               *)

LEMMA AppendQueued ==
  ASSUME NEW S, NEW q \in Seq(S), NEW m \in S, NEW t, NEW c
  PROVE  Queued(Append(q, m), t, c) <=> Queued(q, t, c) \/ m = Msg(t, c)
BY DEF Queued

LEMMA TailQueued ==
  ASSUME NEW S, NEW q \in Seq(S), q # <<>>, NEW t, NEW c
  PROVE  /\ Head(q) \in S /\ Tail(q) \in Seq(S)
         /\ Queued(q, t, c) => Head(q) = Msg(t, c) \/ Queued(Tail(q), t, c)
<1>1. /\ Head(q) = q[1] /\ Head(q) \in S /\ Tail(q) \in Seq(S) /\ Len(q) \in Nat
      /\ Len(q) >= 1 /\ Len(Tail(q)) = Len(q) - 1
      /\ \A i \in 1..Len(Tail(q)) : Tail(q)[i] = q[i + 1]
  OBVIOUS
<1>2. ASSUME NEW i \in 1..Len(q), q[i] = Msg(t, c), i # 1
      PROVE  Queued(Tail(q), t, c)
  <2>1. i - 1 \in 1..Len(Tail(q)) /\ Tail(q)[i - 1] = q[i]
    BY <1>1, <1>2
  <2> QED
    BY <1>2, <2>1 DEF Queued
<1> QED
  BY <1>1, <1>2 DEF Queued

-----------------------------------------------------------------------------
(* Types.                                                                    *)

LEMMA TypeInit == Init => TInv
<1> SUFFICES ASSUME Init PROVE TInv
  OBVIOUS
<1>1. caller \in [Calls -> CallerStates]
  BY DEF Init, CallerStates, Outcomes, InFlight
<1>2. /\ channel \in [Calls -> Seq(Replies)]
      /\ \A c \in Calls : Len(channel[c]) <= ChannelCap
  BY ConstantsAssumption DEF Init, Replies
<1>3. toPlugin \in Seq(ToPlugin) /\ toHost \in Seq(ToHost)
  BY DEF Init
<1>4. task \in [Calls -> [pc : {"none", "spawned", "running", "finished", "answered",
                               "panicked"}, chunks : 0 .. MaxChunks]]
  BY ConstantsAssumption DEF Init
<1>5. /\ reader = [pc |-> "reading", msg |-> "none", to |-> {}]
      /\ asked \in [Calls -> {"no", "sent", "answered", "timeout"}]
      /\ pending \subseteq Calls /\ unhealthy \in BOOLEAN /\ workers \subseteq Calls
      /\ token \subseteq Calls /\ alive \in BOOLEAN
  BY DEF Init
<1> QED
  BY <1>1, <1>2, <1>3, <1>4, <1>5
     DEF TInv, TypeOK, HasMessage, CallerStates, Replies, ToPlugin, ToHost

LEMMA GotoType ==
  ASSUME TypeOK, NEW c \in Calls, NEW pc \in {"idle", "checked", "done"} \cup InFlight,
         Goto(c, pc)
  PROVE  caller' \in [Calls -> CallerStates]
<1>1. caller \in [Calls -> CallerStates]
  BY DEF TypeOK, CallerStates
<1>2. [caller[c] EXCEPT !.pc = pc] \in CallerStates
  BY <1>1 DEF CallerStates
<1> QED
  BY <1>1, <1>2 DEF Goto

LEMMA LeaveType ==
  ASSUME TypeOK, NEW c \in Calls, NEW pc \in {"idle", "checked", "done"} \cup InFlight,
         NEW out \in Outcomes, Leave(c, pc, out)
  PROVE  caller' \in [Calls -> CallerStates]
BY DEF TypeOK, CallerStates, Leave

LEMMA HostType ==
  ASSUME TypeOK, NEW t \in {"hook", "cancel", "reply"}, NEW c \in Calls,
         write_host_msg(Msg(t, c))
  PROVE  toPlugin' \in Seq(ToPlugin)
<1>1. Msg(t, c) \in ToPlugin /\ toPlugin \in Seq(ToPlugin)
  BY DEF TypeOK, Msg, ToPlugin
<1> HIDE DEF ToPlugin
<1> QED
  BY <1>1 DEF write_host_msg

LEMMA PluginType ==
  ASSUME TypeOK, NEW m \in ToHost, write_plugin(m)
  PROVE  toHost' \in Seq(ToHost)
<1>1. toHost \in Seq(ToHost)
  BY DEF TypeOK, ToHost
<1> QED
  BY <1>1 DEF write_plugin

LEMMA CallerType ==
  ASSUME TInv, NEW c \in Calls, CallerStep(c)
  PROVE  TInv'
<1>0. TypeOK /\ HasMessage
  BY DEF TInv
<1>n. /\ "leaving" \in {"idle", "checked", "done"} \cup InFlight
      /\ "waiting" \in {"idle", "checked", "done"} \cup InFlight
      /\ "registered" \in {"idle", "checked", "done"} \cup InFlight
      /\ "cancelling" \in {"idle", "checked", "done"} \cup InFlight
      /\ \A o \in {"ok", "failed", "timeout", "cancelled", "refused", "unsent"} : o \in Outcomes
  BY DEF InFlight, Outcomes
<1>r. ASSUME caller' \in [Calls -> CallerStates], reader' = reader, pending' \subseteq Calls,
             channel' \in [Calls -> Seq(Replies)],
             \A d \in Calls : Len(channel'[d]) <= ChannelCap,
             toPlugin' \in Seq(ToPlugin), toHost' = toHost, unhealthy' = unhealthy,
             workers' = workers, UNCHANGED pluginVars
      PROVE  TInv'
  BY <1>0, <1>r DEF TypeOK, TInv, HasMessage, pluginVars, Replies, ToPlugin, CallerStates
<1>t. /\ pending \subseteq Calls /\ channel \in [Calls -> Seq(Replies)]
      /\ \A d \in Calls : Len(channel[d]) <= ChannelCap
      /\ toPlugin \in Seq(ToPlugin)
  BY <1>0 DEF TypeOK, Replies, ToPlugin
<1>1. CASE check_healthy(c)
  <2>1. caller' \in [Calls -> CallerStates]
    BY <1>0, <1>1, <1>n, GotoType, LeaveType DEF check_healthy
  <2> QED
    BY <1>1, <1>r, <1>t, <2>1 DEF check_healthy
<1>2. CASE register_call(c)
  BY <1>0, <1>2, <1>n, <1>r, <1>t, GotoType DEF register_call
<1>3. CASE SendHook(c)
  <2>1. caller' \in [Calls -> CallerStates]
    BY <1>0, <1>3, <1>n, GotoType, LeaveType DEF SendHook
  <2> QED
    BY <1>0, <1>3, <1>r, <1>t, <2>1, HostType DEF SendHook
<1>4. CASE Receive(c)
  <2>1. /\ channel[c] \in Seq(Replies) /\ channel[c] # <<>>
        /\ channel' = [channel EXCEPT ![c] = Tail(channel[c])]
    BY <1>4, <1>t DEF Receive
  <2>2. /\ Head(channel[c]) \in Replies /\ Tail(channel[c]) \in Seq(Replies)
        /\ Len(Tail(channel[c])) <= ChannelCap
    BY <1>t, <2>1, ConstantsAssumption
  <2>3. caller' \in [Calls -> CallerStates]
    <3>1. CASE Head(channel[c]) = "chunk"
      BY <1>0, <1>4, <3>1 DEF Receive, TypeOK, CallerStates
    <3>2. CASE Head(channel[c]) = "final"
      BY <1>0, <1>4, <1>n, <3>2, LeaveType DEF Receive
    <3>3. CASE Head(channel[c]) = "err"
      BY <1>0, <1>4, <1>n, <3>3, LeaveType DEF Receive
    <3> QED
      BY <2>2, <3>1, <3>2, <3>3 DEF Replies
  <2> QED
    BY <1>4, <1>r, <1>t, <2>1, <2>2, <2>3 DEF Receive
<1>5. CASE TimeOut(c)
  BY <1>0, <1>5, <1>n, <1>r, <1>t, LeaveType DEF TimeOut
<1>6. CASE cancel_call(c)
  <2>1. caller' \in [Calls -> CallerStates]
    BY <1>0, <1>6, <1>n, LeaveType DEF cancel_call
  <2>2. toPlugin' \in Seq(ToPlugin)
    BY <1>0, <1>6, <1>t, HostType DEF cancel_call
  <2> QED
    BY <1>6, <1>r, <1>t, <2>1, <2>2 DEF cancel_call
<1>7. CASE unregister_call(c)
  <2>1. <<>> \in Seq(Replies) /\ Len(<<>>) <= ChannelCap
    BY ConstantsAssumption
  <2> QED
    BY <1>0, <1>7, <1>n, <1>r, <1>t, <2>1, GotoType DEF unregister_call
<1>8. CASE NoticeCancel(c)
  BY <1>0, <1>8, <1>n, <1>r, <1>t, GotoType DEF NoticeCancel
<1> QED
  BY <1>1, <1>2, <1>3, <1>4, <1>5, <1>6, <1>7, <1>8 DEF CallerStep

LEMMA ReadingType ==
  ASSUME TypeOK, NEW t, Reading(t)
  PROVE  /\ toHost' \in Seq(ToHost) /\ Head(toHost) \in ToHost /\ reader.to = {}
         /\ t # "garbage" => Head(toHost).c \in Calls
<1>1. toHost \in Seq(ToHost) /\ toHost # <<>> /\ toHost' = Tail(toHost)
      /\ Head(toHost).t = t /\ reader.to = {}
  BY DEF TypeOK, Reading, ToHost, LockFree
<1>2. Head(toHost) \in ToHost /\ Tail(toHost) \in Seq(ToHost)
  BY <1>1, TailQueued
<1> QED
  BY <1>1, <1>2 DEF ToHost, Garbage, Msg

LEMMA ReaderType ==
  ASSUME TInv, ReaderStep
  PROVE  TInv'
<1>0. TypeOK /\ HasMessage
  BY DEF TInv
<1>1. ASSUME NEW t \in {"chunk", "final"}, ReadReply(t) PROVE TInv'
  BY <1>0, <1>1, ReadingType DEF ReadReply, TypeOK, TInv, HasMessage, pluginVars, ToHost
<1>2. ASSUME NEW c \in Calls, ReaderSend(c) PROVE TInv'
  <2>1. reader.msg \in Replies /\ channel[c] \in Seq(Replies) /\ Len(channel[c]) < ChannelCap
    BY <1>0, <1>2 DEF ReaderSend, TypeOK, HasMessage, Replies
  <2>2. /\ Append(channel[c], reader.msg) \in Seq(Replies)
        /\ Len(Append(channel[c], reader.msg)) <= ChannelCap
    BY <2>1, ConstantsAssumption
  <2>3. /\ channel' \in [Calls -> Seq(Replies)]
        /\ \A d \in Calls : Len(channel'[d]) <= ChannelCap
    BY <1>0, <1>2, <2>2 DEF ReaderSend, TypeOK, Replies
  <2> QED
    BY <1>0, <1>2, <2>3 DEF ReaderSend, TypeOK, TInv, HasMessage, pluginVars, Replies
<1>3. CASE ReadGarbage
  BY <1>0, <1>3, ReadingType DEF ReadGarbage, TypeOK, TInv, HasMessage, pluginVars, ToHost
<1>4. CASE FailPending
  BY <1>0, <1>4 DEF FailPending, TypeOK, TInv, HasMessage, pluginVars
<1>5. CASE ReadKv
  <2>1. toHost' \in Seq(ToHost) /\ Head(toHost).c \in Calls
    BY <1>0, <1>5, ReadingType DEF ReadKv
  <2>2. toPlugin' \in Seq(ToPlugin)
    BY <1>0, <1>5, <2>1, HostType DEF ReadKv
  <2> QED
    BY <1>0, <1>5, <2>1, <2>2
       DEF ReadKv, TypeOK, TInv, HasMessage, pluginVars, hostVars, ToHost, ToPlugin
<1>6. CASE ReadRequest
  BY <1>0, <1>6, ReadingType DEF ReadRequest, TypeOK, TInv, HasMessage, pluginVars, ToHost
<1>7. CASE ReadEof
  BY <1>0, <1>7 DEF ReadEof, TypeOK, TInv, HasMessage, pluginVars
<1> QED
  BY <1>1, <1>2, <1>3, <1>4, <1>5, <1>6, <1>7 DEF ReaderStep

LEMMA WorkerType ==
  ASSUME TInv, NEW c \in Calls, WorkerReplies(c)
  PROVE  TInv'
<1>1. toPlugin' \in Seq(ToPlugin)
  BY HostType DEF TInv, WorkerReplies
<1> QED
  BY <1>1 DEF WorkerReplies, TypeOK, TInv, HasMessage, pluginVars, ToPlugin

TaskStates == [pc : {"none", "spawned", "running", "finished", "answered", "panicked"},
               chunks : 0 .. MaxChunks]

LEMMA DispatchType ==
  ASSUME TInv, PluginMain
  PROVE  TInv'
<1>1. /\ toPlugin \in Seq(ToPlugin) /\ toPlugin # <<>> /\ toPlugin' = Tail(toPlugin)
  BY DEF PluginMain, DispatchHook, DispatchCancel, DispatchReply, Dispatching, TInv,
         TypeOK, ToPlugin
<1>2. Head(toPlugin).c \in Calls /\ toPlugin' \in Seq(ToPlugin)
  <2>1. Head(toPlugin) \in ToPlugin /\ toPlugin' \in Seq(ToPlugin)
    BY <1>1, TailQueued
  <2> QED
    BY <2>1 DEF ToPlugin
<1>3. CASE DispatchHook
  <2>1. task' \in [Calls -> TaskStates]
    BY <1>2, <1>3 DEF DispatchHook, TInv, TypeOK, TaskStates
  <2> QED
    BY <1>2, <1>3, <2>1
       DEF DispatchHook, TInv, TypeOK, HasMessage, hostVars, ToPlugin, TaskStates
<1>4. CASE DispatchCancel
  BY <1>2, <1>4 DEF DispatchCancel, TInv, TypeOK, HasMessage, hostVars, ToPlugin
<1>5. CASE DispatchReply
  BY <1>2, <1>5 DEF DispatchReply, TInv, TypeOK, HasMessage, hostVars, ToPlugin
<1> QED
  BY <1>3, <1>4, <1>5 DEF PluginMain

LEMMA TaskType ==
  ASSUME TInv, NEW c \in Calls, TaskStep(c)
  PROVE  TInv'
<1>0. /\ TypeOK /\ HasMessage /\ task \in [Calls -> TaskStates]
      /\ asked \in [Calls -> {"no", "sent", "answered", "timeout"}]
      /\ toHost \in Seq(ToHost)
  BY DEF TInv, TypeOK, TaskStates, ToHost
<1>r. ASSUME task' \in [Calls -> TaskStates], toHost' \in Seq(ToHost),
             asked' \in [Calls -> {"no", "sent", "answered", "timeout"}],
             token' = token, alive' = alive, toPlugin' = toPlugin, UNCHANGED hostVars
      PROVE  TInv'
  BY <1>0, <1>r DEF TypeOK, TInv, HasMessage, hostVars, TaskStates, ToHost
<1>m. \A t \in {"chunk", "final", "kv", "request"} : Msg(t, c) \in ToHost
  BY DEF Msg, ToHost
<1>1. CASE StartTask(c)
  <2>1. task' \in [Calls -> TaskStates]
    BY <1>0, <1>1 DEF StartTask, TaskStates
  <2> QED
    BY <1>0, <1>1, <1>r, <2>1 DEF StartTask
<1>2. CASE SendChunk(c)
  <2>1. task[c].chunks + 1 \in 0 .. MaxChunks
    BY <1>0, <1>2, ConstantsAssumption DEF SendChunk, TaskStates
  <2>2. task' \in [Calls -> TaskStates]
    BY <1>0, <1>2, <2>1 DEF SendChunk, TaskStates
  <2>3. toHost' \in Seq(ToHost)
    BY <1>0, <1>2, <1>m, PluginType DEF SendChunk
  <2> QED
    BY <1>0, <1>2, <1>r, <2>2, <2>3 DEF SendChunk
<1>3. ASSUME NEW t \in {"kv", "request"}, AskHost(c, t) PROVE TInv'
  <2>1. toHost' \in Seq(ToHost)
    BY <1>0, <1>3, <1>m, PluginType DEF AskHost
  <2>2. asked' \in [Calls -> {"no", "sent", "answered", "timeout"}]
    BY <1>0, <1>3 DEF AskHost
  <2> QED
    BY <1>0, <1>3, <1>r, <2>1, <2>2 DEF AskHost
<1>4. CASE AskTimeOut(c)
  BY <1>0, <1>4, <1>r DEF AskTimeOut
<1>5. CASE FinishTask(c)
  <2>1. task' \in [Calls -> TaskStates]
    BY <1>0, <1>5 DEF FinishTask, TaskStates
  <2> QED
    BY <1>0, <1>5, <1>r, <2>1 DEF FinishTask
<1>6. CASE AnswerCall(c)
  <2>1. task' \in [Calls -> TaskStates]
    BY <1>0, <1>6 DEF AnswerCall, TaskStates
  <2>2. toHost' \in Seq(ToHost)
    BY <1>0, <1>6, <1>m, PluginType DEF AnswerCall
  <2> QED
    BY <1>0, <1>6, <1>r, <2>1, <2>2 DEF AnswerCall
<1>7. CASE PanicTask(c)
  <2>1. task' \in [Calls -> TaskStates]
    BY <1>0, <1>7 DEF PanicTask, TaskStates
  <2> QED
    BY <1>0, <1>7, <1>r, <2>1 DEF PanicTask
<1> QED
  BY <1>1, <1>2, <1>3, <1>4, <1>5, <1>6, <1>7 DEF TaskStep, AskKv, AskApi

LEMMA OutsideType ==
  ASSUME TInv, PrintGarbage \/ Die \/ UNCHANGED vars
  PROVE  TInv'
<1>1. CASE PrintGarbage
  <2>1. toHost' \in Seq(ToHost)
    BY <1>1, PluginType DEF PrintGarbage, TInv, ToHost
  <2> QED
    BY <1>1, <2>1 DEF PrintGarbage, TInv, TypeOK, HasMessage, hostVars, pluginVars, ToHost
<1>2. CASE Die
  <2>1. toPlugin' \in Seq(ToPlugin)
    BY <1>2 DEF Die
  <2> QED
    BY <1>2, <2>1 DEF Die, TInv, TypeOK, HasMessage, hostVars, ToPlugin
<1>3. CASE UNCHANGED vars
  BY <1>3 DEF vars, TInv, TypeOK, HasMessage
<1> QED
  BY <1>1, <1>2, <1>3

LEMMA TypeStep == TInv /\ [Next]_vars => TInv'
BY CallerType, WorkerType, TaskType, ReaderType, DispatchType, OutsideType DEF Next

\* The types of the connection's state, whatever the plugin writes and whenever it dies.
THEOREM RpcTypeCorrect == Spec => []TypeOK
<1>1. TInv => TypeOK
  BY DEF TInv
<1> QED
  BY <1>1, TypeInit, TypeStep, PTL DEF Spec

-----------------------------------------------------------------------------
(* Nothing is lost.  For each call, either it does not wait, or it is           *)
(* somewhere; a step moves it from one place to the next.                      *)

Open == alive /\ reader.pc = "reading"
CallHeld(c) == caller[c].pc = "waiting" => CallIsSomewhere(c)
RequestHeld(c) == asked[c] = "sent" => RequestIsSomewhere(c)
Held(c) == CallHeld(c) /\ RequestHeld(c)

LEMMA HeldInv == NothingLost <=> (Open => \A c \in Calls : Held(c))
BY DEF NothingLost, Open, Held, CallHeld, RequestHeld

\* A step keeps what it appends to a pipe apart from what is in it.
LEMMA HostPipe ==
  ASSUME TypeOK, alive, NEW t \in {"hook", "cancel", "reply"}, NEW d \in Calls,
         write_host_msg(Msg(t, d)), NEW u, NEW c
  PROVE  Queued(toPlugin, u, c)' <=> Queued(toPlugin, u, c) \/ Msg(t, d) = Msg(u, c)
<1>1. toPlugin \in Seq(ToPlugin) /\ Msg(t, d) \in ToPlugin
  BY DEF TypeOK, ToPlugin, Msg
<1>2. toPlugin' = Append(toPlugin, Msg(t, d))
  BY DEF write_host_msg
<1>3. Queued(toPlugin, u, c)' <=> Queued(Append(toPlugin, Msg(t, d)), u, c)
  BY <1>2 DEF Queued
<1> QED
  BY <1>1, <1>3, AppendQueued

LEMMA PluginPipe ==
  ASSUME TypeOK, NEW m \in ToHost, write_plugin(m), NEW u, NEW c
  PROVE  Queued(toHost, u, c)' <=> Queued(toHost, u, c) \/ m = Msg(u, c)
<1>1. toHost \in Seq(ToHost)
  BY DEF TypeOK, ToHost
<1>2. Queued(toHost, u, c)' <=> Queued(Append(toHost, m), u, c)
  BY DEF Queued, write_plugin
<1> QED
  BY <1>1, <1>2, AppendQueued

LEMMA ReadingPipe ==
  ASSUME TypeOK, NEW t, Reading(t), NEW u, NEW c
  PROVE  Queued(toHost, u, c) => Queued(toHost, u, c)' \/ Head(toHost) = Msg(u, c)
<1>1. toHost \in Seq(ToHost) /\ toHost # <<>> /\ toHost' = Tail(toHost)
  BY DEF TypeOK, Reading, ToHost
<1>2. Queued(toHost, u, c)' <=> Queued(Tail(toHost), u, c)
  BY <1>1 DEF Queued
<1> QED
  BY <1>1, <1>2, TailQueued

LEMMA DispatchPipe ==
  ASSUME TypeOK, NEW t, Dispatching(t), NEW u, NEW c
  PROVE  Queued(toPlugin, u, c) => Queued(toPlugin, u, c)' \/ Head(toPlugin) = Msg(u, c)
<1>1. toPlugin \in Seq(ToPlugin) /\ toPlugin # <<>> /\ toPlugin' = Tail(toPlugin)
  BY DEF TypeOK, Dispatching, ToPlugin
<1>2. Queued(toPlugin, u, c)' <=> Queued(Tail(toPlugin), u, c)
  BY <1>1 DEF Queued
<1> QED
  BY <1>1, <1>2, TailQueued

LEMMA SamePipe ==
  /\ toPlugin' = toPlugin => \A u, c : Queued(toPlugin, u, c)' <=> Queued(toPlugin, u, c)
  /\ toHost' = toHost => \A u, c : Queued(toHost, u, c)' <=> Queued(toHost, u, c)
BY DEF Queued

LEMMA CallerHolds ==
  ASSUME TypeOK, Open, NEW d \in Calls, CallerStep(d), NEW c \in Calls, Held(c)
  PROVE  Held(c)'
<1>0. /\ caller \in [Calls -> CallerStates] /\ channel \in [Calls -> Seq(Replies)] /\ alive
  BY DEF TypeOK, CallerStates, Replies, Open
<1>u. /\ reader' = reader /\ workers' = workers /\ toHost' = toHost /\ UNCHANGED pluginVars
  BY DEF CallerStep, check_healthy, register_call, SendHook, Receive, TimeOut, NoticeCancel,
         cancel_call, unregister_call
<1>p. \A u : Queued(toPlugin, u, c) => Queued(toPlugin, u, c)'
  <2>1. CASE toPlugin' = toPlugin
    BY <2>1, SamePipe
  <2>2. ASSUME NEW t \in {"hook", "cancel"}, write_host_msg(Msg(t, d))
        PROVE  \A u : Queued(toPlugin, u, c) => Queued(toPlugin, u, c)'
    BY <1>0, <2>2, HostPipe
  <2> QED
    BY <2>1, <2>2 DEF CallerStep, check_healthy, register_call, SendHook, Receive, TimeOut,
                      NoticeCancel, cancel_call, unregister_call
<1>q. \A u : Queued(toHost, u, c)' <=> Queued(toHost, u, c)
  BY <1>u, SamePipe
<1>r. RequestHeld(c)'
  BY <1>u, <1>p, <1>q DEF Held, RequestHeld, RequestIsSomewhere, pluginVars
<1>s. ASSUME CallIsSomewhere(c), Received(c, "final") => Received(c, "final")'
      PROVE  CallIsSomewhere(c)'
  BY <1>s, <1>u, <1>p, <1>q DEF CallIsSomewhere, pluginVars
<1>c. CallHeld(c)'
  <2>1. CASE channel' = channel /\ (caller'[c].pc = "waiting" => caller[c].pc = "waiting")
    BY <1>s, <2>1 DEF Held, CallHeld, Received
  <2>2. CASE check_healthy(d)
    <3>1. c = d => caller'[c].pc \in {"checked", "done"}
      BY <1>0, <2>2 DEF check_healthy, Leave, Goto, CallerStates
    <3>2. c # d => caller'[c] = caller[c]
      BY <1>0, <2>2 DEF check_healthy, Leave, Goto
    <3> QED
      BY <2>1, <2>2, <3>1, <3>2 DEF check_healthy
  <2>3. CASE register_call(d)
    BY <1>0, <2>1, <2>3 DEF register_call, Goto, CallerStates
  <2>4. CASE SendHook(d)
    <3>1. CASE c = d
      <4>1. Queued(toPlugin, "hook", c)'
        BY <1>0, <2>4, <3>1, HostPipe DEF SendHook
      <4> QED
        BY <4>1 DEF CallHeld, CallIsSomewhere
    <3>2. CASE c # d
      BY <1>0, <2>1, <2>4, <3>2 DEF SendHook, Leave, Goto, CallerStates
    <3> QED
      BY <3>1, <3>2
  <2>5. CASE Receive(d)
    <3>1. CASE c = d /\ Head(channel[c]) = "chunk"
      <4>1. /\ channel[c] \in Seq(Replies) /\ channel[c] # <<>>
            /\ channel'[c] = Tail(channel[c]) /\ caller' = caller
        BY <1>0, <2>5, <3>1 DEF Receive
      <4>2. Received(c, "final") => Received(c, "final")'
        <5>1. ASSUME NEW i \in 1 .. Len(channel[c]), channel[c][i] = "final"
              PROVE  Received(c, "final")'
          <6>1. i # 1 /\ i \in Nat /\ i - 1 \in 1 .. Len(Tail(channel[c]))
                /\ Tail(channel[c])[i - 1] = "final"
            BY <3>1, <4>1, <5>1
          <6> QED
            BY <4>1, <6>1 DEF Received
        <5> QED
          BY <5>1 DEF Received
      <4> QED
        BY <1>s, <4>1, <4>2 DEF Held, CallHeld
    <3>2. CASE c = d /\ Head(channel[c]) # "chunk"
      <4>1. Head(channel[c]) \in {"final", "err"}
        BY <1>0, <2>5, <3>2 DEF Receive, Replies
      <4>2. Leave(c, "leaving", "ok") \/ Leave(c, "leaving", "failed")
        BY <2>5, <3>2, <4>1 DEF Receive
      <4>3. caller'[c].pc = "leaving"
        BY <1>0, <4>2 DEF Leave
      <4> QED
        BY <4>3 DEF CallHeld
    <3>3. CASE c # d
      <4>1. channel[d] \in Seq(Replies) /\ channel[d] # <<>>
        BY <1>0, <2>5 DEF Receive
      <4>2. Head(channel[d]) \in {"chunk", "final", "err"}
        BY <4>1 DEF Replies
      <4>3. \/ caller' = caller
            \/ Leave(d, "leaving", "ok") \/ Leave(d, "leaving", "failed")
        BY <2>5, <4>2 DEF Receive
      <4>4. channel'[c] = channel[c] /\ caller'[c] = caller[c]
        BY <1>0, <2>5, <3>3, <4>3 DEF Receive, Leave
      <4> QED
        BY <1>s, <4>4 DEF Held, CallHeld, Received
    <3> QED
      BY <3>1, <3>2, <3>3
  <2>6. CASE TimeOut(d)
    BY <1>0, <2>1, <2>6 DEF TimeOut, Leave, CallerStates
  <2>7. CASE cancel_call(d)
    BY <1>0, <2>1, <2>7 DEF cancel_call, Leave, CallerStates
  <2>9. CASE NoticeCancel(d)
    BY <1>0, <2>1, <2>9 DEF NoticeCancel, Goto, CallerStates
  <2>8. CASE unregister_call(d)
    <3>1. CASE c = d
      <4>1. caller'[c].pc = "done"
        BY <1>0, <2>8, <3>1 DEF unregister_call, Goto, CallerStates
      <4> QED
        BY <4>1 DEF CallHeld
    <3>2. CASE c # d
      <4>1. channel'[c] = channel[c] /\ caller'[c] = caller[c]
        BY <1>0, <2>8, <3>2 DEF unregister_call, Goto, CallerStates
      <4> QED
        BY <1>s, <4>1 DEF Held, CallHeld, Received
    <3> QED
      BY <3>1, <3>2
  <2> QED
    BY <2>2, <2>3, <2>4, <2>5, <2>6, <2>7, <2>8, <2>9 DEF CallerStep
<1> QED
  BY <1>r, <1>c DEF Held

LEMMA ReaderHolds ==
  ASSUME TInv, InTable, Open, ReaderStep, reader'.pc = "reading", NEW c \in Calls, Held(c)
  PROVE  Held(c)'
<1>0. /\ channel \in [Calls -> Seq(Replies)] /\ alive /\ TypeOK /\ HasMessage
      /\ reader \in [pc : {"reading", "poisoning", "ended"},
                     msg : {"none", "chunk", "final", "err"}, to : SUBSET Calls]
  BY DEF TInv, TypeOK, Replies, Open
<1>1. ASSUME NEW t \in {"chunk", "final"}, ReadReply(t) PROVE Held(c)'
  <2>1. /\ caller' = caller /\ toPlugin' = toPlugin /\ workers' = workers
        /\ UNCHANGED pluginVars /\ channel' = channel /\ Head(toHost).t = t
        /\ reader'.msg = t /\ reader'.to = {Head(toHost).c} \cap pending
    BY <1>0, <1>1 DEF ReadReply, Reading
  <2>2. \A u : Queued(toPlugin, u, c)' <=> Queued(toPlugin, u, c)
    BY <2>1, SamePipe
  <2>3. \A u : Queued(toHost, u, c) => Queued(toHost, u, c)' \/ Head(toHost) = Msg(u, c)
    BY <1>0, <1>1, ReadingPipe DEF ReadReply
  <2>4. ~(c \in reader.to)
    BY <1>1 DEF ReadReply, Reading, LockFree
  <2>5. CallHeld(c)'
    <3>1. SUFFICES ASSUME caller[c].pc = "waiting" PROVE CallIsSomewhere(c)'
      BY <2>1 DEF CallHeld
    <3>2. CallIsSomewhere(c) /\ c \in pending
      BY <3>1 DEF Held, CallHeld, InTable, InFlight
    <3>3. CASE Head(toHost) = Msg("final", c)
      BY <2>1, <3>2, <3>3 DEF CallIsSomewhere, Msg
    <3>4. CASE Head(toHost) # Msg("final", c)
      BY <2>1, <2>2, <2>3, <2>4, <3>2, <3>4 DEF CallIsSomewhere, Received, pluginVars
    <3> QED
      BY <3>3, <3>4
  <2>6. RequestHeld(c)'
    <3>1. Head(toHost) # Msg("kv", c) /\ Head(toHost) # Msg("request", c)
      BY <2>1 DEF Msg
    <3> QED
      BY <2>1, <2>2, <2>3, <3>1 DEF Held, RequestHeld, RequestIsSomewhere, pluginVars
  <2> QED
    BY <2>5, <2>6 DEF Held
<1>2. ASSUME NEW d \in Calls, ReaderSend(d) PROVE Held(c)'
  <2>1. /\ caller' = caller /\ toPlugin' = toPlugin /\ workers' = workers
        /\ UNCHANGED pluginVars /\ toHost' = toHost /\ reader'.msg = reader.msg
        /\ reader'.to = reader.to \ {d} /\ d \in reader.to
        /\ channel' = [channel EXCEPT ![d] = Append(channel[d], reader.msg)]
        /\ reader.msg \in Replies
    BY <1>0, <1>2 DEF ReaderSend, HasMessage, Replies
  <2>2. /\ \A u : Queued(toPlugin, u, c)' <=> Queued(toPlugin, u, c)
        /\ \A u : Queued(toHost, u, c)' <=> Queued(toHost, u, c)
    BY <2>1, SamePipe
  <2>3. Received(c, "final") \/ (c = d /\ reader.msg = "final") => Received(c, "final")'
    <3>1. CASE c # d
      <4>1. channel'[c] = channel[c]
        BY <1>0, <2>1, <3>1
      <4> QED
        BY <3>1, <4>1 DEF Received
    <3>2. CASE c = d
      <4>1. channel'[c] = Append(channel[c], reader.msg) /\ channel[c] \in Seq(Replies)
        BY <1>0, <2>1, <3>2
      <4>2. /\ Len(channel[c]) + 1 \in 1 .. Len(Append(channel[c], reader.msg))
            /\ Append(channel[c], reader.msg)[Len(channel[c]) + 1] = reader.msg
            /\ \A i \in 1 .. Len(channel[c]) :
                  /\ i \in 1 .. Len(Append(channel[c], reader.msg))
                  /\ Append(channel[c], reader.msg)[i] = channel[c][i]
        BY <2>1, <4>1
      <4> QED
        BY <4>1, <4>2 DEF Received
    <3> QED
      BY <3>1, <3>2
  <2>4. CallHeld(c)'
    BY <2>1, <2>2, <2>3 DEF Held, CallHeld, CallIsSomewhere, pluginVars
  <2>5. RequestHeld(c)'
    BY <2>1, <2>2 DEF Held, RequestHeld, RequestIsSomewhere, pluginVars
  <2> QED
    BY <2>4, <2>5 DEF Held
<1>3. CASE ReadGarbage
  BY <1>0, <1>3 DEF ReadGarbage
<1>4. CASE FailPending
  BY <1>4 DEF FailPending
<1>5. CASE ReadKv
  <2>1. /\ caller' = caller /\ reader' = reader /\ workers' = workers /\ channel' = channel
        /\ UNCHANGED pluginVars /\ Head(toHost).t = "kv" /\ Head(toHost).c \in Calls
    BY <1>0, <1>5, ReadingType DEF ReadKv, Reading, hostVars
  <2>2. \A u : Queued(toPlugin, u, c)' <=>
               Queued(toPlugin, u, c) \/ Msg("reply", Head(toHost).c) = Msg(u, c)
    BY <1>0, <1>5, <2>1, HostPipe DEF ReadKv
  <2>3. \A u : Queued(toHost, u, c) => Queued(toHost, u, c)' \/ Head(toHost) = Msg(u, c)
    BY <1>0, <1>5, ReadingPipe DEF ReadKv
  <2>4. Head(toHost) # Msg("final", c) /\ Head(toHost) # Msg("request", c)
    BY <2>1 DEF Msg
  <2>5. CallHeld(c)'
    BY <2>1, <2>2, <2>3, <2>4 DEF Held, CallHeld, CallIsSomewhere, Received, pluginVars
  <2>6. Head(toHost) = Msg("kv", c) => Queued(toPlugin, "reply", c)'
    BY <2>2 DEF Msg
  <2>7. RequestHeld(c)'
    BY <2>1, <2>2, <2>3, <2>4, <2>6 DEF Held, RequestHeld, RequestIsSomewhere, pluginVars
  <2> QED
    BY <2>5, <2>7 DEF Held
<1>6. CASE ReadRequest
  <2>1. /\ caller' = caller /\ reader' = reader /\ channel' = channel
        /\ toPlugin' = toPlugin /\ workers' = workers \cup {Head(toHost).c}
        /\ UNCHANGED pluginVars /\ Head(toHost).t = "request"
    BY <1>6 DEF ReadRequest, Reading
  <2>2. \A u : Queued(toPlugin, u, c)' <=> Queued(toPlugin, u, c)
    BY <2>1, SamePipe
  <2>3. \A u : Queued(toHost, u, c) => Queued(toHost, u, c)' \/ Head(toHost) = Msg(u, c)
    BY <1>0, <1>6, ReadingPipe DEF ReadRequest
  <2>4. Head(toHost) # Msg("final", c) /\ Head(toHost) # Msg("kv", c)
    BY <2>1 DEF Msg
  <2>5. CallHeld(c)'
    BY <2>1, <2>2, <2>3, <2>4 DEF Held, CallHeld, CallIsSomewhere, Received, pluginVars
  <2>6. Head(toHost) = Msg("request", c) => c \in workers'
    BY <2>1 DEF Msg
  <2>7. RequestHeld(c)'
    BY <2>1, <2>2, <2>3, <2>4, <2>6 DEF Held, RequestHeld, RequestIsSomewhere, pluginVars
  <2> QED
    BY <2>5, <2>7 DEF Held
<1>7. CASE ReadEof
  BY <1>0, <1>7 DEF ReadEof
<1> QED
  BY <1>1, <1>2, <1>3, <1>4, <1>5, <1>6, <1>7 DEF ReaderStep

LEMMA WorkerHolds ==
  ASSUME TypeOK, Open, NEW d \in Calls, WorkerReplies(d), NEW c \in Calls, Held(c)
  PROVE  Held(c)'
<1>1. /\ caller' = caller /\ reader' = reader /\ channel' = channel /\ toHost' = toHost
      /\ workers' = workers \ {d} /\ UNCHANGED pluginVars
  BY DEF WorkerReplies
<1>2. \A u : Queued(toPlugin, u, c)' <=>
             Queued(toPlugin, u, c) \/ Msg("reply", d) = Msg(u, c)
  BY HostPipe DEF WorkerReplies, Open
<1>3. \A u : Queued(toHost, u, c)' <=> Queued(toHost, u, c)
  BY <1>1, SamePipe
<1>4. CallHeld(c)'
  BY <1>1, <1>2, <1>3 DEF Held, CallHeld, CallIsSomewhere, Received, pluginVars
<1>5. RequestHeld(c)'
  BY <1>1, <1>2, <1>3 DEF Held, RequestHeld, RequestIsSomewhere, pluginVars
<1> QED
  BY <1>4, <1>5 DEF Held

LEMMA DispatchHolds ==
  ASSUME TInv, Open, PluginMain, NEW c \in Calls, Held(c)
  PROVE  Held(c)'
<1>0. /\ TypeOK /\ task \in [Calls -> TaskStates]
      /\ asked \in [Calls -> {"no", "sent", "answered", "timeout"}]
  BY DEF TInv, TypeOK, TaskStates
<1>1. caller' = caller /\ UNCHANGED hostVars /\ toHost' = toHost
  BY DEF PluginMain, DispatchHook, DispatchCancel, DispatchReply, hostVars
<1>2. \A u : Queued(toHost, u, c)' <=> Queued(toHost, u, c)
  BY <1>1, SamePipe
<1>3. CASE DispatchHook
  <2>1. /\ Head(toPlugin).t = "hook" /\ asked' = asked
        /\ task' = [task EXCEPT ![Head(toPlugin).c].pc = "spawned"]
    BY <1>3 DEF DispatchHook, Dispatching
  <2>2. \A u : Queued(toPlugin, u, c) => Queued(toPlugin, u, c)' \/ Head(toPlugin) = Msg(u, c)
    BY <1>0, <1>3, DispatchPipe DEF DispatchHook
  <2>3. /\ Head(toPlugin).c = c => task'[c].pc = "spawned"
        /\ Head(toPlugin).c # c => task'[c] = task[c]
    BY <1>0, <2>1 DEF TaskStates
  <2>4. Head(toPlugin) = Msg("hook", c) => Head(toPlugin).c = c
    BY DEF Msg
  <2>5. CallHeld(c)'
    BY <1>1, <1>2, <2>2, <2>3, <2>4
       DEF Held, CallHeld, CallIsSomewhere, Received, hostVars
  <2>6. Head(toPlugin) # Msg("reply", c)
    BY <2>1 DEF Msg
  <2>7. RequestHeld(c)'
    BY <1>1, <1>2, <2>1, <2>2, <2>6 DEF Held, RequestHeld, RequestIsSomewhere, hostVars
  <2> QED
    BY <2>5, <2>7 DEF Held
<1>4. CASE DispatchCancel
  <2>1. /\ Head(toPlugin).t = "cancel" /\ asked' = asked /\ task' = task
    BY <1>4 DEF DispatchCancel, Dispatching
  <2>2. \A u : Queued(toPlugin, u, c) => Queued(toPlugin, u, c)' \/ Head(toPlugin) = Msg(u, c)
    BY <1>0, <1>4, DispatchPipe DEF DispatchCancel
  <2>3. Head(toPlugin) # Msg("reply", c) /\ Head(toPlugin) # Msg("hook", c)
    BY <2>1 DEF Msg
  <2>4. CallHeld(c)'
    BY <1>1, <1>2, <2>1, <2>2, <2>3
       DEF Held, CallHeld, CallIsSomewhere, Received, hostVars
  <2>5. RequestHeld(c)'
    BY <1>1, <1>2, <2>1, <2>2, <2>3 DEF Held, RequestHeld, RequestIsSomewhere, hostVars
  <2> QED
    BY <2>4, <2>5 DEF Held
<1>5. CASE DispatchReply
  <2>1. /\ Head(toPlugin).t = "reply" /\ task' = task
        /\ asked' = [asked EXCEPT ![Head(toPlugin).c] =
                       IF asked[Head(toPlugin).c] = "sent" THEN "answered"
                                                           ELSE asked[Head(toPlugin).c]]
    BY <1>5 DEF DispatchReply, Dispatching
  <2>2. \A u : Queued(toPlugin, u, c) => Queued(toPlugin, u, c)' \/ Head(toPlugin) = Msg(u, c)
    BY <1>0, <1>5, DispatchPipe DEF DispatchReply
  <2>3. Head(toPlugin) # Msg("hook", c)
    BY <2>1 DEF Msg
  <2>4. CallHeld(c)'
    BY <1>1, <1>2, <2>1, <2>2, <2>3
       DEF Held, CallHeld, CallIsSomewhere, Received, hostVars
  <2>5. /\ Head(toPlugin) = Msg("reply", c) => asked'[c] # "sent"
        /\ asked'[c] = "sent" => asked[c] = "sent"
    BY <1>0, <2>1 DEF Msg
  <2>6. RequestHeld(c)'
    BY <1>1, <1>2, <2>1, <2>2, <2>5 DEF Held, RequestHeld, RequestIsSomewhere, hostVars
  <2> QED
    BY <2>4, <2>6 DEF Held
<1> QED
  BY <1>3, <1>4, <1>5 DEF PluginMain

LEMMA TaskHolds ==
  ASSUME TInv, NEW d \in Calls, TaskStep(d), NEW c \in Calls, Held(c)
  PROVE  Held(c)'
<1>0. /\ TypeOK /\ task \in [Calls -> TaskStates]
      /\ asked \in [Calls -> {"no", "sent", "answered", "timeout"}]
  BY DEF TInv, TypeOK, TaskStates
<1>m. \A t \in {"chunk", "final", "kv", "request"} : Msg(t, d) \in ToHost
  BY DEF Msg, ToHost
<1>1. caller' = caller /\ UNCHANGED hostVars /\ toPlugin' = toPlugin
  BY DEF TaskStep, StartTask, SendChunk, AskKv, AskApi, AskHost, AskTimeOut, FinishTask,
         AnswerCall, PanicTask, hostVars
<1>2. \A u : Queued(toPlugin, u, c)' <=> Queued(toPlugin, u, c)
  BY <1>1, SamePipe
<1>3. \A u : Queued(toHost, u, c) => Queued(toHost, u, c)'
  <2>1. CASE toHost' = toHost
    BY <2>1, SamePipe
  <2>2. ASSUME NEW t \in {"chunk", "final", "kv", "request"}, write_plugin(Msg(t, d))
        PROVE  \A u : Queued(toHost, u, c) => Queued(toHost, u, c)'
    BY <1>0, <1>m, <2>2, PluginPipe
  <2> QED
    BY <2>1, <2>2 DEF TaskStep, StartTask, SendChunk, AskKv, AskApi, AskHost, AskTimeOut,
                      FinishTask, AnswerCall, PanicTask
<1>4. ASSUME \/ task'[c].pc = task[c].pc
             \/ task'[c].pc \in {"spawned", "running", "finished", "panicked"}
             \/ Queued(toHost, "final", c)'
      PROVE  CallHeld(c)'
  BY <1>1, <1>2, <1>3, <1>4 DEF Held, CallHeld, CallIsSomewhere, Received, hostVars
<1>5. ASSUME asked'[c] = asked[c] \/ asked'[c] # "sent"
             \/ Queued(toHost, "kv", c)' \/ Queued(toHost, "request", c)'
      PROVE  RequestHeld(c)'
  BY <1>1, <1>2, <1>3, <1>5 DEF Held, RequestHeld, RequestIsSomewhere, hostVars
<1>6. CASE StartTask(d)
  <2>1. asked' = asked /\ (task'[c].pc = task[c].pc \/ task'[c].pc = "running")
    BY <1>0, <1>6 DEF StartTask, TaskStates
  <2> QED
    BY <1>4, <1>5, <2>1 DEF Held
<1>7. CASE SendChunk(d)
  <2>1. asked' = asked /\ task'[c].pc = task[c].pc
    BY <1>0, <1>7 DEF SendChunk, TaskStates
  <2> QED
    BY <1>4, <1>5, <2>1 DEF Held
<1>8. ASSUME NEW t \in {"kv", "request"}, AskHost(d, t) PROVE Held(c)'
  <2>1. task' = task /\ asked' = [asked EXCEPT ![d] = "sent"]
    BY <1>8 DEF AskHost
  <2>2. c = d => Queued(toHost, t, c)'
    BY <1>0, <1>8, <1>m, PluginPipe DEF AskHost
  <2>3. c # d => asked'[c] = asked[c]
    BY <1>0, <2>1
  <2> QED
    BY <1>4, <1>5, <2>1, <2>2, <2>3 DEF Held
<1>9. CASE AskTimeOut(d)
  <2>1. task' = task /\ (asked'[c] = asked[c] \/ asked'[c] = "timeout")
    BY <1>0, <1>9 DEF AskTimeOut
  <2> QED
    BY <1>4, <1>5, <2>1 DEF Held
<1>10. CASE FinishTask(d)
  <2>1. asked' = asked /\ (task'[c].pc = task[c].pc \/ task'[c].pc = "finished")
    BY <1>0, <1>10 DEF FinishTask, TaskStates
  <2> QED
    BY <1>4, <1>5, <2>1 DEF Held
<1>11. CASE AnswerCall(d)
  <2>1. asked' = asked /\ (c # d => task'[c].pc = task[c].pc)
    BY <1>0, <1>11 DEF AnswerCall, TaskStates
  <2>2. c = d => Queued(toHost, "final", c)'
    BY <1>0, <1>11, <1>m, PluginPipe DEF AnswerCall
  <2> QED
    BY <1>4, <1>5, <2>1, <2>2 DEF Held
<1>12. CASE PanicTask(d)
  <2>1. asked' = asked /\ (task'[c].pc = task[c].pc \/ task'[c].pc = "panicked")
    BY <1>0, <1>12 DEF PanicTask, TaskStates
  <2> QED
    BY <1>4, <1>5, <2>1 DEF Held
<1> QED
  BY <1>6, <1>7, <1>8, <1>9, <1>10, <1>11, <1>12 DEF TaskStep, AskKv, AskApi

LEMMA OutsideHolds ==
  ASSUME TypeOK, PrintGarbage \/ UNCHANGED vars, NEW c \in Calls, Held(c)
  PROVE  Held(c)'
<1>1. /\ caller' = caller /\ reader' = reader /\ channel' = channel /\ workers' = workers
      /\ task' = task /\ asked' = asked /\ toPlugin' = toPlugin
  BY DEF PrintGarbage, hostVars, pluginVars, vars
<1>2. \A u : Queued(toPlugin, u, c)' <=> Queued(toPlugin, u, c)
  BY <1>1, SamePipe
<1>3. \A u : Queued(toHost, u, c) => Queued(toHost, u, c)'
  <2>1. CASE UNCHANGED vars
    BY <2>1, SamePipe DEF vars
  <2>2. CASE PrintGarbage
    BY <2>2, PluginPipe DEF PrintGarbage, ToHost
  <2> QED
    BY <2>1, <2>2
<1>4. CallHeld(c)'
  BY <1>1, <1>2, <1>3 DEF Held, CallHeld, CallIsSomewhere, Received
<1>5. RequestHeld(c)'
  BY <1>1, <1>2, <1>3 DEF Held, RequestHeld, RequestIsSomewhere
<1> QED
  BY <1>4, <1>5 DEF Held

\* A call enters the table before its hook is written and leaves it last.
LEMMA TableStep == TypeOK /\ InTable /\ [Next]_vars => InTable'
<1> SUFFICES ASSUME TypeOK, InTable, [Next]_vars, NEW c \in Calls,
                    caller'[c].pc \in InFlight
             PROVE  c \in pending'
  BY DEF InTable
<1>0. /\ caller \in [Calls -> CallerStates]
      /\ channel \in [Calls -> Seq(Replies)]
  BY DEF TypeOK, CallerStates, Replies
<1>1. CASE UNCHANGED <<caller, pending>>
  BY <1>1 DEF InTable
<1>2. ASSUME NEW d \in Calls, CallerStep(d) PROVE c \in pending'
  <2>1. \A e \in Calls : e # d => caller'[e] = caller[e]
    <3>1. CASE Receive(d)
      <4>1. Head(channel[d]) \in {"chunk", "final", "err"}
        BY <1>0, <3>1 DEF Receive, Replies
      <4> QED
        BY <1>0, <3>1, <4>1 DEF Receive, Leave
    <3> QED
      BY <1>0, <1>2, <3>1 DEF CallerStep, check_healthy, register_call, SendHook, TimeOut,
                         NoticeCancel, cancel_call, unregister_call, Goto, Leave
  <2>2. CASE check_healthy(d)
    <3>1. c = d => caller'[c].pc \in {"checked", "done"}
      BY <1>0, <2>2 DEF check_healthy, Goto, Leave, CallerStates
    <3>2. pending' = pending
      BY <2>2 DEF check_healthy
    <3> QED
      BY <2>1, <3>1, <3>2 DEF InTable, InFlight
  <2>3. CASE register_call(d)
    BY <2>1, <2>3 DEF register_call, InTable
  <2>4. CASE SendHook(d) \/ Receive(d) \/ TimeOut(d) \/ NoticeCancel(d) \/ cancel_call(d)
    <3>1. caller[d].pc \in InFlight /\ pending' = pending
      BY <2>4 DEF SendHook, Receive, TimeOut, NoticeCancel, cancel_call, InFlight
    <3> QED
      BY <2>1, <3>1 DEF InTable
  <2>5. CASE unregister_call(d)
    <3>1. c = d => caller'[c].pc = "done"
      BY <1>0, <2>5 DEF unregister_call, Goto, CallerStates
    <3>2. pending' = pending \ {d}
      BY <2>5 DEF unregister_call
    <3> QED
      BY <2>1, <3>1, <3>2 DEF InTable, InFlight
  <2> QED
    BY <1>2, <2>2, <2>3, <2>4, <2>5 DEF CallerStep
<1>3. ASSUME NEW d \in Calls, WorkerReplies(d) \/ TaskStep(d)
      PROVE  UNCHANGED <<caller, pending>>
  BY <1>3 DEF WorkerReplies, TaskStep, StartTask, SendChunk, AskKv, AskApi, AskHost,
              AskTimeOut, FinishTask, AnswerCall, PanicTask, hostVars
<1>4. ReaderStep => UNCHANGED <<caller, pending>>
  BY DEF ReaderStep, ReadReply, ReaderSend, ReadGarbage, FailPending, ReadKv, ReadRequest,
         ReadEof, hostVars
<1>5. PluginMain \/ PrintGarbage \/ Die \/ UNCHANGED vars => UNCHANGED <<caller, pending>>
  BY DEF PluginMain, DispatchHook, DispatchCancel, DispatchReply, PrintGarbage, Die,
         hostVars, vars
<1> QED
  BY <1>1, <1>2, <1>3, <1>4, <1>5 DEF Next

\* Neither end of the connection comes back.
LEMMA OpenStep == TypeOK /\ [Next]_vars /\ Open' => Open
<1>1. ASSUME NEW c \in Calls, CallerStep(c) \/ WorkerReplies(c) \/ TaskStep(c)
      PROVE  UNCHANGED <<alive, reader>>
  BY <1>1 DEF CallerStep, check_healthy, register_call, SendHook, Receive, TimeOut,
              NoticeCancel, cancel_call, unregister_call, WorkerReplies, TaskStep, StartTask, SendChunk,
              AskKv, AskApi, AskHost, AskTimeOut, FinishTask, AnswerCall, PanicTask,
              pluginVars, hostVars
<1>2. PluginMain \/ PrintGarbage \/ UNCHANGED vars => UNCHANGED <<alive, reader>>
  BY DEF PluginMain, DispatchHook, DispatchCancel, DispatchReply, PrintGarbage, hostVars,
         pluginVars, vars
<1>3. Die => ~alive'
  BY DEF Die
<1>4. TypeOK /\ ReaderStep => alive' = alive /\ (reader'.pc = "reading" => reader.pc = "reading")
  <2>1. ASSUME TypeOK, NEW c \in Calls, ReaderSend(c) PROVE reader'.pc = reader.pc
    BY <2>1 DEF ReaderSend, TypeOK
  <2>2. ASSUME TypeOK, NEW t, ReadReply(t) PROVE reader'.pc = reader.pc
    BY <2>2 DEF ReadReply, TypeOK
  <2>3. FailPending => reader'.pc = "ended"
    BY DEF FailPending
  <2>4. ReadKv \/ ReadRequest => reader' = reader
    BY DEF ReadKv, ReadRequest, hostVars
  <2>5. TypeOK /\ (ReadGarbage \/ ReadEof) => reader'.pc # "reading"
    BY DEF ReadGarbage, ReadEof, TypeOK
  <2>6. ReaderStep => alive' = alive
    BY DEF ReaderStep, ReadReply, ReaderSend, ReadGarbage, FailPending, ReadKv, ReadRequest,
           ReadEof, pluginVars
  <2> QED
    BY <2>1, <2>2, <2>3, <2>4, <2>5, <2>6 DEF ReaderStep
<1> QED
  BY <1>1, <1>2, <1>3, <1>4 DEF Next, Open

LEMMA RpcInvariant == IInv /\ [Next]_vars => IInv'
<1> SUFFICES ASSUME IInv, [Next]_vars PROVE IInv'
  OBVIOUS
<1>1. TInv' /\ InTable' /\ TypeOK /\ TInv
  BY TypeStep, TableStep DEF IInv, TInv
<1>2. NothingLost'
  <2> SUFFICES ASSUME Open', NEW c \in Calls PROVE Held(c)'
    BY DEF NothingLost, Open, Held, CallHeld, RequestHeld
  <2>1. Open /\ Held(c) /\ InTable /\ reader'.pc = "reading"
    BY <1>1, OpenStep, HeldInv DEF IInv, Open
  <2>2. ~Die
    BY DEF Die, Open
  <2>3. ASSUME NEW d \in Calls, CallerStep(d) \/ WorkerReplies(d) \/ TaskStep(d)
        PROVE  Held(c)'
    BY <1>1, <2>1, <2>3, CallerHolds, WorkerHolds, TaskHolds
  <2>4. ReaderStep => Held(c)'
    BY <1>1, <2>1, ReaderHolds
  <2>5. PluginMain => Held(c)'
    BY <1>1, <2>1, DispatchHolds
  <2>6. PrintGarbage \/ UNCHANGED vars => Held(c)'
    BY <1>1, <2>1, OutsideHolds
  <2> QED
    BY <2>2, <2>3, <2>4, <2>5, <2>6 DEF Next
<1> QED
  BY <1>1, <1>2 DEF IInv

LEMMA RpcInit == Init => IInv
<1>1. Init => InTable
  BY DEF Init, InTable, InFlight
<1>2. Init => NothingLost
  BY DEF Init, NothingLost
<1> QED
  BY <1>1, <1>2, TypeInit DEF IInv

\* NothingLost, for every number of calls, streams and nested requests: between the two
\* processes there is always a place where a call that waits, or a request that has been
\* sent, can be found, as long as the plugin lives and the host reads.
THEOREM NoCallIsLost == Spec => []NothingLost
<1>1. IInv => NothingLost
  BY DEF IInv
<1> QED
  BY <1>1, RpcInit, RpcInvariant, PTL DEF Spec

-----------------------------------------------------------------------------
(* The turn inside a turn.                                                   *)

\* What a worker, a sub-agent and a client do to the connection is what PluginRpc allows.
LEMMA AgentStepRefines == [AgentNext]_allVars => [Next]_vars
<1>1. ASSUME NEW c \in Calls, Caller(c) \/ Reply(c) PROVE Next
  BY <1>1 DEF Caller, Reply, Next
<1>2. PluginStep => Next
  BY DEF PluginStep, Next
<1>3. ASSUME NEW c \in Prompts, AgentStep(c) PROVE UNCHANGED vars
  BY <1>3 DEF AgentStep, session_prompt, compose_loop, Register, Watchdog, Propagate,
              EndRun, DropSlot
<1>4. ASSUME NEW s \in Sessions, abort(s) PROVE UNCHANGED vars
  BY <1>4 DEF abort
<1>5. TopEnds \/ UNCHANGED allVars => UNCHANGED vars
  BY DEF TopEnds, allVars
<1> QED
  BY <1>1, <1>2, <1>3, <1>4, <1>5 DEF AgentNext

\* The composition implements the connection: a turn inside a turn, its helper threads
\* and its cancellation use it as any caller does.
THEOREM AgentImplementsRpc == AgentSpec => Spec
<1>1. AgentInit => Init
  BY DEF AgentInit
<1> QED
  BY <1>1, AgentStepRefines, PTL DEF AgentSpec, Spec

\* Nothing is lost on the connection that a turn and its sub-agents share.
THEOREM NestedCallsNotLost == AgentSpec => []NothingLost
BY AgentImplementsRpc, NoCallIsLost, PTL

Turns == Prompts \cup {Top}
AgentStates == [pc : {"none", "composing", "watched", "running", "ending", "over"},
                on : Sessions, watch : Prompts \cup {Top, NoTurn}]
AgentTypes ==
  /\ aborts \in [Sessions -> Prompts \cup {Top, NoTurn}]
  /\ agent \in [Prompts -> AgentStates]
  /\ top \in {"running", "over"}
  /\ cancelled \subseteq Prompts \cup {Top} /\ aborted \in BOOLEAN

LEMMA AgentTypeStep == AgentTypes /\ [AgentNext]_allVars => AgentTypes'
<1> SUFFICES ASSUME AgentTypes, [AgentNext]_allVars PROVE AgentTypes'
  OBVIOUS
<1>a. /\ aborts \in [Sessions -> Turns \cup {NoTurn}] /\ agent \in [Prompts -> AgentStates]
      /\ \A s \in Sessions : aborts[s] \in Turns \cup {NoTurn}
  BY DEF AgentTypes, Turns
<1>r. ASSUME NEW s \in Sessions, NEW t, release_turn(s, t)
      PROVE  aborts' \in [Sessions -> Turns \cup {NoTurn}]
  BY <1>a, <1>r DEF release_turn
<1>g. ASSUME NEW c \in Prompts,
             NEW pc \in {"none", "composing", "watched", "running", "ending", "over"}, Goes(c, pc)
      PROVE  agent' \in [Prompts -> AgentStates]
  <2>1. [agent[c] EXCEPT !.pc = pc] \in AgentStates
    BY <1>a DEF AgentStates
  <2> QED
    BY <1>a, <1>g, <2>1 DEF Goes
<1>o. ASSUME NEW c \in Prompts, agent' = [agent EXCEPT ![c] = [NoAgent EXCEPT !.pc = "over"]]
      PROVE  agent' \in [Prompts -> AgentStates]
  <2>1. [NoAgent EXCEPT !.pc = "over"] \in AgentStates
    BY DEF NoAgent, AgentStates, Sessions
  <2> QED
    BY <1>a, <1>o, <2>1
<1>1. CASE UNCHANGED agentVars
  BY <1>1 DEF agentVars, AgentTypes
<1>2. ASSUME NEW c \in Prompts, session_prompt(c) PROVE AgentTypes'
  <2>1. PICK s \in Sessions :
          agent' = [agent EXCEPT ![c] = [pc |-> "composing", on |-> s, watch |-> aborts[s]]]
    BY <1>2 DEF session_prompt
  <2>2. [pc |-> "composing", on |-> s, watch |-> aborts[s]] \in AgentStates
    BY <1>a DEF AgentStates, Turns
  <2>3. agent' \in [Prompts -> AgentStates]
    BY <1>a, <2>1, <2>2
  <2> QED
    BY <1>2, <2>3 DEF session_prompt, AgentTypes
<1>3. ASSUME NEW c \in Prompts, compose_loop(c) PROVE AgentTypes'
  <2>1. agent' \in [Prompts -> AgentStates]
    BY <1>3, <1>g, <1>o DEF compose_loop
  <2> QED
    BY <1>3, <2>1 DEF compose_loop, AgentTypes
<1>4. ASSUME NEW c \in Prompts, Register(c) PROVE AgentTypes'
  <2>1. agent' \in [Prompts -> AgentStates]
    BY <1>4, <1>g DEF Register
  <2>2. aborts' \in [Sessions -> Prompts \cup {Top, NoTurn}]
    BY <1>4 DEF Register, register_with, AgentTypes
  <2> QED
    BY <1>4, <2>1, <2>2 DEF Register, AgentTypes
<1>5. ASSUME NEW c \in Prompts, Watchdog(c) \/ Propagate(c) PROVE AgentTypes'
  BY <1>5 DEF Watchdog, Propagate, AgentTypes
<1>6. ASSUME NEW c \in Prompts, EndRun(c) PROVE AgentTypes'
  <2>1. agent' \in [Prompts -> AgentStates] /\ agent[c].on \in Sessions
    BY <1>a, <1>6, <1>g DEF EndRun, AgentStates
  <2>2. aborts' \in [Sessions -> Turns \cup {NoTurn}]
    BY <1>a, <1>6, <1>r, <2>1 DEF EndRun, TurnFinishing
  <2> QED
    BY <1>6, <2>1, <2>2 DEF EndRun, AgentTypes, Turns
<1>7. ASSUME NEW c \in Prompts, DropSlot(c) PROVE AgentTypes'
  <2>1. agent' \in [Prompts -> AgentStates] /\ agent[c].on \in Sessions
    BY <1>a, <1>7, <1>o DEF DropSlot, AgentStates
  <2>2. aborts' \in [Sessions -> Turns \cup {NoTurn}]
    BY <1>7, <1>r, <2>1 DEF DropSlot
  <2> QED
    BY <1>7, <2>1, <2>2 DEF DropSlot, AgentTypes, Turns
<1>8. ASSUME NEW s \in Sessions, abort(s) PROVE AgentTypes'
  <2>1. aborts[s] \in Turns
    BY <1>a, <1>8 DEF abort
  <2> QED
    BY <1>8, <2>1 DEF abort, AgentTypes, Turns
<1>9. CASE TopEnds
  <2>1. "own" \in Sessions
    BY DEF Sessions
  <2>2. aborts' \in [Sessions -> Turns \cup {NoTurn}]
    BY <1>9, <1>r, <2>1 DEF TopEnds, TurnFinishing
  <2> QED
    BY <1>9, <2>2 DEF TopEnds, AgentTypes, Turns
<1>10. ASSUME NEW c \in Calls, Caller(c) \/ Reply(c) PROVE UNCHANGED agentVars
  BY <1>10 DEF Caller, Reply
<1>11. UNCHANGED allVars => UNCHANGED agentVars
  BY DEF allVars, agentVars
<1> QED
  BY <1>1, <1>2, <1>3, <1>4, <1>5, <1>6, <1>7, <1>8, <1>9, <1>10, <1>11
     DEF AgentNext, AgentStep

LEMMA AgentTypeInit == AgentInit => AgentTypes
<1> SUFFICES ASSUME AgentInit PROVE AgentTypes
  OBVIOUS
<1>1. NoAgent \in AgentStates
  BY DEF NoAgent, AgentStates, Sessions
<1>2. agent \in [Prompts -> AgentStates]
  BY <1>1 DEF AgentInit
<1>3. aborts \in [Sessions -> Prompts \cup {Top, NoTurn}]
  BY DEF AgentInit
<1> QED
  BY <1>2, <1>3 DEF AgentInit, AgentTypes

\* The types of the composition.
THEOREM AgentTypeCorrect == AgentSpec => []AgentTypeOK
<1>1. TypeOK /\ AgentTypes => AgentTypeOK
  BY DEF AgentTypeOK, AgentTypes, AgentStates
<1> QED
  BY <1>1, AgentImplementsRpc, RpcTypeCorrect, AgentTypeInit, AgentTypeStep, PTL
     DEF AgentSpec

\* A slot is that of a turn which runs: a sub-agent is registered for the session it was
\* given and no other, and nowhere before it runs or after it is over.
SlotsOwned ==
  \A s \in Sessions, c \in Prompts :
    aborts[s] = c => At(c, {"running", "ending"}) /\ agent[c].on = s

LEMMA SlotsStep == AgentTypes /\ SlotsOwned /\ [AgentNext]_allVars => SlotsOwned'
<1> SUFFICES ASSUME AgentTypes, SlotsOwned, [AgentNext]_allVars,
                    NEW s \in Sessions, NEW c \in Prompts, aborts'[s] = c
             PROVE  At(c, {"running", "ending"})' /\ agent'[c].on = s
  BY DEF SlotsOwned, At
<1>a. /\ aborts \in [Sessions -> Prompts \cup {Top, NoTurn}]
      /\ agent \in [Prompts -> AgentStates] /\ c # NoTurn
  BY SubAgentAssumption DEF AgentTypes
<1>h. aborts[s] = c => agent[c].pc \in {"running", "ending"} /\ agent[c].on = s
  BY DEF SlotsOwned, At
<1>r. ASSUME NEW u \in Sessions, NEW t, release_turn(u, t)
      PROVE  aborts[s] = c /\ (u = s => c # t)
  BY <1>a, <1>r DEF release_turn
<1>1. CASE UNCHANGED agentVars
  BY <1>1, <1>h DEF agentVars, At
<1>2. ASSUME NEW d \in Prompts, session_prompt(d) \/ compose_loop(d)
      PROVE  At(c, {"running", "ending"})' /\ agent'[c].on = s
  <2>1. /\ aborts[s] = c /\ (c # d => agent'[c] = agent[c])
        /\ ~(agent[d].pc \in {"running", "ending"})
    BY <1>a, <1>2 DEF session_prompt, compose_loop, Goes, At
  <2> QED
    BY <1>h, <2>1 DEF At
<1>3. ASSUME NEW d \in Prompts, Register(d)
      PROVE  At(c, {"running", "ending"})' /\ agent'[c].on = s
  <2>1. /\ agent'[d].pc = "running" /\ agent'[d].on = agent[d].on
        /\ \A e \in Prompts : e # d => agent'[e] = agent[e]
    BY <1>a, <1>3 DEF Register, Goes, AgentStates
  <2>2. aborts' = [aborts EXCEPT ![agent[d].on] = d] /\ agent[d].pc = "watched"
    BY <1>3 DEF Register, register_with, At
  <2>3. CASE s = agent[d].on
    BY <1>a, <2>1, <2>2, <2>3 DEF At
  <2>4. CASE s # agent[d].on
    <3>1. aborts[s] = c
      BY <1>a, <2>2, <2>4
    <3> QED
      BY <1>h, <2>1, <2>2, <3>1 DEF At
  <2> QED
    BY <2>3, <2>4
<1>4. ASSUME NEW d \in Prompts, Watchdog(d) \/ Propagate(d)
      PROVE  At(c, {"running", "ending"})' /\ agent'[c].on = s
  BY <1>4, <1>h DEF Watchdog, Propagate, At
<1>5. ASSUME NEW d \in Prompts, EndRun(d)
      PROVE  At(c, {"running", "ending"})' /\ agent'[c].on = s
  <2>1. aborts[s] = c
    <3>1. agent[d].on \in Sessions
      BY <1>a DEF AgentStates
    <3> QED
      BY <1>5, <1>r, <3>1 DEF EndRun, TurnFinishing
  <2>2. agent'[c].on = agent[c].on /\ agent'[c].pc \in {agent[c].pc, "ending"}
    BY <1>a, <1>5 DEF EndRun, Goes, AgentStates
  <2> QED
    BY <1>h, <2>1, <2>2 DEF At
<1>6. ASSUME NEW d \in Prompts, DropSlot(d)
      PROVE  At(c, {"running", "ending"})' /\ agent'[c].on = s
  <2>1. agent[d].on \in Sessions
    BY <1>a DEF AgentStates
  <2>2. aborts[s] = c /\ (agent[d].on = s => c # d)
    BY <1>6, <1>r, <2>1 DEF DropSlot
  <2>3. c # d
    BY <1>h, <2>2
  <2>4. agent'[c] = agent[c]
    BY <1>a, <1>6, <2>3 DEF DropSlot
  <2> QED
    BY <1>h, <2>2, <2>4 DEF At
<1>7. ASSUME NEW u \in Sessions, abort(u)
      PROVE  At(c, {"running", "ending"})' /\ agent'[c].on = s
  BY <1>7, <1>h DEF abort, At
<1>8. CASE TopEnds
  <2>1. aborts[s] = c
    <3>1. "own" \in Sessions
      BY DEF Sessions
    <3> QED
      BY <1>8, <1>r, <3>1 DEF TopEnds, TurnFinishing
  <2> QED
    BY <1>8, <1>h, <2>1 DEF TopEnds, At
<1>9. ASSUME NEW d \in Calls, Caller(d) \/ Reply(d) PROVE UNCHANGED agentVars
  BY <1>9 DEF Caller, Reply
<1>10. UNCHANGED allVars => UNCHANGED agentVars
  BY DEF allVars, agentVars
<1> QED
  BY <1>1, <1>2, <1>3, <1>4, <1>5, <1>6, <1>7, <1>8, <1>9, <1>10 DEF AgentNext, AgentStep

\* A sub-agent that is over has left no registration behind, whoever was registered over
\* it or whom it was registered over: the safety half of SubAgentEnds.
THEOREM NoSlotLeft == AgentSpec => []SlotsOwned
<1>1. AgentInit => SlotsOwned
  BY SubAgentAssumption DEF AgentInit, SlotsOwned
<1> QED
  BY <1>1, AgentTypeInit, AgentTypeStep, SlotsStep, PTL DEF AgentSpec

\* OnlyAbortCancelsParent, for any tree of sub-agents: a deadline, or a cancellation that
\* a sub-agent observes, fires the sub-agent's own Cancel, never that of the outer turn.
THEOREM ChildNeverCancelsParent == AgentSpec => []OnlyAbortCancelsParent
<1>1. AgentInit => OnlyAbortCancelsParent
  BY DEF AgentInit, OnlyAbortCancelsParent
<1>2. OnlyAbortCancelsParent /\ [AgentNext]_allVars => OnlyAbortCancelsParent'
  <2> SUFFICES ASSUME OnlyAbortCancelsParent, [AgentNext]_allVars, Top \in cancelled'
               PROVE  aborted'
    BY DEF OnlyAbortCancelsParent
  <2>1. ASSUME UNCHANGED <<cancelled, aborted>> PROVE aborted'
    BY <2>1 DEF OnlyAbortCancelsParent
  <2>2. ASSUME NEW c \in Prompts, Watchdog(c) \/ Propagate(c) \/ DropSlot(c) PROVE aborted'
    BY <2>2, SubAgentAssumption DEF Watchdog, Propagate, DropSlot, OnlyAbortCancelsParent
  <2>3. ASSUME NEW s \in Sessions, abort(s) PROVE aborted'
    BY <2>3 DEF abort, OnlyAbortCancelsParent
  <2>4. ASSUME NEW c \in Prompts,
               session_prompt(c) \/ compose_loop(c) \/ Register(c) \/ EndRun(c)
        PROVE  UNCHANGED <<cancelled, aborted>>
    BY <2>4 DEF session_prompt, compose_loop, Register, EndRun
  <2>5. ASSUME NEW c \in Calls, Caller(c) \/ Reply(c) PROVE UNCHANGED <<cancelled, aborted>>
    BY <2>5 DEF Caller, Reply, agentVars
  <2>6. TopEnds \/ UNCHANGED agentVars \/ UNCHANGED allVars
          => UNCHANGED <<cancelled, aborted>>
    BY DEF TopEnds, agentVars, allVars
  <2> QED
    BY <2>1, <2>2, <2>3, <2>4, <2>5, <2>6 DEF AgentNext, AgentStep
<1> QED
  BY <1>1, <1>2, PTL DEF AgentSpec

-----------------------------------------------------------------------------
(***************************************************************************)
(* The plugins of a running server.                                          *)
(***************************************************************************)

Pcs == {"new", "mark", "cut", "spawn", "collide", "wire", "swap", "record", "push", "tell",
        "clear", "started", "done"}
Kinds == {"stop", "start", "reload", "load"}
Processes == [name : Names \cup {None}, life : {"unborn", "up", "told"}, bad : BOOLEAN,
              decl : Decls \cup {{}}, wired : BOOLEAN, news : BOOLEAN]
ServedBy == [pc : Pcs, kind : Kinds \cup {None}, name : Names \cup {None},
             old : Procs \cup {None}, new : Procs \cup {None}, decl : Decls \cup {{}}]
Scanning == [pc : {"new", "fresh", "tell"}, broken : SUBSET Names]
Scanned(s) == ScanHosts(s) \/ ScanMark(s) \/ \E n \in Names : ScanTell(s, n)

\* The start-up has not written the table of hosts yet.
Booting == boot.pc \in {"publish", "hosts"}
USE DEF Booting

Shaped ==
  /\ hosts \in Seq(Procs)
  /\ proc \in [Procs -> Processes]
  /\ req \in [Requests -> ServedBy]
  /\ boot.pc \in {"publish", "hosts", "record", "install", "ready"}
  /\ Booting => boot.hosts \in Seq(Procs) /\ Len(boot.hosts) = Len(Configured)
  /\ scan \in [Scans -> Scanning]
  /\ heard \in [Names -> {"started", "stopped", "crashed"}]

\* The processes that have a host in a table, or will have one.
Fresh == {"collide", "wire", "swap", "record", "push"}
Life(p) == proc[p].life
Owner(p) == proc[p].name
Lived ==
  /\ \A p \in Range(hosts) : Life(p) # "unborn" /\ Owner(p) \in Names
  /\ Booting => \A i \in DOMAIN Configured :
       /\ Life(boot.hosts[i]) # "unborn" /\ Owner(boot.hosts[i]) = Configured[i]
       /\ \A j \in DOMAIN Configured : boot.hosts[i] = boot.hosts[j] => i = j

\* What a request has in hand.
Steps(kind) == CASE kind = "load" -> {"spawn", "collide", "wire", "record", "push", "tell"}
                 [] kind = "stop" -> {"mark", "cut", "tell"}
                 [] kind = "reload" -> {"cut", "spawn", "wire", "swap", "tell"}
                 [] kind = "start" -> {"cut", "spawn", "wire", "swap", "tell", "clear", "started"}
InHand == \A r \in Requests : Serving(r) =>
  /\ req[r].name \in Names /\ req[r].kind \in Kinds /\ req[r].pc \in Steps(req[r].kind)
  /\ req[r].pc \in Fresh =>
       req[r].new \in Procs /\ Owner(req[r].new) = req[r].name /\ Life(req[r].new) # "unborn"
  /\ req[r].kind # "load" =>
       /\ req[r].old \in Procs /\ Owner(req[r].old) = req[r].name
       /\ Life(req[r].old) # "unborn" /\ req[r].name \in recipe

WInv == Shaped /\ Lived /\ InHand

-----------------------------------------------------------------------------
(* Operators.                                                                *)

LEMMA HasLeast ==
  ASSUME NEW K, K \subseteq Nat, K # {}
  PROVE  Min(K) \in K /\ \A k \in K : Min(K) <= k
<1>1. \E k \in K : \A j \in K : <<j, k>> \notin OpToRel(<, Nat)
  BY NatLessThanWellFounded, WFMin
<1>2. PICK k \in K : \A j \in K : ~(j < k)
  BY <1>1 DEF OpToRel
<1>3. \A j \in K : k <= j
  BY <1>2
<1> QED BY <1>3 DEF Min

LEMMA HostFound ==
  ASSUME Shaped, None \notin Procs, NEW n
  PROVE  /\ HostOf(n) = None <=> \A i \in DOMAIN hosts : Owner(hosts[i]) # n
         /\ HostOf(n) # None =>
              /\ HostOf(n) \in Range(hosts) /\ HostOf(n) \in Procs
              /\ Owner(HostOf(n)) = n
<1> DEFINE I == {i \in DOMAIN hosts : proc[hosts[i]].name = n}
<1>1. DOMAIN hosts \subseteq Nat /\ \A i \in DOMAIN hosts : hosts[i] \in Procs
  BY DEF Shaped
<1>2. CASE I = {}
  <2>1. HostOf(n) = None
    BY <1>2 DEF HostOf
  <2> QED BY <1>2, <2>1 DEF Owner
<1>3. CASE I # {}
  <2>1. HostOf(n) = hosts[Min(I)]
    BY <1>3 DEF HostOf
  <2>2. Min(I) \in I
    BY <1>1, <1>3, HasLeast
  <2> QED BY <1>1, <2>1, <2>2 DEF Owner, Range
<1> QED BY <1>2, <1>3

\* Two tables that agree on the hosts of a plugin agree on the one that is found.
LEMMA SameHost ==
  ASSUME Shaped, Shaped', None \notin Procs, NEW n,
         \A i \in DOMAIN hosts : Owner(hosts[i]) = n =>
           i \in DOMAIN hosts' /\ hosts'[i] = hosts[i],
         \A i \in DOMAIN hosts' : proc'[hosts'[i]].name = n =>
           i \in DOMAIN hosts /\ hosts'[i] = hosts[i],
         \A p \in Range(hosts) : Owner(p)' = Owner(p)
  PROVE  HostOf(n)' = HostOf(n)
<1> DEFINE I == {i \in DOMAIN hosts : proc[hosts[i]].name = n}
           J == {i \in DOMAIN hosts' : proc'[hosts'[i]].name = n}
<1>1. /\ DOMAIN hosts \subseteq Nat /\ \A i \in DOMAIN hosts : hosts[i] \in Procs
      /\ \A i \in DOMAIN hosts' : hosts'[i] \in Procs
  BY DEF Shaped
<1>2. I = J
  BY <1>1 DEF Owner, Range
<1>3. CASE I = {}
  BY <1>2, <1>3 DEF HostOf
<1>4. CASE I # {}
  <2>1. Min(I) \in I
    BY <1>1, <1>4, HasLeast
  <2>2. HostOf(n) = hosts[Min(I)]
    BY <1>4 DEF HostOf
  <2>3. HostOf(n)' = hosts'[Min(I)]
    BY <1>2, <1>4 DEF HostOf
  <2>4. hosts'[Min(I)] = hosts[Min(I)]
    BY <2>1 DEF Owner
  <2> QED BY <2>2, <2>3, <2>4
<1> QED BY <1>3, <1>4

\* A request that goes on keeps what it has in hand.
LEMMA GoOn ==
  ASSUME Shaped, NEW r \in Requests, NEW pc \in Pcs, Go(r, pc)
  PROVE  /\ req' \in [Requests -> ServedBy]
         /\ req'[r].pc = pc
         /\ pc # "done" => /\ req'[r].kind = req[r].kind /\ req'[r].name = req[r].name
                           /\ req'[r].old = req[r].old /\ req'[r].new = req[r].new
                           /\ req'[r].decl = req[r].decl
         /\ \A q \in Requests \ {r} : req'[q] = req[q]
<1>1. req \in [Requests -> ServedBy]
  BY DEF Shaped
<1>2. CASE pc = "done"
  BY <1>1, <1>2 DEF Go, Set, Idle, ServedBy, Pcs
<1>3. CASE pc # "done"
  BY <1>1, <1>3 DEF Go, Set, ServedBy
<1> QED BY <1>2, <1>3

\* One process changes, in one respect or two.
LEMMA OneProc ==
  ASSUME Shaped, NEW p \in Procs, NEW x \in Processes, proc' = [proc EXCEPT ![p] = x]
  PROVE  /\ proc' \in [Procs -> Processes]
         /\ proc'[p] = x
         /\ \A q \in Procs \ {p} : proc'[q] = proc[q]
BY DEF Shaped

LEMMA ProcFields ==
  ASSUME NEW x \in Processes, NEW v
  PROVE  /\ v \in {"up", "told"} =>
              /\ [x EXCEPT !.life = v] \in Processes
              /\ [x EXCEPT !.life = v].life = v
              /\ [x EXCEPT !.life = v].name = x.name
              /\ [x EXCEPT !.life = v].decl = x.decl
              /\ [x EXCEPT !.life = v].news = x.news
              /\ [x EXCEPT !.life = v].bad = x.bad
         /\ v \in BOOLEAN =>
              /\ [x EXCEPT !.wired = v] \in Processes
              /\ [x EXCEPT !.wired = v].life = x.life
              /\ [x EXCEPT !.wired = v].name = x.name
              /\ [x EXCEPT !.wired = v].decl = x.decl
              /\ [x EXCEPT !.wired = v].news = x.news
              /\ [x EXCEPT !.wired = v].bad = x.bad
         /\ v \in BOOLEAN =>
              /\ [x EXCEPT !.news = v] \in Processes
              /\ [x EXCEPT !.news = v].life = x.life
              /\ [x EXCEPT !.news = v].name = x.name
              /\ [x EXCEPT !.news = v].decl = x.decl
              /\ [x EXCEPT !.news = v].bad = x.bad
         /\ v \in BOOLEAN =>
              /\ [x EXCEPT !.bad = v] \in Processes
              /\ [x EXCEPT !.bad = v].life = x.life
              /\ [x EXCEPT !.bad = v].name = x.name
              /\ [x EXCEPT !.bad = v].decl = x.decl
              /\ [x EXCEPT !.bad = v].news = x.news
              /\ [x EXCEPT !.bad = v].bad = v
         /\ v \in Decls =>
              /\ [x EXCEPT !.decl = v] \in Processes
              /\ [x EXCEPT !.decl = v].life = x.life
              /\ [x EXCEPT !.decl = v].name = x.name
              /\ [x EXCEPT !.decl = v].decl = v
              /\ [x EXCEPT !.decl = v].bad = x.bad
BY DEF Processes

-----------------------------------------------------------------------------
(* What the steps do.                                                        *)

Bad(p) == proc[p].bad
SameProcs == \A p \in Procs : /\ Life(p)' = Life(p) /\ Owner(p)' = Owner(p)
                              /\ Bad(p) => Bad(p)'
Others(r) == \A q \in Requests \ {r} : req'[q] = req[q]
HasTyped == /\ proc' \in [Procs -> Processes] /\ req' \in [Requests -> ServedBy]
            /\ hosts' \in Seq(Procs)
Carries(r) == /\ req'[r].kind = req[r].kind /\ req'[r].name = req[r].name
              /\ req'[r].old = req[r].old

LEMMA ReqSet ==
  ASSUME Shaped, NEW r \in Requests, NEW x \in ServedBy, Set(r, x)
  PROVE  req' \in [Requests -> ServedBy] /\ req'[r] = x /\ Others(r)
BY DEF Shaped, Set, Others

LEMMA BeginDoes ==
  ASSUME WInv, None \notin Procs, NEW r \in Requests, NEW n \in Names,
         \/ stop_plugin(r, n) \/ start_plugin(r, n)
         \/ reload_plugin(r, n) \/ load_plugin(r, n)
  PROVE  /\ req' \in [Requests -> ServedBy] /\ Others(r)
         /\ req[r].pc = "new" /\ req'[r].name = n /\ req'[r].old = HostOf(n)
         /\ \/ req'[r].kind = "stop" /\ req'[r].pc = "mark"
            \/ req'[r].kind = "start" /\ req'[r].pc = "cut"
            \/ req'[r].kind = "reload" /\ req'[r].pc = "cut"
            \/ req'[r].kind = "load" /\ req'[r].pc = "spawn"
         /\ IF req'[r].kind = "load" THEN n \notin recipe
            ELSE n \in recipe /\ HostOf(n) # None
         /\ clashed \subseteq clashed' /\ clashed' \subseteq clashed \cup {n}
         /\ n \in clashed' \/ /\ boot.pc = "ready"
                              /\ \A q \in Requests : Serving(q) => req[q].name # n
         /\ UNCHANGED <<proc, tables, boot, scan, heard, missed, unborn, cried, spoilt>>
<1> USE DEF WInv
<1>1. PICK k \in Kinds, pc \in Pcs :
        /\ Begin(r, k, n, pc)
        /\ \/ k = "stop" /\ pc = "mark"
           \/ k = "start" /\ pc = "cut"
           \/ k = "reload" /\ pc = "cut"
           \/ k = "load" /\ pc = "spawn"
        /\ IF k = "load" THEN n \notin recipe ELSE n \in recipe /\ HostOf(n) # None
  BY DEF stop_plugin, start_plugin, reload_plugin, load_plugin, Kinds, Pcs,
         Known
<1>2. HostOf(n) \in Procs \cup {None}
  BY HostFound
<1>3. PICK y : y = [req[r] EXCEPT !.pc = pc, !.kind = k, !.name = n, !.old = HostOf(n)]
  OBVIOUS
<1>4. req[r] \in ServedBy
  BY DEF Shaped
<1>5. /\ y \in ServedBy /\ y.pc = pc /\ y.kind = k /\ y.name = n /\ y.old = HostOf(n)
  <2>1. PICK a : a = [req[r] EXCEPT !.pc = pc]
    OBVIOUS
  <2>2. PICK b : b = [a EXCEPT !.kind = k]
    OBVIOUS
  <2>3. PICK c : c = [b EXCEPT !.name = n]
    OBVIOUS
  <2>4. y = [c EXCEPT !.old = HostOf(n)]
    BY <1>3, <2>1, <2>2, <2>3
  <2>5. a \in ServedBy /\ a.pc = pc
    BY <1>4, <2>1 DEF ServedBy
  <2>6. b \in ServedBy /\ b.pc = pc /\ b.kind = k
    BY <2>2, <2>5 DEF ServedBy
  <2>7. c \in ServedBy /\ c.pc = pc /\ c.kind = k /\ c.name = n
    BY <2>3, <2>6 DEF ServedBy
  <2> QED BY <1>2, <2>4, <2>7 DEF ServedBy
<1>6. Set(r, y)
  BY <1>1, <1>3 DEF Begin
<1>7. req' \in [Requests -> ServedBy] /\ req'[r] = y /\ Others(r)
  BY <1>5, <1>6, ReqSet
<1>8. /\ req[r].pc = "new"
      /\ UNCHANGED <<proc, tables, boot, scan, heard, missed, unborn, cried, spoilt>>
      /\ Clash(n)
  BY <1>1 DEF Begin
<1>9. /\ clashed \subseteq clashed' /\ clashed' \subseteq clashed \cup {n}
      /\ n \in clashed' \/ /\ boot.pc = "ready"
                           /\ \A q \in Requests : Serving(q) => req[q].name # n
  BY <1>8 DEF Clash
<1> QED BY <1>1, <1>5, <1>7, <1>8, <1>9

LEMMA MarkDoes ==
  ASSUME WInv, NEW r \in Requests, Mark(r)
  PROVE  /\ req' \in [Requests -> ServedBy] /\ Others(r) /\ req[r].pc = "mark"
         /\ stopped' = stopped \cup {req[r].name}
         /\ \/ req[r].name \in stopped /\ req'[r].pc = "done"
            \/ req[r].name \notin stopped /\ req'[r].pc = "cut" /\ Carries(r)
                                         /\ req'[r].new = req[r].new
         /\ UNCHANGED <<proc, hosts, registry, recipe, crashSaid, boot, scan, history>>
BY GoOn DEF WInv, Mark, Pcs, Others, Carries

LEMMA CutDoes ==
  ASSUME WInv, NEW r \in Requests, Cut(r)
  PROVE  /\ req' \in [Requests -> ServedBy] /\ Others(r) /\ req[r].pc = "cut"
         /\ proc' \in [Procs -> Processes] /\ req[r].old \in Procs
         /\ proc'[req[r].old].life = "told" /\ proc'[req[r].old].decl = proc[req[r].old].decl
         /\ proc'[req[r].old].news = proc[req[r].old].news
         /\ proc'[req[r].old].bad = proc[req[r].old].bad
         /\ proc'[req[r].old].name = Owner(req[r].old)
         /\ \A p \in Procs \ {req[r].old} : proc'[p] = proc[p]
         /\ req'[r].pc = (IF req[r].kind = "stop" THEN "tell" ELSE "spawn")
         /\ Carries(r) /\ req'[r].new = req[r].new
         /\ UNCHANGED <<tables, boot, scan, history>>
<1> DEFINE o == req[r].old
<1>1. o \in Procs
  BY DEF WInv, Cut, InHand, Serving, Steps
<1>2. proc' = [proc EXCEPT ![o] = [proc[o] EXCEPT !.life = "told"]]
  BY DEF Cut
<1>3. proc[o] \in Processes
  BY <1>1 DEF WInv, Shaped
<1>4. PICK x : x = [proc[o] EXCEPT !.life = "told"]
  OBVIOUS
<1>5. /\ x \in Processes /\ x.life = "told" /\ x.name = proc[o].name
      /\ x.decl = proc[o].decl /\ x.news = proc[o].news /\ x.bad = proc[o].bad
  BY <1>3, <1>4, ProcFields
<1>6. /\ proc' \in [Procs -> Processes] /\ proc'[o] = x
      /\ \A q \in Procs \ {o} : proc'[q] = proc[q]
  BY <1>1, <1>2, <1>4, <1>5, OneProc DEF WInv
<1> QED BY <1>1, <1>5, <1>6, GoOn DEF WInv, Cut, Pcs, Others, Carries, Life, Owner

LEMMA SpawnDoes ==
  ASSUME WInv, NEW r \in Requests, Spawn(r)
  PROVE  /\ req[r].pc = "spawn" /\ req' \in [Requests -> ServedBy] /\ Others(r)
         /\ UNCHANGED <<declares, tables, boot, scan, heard, clashed, missed, cried, spoilt>>
         /\ \/ /\ proc' = proc /\ req'[r].pc = "done"
               /\ unborn' = unborn \cup {req[r].name}
            \/ /\ unborn' = unborn /\ Carries(r)
               /\ req'[r].pc = IF req[r].kind = "load" THEN "collide" ELSE "wire"
               /\ \E p \in Procs :
                     /\ proc' \in [Procs -> Processes] /\ req'[r].new = p
                     /\ Life(p) = "unborn" /\ Life(p)' = "up" /\ Owner(p)' = req[r].name
                     /\ ~ proc'[p].news
                     /\ \A q \in Procs \ {p} : proc'[q] = proc[q]
<1>1. /\ req[r].pc = "spawn"
      /\ UNCHANGED <<declares, tables, boot, scan, heard, clashed, missed, cried, spoilt>>
  BY DEF Spawn
<1>2. CASE proc' = proc /\ unborn' = unborn \cup {req[r].name} /\ Go(r, "done")
  BY <1>1, <1>2, GoOn DEF WInv, Pcs, Others
<1>3. ASSUME NEW p \in Procs, NEW d \in Decls, Life(p) = "unborn", unborn' = unborn,
             proc' = [proc EXCEPT ![p] = Born(req[r].name, d)],
             Set(r, [req[r] EXCEPT !.new = p,
                           !.pc = IF req[r].kind = "load" THEN "collide" ELSE "wire"])
      PROVE  /\ req' \in [Requests -> ServedBy] /\ Others(r) /\ Carries(r)
             /\ req'[r].pc = IF req[r].kind = "load" THEN "collide" ELSE "wire"
             /\ proc' \in [Procs -> Processes] /\ req'[r].new = p
             /\ Life(p)' = "up" /\ Owner(p)' = req[r].name /\ ~ proc'[p].news
             /\ \A q \in Procs \ {p} : proc'[q] = proc[q]
  <2>1. req[r] \in ServedBy
    BY DEF WInv, Shaped
  <2>2. Born(req[r].name, d) \in Processes
    BY <2>1 DEF Born, Processes, ServedBy
  <2>3. /\ proc' \in [Procs -> Processes] /\ proc'[p] = Born(req[r].name, d)
        /\ \A q \in Procs \ {p} : proc'[q] = proc[q]
    BY <1>3, <2>2, OneProc DEF WInv
  <2>4. PICK pc : pc = IF req[r].kind = "load" THEN "collide" ELSE "wire"
    OBVIOUS
  <2>5. PICK y : y = [req[r] EXCEPT !.new = p, !.pc = pc]
    OBVIOUS
  <2>6. pc \in Pcs
    BY <2>4 DEF Pcs
  <2>7. /\ y \in ServedBy /\ y.pc = pc /\ y.new = p
        /\ y.kind = req[r].kind /\ y.name = req[r].name /\ y.old = req[r].old
    <3>1. PICK a : a = [req[r] EXCEPT !.new = p]
      OBVIOUS
    <3>2. y = [a EXCEPT !.pc = pc]
      BY <2>5, <3>1
    <3>3. /\ a \in ServedBy /\ a.new = p
          /\ a.kind = req[r].kind /\ a.name = req[r].name /\ a.old = req[r].old
      BY <2>1, <3>1 DEF ServedBy
    <3> QED BY <2>6, <3>2, <3>3 DEF ServedBy
  <2>8. Set(r, y)
    BY <1>3, <2>4, <2>5
  <2>9. req' \in [Requests -> ServedBy] /\ req'[r] = y /\ Others(r)
    BY <2>7, <2>8, ReqSet DEF WInv
  <2> QED BY <2>3, <2>4, <2>7, <2>9 DEF Carries, Life, Owner, Born
<1>4. \/ proc' = proc /\ unborn' = unborn \cup {req[r].name} /\ Go(r, "done")
      \/ \E p \in Procs, d \in Decls :
           /\ Life(p) = "unborn" /\ unborn' = unborn
           /\ proc' = [proc EXCEPT ![p] = Born(req[r].name, d)]
           /\ Set(r, [req[r] EXCEPT !.new = p,
                             !.pc = IF req[r].kind = "load" THEN "collide" ELSE "wire"])
  BY RegistryAssumption DEF Spawn, Life
<1> QED BY <1>1, <1>2, <1>3, <1>4

LEMMA CollideDoes ==
  ASSUME WInv, NEW r \in Requests, Collide(r)
  PROVE  /\ req[r].pc = "collide" /\ req' \in [Requests -> ServedBy] /\ Others(r)
         /\ UNCHANGED <<tables, boot, scan, history>>
         /\ \/ /\ HostOf(req[r].name) = None /\ proc' = proc /\ Carries(r)
               /\ req'[r].pc = "wire" /\ req'[r].new = req[r].new
            \/ /\ HostOf(req[r].name) # None /\ req'[r].pc = "done"
               /\ proc' \in [Procs -> Processes] /\ req[r].new \in Procs
               /\ proc'[req[r].new].life = "told" /\ proc'[req[r].new].decl = proc[req[r].new].decl
               /\ proc'[req[r].new].news = proc[req[r].new].news
               /\ proc'[req[r].new].bad = proc[req[r].new].bad
               /\ proc'[req[r].new].name = Owner(req[r].new)
               /\ \A p \in Procs \ {req[r].new} : proc'[p] = proc[p]
<1> DEFINE o == req[r].new
<1>1. o \in Procs
  BY DEF WInv, Collide, InHand, Serving, Fresh
<1>2. CASE HostOf(req[r].name) = None
  BY <1>2, GoOn DEF WInv, Collide, Pcs, Others, Carries
<1>3. CASE HostOf(req[r].name) # None
  <2>1. proc' = [proc EXCEPT ![o] = [proc[o] EXCEPT !.life = "told"]]
    BY <1>3 DEF Collide
  <2>2. proc[o] \in Processes
    BY <1>1 DEF WInv, Shaped
  <2>3. PICK x : x = [proc[o] EXCEPT !.life = "told"]
    OBVIOUS
  <2>4. /\ x \in Processes /\ x.life = "told" /\ x.name = proc[o].name
        /\ x.decl = proc[o].decl /\ x.news = proc[o].news /\ x.bad = proc[o].bad
    BY <2>2, <2>3, ProcFields
  <2>5. /\ proc' \in [Procs -> Processes] /\ proc'[o] = x
        /\ \A q \in Procs \ {o} : proc'[q] = proc[q]
    BY <1>1, <2>1, <2>3, <2>4, OneProc DEF WInv
  <2>6. Go(r, "done") /\ req[r].pc = "collide"
        /\ UNCHANGED <<tables, boot, scan, history>>
    BY <1>3 DEF Collide
  <2>7. req' \in [Requests -> ServedBy] /\ Others(r) /\ req'[r].pc = "done"
    BY <2>6, GoOn DEF WInv, Pcs, Others
  <2> QED BY <1>1, <1>3, <2>4, <2>5, <2>6, <2>7 DEF Life, Owner
<1> QED BY <1>2, <1>3

LEMMA WireDoes ==
  ASSUME WInv, NEW r \in Requests, wire_new_host(r)
  PROVE  /\ req[r].pc = "wire" /\ req' \in [Requests -> ServedBy] /\ Others(r)
         /\ req[r].new \in Procs
         /\ UNCHANGED <<tables, boot, scan, history>>
         /\ req'[r].pc = (IF req[r].kind = "load" THEN "record" ELSE "swap")
         /\ Carries(r) /\ req'[r].new = req[r].new
         /\ proc' \in [Procs -> Processes]
         /\ \A p \in Procs : /\ Life(p)' = Life(p) /\ Owner(p)' = Owner(p)
                              /\ proc'[p].decl = proc[p].decl /\ proc'[p].news = proc[p].news
                              /\ proc'[p].bad = proc[p].bad
<1> DEFINE o == req[r].new
<1>1. o \in Procs
  BY DEF WInv, wire_new_host, InHand, Serving, Fresh
<1>2. proc' = [proc EXCEPT ![o] = [proc[o] EXCEPT !.wired = TRUE]]
  BY DEF wire_new_host
<1>3. proc[o] \in Processes
  BY <1>1 DEF WInv, Shaped
<1>4. PICK x : x = [proc[o] EXCEPT !.wired = TRUE]
  OBVIOUS
<1>5. /\ x \in Processes /\ x.life = proc[o].life /\ x.name = proc[o].name
      /\ x.decl = proc[o].decl /\ x.news = proc[o].news /\ x.bad = proc[o].bad
  BY <1>3, <1>4, ProcFields
<1>6. /\ proc' \in [Procs -> Processes] /\ proc'[o] = x
      /\ \A q \in Procs \ {o} : proc'[q] = proc[q]
  BY <1>1, <1>2, <1>4, <1>5, OneProc DEF WInv
<1>7. req[r] \in ServedBy /\ proc[o].decl \in Decls \cup {{}}
  BY <1>3 DEF WInv, Shaped, Processes
<1>8. PICK pc : pc = IF req[r].kind = "load" THEN "record" ELSE "swap"
  OBVIOUS
<1>9. PICK y : y = [req[r] EXCEPT !.pc = pc, !.decl = proc[o].decl]
  OBVIOUS
<1>10. /\ y \in ServedBy /\ y.pc = pc /\ y.new = o
       /\ y.kind = req[r].kind /\ y.name = req[r].name /\ y.old = req[r].old
  <2>1. PICK a : a = [req[r] EXCEPT !.pc = pc]
    OBVIOUS
  <2>2. y = [a EXCEPT !.decl = proc[o].decl]
    BY <1>9, <2>1
  <2>3. pc \in Pcs
    BY <1>8 DEF Pcs
  <2>4. /\ a \in ServedBy /\ a.pc = pc /\ a.new = o
        /\ a.kind = req[r].kind /\ a.name = req[r].name /\ a.old = req[r].old
    BY <1>7, <2>1, <2>3 DEF ServedBy
  <2> QED BY <1>7, <2>2, <2>4 DEF ServedBy
<1>11. Set(r, y)
  BY <1>8, <1>9 DEF wire_new_host
<1>12. req' \in [Requests -> ServedBy] /\ req'[r] = y /\ Others(r)
  BY <1>10, <1>11, ReqSet DEF WInv
<1> QED BY <1>1, <1>5, <1>6, <1>8, <1>10, <1>12 DEF wire_new_host, Carries, Life, Owner

\* A new host in the table, in the place of the old one if there is one.
Takes(r) ==
  LET n == req[r].name  o == HostOf(n) IN
  /\ req[r].new \in Procs
  /\ hosts' \in Seq(Procs)
  /\ Range(hosts') \subseteq Range(hosts) \cup {req[r].new}
  /\ req[r].new \in Range(hosts')
  /\ \A i \in DOMAIN hosts : /\ i \in DOMAIN hosts'
                             /\ hosts'[i] = hosts[i] \/ (hosts[i] = o /\ hosts'[i] = req[r].new)
  /\ \A i \in DOMAIN hosts' : i \in DOMAIN hosts \/ hosts'[i] = req[r].new
  /\ \A i \in DOMAIN hosts' : i \in DOMAIN hosts => hosts'[i] = hosts[i] \/ hosts'[i] = req[r].new

LEMMA Appended ==
  ASSUME hosts \in Seq(Procs), NEW r, req[r].new \in Procs, hosts' = Append(hosts, req[r].new)
  PROVE  Takes(r)
<1>1. /\ hosts' \in Seq(Procs) /\ DOMAIN hosts = 1 .. Len(hosts) /\ Len(hosts) \in Nat
      /\ DOMAIN hosts' = 1 .. (Len(hosts) + 1)
      /\ \A i \in 1 .. Len(hosts) : hosts'[i] = hosts[i]
      /\ hosts'[Len(hosts) + 1] = req[r].new
  OBVIOUS
<1>2. \A i \in DOMAIN hosts' : i \in DOMAIN hosts \/ i = Len(hosts) + 1
  BY <1>1
<1>3. \A i \in DOMAIN hosts : i \in DOMAIN hosts'
  BY <1>1
<1>4. Len(hosts) + 1 \in DOMAIN hosts'
  BY <1>1
<1> QED BY <1>1, <1>2, <1>3, <1>4 DEF Takes, Range

LEMMA SwapDoes ==
  ASSUME WInv, None \notin Procs, NEW r \in Requests, Swap(r)
  PROVE  /\ req[r].pc = "swap" /\ req' \in [Requests -> ServedBy] /\ Others(r)
         /\ req'[r].pc = "tell" /\ Carries(r) /\ req'[r].new = req[r].new
         /\ Takes(r)
         /\ HostOf(req[r].name) # None =>
              HostOf(req[r].name) = req[r].new
                \/ HostOf(req[r].name) \notin Range(hosts')
         /\ Rebuild(r, hosts')
         /\ stopped' = stopped \ {req[r].name} /\ crashSaid' = crashSaid \ {req[r].name}
         /\ unborn' = unborn \ {req[r].name}
         /\ UNCHANGED <<declares, proc, recipe, boot, scan, heard, clashed, cried, spoilt>>
<1> DEFINE o == HostOf(req[r].name)
<1>1. req[r].new \in Procs
  BY DEF WInv, Swap, SwapClearing, InHand, Serving, Fresh
<1>2. hosts \in Seq(Procs)
  BY DEF WInv, Shaped
<1>3. hosts' = (IF o = None THEN Append(hosts, req[r].new)
               ELSE [i \in DOMAIN hosts |-> IF hosts[i] = o THEN req[r].new ELSE hosts[i]])
  BY DEF Swap, SwapClearing, Rebuild
<1>4. /\ Takes(r) /\ (o # None => o = req[r].new \/ o \notin Range(hosts'))
  <2>1. CASE o = None
    BY <1>1, <1>2, <1>3, <2>1, Appended
  <2>2. CASE o # None
    <3>1. o \in Range(hosts)
      BY <2>2, HostFound DEF WInv
    <3>2. DOMAIN hosts' = DOMAIN hosts
      BY <1>3, <2>2
    <3>3. \A i \in DOMAIN hosts : hosts'[i] = IF hosts[i] = o THEN req[r].new ELSE hosts[i]
      BY <1>3, <2>2
    <3>4. hosts' \in Seq(Procs)
      BY <1>1, <1>2, <1>3, <2>2
    <3> QED BY <1>1, <3>1, <3>2, <3>3, <3>4 DEF Takes, Range
  <2> QED BY <2>1, <2>2
<1>5. Rebuild(r, hosts')
  BY DEF Swap, SwapClearing, Rebuild
<1> QED BY <1>4, <1>5, GoOn DEF WInv, Swap, SwapClearing, Pcs, Others, Carries

LEMMA PushDoes ==
  ASSUME WInv, NEW r \in Requests, Push(r)
  PROVE  /\ req[r].pc = "push" /\ req' \in [Requests -> ServedBy] /\ Others(r)
         /\ req'[r].pc = "tell" /\ Carries(r) /\ req'[r].new = req[r].new
         /\ Takes(r) /\ Range(hosts) \subseteq Range(hosts')
         /\ Rebuild(r, hosts')
         /\ unborn' = unborn \ {req[r].name}
         /\ UNCHANGED <<declares, proc, recipe, stopped, crashSaid, boot, scan, heard,
                        clashed, cried, spoilt>>
<1>1. req[r].new \in Procs
  BY DEF WInv, Push, InHand, Serving, Fresh
<1>2. hosts \in Seq(Procs) /\ hosts' = Append(hosts, req[r].new)
  BY DEF Push, Rebuild, WInv, Shaped
<1>3. Takes(r)
  BY <1>1, <1>2, Appended
<1>4. Range(hosts) \subseteq Range(hosts')
  <2>1. \A i \in DOMAIN hosts : i \in DOMAIN hosts' /\ hosts'[i] = hosts[i]
    BY <1>2
  <2> QED BY <2>1 DEF Range
<1>5. Rebuild(r, hosts')
  BY DEF Push, Rebuild
<1> QED BY <1>3, <1>4, <1>5, GoOn DEF WInv, Push, Pcs, Others, Carries

LEMMA RecordDoes ==
  ASSUME WInv, NEW r \in Requests, Record(r)
  PROVE  /\ req[r].pc = "record" /\ req' \in [Requests -> ServedBy] /\ Others(r)
         /\ req'[r].pc = "push" /\ Carries(r) /\ req'[r].new = req[r].new
         /\ recipe' = recipe \cup {req[r].name}
         /\ UNCHANGED <<proc, hosts, registry, stopped, crashSaid, boot, scan, history>>
BY GoOn DEF WInv, Record, Pcs, Others, Carries

LEMMA AnnounceDoes ==
  ASSUME WInv, NEW r \in Requests, announce_plugin_state(r)
  PROVE  /\ req[r].pc \in {"tell", "started"} /\ req' \in [Requests -> ServedBy] /\ Others(r)
         /\ heard' = [heard EXCEPT ![req[r].name] = IF req[r].kind = "stop" THEN "stopped"
                                                    ELSE "started"]
         /\ \/ /\ req'[r].pc = "clear" /\ req[r].kind = "start" /\ req[r].pc = "tell"
               /\ Carries(r)
            \/ req'[r].pc = "done"
         /\ UNCHANGED <<declares, proc, tables, boot, scan, clashed, missed, unborn, cried,
                        spoilt>>
BY GoOn DEF WInv, announce_plugin_state, Pcs, Others, Carries

LEMMA ClearDoes ==
  ASSUME WInv, NEW r \in Requests, Clear(r)
  PROVE  /\ req[r].pc = "clear" /\ req' \in [Requests -> ServedBy] /\ Others(r)
         /\ req'[r].pc = "started" /\ Carries(r)
         /\ stopped' = stopped \ {req[r].name}
         /\ UNCHANGED <<proc, hosts, registry, recipe, crashSaid, boot, scan, history>>
BY GoOn DEF WInv, Clear, Pcs, Others, Carries

\* What the readers, the scans and, but for the table of hosts, the boot leave alone.
Aside == /\ UNCHANGED <<hosts, req, stopped, unborn, clashed>>
         /\ SameProcs /\ proc' \in [Procs -> Processes]
         /\ recipe \subseteq recipe'

LEMMA ReaderDoes ==
  ASSUME WInv, NEW p \in Procs, ProcStep(p)
  PROVE  /\ Aside /\ UNCHANGED <<recipe, boot, crashSaid, cried, spoilt, scan, heard>>
         /\ \A q \in Procs \ {p} : proc'[q] = proc[q]
         /\ \/ /\ declare(p) /\ proc'[p].news = proc[p].wired
            \/ /\ on_plugin_declare(p)
               /\ proc'[p].decl = proc[p].decl
            \/ /\ Poison(p) /\ UNCHANGED <<registry, missed>>
               /\ proc'[p].decl = proc[p].decl /\ proc'[p].news = proc[p].news
<1>0. proc \in [Procs -> Processes] /\ proc[p] \in Processes
  BY DEF WInv, Shaped
<1>1. CASE declare(p)
  <2>1. PICK d \in Decls :
          proc' = [proc EXCEPT ![p] = [proc[p] EXCEPT !.decl = d, !.news = proc[p].wired]]
    BY <1>1 DEF declare
  <2>2. PICK z : z = [proc[p] EXCEPT !.decl = d]
    OBVIOUS
  <2>3. PICK y : y = [proc[p] EXCEPT !.decl = d, !.news = proc[p].wired]
    OBVIOUS
  <2>4. y = [z EXCEPT !.news = proc[p].wired]
    BY <2>2, <2>3
  <2>5. /\ z \in Processes /\ z.life = proc[p].life /\ z.name = proc[p].name /\ z.decl = d
        /\ z.bad = proc[p].bad
    BY <1>0, <2>2 DEF Processes
  <2>6. proc[p].wired \in BOOLEAN
    BY <1>0 DEF Processes
  <2>7. /\ y \in Processes /\ y.life = proc[p].life /\ y.name = proc[p].name
        /\ y.news = proc[p].wired /\ y.bad = proc[p].bad
    BY <2>4, <2>5, <2>6 DEF Processes
  <2>8. /\ proc' \in [Procs -> Processes] /\ proc'[p] = y
        /\ \A q \in Procs \ {p} : proc'[q] = proc[q]
    BY <2>1, <2>3, <2>7, OneProc DEF WInv
  <2>9. SameProcs
    BY <2>7, <2>8 DEF SameProcs, Life, Owner, Bad
  <2>10. UNCHANGED <<hosts, req, stopped, heard, unborn, clashed, recipe, boot, crashSaid,
                     cried, spoilt, scan>>
    BY <1>1 DEF declare, tables
  <2> QED BY <1>1, <2>7, <2>8, <2>9, <2>10 DEF Aside
<1>2. CASE on_plugin_declare(p)
  <2>1. proc' = [proc EXCEPT ![p] = [proc[p] EXCEPT !.news = FALSE]]
    BY <1>2 DEF on_plugin_declare
  <2>2. PICK y : y = [proc[p] EXCEPT !.news = FALSE]
    OBVIOUS
  <2>3. /\ y \in Processes /\ y.life = proc[p].life /\ y.name = proc[p].name
        /\ y.decl = proc[p].decl /\ y.bad = proc[p].bad
    BY <1>0, <2>2, ProcFields
  <2>4. /\ proc' \in [Procs -> Processes] /\ proc'[p] = y
        /\ \A q \in Procs \ {p} : proc'[q] = proc[q]
    BY <2>1, <2>2, <2>3, OneProc DEF WInv
  <2>5. SameProcs
    BY <2>3, <2>4 DEF SameProcs, Life, Owner, Bad
  <2>6. UNCHANGED <<hosts, req, stopped, heard, unborn, clashed, recipe, boot, crashSaid,
                    cried, spoilt, scan>>
    BY <1>2 DEF on_plugin_declare
  <2> QED BY <1>2, <2>3, <2>4, <2>5, <2>6 DEF Aside
<1>3. CASE Poison(p)
  <2>1. proc' = [proc EXCEPT ![p] = [proc[p] EXCEPT !.bad = TRUE]]
    BY <1>3 DEF Poison
  <2>2. PICK y : y = [proc[p] EXCEPT !.bad = TRUE]
    OBVIOUS
  <2>3. /\ y \in Processes /\ y.life = proc[p].life /\ y.name = proc[p].name
        /\ y.decl = proc[p].decl /\ y.news = proc[p].news /\ y.bad
    BY <1>0, <2>2, ProcFields
  <2>4. /\ proc' \in [Procs -> Processes] /\ proc'[p] = y
        /\ \A q \in Procs \ {p} : proc'[q] = proc[q]
    BY <2>1, <2>2, <2>3, OneProc DEF WInv
  <2>5. SameProcs
    BY <2>3, <2>4 DEF SameProcs, Life, Owner, Bad
  <2>6. UNCHANGED <<hosts, req, stopped, heard, unborn, clashed, recipe, boot, crashSaid,
                    cried, spoilt, scan, registry, missed>>
    BY <1>3 DEF Poison, tables, history
  <2> QED BY <1>3, <2>3, <2>4, <2>5, <2>6 DEF Aside
<1> QED BY <1>1, <1>2, <1>3 DEF ProcStep

LEMMA BootDoes ==
  ASSUME WInv, PublishTools \/ set_plugin_spawn \/ install_declare_callbacks
  PROVE  /\ Aside /\ UNCHANGED <<crashSaid, cried, spoilt, scan, heard>>
         /\ \/ /\ PublishTools /\ boot.pc = "publish" /\ boot'.pc = "hosts"
               /\ boot'.hosts = boot.hosts
            \/ /\ boot.pc = "record" /\ boot'.pc = "install"
               /\ recipe' = recipe \cup Range(Configured) /\ UNCHANGED <<registry, missed>>
            \/ /\ boot.pc = "install" /\ boot'.pc = "ready" /\ UNCHANGED <<registry, missed>>
         /\ \A q \in Procs : proc'[q].decl = proc[q].decl /\ proc'[q].news = proc[q].news
<1>0. proc \in [Procs -> Processes]
  BY DEF WInv, Shaped
<1>1. CASE set_plugin_spawn
  BY <1>0, <1>1 DEF set_plugin_spawn, Boot, history, Aside, SameProcs, Life, Owner, Bad
<1>2. CASE install_declare_callbacks
  <2>1. \A q \in Procs :
          proc'[q] = [proc[q] EXCEPT !.wired = proc[q].wired \/ q \in Range(hosts)]
    BY <1>2 DEF install_declare_callbacks
  <2>2. \A q \in Procs : /\ proc'[q] \in Processes
                         /\ proc'[q].life = proc[q].life /\ proc'[q].name = proc[q].name
                         /\ proc'[q].decl = proc[q].decl /\ proc'[q].news = proc[q].news
                         /\ proc'[q].bad = proc[q].bad
    <3> SUFFICES ASSUME NEW q \in Procs
                 PROVE  /\ proc'[q] \in Processes
                        /\ proc'[q].life = proc[q].life /\ proc'[q].name = proc[q].name
                        /\ proc'[q].decl = proc[q].decl /\ proc'[q].news = proc[q].news
                        /\ proc'[q].bad = proc[q].bad
      OBVIOUS
    <3>1. proc[q] \in Processes
      BY <1>0
    <3>2. CASE proc[q].wired \/ q \in Range(hosts)
      <4>0. PICK y : y = [proc[q] EXCEPT !.wired = TRUE]
        OBVIOUS
      <4>1. proc'[q] = y
        BY <2>1, <3>2, <4>0
      <4>2. /\ y \in Processes /\ y.life = proc[q].life /\ y.name = proc[q].name
            /\ y.decl = proc[q].decl /\ y.news = proc[q].news /\ y.bad = proc[q].bad
        BY <3>1, <4>0, ProcFields
      <4> QED BY <4>1, <4>2
    <3>3. CASE ~(proc[q].wired \/ q \in Range(hosts))
      <4>0. PICK y : y = [proc[q] EXCEPT !.wired = FALSE]
        OBVIOUS
      <4>1. proc'[q] = y
        BY <2>1, <3>3, <4>0
      <4>2. /\ y \in Processes /\ y.life = proc[q].life /\ y.name = proc[q].name
            /\ y.decl = proc[q].decl /\ y.news = proc[q].news /\ y.bad = proc[q].bad
        BY <3>1, <4>0, ProcFields
      <4> QED BY <4>1, <4>2
    <3> QED BY <3>2, <3>3
  <2>3. proc' \in [Procs -> Processes]
    BY <1>2, <2>2 DEF install_declare_callbacks
  <2>4. /\ UNCHANGED <<hosts, req, stopped, heard, unborn, clashed, recipe, registry, crashSaid,
                       cried, spoilt, scan, missed>>
        /\ boot.pc = "install" /\ boot'.pc = "ready"
    BY <1>2 DEF install_declare_callbacks, Boot, tables, history
  <2> QED BY <2>2, <2>3, <2>4 DEF Aside, SameProcs, Life, Owner, Bad
<1>3. CASE PublishTools
  BY <1>0, <1>3 DEF PublishTools, Aside, SameProcs, Life, Owner, Bad
<1> QED BY <1>1, <1>2, <1>3

LEMMA ScanDoes ==
  ASSUME WInv, NEW s \in Scans, Scanned(s)
  PROVE  /\ Aside /\ UNCHANGED <<proc, registry, recipe, boot, missed>>
         /\ \A z \in Scans \ {s} : scan'[z] = scan[z]
         /\ scan' \in [Scans -> Scanning] /\ spoilt \subseteq spoilt'
         /\ \/ /\ UNCHANGED <<crashSaid, cried, spoilt, heard>>
               /\ \A n \in scan'[s].broken : \E p \in Range(hosts) : Owner(p) = n
            \/ ScanMark(s) /\ heard' = heard /\ scan'[s].broken \subseteq scan[s].broken
            \/ /\ \E n \in Names : ScanTell(s, n)
               /\ UNCHANGED <<crashSaid, cried>> /\ scan'[s].broken \subseteq scan[s].broken
<1>1. /\ proc \in [Procs -> Processes] /\ scan \in [Scans -> Scanning]
      /\ scan[s].broken \subseteq Names
  BY DEF WInv, Shaped, Scanning
<1>2. SameProcs
  BY DEF Scanned, ScanHosts, ScanMark, ScanTell, SameProcs, Life, Owner, Bad
<1>3. ASSUME NEW B, B \subseteq scan[s].broken, Rest(s, B)
      PROVE  /\ \A z \in Scans \ {s} : scan'[z] = scan[z]
             /\ scan' \in [Scans -> Scanning] /\ scan'[s].broken = B
  BY <1>1, <1>3 DEF Rest, Scanning
<1>4. CASE ScanHosts(s)
  <2> DEFINE B == {proc[p].name : p \in {q \in Range(hosts) : proc[q].bad}}
  <2>1. B \in SUBSET Names
    BY DEF WInv, Lived, Owner
  <2>2. scan' = [scan EXCEPT ![s] = [pc |-> "fresh", broken |-> B]]
    BY <1>4 DEF ScanHosts
  <2>3. \A n \in B : \E p \in Range(hosts) : Owner(p) = n
    BY DEF Owner
  <2> HIDE DEF B
  <2>4. /\ scan' \in [Scans -> Scanning]
        /\ scan'[s].broken = B /\ \A z \in Scans \ {s} : scan'[z] = scan[z]
    BY <1>1, <2>1, <2>2 DEF Scanning
  <2> QED BY <1>1, <1>2, <1>4, <2>3, <2>4 DEF ScanHosts, Aside, tables, history
<1>5. CASE ScanMark(s)
  <2>1. Rest(s, scan[s].broken \ crashSaid) /\ spoilt \subseteq spoilt'
    BY <1>5 DEF ScanMark
  <2> QED BY <1>1, <1>2, <1>3, <1>5, <2>1 DEF ScanMark, Aside
<1>6. ASSUME NEW n \in Names, ScanTell(s, n)
      PROVE  /\ Aside /\ UNCHANGED <<proc, registry, recipe, boot, missed, crashSaid, cried>>
             /\ spoilt \subseteq spoilt' /\ Rest(s, scan[s].broken \ {n})
  BY <1>1, <1>2, <1>6 DEF ScanTell, Aside, tables
<1>7. CASE \E n \in Names : ScanTell(s, n)
  <2>1. PICK n \in Names : ScanTell(s, n)
    BY <1>7
  <2>2. scan[s].broken \ {n} \subseteq scan[s].broken
    OBVIOUS
  <2> QED BY <1>3, <1>6, <1>7, <2>1, <2>2
<1> QED BY <1>4, <1>5, <1>7 DEF Scanned

-----------------------------------------------------------------------------
(* Shapes, and who is born.                                                  *)

\* The processes that the start-up finds, and what they have declared.
StartedWith(hs, d) ==
  /\ \A i, j \in DOMAIN hs : i # j => hs[i] # hs[j]
  /\ proc = [p \in Procs |->
               IF p \in Range(hs)
                 THEN Born(Configured[CHOOSE i \in DOMAIN hs : hs[i] = p], d[p])
                 ELSE [Born(None, {}) EXCEPT !.life = "unborn"]]
  /\ boot = [pc |-> "publish", hosts |-> hs, decl |-> [p \in Procs |-> proc[p].decl]]

LEMMA StartsFrom ==
  ASSUME RegistryInit
  PROVE  \E hs \in [DOMAIN Configured -> Procs], d \in [Procs -> Decls] : StartedWith(hs, d)
<1>1. PICK hs \in [DOMAIN Configured -> Procs], d \in [Procs -> Hellos] : StartedWith(hs, d)
  BY DEF RegistryInit, StartedWith
<1>2. d \in [Procs -> Decls]
  BY <1>1, RegistryAssumption
<1> QED BY <1>1, <1>2

LEMMA WStarts == RegistryInit => WInv
<1> SUFFICES ASSUME RegistryInit PROVE WInv
  OBVIOUS
<1>1. /\ Configured \in Seq(Names) /\ None \notin Procs \cup Names
  BY RegistryAssumption
<1>2. PICK hs \in [DOMAIN Configured -> Procs], d \in [Procs -> Decls] :
        /\ \A i, j \in DOMAIN hs : i # j => hs[i] # hs[j]
        /\ proc = [p \in Procs |->
                     IF p \in Range(hs)
                       THEN Born(Configured[CHOOSE i \in DOMAIN hs : hs[i] = p], d[p])
                       ELSE [Born(None, {}) EXCEPT !.life = "unborn"]]
        /\ boot = [pc |-> "publish", hosts |-> hs, decl |-> [p \in Procs |-> proc[p].decl]]
  BY StartsFrom DEF StartedWith
<1>3. /\ DOMAIN Configured = 1 .. Len(Configured) /\ Len(Configured) \in Nat
      /\ \A i \in DOMAIN Configured : Configured[i] \in Names
  BY <1>1
<1>4. hs \in Seq(Procs) /\ Len(hs) = Len(Configured)
  BY <1>2, <1>3
<1>5. \A i \in DOMAIN Configured : (CHOOSE j \in DOMAIN hs : hs[j] = hs[i]) = i
  BY <1>2
<1>6. \A i \in DOMAIN Configured :
        proc[hs[i]] = Born(Configured[i], d[hs[i]])
  BY <1>2, <1>5 DEF Range
<1>7. \A p \in Procs : \/ \E i \in DOMAIN Configured : p = hs[i]
                       \/ proc[p] = [Born(None, {}) EXCEPT !.life = "unborn"]
  BY <1>2 DEF Range
<1>8. \A p \in Procs : proc[p] \in Processes
  <2> SUFFICES ASSUME NEW p \in Procs PROVE proc[p] \in Processes
    OBVIOUS
  <2>1. ASSUME NEW i \in DOMAIN Configured, p = hs[i] PROVE proc[p] \in Processes
    BY <1>2, <1>3, <1>6, <2>1 DEF Born, Processes
  <2>2. ASSUME proc[p] = [Born(None, {}) EXCEPT !.life = "unborn"]
        PROVE  proc[p] \in Processes
    BY <2>2 DEF Born, Processes
  <2> QED BY <1>7, <2>1, <2>2
<1>9. hosts = <<>> /\ \A r \in Requests : req[r] = Idle("new")
  BY DEF RegistryInit
<1>10. Shaped
  <2>1. req \in [Requests -> ServedBy]
    BY DEF RegistryInit, Idle, ServedBy, Pcs
  <2>2. scan \in [Scans -> Scanning]
    BY DEF RegistryInit, Scanning
  <2>3. heard \in [Names -> {"started", "stopped", "crashed"}]
    BY DEF RegistryInit
  <2>4. proc \in [Procs -> Processes]
    BY <1>2, <1>8
  <2>5. Booting /\ boot.hosts = hs /\ hosts \in Seq(Procs)
    BY <1>2, <1>9
  <2> QED BY <1>4, <2>1, <2>2, <2>3, <2>4, <2>5 DEF Shaped
<1>11. Lived
  <2>1. Range(hosts) = {}
    BY <1>9 DEF Range
  <2>2. boot.hosts = hs
    BY <1>2
  <2>3. \A i \in DOMAIN Configured : /\ proc[hs[i]].life = "up"
                                    /\ proc[hs[i]].name = Configured[i]
    <3> SUFFICES ASSUME NEW i \in DOMAIN Configured
                 PROVE  proc[hs[i]].life = "up" /\ proc[hs[i]].name = Configured[i]
      OBVIOUS
    <3>1. proc[hs[i]] = Born(Configured[i], d[hs[i]])
      BY <1>6
    <3> QED BY <3>1 DEF Born
  <2>4. \A i, j \in DOMAIN Configured : hs[i] = hs[j] => i = j
    BY <1>2
  <2> QED BY <2>1, <2>2, <2>3, <2>4 DEF Lived, Life, Owner
<1>12. InHand
  BY <1>9 DEF InHand, Serving, Idle
<1> QED BY <1>10, <1>11, <1>12 DEF WInv

RequestMoves(r) ==
  \/ \E n \in Names : \/ stop_plugin(r, n) \/ start_plugin(r, n)
                      \/ reload_plugin(r, n) \/ load_plugin(r, n)
  \/ Mark(r) \/ Cut(r) \/ Spawn(r) \/ Collide(r) \/ wire_new_host(r)
  \/ Swap(r) \/ Record(r) \/ Push(r) \/ announce_plugin_state(r) \/ Clear(r)
BootOn == PublishTools \/ set_plugin_spawn \/ install_declare_callbacks

LEMMA StepKinds ==
  ASSUME [RegistryNext]_registryVars
  PROVE  \/ UNCHANGED registryVars
         \/ PublishHosts \/ BootOn
         \/ \E p \in Procs : ProcStep(p)
         \/ \E s \in Scans : Scanned(s)
         \/ \E r \in Requests : RequestMoves(r)
<1>1. ASSUME NEW r \in Requests PROVE RequestStep(r) <=> RequestMoves(r)
  BY DEF RequestStep, RequestMoves
<1> QED BY <1>1 DEF RegistryNext, BootStep, BootOn, Scanned

LEMMA ShapedStep ==
  ASSUME WInv, [RegistryNext]_registryVars
  PROVE  Shaped'
<1>0. /\ Configured \in Seq(Names) /\ None \notin Procs \cup Names
      /\ hosts \in Seq(Procs) /\ proc \in [Procs -> Processes]
      /\ req \in [Requests -> ServedBy]
      /\ scan \in [Scans -> Scanning]
      /\ heard \in [Names -> {"started", "stopped", "crashed"}]
  BY RegistryAssumption DEF WInv, Shaped
<1>1. CASE UNCHANGED registryVars
  BY <1>1 DEF registryVars, tables, history, Shaped, WInv
<1>2. CASE PublishHosts
  BY <1>0, <1>2 DEF PublishHosts, Boot, Shaped, WInv
<1>3. CASE BootOn
  <2>1. /\ Aside /\ UNCHANGED <<scan, heard>>
        /\ \/ boot.pc = "publish" /\ boot'.pc = "hosts" /\ boot'.hosts = boot.hosts
           \/ boot'.pc \in {"install", "ready"}
    BY <1>3, BootDoes DEF BootOn
  <2> QED BY <1>0, <2>1 DEF Shaped, Aside, WInv
<1>4. ASSUME NEW p \in Procs, ProcStep(p) PROVE Shaped'
  <2>1. Aside /\ UNCHANGED <<boot, scan, heard>>
    BY <1>4, ReaderDoes
  <2> QED BY <1>0, <2>1 DEF Shaped, Aside, WInv
<1>5. ASSUME NEW s \in Scans, Scanned(s) PROVE Shaped'
  <2>1. /\ Aside /\ UNCHANGED boot
        /\ scan' \in [Scans -> Scanning]
        /\ heard' = heard \/ \E n \in Names : ScanTell(s, n)
    BY <1>5, ScanDoes
  <2>2. heard' \in [Names -> {"started", "stopped", "crashed"}]
    BY <1>0, <2>1 DEF ScanTell
  <2> QED BY <1>0, <2>1, <2>2 DEF Shaped, Aside, WInv
<1>6. ASSUME NEW r \in Requests, RequestMoves(r) PROVE Shaped'
  <2> SUFFICES /\ hosts' \in Seq(Procs) /\ proc' \in [Procs -> Processes]
               /\ req' \in [Requests -> ServedBy]
               /\ UNCHANGED <<boot, scan>>
               /\ heard' \in [Names -> {"started", "stopped", "crashed"}]
    BY DEF Shaped, WInv
  <2>1. ASSUME NEW n \in Names, \/ stop_plugin(r, n) \/ start_plugin(r, n)
                                \/ reload_plugin(r, n) \/ load_plugin(r, n)
        PROVE  /\ req' \in [Requests -> ServedBy]
               /\ UNCHANGED <<proc, hosts, boot, scan, heard>>
    BY <1>0, <2>1, BeginDoes DEF tables
  <2>2. CASE Mark(r)
    BY <1>0, <2>2, MarkDoes DEF history
  <2>3. CASE Cut(r)
    BY <1>0, <2>3, CutDoes DEF history, tables
  <2>4. CASE Spawn(r)
    BY <1>0, <2>4, SpawnDoes DEF tables
  <2>5. CASE Collide(r)
    BY <1>0, <2>5, CollideDoes DEF history, tables
  <2>6. CASE wire_new_host(r)
    BY <1>0, <2>6, WireDoes DEF history, tables
  <2>7. CASE Swap(r)
    BY <1>0, <2>7, SwapDoes DEF Takes
  <2>8. CASE Record(r)
    BY <1>0, <2>8, RecordDoes DEF history
  <2>9. CASE Push(r)
    BY <1>0, <2>9, PushDoes DEF Takes
  <2>10. CASE announce_plugin_state(r)
    BY <1>0, <2>10, AnnounceDoes DEF tables
  <2>11. CASE Clear(r)
    BY <1>0, <2>11, ClearDoes DEF history
  <2> QED BY <1>0, <1>6, <2>1, <2>2, <2>3, <2>4, <2>5, <2>6, <2>7, <2>8, <2>9, <2>10, <2>11
          DEF RequestMoves
<1> QED BY <1>1, <1>2, <1>3, <1>4, <1>5, <1>6, StepKinds

\* Who has been born stays so, under the same name, and who was told to go stays told.
Lasts(p) == /\ Life(p)' # "unborn" /\ Owner(p)' = Owner(p)
            /\ Life(p) = "told" => Life(p)' = "told"
            /\ Bad(p) => Bad(p)'
LEMMA BornStay ==
  ASSUME WInv, [RegistryNext]_registryVars, NEW p \in Procs,
         Life(p) # "unborn"
  PROVE  Lasts(p)
<1> USE DEF Life, Owner, Lasts, Bad
<1>1. CASE UNCHANGED registryVars
  BY <1>1 DEF registryVars
<1>2. CASE PublishHosts
  BY <1>2 DEF PublishHosts
<1>3. CASE BootOn
  BY <1>3, BootDoes DEF BootOn, Aside, SameProcs
<1>4. ASSUME NEW q \in Procs, ProcStep(q)
      PROVE  Lasts(p)
  BY <1>4, ReaderDoes DEF Aside, SameProcs
<1>5. ASSUME NEW s \in Scans, Scanned(s)
      PROVE  Lasts(p)
  BY <1>5, ScanDoes
<1>6. ASSUME NEW r \in Requests, RequestMoves(r)
      PROVE  Lasts(p)
  <2>1. ASSUME NEW n \in Names, \/ stop_plugin(r, n) \/ start_plugin(r, n)
                                \/ reload_plugin(r, n) \/ load_plugin(r, n)
        PROVE  UNCHANGED proc
    BY <2>1, BeginDoes, RegistryAssumption
  <2>2. CASE Mark(r)
    BY <2>2, MarkDoes
  <2>3. CASE Cut(r)
    BY <2>3, CutDoes
  <2>4. CASE Spawn(r)
    BY <2>4, SpawnDoes
  <2>5. CASE Collide(r)
    BY <2>5, CollideDoes
  <2>6. CASE wire_new_host(r)
    BY <2>6, WireDoes
  <2>7. CASE Swap(r)
    BY <2>7, SwapDoes, RegistryAssumption
  <2>8. CASE Record(r)
    BY <2>8, RecordDoes
  <2>9. CASE Push(r)
    BY <2>9, PushDoes
  <2>10. CASE announce_plugin_state(r)
    BY <2>10, AnnounceDoes
  <2>11. CASE Clear(r)
    BY <2>11, ClearDoes
  <2> QED BY <1>6, <2>1, <2>2, <2>3, <2>4, <2>5, <2>6, <2>7, <2>8, <2>9, <2>10, <2>11
          DEF RequestMoves
<1> QED BY <1>1, <1>2, <1>3, <1>4, <1>5, <1>6, StepKinds

LEMMA BornStep ==
  ASSUME WInv, [RegistryNext]_registryVars
  PROVE  Lived'
<1>0. /\ \A p \in Procs : Life(p) # "unborn" => Life(p)' # "unborn" /\ Owner(p)' = Owner(p)
      /\ \A p \in Range(hosts) : p \in Procs /\ Life(p) # "unborn" /\ Owner(p) \in Names
      /\ Booting => boot.hosts \in Seq(Procs) /\ Len(boot.hosts) = Len(Configured)
      /\ \A i \in DOMAIN Configured : Configured[i] \in Names
      /\ None \notin Procs
  BY BornStay, RegistryAssumption DEF Lasts, WInv, Lived, Shaped, Range
<1>1. CASE hosts' = hosts /\ (Booting' => Booting /\ boot'.hosts = boot.hosts)
  <2>1. ASSUME Booting', NEW i \in DOMAIN Configured
        PROVE  /\ proc'[boot.hosts[i]].life # "unborn" /\ proc'[boot.hosts[i]].name = Configured[i]
               /\ \A j \in DOMAIN Configured : boot.hosts[i] = boot.hosts[j] => i = j
    <3>1. boot.hosts[i] \in Procs
      BY <1>0, <1>1, <2>1, RegistryAssumption
    <3> QED BY <1>0, <1>1, <2>1, <3>1 DEF WInv, Lived, Life, Owner
  <2>2. \A p \in Range(hosts') : proc'[p].life # "unborn" /\ proc'[p].name \in Names
    BY <1>0, <1>1 DEF Life, Owner
  <2> QED BY <1>1, <2>1, <2>2 DEF Lived, Life, Owner, Range
<1>2. CASE PublishHosts
  <2>1. Booting /\ boot'.pc = "record" /\ hosts' = boot.hosts /\ proc' = proc
    BY <1>2 DEF PublishHosts, Boot
  <2>2. \A p \in Range(hosts') : \E i \in DOMAIN Configured : p = boot.hosts[i]
    BY <1>0, <2>1, RegistryAssumption DEF Range
  <2>3. \A p \in Range(hosts') : proc'[p].life # "unborn" /\ proc'[p].name \in Names
    BY <1>0, <2>1, <2>2 DEF WInv, Lived, Life, Owner
  <2> QED BY <2>1, <2>3 DEF Lived, Life, Owner, Range
<1>3. ASSUME NEW r \in Requests, Takes(r), req[r].pc \in Fresh, boot' = boot
      PROVE  Lived'
  <2>1. /\ req[r].new \in Procs /\ Owner(req[r].new) \in Names /\ Life(req[r].new) # "unborn"
    BY <1>3 DEF WInv, InHand, Fresh, Serving
  <2>2. \A p \in Range(hosts') : p \in Range(hosts) \/ p = req[r].new
    BY <1>3 DEF Takes
  <2>3. \A p \in Range(hosts') : proc'[p].life # "unborn" /\ proc'[p].name \in Names
    BY <1>0, <2>1, <2>2 DEF Life, Owner
  <2>4. ASSUME Booting', NEW i \in DOMAIN Configured
        PROVE  /\ proc'[boot.hosts[i]].life # "unborn" /\ proc'[boot.hosts[i]].name = Configured[i]
               /\ \A j \in DOMAIN Configured : boot.hosts[i] = boot.hosts[j] => i = j
    <3>1. boot.hosts[i] \in Procs
      BY <1>0, <1>3, <2>4, RegistryAssumption
    <3> QED BY <1>0, <1>3, <2>4, <3>1 DEF WInv, Lived, Life, Owner
  <2> QED BY <1>3, <2>3, <2>4 DEF Lived, Life, Owner, Range
<1>4. CASE UNCHANGED registryVars
  BY <1>1, <1>4 DEF registryVars, tables
<1>5. CASE BootOn
  <2>1. hosts' = hosts /\ (Booting' => Booting /\ boot'.hosts = boot.hosts)
    BY <1>5, BootDoes DEF BootOn, Aside
  <2> QED BY <1>1, <2>1
<1>6. ASSUME NEW q \in Procs, ProcStep(q) PROVE Lived'
  BY <1>1, <1>6, ReaderDoes DEF Aside
<1>7. ASSUME NEW s \in Scans, Scanned(s) PROVE Lived'
  BY <1>1, <1>7, ScanDoes DEF Aside
<1>8. ASSUME NEW r \in Requests, RequestMoves(r) PROVE Lived'
  <2>1. ASSUME NEW n \in Names, \/ stop_plugin(r, n) \/ start_plugin(r, n)
                                \/ reload_plugin(r, n) \/ load_plugin(r, n)
        PROVE  UNCHANGED <<hosts, boot>>
    BY <1>0, <2>1, BeginDoes DEF tables
  <2>2. CASE Mark(r)
    BY <1>1, <2>2, MarkDoes
  <2>3. CASE Cut(r)
    BY <1>1, <2>3, CutDoes DEF tables
  <2>4. CASE Spawn(r)
    BY <1>1, <2>4, SpawnDoes DEF tables
  <2>5. CASE Collide(r)
    BY <1>1, <2>5, CollideDoes DEF tables
  <2>6. CASE wire_new_host(r)
    BY <1>1, <2>6, WireDoes DEF tables
  <2>7. CASE Swap(r)
    BY <1>0, <1>3, <2>7, SwapDoes DEF Fresh
  <2>8. CASE Record(r)
    BY <1>1, <2>8, RecordDoes
  <2>9. CASE Push(r)
    BY <1>3, <2>9, PushDoes DEF Fresh
  <2>10. CASE announce_plugin_state(r)
    BY <1>1, <2>10, AnnounceDoes DEF tables
  <2>11. CASE Clear(r)
    BY <1>1, <2>11, ClearDoes
  <2> QED BY <1>1, <1>8, <2>1, <2>2, <2>3, <2>4, <2>5, <2>6, <2>7, <2>8, <2>9, <2>10, <2>11
          DEF RequestMoves
<1> QED BY <1>2, <1>4, <1>5, <1>6, <1>7, <1>8, StepKinds

\* A request's step keeps what it has in hand, and another's leaves it alone.
LEMMA InHandStep ==
  ASSUME WInv, [RegistryNext]_registryVars
  PROVE  InHand'
<1>0. /\ \A p \in Procs : Life(p) # "unborn" => Life(p)' # "unborn" /\ Owner(p)' = Owner(p)
      /\ None \notin Procs /\ Shaped
  BY BornStay, RegistryAssumption DEF Lasts, WInv
<1> DEFINE Has(x) ==
      x.pc \notin {"new", "done"} =>
        /\ x.name \in Names /\ x.kind \in Kinds /\ x.pc \in Steps(x.kind)
        /\ x.pc \in Fresh => /\ x.new \in Procs /\ proc'[x.new].name = x.name
                             /\ proc'[x.new].life # "unborn"
        /\ x.kind # "load" => /\ x.old \in Procs /\ proc'[x.old].name = x.name
                             /\ proc'[x.old].life # "unborn" /\ x.name \in recipe'
<1>1. ASSUME \A r \in Requests : Has(req'[r]) PROVE InHand'
  BY <1>1 DEF InHand, Serving, Life, Owner
<1>2. ASSUME NEW r \in Requests, recipe \subseteq recipe' PROVE Has(req[r])
  <2> SUFFICES ASSUME Serving(r) PROVE Has(req[r])
    BY DEF Serving
  <2>1. req[r].name \in Names /\ req[r].kind \in Kinds /\ req[r].pc \in Steps(req[r].kind)
    BY DEF WInv, InHand
  <2>2. req[r].pc \in Fresh => /\ req[r].new \in Procs /\ proc'[req[r].new].name = req[r].name
                               /\ proc'[req[r].new].life # "unborn"
    BY <1>0 DEF WInv, InHand, Life, Owner
  <2>3. req[r].kind # "load" => /\ req[r].old \in Procs /\ proc'[req[r].old].name = req[r].name
                               /\ proc'[req[r].old].life # "unborn" /\ req[r].name \in recipe'
    BY <1>0, <1>2 DEF WInv, InHand, Life, Owner
  <2> QED BY <2>1, <2>2, <2>3
<1> HIDE DEF Has
<1>3. CASE req' = req /\ recipe \subseteq recipe'
  BY <1>1, <1>2, <1>3
<1>4. ASSUME NEW r \in Requests, Others(r), recipe \subseteq recipe', Has(req'[r])
      PROVE  InHand'
  BY <1>1, <1>2, <1>4 DEF Others
<1>5. CASE UNCHANGED registryVars
  BY <1>3, <1>5 DEF registryVars, tables
<1>6. CASE PublishHosts
  BY <1>3, <1>6 DEF PublishHosts
<1>7. CASE BootOn
  BY <1>3, <1>7, BootDoes DEF BootOn, Aside
<1>8. ASSUME NEW q \in Procs, ProcStep(q) PROVE InHand'
  BY <1>3, <1>8, ReaderDoes DEF Aside
<1>9. ASSUME NEW s \in Scans, Scanned(s) PROVE InHand'
  BY <1>3, <1>9, ScanDoes DEF Aside
<1>10. ASSUME NEW r \in Requests, RequestMoves(r) PROVE InHand'
  <2>0. ASSUME req'[r].pc = "done" PROVE Has(req'[r])
    BY <2>0 DEF Has
  <2>a. ASSUME Serving(r), recipe \subseteq recipe', Carries(r), req'[r].new = req[r].new,
               req'[r].pc \in Steps(req[r].kind), req'[r].pc \in Fresh => req[r].pc \in Fresh
        PROVE  Has(req'[r])
    BY <1>2, <2>a DEF Has, Carries, Serving
  <2>b. Serving(r) => /\ req[r].pc \in Steps(req[r].kind) /\ req[r].kind \in Kinds
    BY DEF WInv, InHand
  <2>1. ASSUME NEW n \in Names, \/ stop_plugin(r, n) \/ start_plugin(r, n)
                                \/ reload_plugin(r, n) \/ load_plugin(r, n)
        PROVE  InHand'
    <3>1. /\ Others(r) /\ req'[r].name = n /\ req'[r].old = HostOf(n)
          /\ \/ req'[r].kind = "stop" /\ req'[r].pc = "mark"
             \/ req'[r].kind = "start" /\ req'[r].pc = "cut"
             \/ req'[r].kind = "reload" /\ req'[r].pc = "cut"
             \/ req'[r].kind = "load" /\ req'[r].pc = "spawn"
          /\ req'[r].kind # "load" => n \in recipe /\ HostOf(n) # None
          /\ UNCHANGED <<proc, tables>>
      BY <1>0, <2>1, BeginDoes
    <3>2. HostOf(n) # None => /\ HostOf(n) \in Procs /\ Owner(HostOf(n)) = n
                              /\ Life(HostOf(n)) # "unborn"
      BY <1>0, HostFound DEF WInv, Lived
    <3>3. Has(req'[r])
      BY <3>1, <3>2 DEF Has, Kinds, Steps, Fresh, Life, Owner, tables
    <3> QED BY <1>4, <3>1, <3>3 DEF tables
  <2>2. CASE Mark(r)
    <3>1. Has(req'[r])
      BY <2>0, <2>a, <2>b, <2>2, MarkDoes DEF Serving, Steps, Fresh, Kinds
    <3> QED BY <1>4, <2>2, <3>1, MarkDoes
  <2>3. CASE Cut(r)
    <3>1. recipe' = recipe
      BY <2>3, CutDoes DEF tables
    <3>2. Has(req'[r])
      BY <2>a, <2>b, <2>3, <3>1, CutDoes DEF Serving, Steps, Fresh, Kinds
    <3> QED BY <1>4, <2>3, <3>1, <3>2, CutDoes
  <2>4. CASE Spawn(r)
    <3>1. recipe' = recipe /\ req[r].pc = "spawn" /\ Others(r)
      BY <2>4, SpawnDoes DEF tables
    <3>2. CASE req'[r].pc = "done"
      BY <1>4, <2>0, <3>1, <3>2
    <3>3. ASSUME Carries(r), req'[r].pc = IF req[r].kind = "load" THEN "collide" ELSE "wire",
                 req'[r].new \in Procs, proc'[req'[r].new].name = req[r].name,
                 proc'[req'[r].new].life = "up"
          PROVE  InHand'
      <4>1. req'[r].pc \in Steps(req[r].kind)
        BY <2>b, <3>1, <3>3 DEF Steps, Kinds, Serving
      <4>2. Has(req[r])
        BY <1>2, <3>1
      <4>3. Has(req'[r])
        BY <3>1, <3>3, <4>1, <4>2 DEF Has, Carries
      <4> QED BY <1>4, <3>1, <4>3
    <3>4. \/ req'[r].pc = "done"
          \/ /\ Carries(r) /\ req'[r].pc = IF req[r].kind = "load" THEN "collide" ELSE "wire"
             /\ req'[r].new \in Procs /\ proc'[req'[r].new].name = req[r].name
             /\ proc'[req'[r].new].life = "up"
      BY <2>4, SpawnDoes DEF Life, Owner
    <3> QED BY <3>2, <3>3, <3>4
  <2>5. CASE Collide(r)
    <3>1. recipe' = recipe /\ Others(r) /\ req[r].pc = "collide"
      BY <2>5, CollideDoes DEF tables
    <3>2. \/ req'[r].pc = "done"
          \/ Carries(r) /\ req'[r].pc = "wire" /\ req'[r].new = req[r].new
      BY <2>5, CollideDoes
    <3>3. Has(req'[r])
      BY <2>0, <2>a, <2>b, <3>1, <3>2 DEF Serving, Steps, Fresh, Kinds
    <3> QED BY <1>4, <3>1, <3>3
  <2>6. CASE wire_new_host(r)
    <3>1. recipe' = recipe
      BY <2>6, WireDoes DEF tables
    <3>2. Has(req'[r])
      BY <2>a, <2>b, <2>6, <3>1, WireDoes DEF Serving, Steps, Fresh, Kinds
    <3> QED BY <1>4, <2>6, <3>1, <3>2, WireDoes
  <2>7. CASE Swap(r)
    <3>1. Has(req'[r])
      BY <1>0, <2>a, <2>b, <2>7, SwapDoes DEF Serving, Steps, Fresh, Kinds
    <3> QED BY <1>0, <1>4, <2>7, <3>1, SwapDoes
  <2>8. CASE Record(r)
    <3>1. Has(req'[r])
      BY <2>a, <2>b, <2>8, RecordDoes DEF Serving, Steps, Fresh, Kinds
    <3> QED BY <1>4, <2>8, <3>1, RecordDoes
  <2>9. CASE Push(r)
    <3>1. Has(req'[r])
      BY <2>a, <2>b, <2>9, PushDoes DEF Serving, Steps, Fresh, Kinds
    <3> QED BY <1>4, <2>9, <3>1, PushDoes
  <2>10. CASE announce_plugin_state(r)
    <3>1. /\ recipe' = recipe /\ Others(r) /\ req[r].pc \in {"tell", "started"}
          /\ \/ req'[r].pc = "clear" /\ req[r].kind = "start" /\ Carries(r)
             \/ req'[r].pc = "done"
      BY <2>10, AnnounceDoes DEF tables
    <3>2. Has(req[r])
      BY <1>2, <3>1
    <3>3. Has(req'[r])
      BY <2>0, <3>1, <3>2 DEF Has, Carries, Steps, Fresh
    <3> QED BY <1>4, <3>1, <3>3
  <2>11. CASE Clear(r)
    <3>1. /\ recipe' = recipe /\ Others(r) /\ req[r].pc = "clear"
          /\ req'[r].pc = "started" /\ Carries(r)
      BY <2>11, ClearDoes
    <3>2. Has(req[r])
      BY <1>2, <3>1
    <3>3. Has(req'[r])
      BY <2>b, <3>1, <3>2 DEF Has, Carries, Steps, Fresh, Serving, Kinds
    <3> QED BY <1>4, <3>1, <3>3
  <2> QED BY <1>10, <2>1, <2>2, <2>3, <2>4, <2>5, <2>6, <2>7, <2>8, <2>9, <2>10, <2>11
          DEF RequestMoves
<1> QED BY <1>5, <1>6, <1>7, <1>8, <1>9, <1>10, StepKinds

LEMMA WStep == WInv /\ [RegistryNext]_registryVars => WInv'
BY ShapedStep, BornStep, InHandStep DEF WInv

-----------------------------------------------------------------------------
(* The registry follows the last declarations.                               *)

LEMMA SameOffers ==
  ASSUME NEW hs, NEW d, NEW e, \A q \in Range(hs) : d[q] = e[q]
  PROVE  FirstWins(hs, d) = FirstWins(hs, e)
<1>1. \A i \in DOMAIN hs : d[hs[i]] = e[hs[i]]
  BY DEF Range
<1>2. ASSUME NEW t \in Tools
      PROVE  {i \in DOMAIN hs : t \in d[hs[i]]} = {i \in DOMAIN hs : t \in e[hs[i]]}
  BY <1>1
<1> QED BY <1>2 DEF FirstWins

\* Nothing waits to be declared for a process that has not been born.
Silent == \A p \in Procs : Life(p) = "unborn" => ~ proc[p].news
Apart(hs) == \A p, q \in Range(hs) : Owner(p) = Owner(q) => p = q

LEMMA InStepMeans ==
  RegistryInStep <=>
    (boot.pc # "hosts" /\ missed = {} /\ (\A p \in Procs : ~ proc[p].news) /\ Apart(hosts)
       => registry = FirstWins(hosts, Declared))
BY DEF RegistryInStep, Apart, Owner

LEMMA InStepKept ==
  ASSUME Shaped, RegistryInStep, hosts' = hosts, registry' = registry, missed' = missed,
         boot.pc = "hosts" => boot'.pc = "hosts",
         \A p \in Range(hosts) : Owner(p)' = Owner(p) /\ proc'[p].decl = proc[p].decl,
         \A p \in Procs : proc[p].news => proc'[p].news
  PROVE  RegistryInStep'
<1> SUFFICES ASSUME boot'.pc # "hosts", missed' = {}, \A p \in Procs : ~ proc'[p].news,
                    Apart(hosts)'
             PROVE  registry' = FirstWins(hosts, Declared)'
  BY DEF RegistryInStep, Apart, Owner
<1>1. Apart(hosts)
  <2> SUFFICES ASSUME NEW p \in Range(hosts), NEW q \in Range(hosts),
                      Owner(p) = Owner(q)
               PROVE  p = q
    BY DEF Apart
  <2>1. p \in Range(hosts') /\ q \in Range(hosts')
    OBVIOUS
  <2>2. Owner(p)' = Owner(q)'
    OBVIOUS
  <2> QED BY <2>1, <2>2 DEF Apart, Range, Owner
<1>2. registry = FirstWins(hosts, Declared)
  BY <1>1, InStepMeans
<1>3. \A p \in Range(hosts) : p \in Procs
  BY DEF Shaped, Range
<1>4. \A p \in Range(hosts) : Declared[p] = Declared'[p]
  BY <1>3 DEF Declared
<1>5. PICK d, e : d = Declared /\ e = Declared'
  OBVIOUS
<1>6. FirstWins(hosts, d) = FirstWins(hosts, e)
  BY <1>4, <1>5, SameOffers
<1>7. FirstWins(hosts, Declared)' = FirstWins(hosts', e)
  BY <1>5 DEF FirstWins, Range
<1> QED BY <1>2, <1>5, <1>6, <1>7

LEMMA InStepRebuilt ==
  ASSUME WInv, NEW r \in Requests, Serving(r), req[r].pc \in Fresh, Takes(r),
         Rebuild(r, hosts'), proc' = proc
  PROVE  RegistryInStep'
<1> SUFFICES ASSUME missed' = {}, \A p \in Procs : ~ proc'[p].news, Apart(hosts)'
             PROVE  registry' = FirstWins(hosts', Declared')
  BY DEF RegistryInStep, Apart, Owner, FirstWins, Range
<1> DEFINE new == req[r].new
<1>1. /\ new \in Procs /\ Owner(new) = req[r].name /\ new \in Range(hosts')
      /\ hosts' \in Seq(Procs)
  BY DEF WInv, InHand, Takes
<1>2. req[r].decl = proc[new].decl
  BY <1>1 DEF Rebuild
<1>3. PICK e : e = [Declared EXCEPT ![new] = req[r].decl]
  OBVIOUS
<1>4. \A q \in Procs : e[q] = proc[q].decl
  BY <1>1, <1>2, <1>3 DEF Declared
<1>5. \A i \in DOMAIN hosts' : proc[hosts'[i]].name = req[r].name => hosts'[i] = new
  <2> SUFFICES ASSUME NEW i \in DOMAIN hosts', proc[hosts'[i]].name = req[r].name
               PROVE  hosts'[i] = new
    OBVIOUS
  <2>1. \A p, q \in Range(hosts') : proc'[p].name = proc'[q].name => p = q
    BY DEF Apart, Owner, Range
  <2>2. hosts'[i] \in Range(hosts')
    BY DEF Range
  <2> QED BY <1>1, <2>1, <2>2 DEF Owner
<1>6. [i \in DOMAIN hosts' |-> IF proc[hosts'[i]].name = req[r].name THEN new ELSE hosts'[i]]
        = hosts'
  BY <1>1, <1>5
<1>7. registry' = FirstWins(hosts', e)
  BY <1>3, <1>6 DEF Rebuild
<1>8. \A q \in Range(hosts') : e[q] = Declared'[q]
  BY <1>1, <1>4 DEF Declared, Range
<1>9. PICK d : d = Declared'
  OBVIOUS
<1>10. FirstWins(hosts', e) = FirstWins(hosts', d)
  BY <1>8, <1>9, SameOffers
<1> QED BY <1>7, <1>9, <1>10

\* Between the start-up's two writes the registry is that of the hosts to come, or has
\* been rebuilt for a plugin that is among the missed.
BootTold == boot.pc = "hosts" /\ missed = {} => registry = FirstWins(boot.hosts, boot.decl)

RInv == WInv /\ Silent /\ RegistryInStep /\ BootTold

LEMMA SilentStep ==
  ASSUME WInv, Silent, [RegistryNext]_registryVars
  PROVE  Silent'
<1>0. None \notin Procs /\ proc \in [Procs -> Processes]
  BY RegistryAssumption DEF WInv, Shaped
<1>a. ASSUME \A p \in Procs : Life(p)' = Life(p) /\ (proc'[p].news => proc[p].news)
      PROVE  Silent'
  BY <1>a DEF Silent, Life
<1>b. ASSUME NEW o \in Procs, proc'[o].life # "unborn" \/ ~ proc'[o].news,
             \A p \in Procs \ {o} : proc'[p] = proc[p]
      PROVE  Silent'
  BY <1>b DEF Silent, Life
<1>1. CASE UNCHANGED registryVars
  BY <1>a, <1>1 DEF registryVars, Life
<1>2. CASE PublishHosts
  BY <1>a, <1>2 DEF PublishHosts, Life
<1>3. CASE BootOn
  BY <1>a, <1>3, BootDoes DEF BootOn, Aside, SameProcs
<1>4. ASSUME NEW p \in Procs, ProcStep(p) PROVE Silent'
  <2>1. Aside /\ \A q \in Procs \ {p} : proc'[q] = proc[q]
    BY <1>4, ReaderDoes
  <2>2. CASE declare(p)
    <3>1. proc[p].life = "up"
      BY <2>2 DEF declare
    <3> QED BY <1>b, <2>1, <3>1 DEF Aside, SameProcs, Life
  <2>3. CASE on_plugin_declare(p)
    <3>1. /\ proc[p].news /\ Life(p)' = Life(p)
      BY <2>1, <2>3 DEF on_plugin_declare, Aside, SameProcs
    <3> QED BY <1>b, <2>1, <3>1 DEF Silent, Life
  <2>4. CASE Poison(p)
    <3>1. proc[p].life = "up"
      BY <2>4 DEF Poison
    <3> QED BY <1>b, <2>1, <3>1 DEF Aside, SameProcs, Life
  <2> QED BY <1>4, <2>2, <2>3, <2>4 DEF ProcStep
<1>5. ASSUME NEW s \in Scans, Scanned(s) PROVE Silent'
  BY <1>a, <1>5, ScanDoes DEF Life
<1>6. ASSUME NEW r \in Requests, RequestMoves(r) PROVE Silent'
  <2>0. ASSUME proc' = proc PROVE Silent'
    BY <1>a, <2>0 DEF Life
  <2>1. ASSUME NEW n \in Names, \/ stop_plugin(r, n) \/ start_plugin(r, n)
                                \/ reload_plugin(r, n) \/ load_plugin(r, n)
        PROVE  Silent'
    BY <1>0, <2>0, <2>1, BeginDoes
  <2>2. CASE Mark(r)
    BY <2>0, <2>2, MarkDoes
  <2>3. CASE Cut(r)
    BY <1>b, <2>3, CutDoes
  <2>4. CASE Spawn(r)
    BY <1>b, <2>0, <2>4, SpawnDoes
  <2>5. CASE Collide(r)
    BY <1>b, <2>0, <2>5, CollideDoes
  <2>6. CASE wire_new_host(r)
    BY <1>a, <2>6, WireDoes
  <2>7. CASE Swap(r)
    BY <1>0, <2>0, <2>7, SwapDoes
  <2>8. CASE Record(r)
    BY <2>0, <2>8, RecordDoes
  <2>9. CASE Push(r)
    BY <2>0, <2>9, PushDoes
  <2>10. CASE announce_plugin_state(r)
    BY <2>0, <2>10, AnnounceDoes
  <2>11. CASE Clear(r)
    BY <2>0, <2>11, ClearDoes
  <2> QED BY <1>6, <2>1, <2>2, <2>3, <2>4, <2>5, <2>6, <2>7, <2>8, <2>9, <2>10, <2>11
          DEF RequestMoves
<1> QED BY <1>1, <1>2, <1>3, <1>4, <1>5, <1>6, StepKinds

LEMMA InStepStep ==
  ASSUME RInv, [RegistryNext]_registryVars
  PROVE  RegistryInStep'
<1>0. /\ None \notin Procs /\ proc \in [Procs -> Processes] /\ WInv /\ Shaped
      /\ \A p \in Range(hosts) : p \in Procs /\ Life(p) # "unborn"
  BY RegistryAssumption DEF RInv, WInv, Shaped, Lived, Range
<1>a. ASSUME hosts' = hosts, registry' = registry, missed' = missed,
             boot.pc = "hosts" => boot'.pc = "hosts",
             \A p \in Procs : /\ Owner(p)' = Owner(p) /\ proc'[p].decl = proc[p].decl
                              /\ proc'[p].news = proc[p].news
      PROVE  RegistryInStep'
  BY <1>0, <1>a, InStepKept DEF RInv
<1>b. ASSUME hosts' = hosts, registry' = registry, missed' = missed, proc' = proc,
             boot' = boot
      PROVE  RegistryInStep'
  BY <1>a, <1>b DEF Owner
<1>1. CASE UNCHANGED registryVars
  BY <1>b, <1>1 DEF registryVars, tables, history
<1>2. CASE PublishHosts
  <2>1. /\ hosts' = boot.hosts /\ registry' = registry /\ proc' = proc /\ boot.pc = "hosts"
        /\ missed' = missed \cup
             {proc[p].name : p \in {q \in Range(hosts') : boot.decl[q] # proc[q].decl}}
        /\ hosts' \in Seq(Procs)
    BY <1>0, <1>2 DEF PublishHosts, Boot, Shaped
  <2> SUFFICES ASSUME missed' = {}
               PROVE  registry' = FirstWins(hosts', Declared')
    BY DEF RegistryInStep, FirstWins, Range
  <2>2. \A q \in Range(hosts') : boot.decl[q] = proc[q].decl
    BY <2>1
  <2>3. PICK d : d = Declared'
    OBVIOUS
  <2>4. \A q \in Range(hosts') : boot.decl[q] = d[q]
    BY <2>1, <2>2, <2>3 DEF Declared, Range
  <2>5. registry' = FirstWins(hosts', boot.decl)
    BY <2>1 DEF RInv, BootTold
  <2> QED BY <2>3, <2>4, <2>5, SameOffers
<1>3. CASE BootOn
  <2>1. CASE boot'.pc = "hosts"
    BY <2>1, InStepMeans DEF RegistryInStep
  <2>2. CASE boot'.pc # "hosts"
    <3>1. /\ UNCHANGED <<hosts, registry, missed>> /\ boot.pc # "hosts"
          /\ \A p \in Procs : /\ Owner(p)' = Owner(p) /\ proc'[p].decl = proc[p].decl
                               /\ proc'[p].news = proc[p].news
      BY <1>0, <1>3, <2>2, BootDoes DEF BootOn, Aside, SameProcs
    <3> QED BY <1>a, <3>1
  <2> QED BY <2>1, <2>2
<1>4. ASSUME NEW p \in Procs, ProcStep(p) PROVE RegistryInStep'
  <2>1. /\ Aside /\ boot' = boot /\ \A q \in Procs \ {p} : proc'[q] = proc[q]
    BY <1>0, <1>4, ReaderDoes
  <2>2. CASE declare(p)
    <3>1. /\ ~ proc[p].news /\ registry' = registry
          /\ missed' = missed \cup {n \in {proc[p].name} : p \in Range(hosts) /\ ~ proc[p].wired}
          /\ \E d \in Decls :
               proc' = [proc EXCEPT ![p] = [proc[p] EXCEPT !.decl = d, !.news = proc[p].wired]]
      BY <2>2 DEF declare, tables
    <3>2. proc'[p].news = proc[p].wired
      BY <1>0, <3>1 DEF Processes
    <3>3. CASE p \in Range(hosts)
      <4>1. proc'[p].news \/ missed' # {}
        BY <1>0, <3>1, <3>2, <3>3 DEF Processes
      <4> QED BY <4>1, InStepMeans DEF RegistryInStep
    <3>4. CASE p \notin Range(hosts)
      <4>1. missed' = missed
        BY <3>1, <3>4
      <4>2. \A q \in Range(hosts) : Owner(q)' = Owner(q) /\ proc'[q].decl = proc[q].decl
        BY <1>0, <2>1, <3>4 DEF Owner
      <4>3. \A q \in Procs : proc[q].news => proc'[q].news
        BY <2>1, <3>1
      <4> QED BY <1>0, <2>1, <3>1, <4>1, <4>2, <4>3, InStepKept DEF RInv, Aside
    <3> QED BY <3>3, <3>4
  <2>3. CASE on_plugin_declare(p)
    <3>1. registry' = FirstWins(hosts, Declared) /\ hosts' = hosts
      BY <2>3 DEF on_plugin_declare
    <3>2. \A q \in Procs : proc'[q].decl = proc[q].decl
      <4>1. proc' = [proc EXCEPT ![p] = [proc[p] EXCEPT !.news = FALSE]]
        BY <2>3 DEF on_plugin_declare
      <4>2. PICK y : y = [proc[p] EXCEPT !.news = FALSE]
        OBVIOUS
      <4>3. y.decl = proc[p].decl
        BY <1>0, <4>2, ProcFields
      <4> QED BY <1>0, <4>1, <4>2, <4>3
    <3>3. PICK d, e : d = Declared /\ e = Declared'
      OBVIOUS
    <3>4. \A q \in Range(hosts) : d[q] = e[q]
      BY <1>0, <3>2, <3>3 DEF Declared
    <3>5. registry' = FirstWins(hosts', e)
      BY <3>1, <3>3, <3>4, SameOffers
    <3> QED BY <3>3, <3>5 DEF RegistryInStep, FirstWins, Range
  <2>4. CASE Poison(p)
    <3>1. \A q \in Procs : proc'[q].decl = proc[q].decl /\ proc'[q].news = proc[q].news
      <4>1. proc' = [proc EXCEPT ![p] = [proc[p] EXCEPT !.bad = TRUE]]
        BY <2>4 DEF Poison
      <4>2. PICK y : y = [proc[p] EXCEPT !.bad = TRUE]
        OBVIOUS
      <4>3. y.decl = proc[p].decl /\ y.news = proc[p].news
        BY <1>0, <4>2, ProcFields
      <4> QED BY <1>0, <4>1, <4>2, <4>3
    <3>2. UNCHANGED <<registry, missed>>
      BY <2>4 DEF Poison, tables, history
    <3> QED BY <1>a, <2>1, <3>1, <3>2 DEF Aside, SameProcs
  <2> QED BY <1>4, <2>2, <2>3, <2>4 DEF ProcStep
<1>5. ASSUME NEW s \in Scans, Scanned(s)
      PROVE  RegistryInStep'
  BY <1>0, <1>b, <1>5, ScanDoes DEF Aside
<1>6. ASSUME NEW r \in Requests, RequestMoves(r) PROVE RegistryInStep'
  <2>1. ASSUME NEW n \in Names, \/ stop_plugin(r, n) \/ start_plugin(r, n)
                                \/ reload_plugin(r, n) \/ load_plugin(r, n)
        PROVE  RegistryInStep'
    BY <1>0, <1>b, <2>1, BeginDoes DEF tables
  <2>2. CASE Mark(r)
    BY <1>0, <1>b, <2>2, MarkDoes DEF history
  <2>3. CASE Cut(r)
    <3>1. /\ UNCHANGED <<hosts, registry, missed, boot>>
          /\ \A p \in Procs : /\ Owner(p)' = Owner(p) /\ proc'[p].decl = proc[p].decl
                              /\ proc'[p].news = proc[p].news
      BY <1>0, <2>3, CutDoes DEF tables, history, Owner
    <3> QED BY <1>a, <3>1
  <2>4. CASE Spawn(r)
    <3>1. UNCHANGED <<hosts, registry, missed, boot>>
      BY <1>0, <2>4, SpawnDoes DEF tables
    <3>2. CASE proc' = proc
      BY <1>b, <3>1, <3>2
    <3>3. ASSUME NEW o \in Procs, Life(o) = "unborn", \A q \in Procs \ {o} : proc'[q] = proc[q]
          PROVE  RegistryInStep'
      <4>1. \A q \in Range(hosts) : Owner(q)' = Owner(q) /\ proc'[q].decl = proc[q].decl
        BY <1>0, <3>3 DEF Owner
      <4>2. \A q \in Procs : proc[q].news => proc'[q].news
        BY <3>3 DEF RInv, Silent
      <4> QED BY <1>0, <3>1, <4>1, <4>2, InStepKept DEF RInv
    <3> QED BY <1>0, <2>4, <3>2, <3>3, SpawnDoes
  <2>5. CASE Collide(r)
    <3>1. /\ UNCHANGED <<hosts, registry, missed, boot>>
          /\ \A p \in Procs : /\ Owner(p)' = Owner(p) /\ proc'[p].decl = proc[p].decl
                              /\ proc'[p].news = proc[p].news
      BY <1>0, <2>5, CollideDoes DEF tables, history, Owner
    <3> QED BY <1>a, <3>1
  <2>6. CASE wire_new_host(r)
    BY <1>0, <1>a, <2>6, WireDoes DEF tables, history
  <2>7. CASE Swap(r)
    BY <1>0, <2>7, SwapDoes, InStepRebuilt DEF Fresh, Serving
  <2>8. CASE Record(r)
    BY <1>0, <1>b, <2>8, RecordDoes DEF history
  <2>9. CASE Push(r)
    BY <1>0, <2>9, PushDoes, InStepRebuilt DEF Fresh, Serving
  <2>10. CASE announce_plugin_state(r)
    BY <1>0, <1>b, <2>10, AnnounceDoes DEF tables
  <2>11. CASE Clear(r)
    BY <1>0, <1>b, <2>11, ClearDoes DEF history
  <2> QED BY <1>6, <2>1, <2>2, <2>3, <2>4, <2>5, <2>6, <2>7, <2>8, <2>9, <2>10, <2>11
          DEF RequestMoves
<1> QED BY <1>1, <1>2, <1>3, <1>4, <1>5, <1>6, StepKinds

LEMMA BootToldStep ==
  ASSUME WInv, BootTold, [RegistryNext]_registryVars
  PROVE  BootTold'
<1> SUFFICES ASSUME boot'.pc = "hosts", missed' = {}
             PROVE  registry' = FirstWins(boot'.hosts, boot'.decl)
  BY DEF BootTold, FirstWins
<1>a. ASSUME boot' = boot, missed \subseteq missed', registry' = registry
      PROVE  registry' = FirstWins(boot'.hosts, boot'.decl)
  <2>1. missed = {} /\ boot.pc = "hosts"
    BY <1>a
  <2> QED BY <1>a, <2>1 DEF BootTold
<1>1. CASE UNCHANGED registryVars
  BY <1>a, <1>1 DEF registryVars, tables, history
<1>2. ~ PublishHosts
  BY DEF PublishHosts, Boot
<1>3. CASE BootOn
  <2>1. PublishTools
    BY <1>3, BootDoes DEF BootOn
  <2>2. /\ boot' = [pc |-> "hosts", hosts |-> boot.hosts, decl |-> boot.decl]
        /\ registry' = FirstWins(boot.hosts, boot.decl)
    BY <2>1 DEF PublishTools
  <2>3. boot'.hosts = boot.hosts /\ boot'.decl = boot.decl
    BY <2>2
  <2> QED BY <2>2, <2>3
<1>4. ASSUME NEW p \in Procs, ProcStep(p)
      PROVE  registry' = FirstWins(boot'.hosts, boot'.decl)
  <2>1. boot' = boot /\ ~ on_plugin_declare(p)
    BY <1>4, ReaderDoes DEF on_plugin_declare, Torn
  <2>2. missed \subseteq missed' /\ registry' = registry
    BY <1>4, <2>1 DEF ProcStep, declare, Poison, tables, history
  <2> QED BY <1>a, <2>1, <2>2
<1>5. ASSUME NEW s \in Scans, Scanned(s)
      PROVE  registry' = FirstWins(boot'.hosts, boot'.decl)
  BY <1>a, <1>5, ScanDoes
<1>6. ASSUME NEW r \in Requests, RequestStep(r)
      PROVE  registry' = FirstWins(boot'.hosts, boot'.decl)
  <2>1. ~ Swap(r) /\ ~ Push(r)
    BY DEF Swap, SwapClearing, Push, Rebuild, Torn
  <2>2. UNCHANGED <<boot, missed, registry>>
    BY <1>6, <2>1 DEF RequestStep, stop_plugin, start_plugin, reload_plugin, load_plugin,
       Begin, Mark, Cut, Spawn, Collide, wire_new_host, Record, announce_plugin_state, Clear,
       tables, history
  <2> QED BY <1>a, <2>2
<1> QED BY <1>1, <1>2, <1>3, <1>4, <1>5, <1>6 DEF RegistryNext, BootStep, BootOn,
           PublishHosts, Scanned

LEMMA RStarts == RegistryInit => RInv
<1> SUFFICES ASSUME RegistryInit PROVE RInv
  OBVIOUS
<1>1. WInv
  BY WStarts
<1>2. Silent
  <2>1. PICK hs \in [DOMAIN Configured -> Procs], d \in [Procs -> Decls] :
          /\ \A i, j \in DOMAIN hs : i # j => hs[i] # hs[j]
          /\ proc = [p \in Procs |->
                       IF p \in Range(hs)
                         THEN Born(Configured[CHOOSE i \in DOMAIN hs : hs[i] = p], d[p])
                         ELSE [Born(None, {}) EXCEPT !.life = "unborn"]]
          /\ boot = [pc |-> "publish", hosts |-> hs, decl |-> [p \in Procs |-> proc[p].decl]]
    BY StartsFrom DEF StartedWith
  <2>2. \A p \in Procs : ~ proc[p].news
    BY <2>1 DEF Born
  <2> QED BY <2>2 DEF Silent
<1>3. RegistryInStep
  <2>1. hosts = <<>> /\ registry = [t \in Tools |-> None]
    BY DEF RegistryInit
  <2>2. FirstWins(hosts, Declared) = [t \in Tools |-> None]
    BY <2>1 DEF FirstWins
  <2> QED BY <2>1, <2>2, InStepMeans
<1>4. BootTold
  <2>1. boot.pc = "publish"
    BY DEF RegistryInit
  <2> QED BY <2>1 DEF BootTold
<1> QED BY <1>1, <1>2, <1>3, <1>4 DEF RInv

\* RegistryInStep: once the callbacks have run the model is shown what the plugins
\* declared last.  A registry is built from what its hosts declare, and a declaration that
\* no registry has seen leaves a callback to come or a name among the missed; so does a
\* registry that is rebuilt after the start-up has written its own and before it writes
\* the hosts it was built from.
THEOREM RegistryFollows ==
  RegistrySpec => []RegistryInStep
<1>1. RegistryInit => RInv
  BY RStarts
<1>2. RInv /\ [RegistryNext]_registryVars => RInv'
  BY WStep, SilentStep, InStepStep, BootToldStep DEF RInv
<1>3. RInv => RegistryInStep
  BY DEF RInv
<1> QED BY <1>1, <1>2, <1>3, PTL DEF RegistrySpec

-----------------------------------------------------------------------------
(* Types.                                                                    *)

LEMMA FirstWinsType ==
  ASSUME NEW hs, DOMAIN hs \subseteq Nat, \A i \in DOMAIN hs : hs[i] \in Procs, NEW offer
  PROVE  FirstWins(hs, offer) \in [Tools -> Procs \cup {None}]
<1> SUFFICES ASSUME NEW t \in Tools PROVE FirstWins(hs, offer)[t] \in Procs \cup {None}
  BY DEF FirstWins
<1> DEFINE I == {i \in DOMAIN hs : t \in offer[hs[i]]}
<1>1. FirstWins(hs, offer)[t] = IF I = {} THEN None ELSE hs[Min(I)]
  BY DEF FirstWins
<1>2. I # {} => Min(I) \in I
  BY HasLeast
<1> QED BY <1>1, <1>2

\* Who runs a tool is a process, whatever table the registry is built from.
Offers == registry \in [Tools -> Procs \cup {None}]
LEMMA OffersStep == ASSUME WInv, Offers, [RegistryNext]_registryVars PROVE Offers'
<1> USE DEF Offers
<1>1. /\ DOMAIN hosts \subseteq Nat /\ \A i \in DOMAIN hosts : hosts[i] \in Procs
      /\ DOMAIN hosts' \subseteq Nat /\ \A i \in DOMAIN hosts' : hosts'[i] \in Procs
  BY ShapedStep DEF WInv, Shaped
<1>2. CASE UNCHANGED registryVars
  BY <1>2 DEF registryVars, tables
<1>3. CASE PublishHosts
  BY <1>3 DEF PublishHosts
<1>4. CASE BootOn
  <2>1. CASE PublishTools
    <3>1. DOMAIN boot.hosts \subseteq Nat /\ \A i \in DOMAIN boot.hosts : boot.hosts[i] \in Procs
      BY <2>1 DEF PublishTools, WInv, Shaped
    <3> QED BY <2>1, <3>1, FirstWinsType DEF PublishTools
  <2>2. CASE ~ PublishTools
    BY <1>4, <2>2 DEF BootOn, set_plugin_spawn, install_declare_callbacks, tables
  <2> QED BY <2>1, <2>2
<1>5. ASSUME NEW p \in Procs, ProcStep(p) PROVE Offers'
  <2>1. FirstWins(hosts, Declared) \in [Tools -> Procs \cup {None}]
    BY <1>1, FirstWinsType
  <2> QED BY <1>5, <2>1 DEF ProcStep, declare, on_plugin_declare, Poison, tables
<1>6. ASSUME NEW s \in Scans, Scanned(s) PROVE Offers'
  BY <1>6, ScanDoes
<1>7. ASSUME NEW r \in Requests, RequestStep(r) PROVE Offers'
  <2>1. CASE Swap(r) \/ Push(r)
    <3>1. Rebuild(r, hosts')
      BY <2>1 DEF Swap, SwapClearing, Push, Rebuild
    <3>2. req[r].new \in Procs
      BY <2>1 DEF Swap, SwapClearing, Push, WInv, InHand, Serving, Fresh
    <3> DEFINE hs == [i \in DOMAIN hosts' |-> IF proc[hosts'[i]].name = req[r].name
                                             THEN req[r].new ELSE hosts'[i]]
    <3>3. DOMAIN hs \subseteq Nat /\ \A i \in DOMAIN hs : hs[i] \in Procs
      BY <1>1, <3>2
    <3> HIDE DEF hs
    <3> QED BY <3>1, <3>3, FirstWinsType DEF Rebuild, hs
  <2>2. CASE ~(Swap(r) \/ Push(r))
    BY <1>7, <2>2 DEF RequestStep, stop_plugin, start_plugin, reload_plugin, load_plugin,
       Begin, Mark, Cut, Spawn, Collide, wire_new_host, Record, announce_plugin_state, Clear,
       tables
  <2> QED BY <2>1, <2>2
<1> QED BY <1>2, <1>3, <1>4, <1>5, <1>6, <1>7 DEF RegistryNext, BootStep, BootOn, Scanned

\* The marks are marks of plugins.
Marks == recipe \cup stopped \cup crashSaid \subseteq Names /\ cried \subseteq Procs
LEMMA MarksStep == ASSUME WInv, Marks, [RegistryNext]_registryVars PROVE Marks'
<1> USE DEF Marks
<1>1. CASE UNCHANGED registryVars
  BY <1>1 DEF registryVars, tables, history
<1>2. CASE BootStep
  BY <1>2, RegistryAssumption DEF BootStep, PublishTools, PublishHosts, set_plugin_spawn, Range,
     install_declare_callbacks, tables, history
<1>3. ASSUME NEW p \in Procs, ProcStep(p) PROVE Marks'
  BY <1>3 DEF ProcStep, declare, on_plugin_declare, Poison, tables, history
<1>4. ASSUME NEW s \in Scans, Scanned(s) PROVE Marks'
  <2>1. UNCHANGED <<recipe, stopped>>
    BY <1>4, ScanDoes DEF Aside
  <2>2. ScanMark(s) => /\ crashSaid' \subseteq crashSaid \cup scan[s].broken
                       /\ cried' \subseteq cried \cup Procs
    BY DEF ScanMark
  <2>3. scan[s].broken \subseteq Names
    BY DEF WInv, Shaped, Scanning
  <2> QED BY <1>4, <2>1, <2>2, <2>3, ScanDoes
<1>5. ASSUME NEW r \in Requests, RequestStep(r) PROVE Marks'
  <2>1. Serving(r) => req[r].name \in Names
    BY DEF WInv, InHand
  <2> QED
    BY <1>5, <2>1 DEF RequestStep, stop_plugin, start_plugin, reload_plugin, load_plugin,
       Begin, Mark, Cut, Spawn, Collide, wire_new_host, Swap, SwapClearing, Rebuild, Record,
       Push, announce_plugin_state, Clear, Serving, tables, history
<1> QED BY <1>1, <1>2, <1>3, <1>4, <1>5 DEF RegistryNext, Scanned

\* The types of the tables: hosts and tools are of processes, marks of plugins.
THEOREM RegistryTypeCorrect == RegistrySpec => []RegistryTypeOK
<1>1. RegistryInit => Offers /\ Marks
  BY DEF RegistryInit, Offers, Marks
<1>2. WInv /\ Offers /\ Marks => RegistryTypeOK
  <2> SUFFICES ASSUME WInv, Offers, Marks PROVE RegistryTypeOK
    OBVIOUS
  <2>1. hosts \in Seq(Procs) /\ proc \in [Procs -> Processes]
    BY DEF WInv, Shaped
  <2> QED BY <2>1 DEF RegistryTypeOK, Processes, Offers, Marks
<1>3. /\ RegistryInit => WInv
      /\ WInv /\ Offers /\ Marks /\ [RegistryNext]_registryVars => (WInv /\ Offers /\ Marks)'
  BY WStarts, WStep, OffersStep, MarksStep
<1> QED BY <1>1, <1>2, <1>3, PTL DEF RegistrySpec

-----------------------------------------------------------------------------
(* Who is served, and which process stands for a plugin.                     *)

\* A request is taken: it clashes, or it is the only one for its plugin and the boot is
\* over.
Begun(r) ==
  /\ req[r].pc = "new" /\ Others(r) /\ UNCHANGED <<proc, tables, boot>>
  /\ req'[r].name \in Names /\ req'[r].old = HostOf(req'[r].name)
  /\ \/ req'[r].kind = "stop" /\ req'[r].pc = "mark"
     \/ req'[r].kind \in {"start", "reload"} /\ req'[r].pc = "cut"
     \/ req'[r].kind = "load" /\ req'[r].pc = "spawn" /\ req'[r].name \notin recipe
  /\ \/ req'[r].name \in clashed'
     \/ boot.pc = "ready" /\ \A q \in Requests : Serving(q) => req[q].name # req'[r].name

\* A request goes on, or ends.
GoesOn(r) ==
  /\ Serving(r) /\ Others(r) /\ clashed' = clashed
  /\ \/ req'[r].pc = "done"
     \/ Carries(r) /\ req'[r].pc \notin {"new", "done", "mark"}

LEMMA RequestGoes ==
  ASSUME WInv, NEW r \in Requests, RequestMoves(r)
  PROVE  /\ Begun(r) \/ GoesOn(r)
         /\ UNCHANGED <<boot, spoilt>> /\ clashed \subseteq clashed' /\ recipe \subseteq recipe'
<1>0. None \notin Procs
  BY RegistryAssumption
<1> USE DEF Serving
<1>1. ASSUME NEW n \in Names, \/ stop_plugin(r, n) \/ start_plugin(r, n)
                              \/ reload_plugin(r, n) \/ load_plugin(r, n)
      PROVE  Begun(r) /\ UNCHANGED <<boot, recipe, spoilt>> /\ clashed \subseteq clashed'
  BY <1>0, <1>1, BeginDoes DEF Begun, tables
<1>2. CASE Mark(r)
  BY <1>2, MarkDoes DEF GoesOn, history
<1>3. CASE Cut(r)
  BY <1>3, CutDoes DEF GoesOn, history, tables
<1>4. CASE Spawn(r)
  BY <1>4, SpawnDoes DEF GoesOn, tables
<1>5. CASE Collide(r)
  BY <1>5, CollideDoes DEF GoesOn, history, tables
<1>6. CASE wire_new_host(r)
  BY <1>6, WireDoes DEF GoesOn, history, tables
<1>7. CASE Swap(r)
  BY <1>0, <1>7, SwapDoes DEF GoesOn
<1>8. CASE Record(r)
  BY <1>8, RecordDoes DEF GoesOn, history
<1>9. CASE Push(r)
  BY <1>9, PushDoes DEF GoesOn
<1>10. CASE announce_plugin_state(r)
  BY <1>10, AnnounceDoes DEF GoesOn, tables
<1>11. CASE Clear(r)
  BY <1>11, ClearDoes DEF GoesOn, history
<1> QED BY <1>1, <1>2, <1>3, <1>4, <1>5, <1>6, <1>7, <1>8, <1>9, <1>10, <1>11
        DEF RequestMoves

\* What no step undoes.
LEMMA Onward ==
  ASSUME WInv, [RegistryNext]_registryVars
  PROVE  /\ clashed \subseteq clashed' /\ recipe \subseteq recipe'
         /\ spoilt \subseteq spoilt'
         /\ boot'.pc # "ready" => boot.pc # "ready"
         /\ Booting' => Booting /\ boot'.hosts = boot.hosts
         /\ \/ req' = req /\ clashed' = clashed
            \/ \E r \in Requests : RequestMoves(r) /\ (Begun(r) \/ GoesOn(r))
<1>1. CASE UNCHANGED registryVars
  BY <1>1 DEF registryVars, tables, history
<1>2. CASE PublishHosts
  BY <1>2 DEF PublishHosts, Boot
<1>3. CASE BootOn
  BY <1>3, BootDoes DEF BootOn, Aside
<1>4. ASSUME NEW q \in Procs, ProcStep(q)
      PROVE  UNCHANGED <<req, clashed, boot, recipe, spoilt>>
  BY <1>4, ReaderDoes DEF Aside
<1>5. ASSUME NEW s \in Scans, Scanned(s)
      PROVE  UNCHANGED <<req, clashed, boot, recipe>> /\ spoilt \subseteq spoilt'
  BY <1>5, ScanDoes DEF Aside
<1>6. ASSUME NEW r \in Requests, RequestMoves(r)
      PROVE  /\ UNCHANGED <<boot, spoilt>> /\ clashed \subseteq clashed' /\ recipe \subseteq recipe'
             /\ RequestMoves(r) /\ (Begun(r) \/ GoesOn(r))
  BY <1>6, RequestGoes
<1> QED BY <1>1, <1>2, <1>3, <1>4, <1>5, <1>6, StepKinds

\* A new host takes a place in the table.
Placing(r) ==
  /\ Takes(r) /\ Others(r) /\ Carries(r) /\ Serving(r) /\ req'[r].pc = "tell"
  /\ UNCHANGED <<proc, boot, recipe, clashed>>
  /\ Rebuild(r, hosts')
  /\ \/ req[r].pc = "swap" /\ req[r].kind # "load"
     \/ req[r].pc = "push" /\ req[r].kind = "load" /\ Range(hosts) \subseteq Range(hosts')

LEMMA TableMoves ==
  ASSUME WInv, [RegistryNext]_registryVars
  PROVE  \/ hosts' = hosts
         \/ /\ Booting /\ boot'.pc = "record" /\ hosts' = boot.hosts
            /\ UNCHANGED <<proc, req, clashed, recipe, stopped, heard, unborn, scan, crashSaid,
                           cried, spoilt>>
         \/ \E r \in Requests : Placing(r) /\ (Swap(r) \/ Push(r))
<1>0. None \notin Procs
  BY RegistryAssumption
<1>1. CASE UNCHANGED registryVars
  BY <1>1 DEF registryVars, tables
<1>2. CASE PublishHosts
  BY <1>2 DEF PublishHosts, Boot
<1>3. CASE BootOn
  BY <1>3, BootDoes DEF BootOn, Aside
<1>4. ASSUME NEW q \in Procs, ProcStep(q) PROVE hosts' = hosts
  BY <1>4, ReaderDoes DEF Aside
<1>5. ASSUME NEW s \in Scans, Scanned(s) PROVE hosts' = hosts
  BY <1>5, ScanDoes DEF Aside
<1>6. ASSUME NEW r \in Requests, RequestMoves(r)
      PROVE  hosts' = hosts \/ (Placing(r) /\ (Swap(r) \/ Push(r)))
  <2>0. Serving(r) => req[r].pc \in Steps(req[r].kind) /\ req[r].kind \in Kinds
    BY DEF WInv, InHand
  <2>1. ASSUME NEW n \in Names, \/ stop_plugin(r, n) \/ start_plugin(r, n)
                                \/ reload_plugin(r, n) \/ load_plugin(r, n)
        PROVE  hosts' = hosts
    BY <1>0, <2>1, BeginDoes DEF tables
  <2>2. CASE Mark(r)
    BY <2>2, MarkDoes
  <2>3. CASE Cut(r)
    BY <2>3, CutDoes DEF tables
  <2>4. CASE Spawn(r)
    BY <2>4, SpawnDoes DEF tables
  <2>5. CASE Collide(r)
    BY <2>5, CollideDoes DEF tables
  <2>6. CASE wire_new_host(r)
    BY <2>6, WireDoes DEF tables
  <2>7. CASE Swap(r)
    BY <1>0, <2>0, <2>7, SwapDoes DEF Placing, Serving, Steps
  <2>8. CASE Record(r)
    BY <2>8, RecordDoes
  <2>9. CASE Push(r)
    BY <2>0, <2>9, PushDoes DEF Placing, Serving, Steps, Kinds
  <2>10. CASE announce_plugin_state(r)
    BY <2>10, AnnounceDoes DEF tables
  <2>11. CASE Clear(r)
    BY <2>11, ClearDoes
  <2> QED BY <1>6, <2>1, <2>2, <2>3, <2>4, <2>5, <2>6, <2>7, <2>8, <2>9, <2>10, <2>11
          DEF RequestMoves
<1> QED BY <1>1, <1>2, <1>3, <1>4, <1>5, <1>6, StepKinds

\* Two requests for a plugin, or one during the boot, have clashed.
Clashes ==
  \A r \in Requests : Serving(r) =>
    /\ boot.pc # "ready" => req[r].name \in clashed
    /\ \A q \in Requests : Serving(q) /\ req[q].name = req[r].name /\ q # r
         => req[r].name \in clashed

LEMMA ClashesStep ==
  ASSUME WInv, Clashes, [RegistryNext]_registryVars
  PROVE  Clashes'
<1>0. clashed \subseteq clashed' /\ (boot'.pc # "ready" => boot.pc # "ready")
  BY Onward
<1>1. CASE req' = req
  BY <1>0, <1>1 DEF Clashes, Serving
<1>2. ASSUME NEW r \in Requests, GoesOn(r) PROVE Clashes'
  BY <1>0, <1>2 DEF Clashes, Serving, GoesOn, Others, Carries
<1>3. ASSUME NEW r \in Requests, Begun(r) PROVE Clashes'
  <2>1. \A q \in Requests \ {r} : req'[q] = req[q]
    BY <1>3 DEF Begun, Others
  <2>2. \/ req'[r].name \in clashed'
        \/ boot.pc = "ready" /\ \A q \in Requests : Serving(q) => req[q].name # req'[r].name
    BY <1>3 DEF Begun
  <2> QED BY <1>0, <2>1, <2>2 DEF Clashes, Serving
<1> QED BY <1>1, <1>2, <1>3, Onward

\* The table holds the hosts of known plugins, and none before the boot has published it
\* but those of plugins that have clashed.
Hosted ==
  /\ \A p \in Range(hosts) :
       /\ Booting => Owner(p) \in clashed
       /\ \/ Owner(p) \in recipe \cup clashed
          \/ boot.pc = "record" /\ Owner(p) \in Range(Configured)
  /\ \A r \in Requests : req[r].pc = "push" => req[r].name \in recipe

LEMMA HostedStep ==
  ASSUME WInv, Clashes, Hosted, [RegistryNext]_registryVars
  PROVE  Hosted'
<1>0. /\ clashed \subseteq clashed' /\ recipe \subseteq recipe'
      /\ Booting' => Booting /\ boot'.hosts = boot.hosts
      /\ \A p \in Range(hosts) : p \in Procs /\ Owner(p)' = Owner(p)
  <2>1. \A p \in Range(hosts) : p \in Procs /\ Life(p) # "unborn"
    BY DEF WInv, Shaped, Lived, Range
  <2> QED BY <2>1, Onward, BornStay DEF Lasts
<1>1. ASSUME NEW r \in Requests, req'[r].pc = "push" PROVE req'[r].name \in recipe'
  <2>1. CASE req' = req
    BY <1>0, <1>1, <2>1 DEF Hosted
  <2>2. ASSUME NEW q \in Requests, RequestMoves(q), Begun(q) \/ GoesOn(q)
        PROVE  req'[r].name \in recipe'
    <3>1. CASE q # r
      BY <1>0, <1>1, <2>2, <3>1 DEF Begun, GoesOn, Others, Hosted
    <3>2. CASE q = r
      <4>1. Record(r) => req'[r].name \in recipe'
        BY RecordDoes DEF Carries
      <4>2. ~ Record(r) => req'[r].pc # "push"
        <5>1. None \notin Procs
          BY RegistryAssumption
        <5>2. ASSUME NEW n \in Names, \/ stop_plugin(r, n) \/ start_plugin(r, n)
                                      \/ reload_plugin(r, n) \/ load_plugin(r, n)
              PROVE  req'[r].pc # "push"
          BY <5>1, <5>2, BeginDoes
        <5>3. Mark(r) \/ Cut(r) => req'[r].pc # "push"
          BY MarkDoes, CutDoes
        <5>4. Spawn(r) \/ Collide(r) => req'[r].pc # "push"
          BY SpawnDoes, CollideDoes
        <5>5. wire_new_host(r) \/ Swap(r) => req'[r].pc # "push"
          BY <5>1, WireDoes, SwapDoes
        <5>6. Push(r) \/ announce_plugin_state(r) \/ Clear(r) => req'[r].pc # "push"
          BY PushDoes, AnnounceDoes, ClearDoes
        <5> QED BY <2>2, <3>2, <5>2, <5>3, <5>4, <5>5, <5>6 DEF RequestMoves
      <4> QED BY <1>1, <4>1, <4>2
    <3> QED BY <3>1, <3>2
  <2> QED BY <2>1, <2>2, Onward
<1> SUFFICES ASSUME NEW p \in Range(hosts')
             PROVE  /\ Booting' => Owner(p)' \in clashed'
                    /\ \/ Owner(p)' \in recipe' \cup clashed'
                       \/ boot'.pc = "record" /\ Owner(p)' \in Range(Configured)
  BY <1>1 DEF Hosted, Range, Owner
<1>2. ASSUME p \in Range(hosts)
      PROVE  /\ Booting' => Owner(p)' \in clashed'
             /\ \/ Owner(p)' \in recipe' \cup clashed'
                \/ boot'.pc = "record" /\ Owner(p)' \in Range(Configured)
  <2>1. boot.pc = "record" /\ boot'.pc # "record" => recipe' = recipe \cup Range(Configured)
    <3>1. PublishHosts => boot'.pc = "record"
      BY DEF PublishHosts, Boot
    <3>2. BootOn => boot.pc \in {"publish", "install"}
                     \/ (boot.pc = "record" /\ recipe' = recipe \cup Range(Configured))
      BY BootDoes DEF BootOn
    <3>3. UNCHANGED registryVars => boot' = boot
      BY DEF registryVars
    <3>4. ASSUME NEW q \in Procs, ProcStep(q) PROVE boot' = boot
      BY <3>4, ReaderDoes
    <3>5. ASSUME NEW s \in Scans, Scanned(s) PROVE boot' = boot
      BY <3>5, ScanDoes
    <3>6. ASSUME NEW r \in Requests, RequestMoves(r) PROVE boot' = boot
      BY <3>6, RequestGoes
    <3> QED BY <3>1, <3>2, <3>3, <3>4, <3>5, <3>6, StepKinds
  <2>2. Owner(p)' = Owner(p)
    BY <1>0, <1>2
  <2>3. Booting' => Owner(p) \in clashed
    BY <1>0, <1>2 DEF Hosted
  <2>4. Owner(p) \in recipe \cup clashed \/ (boot.pc = "record" /\ Owner(p) \in Range(Configured))
    BY <1>2 DEF Hosted
  <2> QED BY <1>0, <2>1, <2>2, <2>3, <2>4
<1>3. CASE hosts' = hosts
  BY <1>2, <1>3
<1>4. CASE /\ Booting /\ boot'.pc = "record" /\ hosts' = boot.hosts /\ proc' = proc
  <2>1. \E i \in DOMAIN Configured : Owner(p)' = Configured[i]
    BY <1>4, RegistryAssumption DEF WInv, Lived, Shaped, Range, Owner
  <2> QED BY <1>4, <2>1 DEF Range
<1>5. ASSUME NEW r \in Requests, Placing(r)
      PROVE  /\ Booting' => Owner(p)' \in clashed'
             /\ \/ Owner(p)' \in recipe' \cup clashed'
                \/ boot'.pc = "record" /\ Owner(p)' \in Range(Configured)
  <2>1. p \in Range(hosts) \/ p = req[r].new
    BY <1>5 DEF Placing, Takes
  <2>2. req[r].name \in recipe /\ Owner(req[r].new) = req[r].name
    BY <1>5 DEF Placing, Hosted, WInv, InHand, Fresh
  <2>3. Booting => req[r].name \in clashed
    BY <1>5 DEF Placing, Clashes
  <2> QED BY <1>0, <1>2, <1>5, <2>1, <2>2, <2>3 DEF Placing, Owner
<1> QED BY <1>3, <1>4, <1>5, TableMoves

\* The process that stands for a plugin changes by a swap or a push for that plugin, or
\* when the boot publishes its table.
LEMMA HostStays ==
  ASSUME WInv, Shaped', [RegistryNext]_registryVars, NEW n,
         Booting => hosts' = hosts,
         \A r \in Requests : Placing(r) => req[r].name # n
  PROVE  HostOf(n)' = HostOf(n)
<1>0. /\ None \notin Procs /\ \A i \in DOMAIN hosts : hosts[i] \in Procs
      /\ \A p \in Range(hosts) : Owner(p)' = Owner(p)
  <2>1. \A p \in Range(hosts) : p \in Procs /\ Life(p) # "unborn"
    BY DEF WInv, Shaped, Lived, Range
  <2>2. \A i \in DOMAIN hosts : hosts[i] \in Procs
    BY DEF WInv, Shaped
  <2> QED BY <2>1, <2>2, BornStay, RegistryAssumption DEF Lasts
<1>1. CASE hosts' = hosts
  BY <1>0, <1>1, SameHost DEF WInv, Owner, Range
<1>2. ASSUME NEW r \in Requests, Placing(r) PROVE HostOf(n)' = HostOf(n)
  <2> DEFINE m == req[r].name
  <2>1. m # n /\ Takes(r) /\ proc' = proc
    BY <1>2 DEF Placing
  <2>2. Owner(req[r].new) = m
    BY <1>2 DEF Placing, WInv, InHand, Fresh
  <2>3. \A i \in DOMAIN hosts : i \in DOMAIN hosts' /\ (Owner(hosts[i]) = n => hosts'[i] = hosts[i])
    <3>1. HostOf(m) # None => Owner(HostOf(m)) = m
      BY <1>0, HostFound DEF WInv
    <3> QED BY <1>0, <2>1, <3>1 DEF Takes
  <2>4. \A i \in DOMAIN hosts' :
          proc'[hosts'[i]].name = n => i \in DOMAIN hosts /\ hosts'[i] = hosts[i]
    BY <2>1, <2>2 DEF Takes, Owner
  <2> QED BY <1>0, <2>3, <2>4, SameHost DEF WInv
<1> QED BY <1>1, <1>2, TableMoves

\* While one request alone is served for a plugin, its old process stands for the plugin,
\* and has been told to go before a new one is spawned.
Serves(r, n) == Serving(r) /\ req[r].name = n
Kept ==
  \A n \in Names \ clashed, r \in Requests : Serves(r, n) =>
    /\ req[r].pc \in {"mark", "cut", "spawn", "wire", "swap"} /\ req[r].kind # "load" =>
         HostOf(n) = req[r].old
    /\ req[r].pc \in {"spawn", "wire", "swap"} /\ req[r].kind # "load" =>
         Life(req[r].old) = "told"
    /\ req[r].pc # "tell" /\ req[r].kind = "load" => HostOf(n) = None

\* Where a request goes from where it is.
Path(r) ==
  LET from == req[r].pc  to == req'[r].pc  load == req[r].kind = "load" IN
  \/ to = "done"
  \/ from = "mark" /\ to = "cut"
  \/ from = "cut" /\ to = "tell" /\ req[r].kind = "stop" /\ proc'[req[r].old].life = "told"
  \/ from = "cut" /\ to = "spawn" /\ req[r].kind # "stop" /\ proc'[req[r].old].life = "told"
  \/ from = "spawn" /\ to = "collide" /\ load
  \/ from = "spawn" /\ to = "wire" /\ ~ load
  \/ from = "collide" /\ to = "wire" /\ load /\ HostOf(req[r].name) = None
  \/ from = "wire" /\ to = "record" /\ load
  \/ from = "wire" /\ to = "swap" /\ ~ load
  \/ from = "record" /\ to = "push" /\ load
  \/ from = "swap" /\ to = "tell" /\ ~ load /\ Placing(r)
  \/ from = "push" /\ to = "tell" /\ load /\ Placing(r)
  \/ from = "tell" /\ to = "clear" /\ req[r].kind = "start"
  \/ from = "clear" /\ to = "started" /\ req[r].kind = "start"

LEMMA OnPath ==
  ASSUME WInv, [RegistryNext]_registryVars, NEW r \in Requests,
         RequestMoves(r), GoesOn(r)
  PROVE  Path(r)
<1>0. None \notin Procs /\ (Serving(r) => req[r].pc \in Steps(req[r].kind) /\ req[r].kind \in Kinds)
  BY RegistryAssumption DEF WInv, InHand
<1>1. ASSUME NEW n \in Names, \/ stop_plugin(r, n) \/ start_plugin(r, n)
                              \/ reload_plugin(r, n) \/ load_plugin(r, n)
      PROVE  FALSE
  BY <1>0, <1>1, BeginDoes DEF GoesOn, Serving
<1>2. CASE Mark(r)
  BY <1>2, MarkDoes DEF Path
<1>3. CASE Cut(r)
  BY <1>3, CutDoes DEF Path
<1>4. CASE Spawn(r)
  BY <1>4, SpawnDoes DEF Path
<1>5. CASE Collide(r)
  BY <1>0, <1>5, CollideDoes DEF Path, Steps, Serving, Kinds
<1>6. CASE wire_new_host(r)
  BY <1>6, WireDoes DEF Path
<1>7. CASE Swap(r) \/ Push(r)
  <2>1. /\ Takes(r) /\ Others(r) /\ Carries(r) /\ req'[r].pc = "tell"
        /\ UNCHANGED <<proc, boot, clashed, recipe>> /\ Rebuild(r, hosts')
        /\ \/ req[r].pc = "swap"
           \/ req[r].pc = "push" /\ Range(hosts) \subseteq Range(hosts')
    BY <1>0, <1>7, SwapDoes, PushDoes
  <2>2. IF req[r].pc = "swap" THEN req[r].kind # "load" ELSE req[r].kind = "load"
    BY <1>0, <2>1 DEF Serving, Steps, Kinds
  <2>3. Placing(r)
    BY <2>1, <2>2 DEF Placing, GoesOn
  <2> QED BY <2>1, <2>2, <2>3 DEF Path
<1>8. CASE Record(r)
  BY <1>0, <1>8, RecordDoes DEF Path, Serving, Steps, Kinds
<1>9. CASE announce_plugin_state(r)
  BY <1>9, AnnounceDoes DEF Path
<1>10. CASE Clear(r)
  BY <1>0, <1>10, ClearDoes DEF Path, Serving, Steps, Kinds
<1> QED BY <1>1, <1>2, <1>3, <1>4, <1>5, <1>6, <1>7, <1>8, <1>9, <1>10 DEF RequestMoves

LEMMA KeptStep ==
  ASSUME WInv, Clashes, Hosted, Kept, [RegistryNext]_registryVars
  PROVE  Kept'
<1>0. /\ None \notin Procs /\ clashed \subseteq clashed' /\ Shaped'
      /\ boot'.pc # "ready" => boot.pc # "ready"
  BY Onward, ShapedStep, RegistryAssumption
\* A request that does not place a host finds the same one after the step.
<1>1. ASSUME NEW n \in Names \ clashed, NEW r \in Requests, Serves(r, n), ~ Placing(r)
      PROVE  /\ HostOf(n)' = HostOf(n)
             /\ req[r].kind # "load" /\ Life(req[r].old) = "told" => proc'[req[r].old].life = "told"
  <2>1. boot.pc = "ready"
    BY <1>1 DEF Clashes, Serves
  <2>2. \A q \in Requests : Placing(q) => req[q].name # n
    BY <1>1 DEF Clashes, Placing, Serves
  <2>3. req[r].kind # "load" => req[r].old \in Procs /\ Life(req[r].old) # "unborn"
    BY <1>1 DEF WInv, InHand, Serves
  <2>4. ASSUME NEW o \in Procs, Life(o) = "told" PROVE Life(o)' = "told"
    BY <2>4, BornStay DEF Lasts
  <2>5. HostOf(n)' = HostOf(n)
    BY <1>0, <2>1, <2>2, HostStays
  <2> QED BY <2>3, <2>4, <2>5 DEF Life
<1> DEFINE Keeps(x, n) ==
      x.pc \notin {"new", "done"} /\ x.name = n =>
        /\ x.pc \in {"mark", "cut", "spawn", "wire", "swap"} /\ x.kind # "load" =>
             HostOf(n)' = x.old
        /\ x.pc \in {"spawn", "wire", "swap"} /\ x.kind # "load" => proc'[x.old].life = "told"
        /\ x.pc # "tell" /\ x.kind = "load" => HostOf(n)' = None
<1> SUFFICES ASSUME NEW n \in Names \ clashed', NEW r \in Requests
             PROVE  Keeps(req'[r], n)
  BY DEF Kept, Serves, Serving, Life
<1>2. n \in Names \ clashed
  BY <1>0
<1>3. ~ Placing(r) => Keeps(req[r], n)
  BY <1>1, <1>2 DEF Kept, Serves, Serving
<1>4. Placing(r) => Keeps(req'[r], n)
  <2> SUFFICES ASSUME Placing(r) PROVE Keeps(req'[r], n)
    OBVIOUS
  <2>1. req'[r].pc = "tell"
    BY DEF Placing
  <2> QED BY <2>1
<1> HIDE DEF Keeps
<1>5. CASE req'[r] = req[r]
  <2>1. ~ Placing(r)
    BY <1>5 DEF Placing
  <2> QED BY <1>3, <1>5, <2>1
<1>6. ASSUME Begun(r) PROVE Keeps(req'[r], n)
  <2> SUFFICES ASSUME req'[r].name = n, req'[r].pc \notin {"new", "done"} PROVE Keeps(req'[r], n)
    BY DEF Keeps
  <2>1. boot.pc = "ready"
    BY <1>6 DEF Begun
  <2>2. HostOf(n)' = HostOf(n)
    <3>1. hosts' = hosts /\ proc' = proc
      BY <1>6 DEF Begun, tables
    <3> QED BY <3>1 DEF HostOf
  <2>3. CASE req'[r].kind = "load"
    <3>1. req'[r].pc = "spawn" /\ n \notin recipe
      BY <1>6, <2>3 DEF Begun
    <3>2. \A p \in Range(hosts) : Owner(p) \in recipe \cup clashed
      BY <2>1 DEF Hosted
    <3>3. \A i \in DOMAIN hosts : Owner(hosts[i]) # n
      BY <1>2, <3>1, <3>2 DEF Range
    <3>4. HostOf(n) = None
      BY <1>0, <3>3, HostFound DEF WInv
    <3> QED BY <2>2, <2>3, <3>1, <3>4 DEF Keeps
  <2>4. CASE req'[r].kind # "load"
    <3>1. req'[r].pc \in {"mark", "cut"} /\ req'[r].old = HostOf(n)
      BY <1>6, <2>4 DEF Begun
    <3> QED BY <2>2, <2>4, <3>1 DEF Keeps
  <2> QED BY <2>3, <2>4
<1>7. ASSUME GoesOn(r), RequestMoves(r) PROVE Keeps(req'[r], n)
  <2>0. /\ Serving(r) /\ Path(r)
        /\ \/ req'[r].pc = "done"
           \/ Carries(r) /\ req'[r].pc \notin {"new", "done", "mark"}
    BY <1>7, OnPath DEF GoesOn
  <2>1. CASE req'[r].pc \in {"done", "tell"}
    <3>1. Placing(r) \/ req'[r].pc = "done" \/ req[r].kind # "load"
      BY <2>0, <2>1 DEF Path
    <3> QED BY <1>4, <2>1, <3>1 DEF Keeps
  <2>2. CASE req'[r].pc \notin {"done", "tell"} /\ req[r].name = n
    <3>1. Carries(r) /\ Serves(r, n) /\ ~ Placing(r)
      BY <2>0, <2>2 DEF Serves, Placing
    <3>2. HostOf(n)' = HostOf(n)
      BY <1>1, <1>2, <3>1
    <3>3. CASE req[r].kind = "load"
      <4>1. HostOf(n) = None
        BY <1>2, <2>0, <2>2, <3>1, <3>3 DEF Kept, Path
      <4> QED BY <3>1, <3>2, <3>3, <4>1 DEF Keeps, Carries
    <3>4. CASE req[r].kind # "load"
      <4>1. req'[r].pc \in {"cut", "spawn", "wire", "swap"} => HostOf(n)' = req[r].old
        BY <1>2, <2>0, <3>1, <3>2, <3>4 DEF Kept, Path
      <4>2. req'[r].pc \in {"wire", "swap"} => Life(req[r].old) = "told"
        BY <1>2, <2>0, <3>1, <3>4 DEF Kept, Path
      <4>3. req'[r].pc \in {"spawn", "wire", "swap"} => proc'[req[r].old].life = "told"
        BY <1>1, <1>2, <2>0, <3>1, <3>4, <4>2 DEF Path
      <4> QED BY <2>0, <3>1, <3>4, <4>1, <4>3 DEF Keeps, Carries
    <3> QED BY <3>3, <3>4
  <2>3. CASE req'[r].pc \notin {"done", "tell"} /\ req[r].name # n
    BY <2>0, <2>3 DEF Keeps, Carries
  <2> QED BY <2>1, <2>2, <2>3
<1> QED BY <1>5, <1>6, <1>7, Onward DEF Begun, GoesOn, Others

\* A process that runs has a place in the table, or had one in the boot's, or a request is
\* about to give it one; unless its plugin has clashed.
Placed == \A p \in Procs : Life(p) = "up" =>
  \/ p \in Range(hosts) \/ Owner(p) \in clashed
  \/ Booting /\ p \in Range(boot.hosts)
  \/ \E r \in Requests : req[r].pc \in Fresh /\ req[r].new = p

\* Who runs after a step has run before it, or is the one the step has spawned.
LEMMA WhoRuns ==
  ASSUME WInv, [RegistryNext]_registryVars, NEW p \in Procs,
         Life(p)' = "up"
  PROVE  \/ Life(p) = "up" /\ Owner(p)' = Owner(p)
         \/ \E r \in Requests : req'[r].pc \in Fresh /\ req'[r].new = p
<1> USE DEF Life, Owner
<1>0. None \notin Procs
  BY RegistryAssumption
<1>1. CASE UNCHANGED registryVars
  BY <1>1 DEF registryVars
<1>2. CASE PublishHosts
  BY <1>2 DEF PublishHosts
<1>3. CASE BootOn
  BY <1>3, BootDoes DEF BootOn, Aside, SameProcs
<1>4. ASSUME NEW q \in Procs, ProcStep(q) PROVE Life(p) = "up" /\ Owner(p)' = Owner(p)
  BY <1>4, ReaderDoes DEF Aside, SameProcs
<1>5. ASSUME NEW s \in Scans, Scanned(s)
      PROVE  Life(p) = "up" /\ Owner(p)' = Owner(p)
  BY <1>5, ScanDoes
<1>6. ASSUME NEW r \in Requests, RequestMoves(r)
      PROVE  \/ Life(p) = "up" /\ Owner(p)' = Owner(p)
             \/ req'[r].pc \in Fresh /\ req'[r].new = p
  <2>1. ASSUME NEW n \in Names, \/ stop_plugin(r, n) \/ start_plugin(r, n)
                                \/ reload_plugin(r, n) \/ load_plugin(r, n)
        PROVE  UNCHANGED proc
    BY <1>0, <2>1, BeginDoes
  <2>2. CASE Mark(r)
    BY <2>2, MarkDoes
  <2>3. CASE Cut(r)
    BY <2>3, CutDoes
  <2>4. CASE Spawn(r)
    BY <2>4, SpawnDoes DEF Fresh
  <2>5. CASE Collide(r)
    BY <2>5, CollideDoes
  <2>6. CASE wire_new_host(r)
    BY <2>6, WireDoes
  <2>7. CASE Swap(r)
    BY <1>0, <2>7, SwapDoes
  <2>8. CASE Record(r)
    BY <2>8, RecordDoes
  <2>9. CASE Push(r)
    BY <2>9, PushDoes
  <2>10. CASE announce_plugin_state(r)
    BY <2>10, AnnounceDoes
  <2>11. CASE Clear(r)
    BY <2>11, ClearDoes
  <2> QED BY <1>6, <2>1, <2>2, <2>3, <2>4, <2>5, <2>6, <2>7, <2>8, <2>9, <2>10, <2>11
          DEF RequestMoves
<1> QED BY <1>1, <1>2, <1>3, <1>4, <1>5, <1>6, StepKinds

\* A process in hand stays so, gets its place, or is told to go.
LEMMA InHandStays ==
  ASSUME WInv, [RegistryNext]_registryVars, NEW r \in Requests,
         req[r].pc \in Fresh, proc'[req[r].new].life = "up"
  PROVE  \/ req'[r].pc \in Fresh /\ req'[r].new = req[r].new
         \/ req[r].new \in Range(hosts')
<1> DEFINE Goal == \/ req'[r].pc \in Fresh /\ req'[r].new = req[r].new
                   \/ req[r].new \in Range(hosts')
<1>0. None \notin Procs /\ Serving(r)
  BY RegistryAssumption DEF Serving, Fresh
<1>1. CASE req'[r] = req[r]
  BY <1>1
<1>2. ASSUME RequestMoves(r), GoesOn(r) PROVE Goal
  <2>1. ASSUME NEW n \in Names, \/ stop_plugin(r, n) \/ start_plugin(r, n)
                                \/ reload_plugin(r, n) \/ load_plugin(r, n)
        PROVE  FALSE
    BY <1>0, <2>1, BeginDoes DEF Serving
  <2>2. ~ Mark(r) /\ ~ Cut(r) /\ ~ Spawn(r)
    BY MarkDoes, CutDoes, SpawnDoes DEF Fresh
  <2>3. CASE Collide(r)
    BY <2>3, CollideDoes DEF Fresh, Life
  <2>4. CASE wire_new_host(r)
    BY <2>4, WireDoes DEF Fresh
  <2>5. CASE Swap(r)
    BY <1>0, <2>5, SwapDoes DEF Takes
  <2>6. CASE Record(r)
    BY <2>6, RecordDoes DEF Fresh
  <2>7. CASE Push(r)
    BY <2>7, PushDoes DEF Takes
  <2>8. ~ announce_plugin_state(r) /\ ~ Clear(r)
    BY AnnounceDoes, ClearDoes DEF Fresh
  <2> QED BY <1>2, <2>1, <2>2, <2>3, <2>4, <2>5, <2>6, <2>7, <2>8 DEF RequestMoves
<1> QED BY <1>0, <1>1, <1>2, Onward DEF Begun, GoesOn, Others, Serving

LEMMA PlacedStep ==
  ASSUME WInv, Clashes, Hosted, Kept, Placed, [RegistryNext]_registryVars
  PROVE  Placed'
<1>0. None \notin Procs /\ clashed \subseteq clashed' /\ (Booting' => Booting /\ boot'.hosts = boot.hosts)
  BY Onward, RegistryAssumption
<1> DEFINE Goal(p) ==
      \/ p \in Range(hosts') \/ proc'[p].name \in clashed'
      \/ Booting' /\ p \in Range(boot'.hosts)
      \/ \E r \in Requests : req'[r].pc \in Fresh /\ req'[r].new = p
<1> SUFFICES ASSUME NEW p \in Procs, Life(p)' = "up" PROVE Goal(p)
  BY DEF Placed, Life, Owner, Range
<1>1. CASE \E r \in Requests : req'[r].pc \in Fresh /\ req'[r].new = p
  BY <1>1
<1>2. CASE Life(p) = "up" /\ Owner(p)' = Owner(p)
  <2>1. CASE Owner(p) \in clashed
    BY <1>0, <1>2, <2>1 DEF Owner
  <2>2. ASSUME NEW r \in Requests, req[r].pc \in Fresh, req[r].new = p PROVE Goal(p)
    BY <2>2, InHandStays DEF Life
  <2>3. CASE Booting /\ p \in Range(boot.hosts)
    <3>1. (Booting' /\ boot'.hosts = boot.hosts) \/ hosts' = boot.hosts
      <4>1. CASE PublishHosts
        BY <4>1 DEF PublishHosts
      <4>2. CASE BootOn
        <5>1. boot'.pc = "hosts" /\ boot'.hosts = boot.hosts
          BY <2>3, <4>2, BootDoes DEF BootOn
        <5> QED BY <5>1
      <4>3. CASE UNCHANGED registryVars
        BY <2>3, <4>3 DEF registryVars
      <4>4. ASSUME NEW q \in Procs, ProcStep(q) PROVE boot' = boot
        BY <4>4, ReaderDoes
      <4>5. ASSUME NEW s \in Scans, Scanned(s) PROVE boot' = boot
        BY <4>5, ScanDoes
      <4>6. ASSUME NEW r \in Requests, RequestMoves(r) PROVE boot' = boot
        BY <4>6, RequestGoes
      <4> QED BY <2>3, <4>1, <4>2, <4>3, <4>4, <4>5, <4>6, StepKinds
    <3> QED BY <2>3, <3>1
  <2>4. CASE p \in Range(hosts) /\ Owner(p) \notin clashed
    <3>1. CASE hosts' = hosts
      BY <2>4, <3>1
    <3>2. ~ Booting
      BY <2>4 DEF Hosted
    <3>3. ASSUME NEW r \in Requests, Placing(r) PROVE p \in Range(hosts')
      <4>1. CASE Range(hosts) \subseteq Range(hosts')
        BY <2>4, <4>1
      <4>2. CASE req[r].pc = "swap" /\ req[r].kind # "load"
        <5> DEFINE o == HostOf(req[r].name)
        <5>1. p # o
          <6> SUFFICES ASSUME p = o PROVE FALSE
            OBVIOUS
          <6>1. Owner(p) = req[r].name /\ Owner(p) \in Names
            BY <1>0, <2>4, HostFound DEF WInv, Lived
          <6>2. Life(o) = "told"
            BY <2>4, <3>3, <4>2, <6>1 DEF Kept, Serves, Placing
          <6> QED BY <1>2, <6>2
        <5>2. PICK i \in DOMAIN hosts : p = hosts[i]
          BY <2>4 DEF Range
        <5>3. i \in DOMAIN hosts' /\ hosts'[i] = p
          BY <3>3, <5>1, <5>2 DEF Placing, Takes
        <5> QED BY <5>3 DEF Range
      <4> QED BY <3>3, <4>1, <4>2 DEF Placing
    <3> QED BY <3>1, <3>2, <3>3, TableMoves
  <2> QED BY <1>2, <2>1, <2>2, <2>3, <2>4 DEF Placed
<1> QED BY <1>1, <1>2, WhoRuns

OInv == WInv /\ Clashes /\ Hosted /\ Kept /\ Placed

LEMMA OStarts == RegistryInit => OInv
<1> SUFFICES ASSUME RegistryInit PROVE OInv
  OBVIOUS
<1>1. WInv
  BY WStarts
<1>2. \A r \in Requests : req[r].pc = "new"
  BY DEF RegistryInit, Idle
<1>3. Range(hosts) = {}
  BY DEF RegistryInit, Range
<1>4. Clashes /\ Hosted /\ Kept
  BY <1>2, <1>3 DEF Clashes, Hosted, Kept, Serves, Serving
<1>5. Placed
  <2>1. PICK hs \in [DOMAIN Configured -> Procs], d \in [Procs -> Decls] :
          /\ \A i, j \in DOMAIN hs : i # j => hs[i] # hs[j]
          /\ proc = [p \in Procs |->
                       IF p \in Range(hs)
                         THEN Born(Configured[CHOOSE i \in DOMAIN hs : hs[i] = p], d[p])
                         ELSE [Born(None, {}) EXCEPT !.life = "unborn"]]
          /\ boot = [pc |-> "publish", hosts |-> hs, decl |-> [p \in Procs |-> proc[p].decl]]
    BY StartsFrom DEF StartedWith
  <2>2. Booting /\ boot.hosts = hs
    BY <2>1
  <2>3. \A p \in Procs : p \notin Range(hs) => proc[p].life = "unborn"
    BY <2>1 DEF Born
  <2> QED BY <2>2, <2>3 DEF Placed, Life
<1> QED BY <1>1, <1>4, <1>5 DEF OInv

\* NoOrphan: no process runs on without a host in the table to stop it by.  A request
\* swaps out only the process it has told to go, because nothing else changes the host of
\* its plugin while it is the only one.
THEOREM NoProcessOrphaned ==
  RegistrySpec => []NoOrphan
<1>1. RegistryInit => OInv
  BY OStarts
<1>2. OInv /\ [RegistryNext]_registryVars => OInv'
  BY WStep, ClashesStep, HostedStep, KeptStep, PlacedStep DEF OInv
<1>3. OInv => NoOrphan
  <2> SUFFICES ASSUME OInv, NEW p \in Procs, proc[p].life = "up", p \notin Range(hosts),
                      proc[p].name \notin clashed, boot.pc = "ready"
               PROVE  \E r \in Requests : Serving(r) /\ req[r].name = proc[p].name
    BY DEF NoOrphan, Alone, Quiet
  <2>1. PICK r \in Requests : req[r].pc \in Fresh /\ req[r].new = p
    BY DEF OInv, Placed, Life, Owner
  <2> QED BY <2>1 DEF OInv, WInv, InHand, Fresh, Serving, Owner
<1> QED BY <1>1, <1>2, <1>3, PTL DEF RegistrySpec

-----------------------------------------------------------------------------
(* One process for each plugin, and what is said of it.                      *)

DistinctNames == \A i, j \in DOMAIN Configured : Configured[i] = Configured[j] => i = j
Single == \A p, q \in Range(hosts) :
            Owner(p) = Owner(q) /\ Owner(p) \notin clashed => p = q

LEMMA SingleHost ==
  ASSUME WInv, Single, NEW n \in Names \ clashed,
         NEW p \in Range(hosts), Owner(p) = n
  PROVE  p = HostOf(n)
<1>1. \A i \in DOMAIN hosts : Owner(hosts[i]) # n => hosts[i] # p
  OBVIOUS
<1>2. HostOf(n) # None
  BY HostFound, RegistryAssumption DEF WInv, Range
<1> QED BY <1>2, HostFound, RegistryAssumption DEF WInv, Single

LEMMA SingleStep ==
  ASSUME DistinctNames, OInv, Single, [RegistryNext]_registryVars
  PROVE  Single'
<1>0. /\ WInv /\ None \notin Procs /\ clashed \subseteq clashed'
      /\ \A p \in Range(hosts) : p \in Procs /\ Owner(p) \in Names /\ Owner(p)' = Owner(p)
  <2>1. \A p \in Range(hosts) : p \in Procs /\ Life(p) # "unborn" /\ Owner(p) \in Names
    BY DEF OInv, WInv, Shaped, Lived, Range
  <2> QED BY <2>1, Onward, BornStay, RegistryAssumption DEF Lasts, OInv
<1> SUFFICES ASSUME NEW p \in Range(hosts'), NEW q \in Range(hosts'),
                    Owner(p)' = Owner(q)', Owner(p)' \notin clashed'
             PROVE  p = q
  BY DEF Single, Owner, Range
<1>1. CASE hosts' = hosts
  BY <1>0, <1>1 DEF Single
<1>2. CASE Booting /\ hosts' = boot.hosts /\ proc' = proc
  <2>1. PICK i \in DOMAIN Configured : p = boot.hosts[i] /\ Owner(p) = Configured[i]
    BY <1>0, <1>2, RegistryAssumption DEF WInv, Lived, Shaped, Range
  <2>2. PICK j \in DOMAIN Configured : q = boot.hosts[j] /\ Owner(q) = Configured[j]
    BY <1>0, <1>2, RegistryAssumption DEF WInv, Lived, Shaped, Range
  <2> QED BY <1>2, <2>1, <2>2 DEF DistinctNames, Owner
<1>3. ASSUME NEW r \in Requests, Placing(r), Swap(r) \/ Push(r) PROVE p = q
  <2> DEFINE n == req[r].name
  <2>1. /\ Serving(r) /\ Owner(req[r].new) = n /\ n \in Names /\ proc' = proc
        /\ p \in Range(hosts) \/ p = req[r].new
        /\ q \in Range(hosts) \/ q = req[r].new
    BY <1>0, <1>3 DEF Placing, Takes, WInv, InHand, Fresh
  <2>2. CASE Owner(p) # n
    BY <1>0, <2>1, <2>2 DEF Single, Owner
  <2>3. CASE Owner(p) = n
    <3>1. Serves(r, n) /\ n \in Names \ clashed
      BY <1>0, <2>1, <2>3 DEF Serves, Owner
    <3>2. ASSUME NEW h \in Range(hosts), Owner(h) = n PROVE h = HostOf(n)
      BY <1>0, <3>1, <3>2, SingleHost
    <3>3. CASE Swap(r)
      <4>1. req[r].pc = "swap" /\ req[r].kind # "load" /\ req[r].old \in Procs
        BY <1>0, <2>1, <3>3, SwapDoes DEF WInv, InHand, Steps
      <4>2. HostOf(n) # None
        BY <1>0, <3>1, <4>1 DEF OInv, Kept
      <4>3. HostOf(n) = req[r].new \/ HostOf(n) \notin Range(hosts')
        BY <1>0, <3>3, <4>2, SwapDoes
      <4>4. p = req[r].new
        BY <2>1, <2>3, <3>2, <4>3
      <4>5. q = req[r].new
        BY <2>1, <2>3, <3>2, <4>3 DEF Owner
      <4> QED BY <4>4, <4>5
    <3>4. CASE Push(r)
      <4>1. req[r].pc = "push" /\ req[r].kind = "load"
        BY <1>0, <2>1, <3>4, PushDoes DEF WInv, InHand, Steps, Kinds
      <4>2. HostOf(n) = None
        BY <3>1, <4>1 DEF OInv, Kept
      <4>3. \A h \in Range(hosts) : Owner(h) # n
        BY <1>0, <3>2, <4>2
      <4> QED BY <2>1, <2>3, <4>3 DEF Owner
    <3> QED BY <1>3, <3>3, <3>4
  <2> QED BY <2>2, <2>3
<1> QED BY <1>0, <1>1, <1>2, <1>3, TableMoves

\* A step that is not of a request for a plugin leaves alone what concerns the plugin,
\* but that a scan may announce its crash.
Alike(n) ==
  /\ n \in stopped' <=> n \in stopped
  /\ n \in unborn' <=> n \in unborn
  /\ heard'[n] = heard[n] \/ (heard'[n] = "crashed" /\ (Sound(n) => n \in spoilt'))
  /\ \A p \in Procs : Life(p) # "unborn" /\ Owner(p) = n => Life(p)' = Life(p)
  /\ \A p \in Range(hosts') : Owner(p)' = n => p \in Range(hosts)

LEMMA Bystanders ==
  ASSUME WInv, [RegistryNext]_registryVars, NEW n \in Names,
         Booting => Booting',
         \A r \in Requests : Serves(r, n) => req'[r] = req[r]
  PROVE  Alike(n)
<1> USE DEF Life, Owner, Alike
<1>0. None \notin Procs
  BY RegistryAssumption
<1>a. ASSUME UNCHANGED <<hosts, stopped, unborn, heard>>,
             \A p \in Procs : Life(p)' = Life(p)
      PROVE  Alike(n)
  BY <1>a
<1>b. ASSUME UNCHANGED <<hosts, stopped, unborn, heard>>, NEW o \in Procs,
             Life(o) = "unborn" \/ Owner(o) # n, \A p \in Procs \ {o} : proc'[p] = proc[p]
      PROVE  Alike(n)
  BY <1>b
<1>1. CASE UNCHANGED registryVars
  BY <1>a, <1>1 DEF registryVars, tables, history
<1>2. CASE PublishHosts
  BY <1>a, <1>2 DEF PublishHosts, Boot
<1>3. CASE BootOn
  BY <1>a, <1>3, BootDoes DEF BootOn, Aside, SameProcs
<1>4. ASSUME NEW q \in Procs, ProcStep(q) PROVE Alike(n)
  BY <1>a, <1>4, ReaderDoes DEF Aside, SameProcs
<1>5. ASSUME NEW s \in Scans, Scanned(s) PROVE Alike(n)
  <2>1. /\ UNCHANGED <<hosts, stopped, unborn>> /\ \A p \in Procs : Life(p)' = Life(p)
        /\ heard' = heard \/ \E m \in Names : ScanTell(s, m)
    BY <1>5, ScanDoes DEF Aside, SameProcs
  <2>2. heard'[n] = heard[n] \/ (heard'[n] = "crashed" /\ (Sound(n) => n \in spoilt'))
    BY <2>1 DEF ScanTell, WInv, Shaped
  <2> QED BY <2>1, <2>2
<1>6. ASSUME NEW r \in Requests, RequestMoves(r) PROVE Alike(n)
  <2>0. Begun(r) \/ (GoesOn(r) /\ req[r].name # n)
    <3>1. ASSUME GoesOn(r) PROVE req'[r] # req[r]
      BY <1>6, <3>1, OnPath DEF Path, GoesOn, Serving
    <3> QED BY <1>6, <3>1, RequestGoes DEF Serves, GoesOn
  <2>1. ASSUME NEW m \in Names, \/ stop_plugin(r, m) \/ start_plugin(r, m)
                                \/ reload_plugin(r, m) \/ load_plugin(r, m)
        PROVE  Alike(n)
    BY <1>0, <1>a, <2>1, BeginDoes DEF tables
  <2> DEFINE m == req[r].name
  <2>m. ~ Begun(r) => m # n /\ Serving(r)
    BY <2>0 DEF GoesOn
  <2>2. CASE Mark(r)
    BY <2>m, <2>2, MarkDoes DEF Begun, history
  <2>3. CASE Cut(r)
    <3>1. Owner(req[r].old) = m
      BY <2>m, <2>3, CutDoes DEF Begun, WInv, InHand, Steps
    <3> QED BY <1>b, <2>m, <2>3, <3>1, CutDoes DEF Begun, tables, history
  <2>4. CASE Spawn(r)
    <3>1. UNCHANGED <<hosts, stopped, heard>> /\ (n \in unborn' <=> n \in unborn)
      BY <2>m, <2>4, SpawnDoes DEF Begun, tables
    <3>2. \A p \in Procs : Life(p) # "unborn" => proc'[p] = proc[p]
      BY <2>4, SpawnDoes
    <3> QED BY <3>1, <3>2
  <2>5. CASE Collide(r)
    <3>1. Owner(req[r].new) = m
      BY <2>m, <2>5, CollideDoes DEF Begun, WInv, InHand, Fresh
    <3> QED BY <1>a, <1>b, <2>m, <2>5, <3>1, CollideDoes DEF Begun, tables, history
  <2>6. CASE wire_new_host(r)
    BY <1>a, <2>6, WireDoes DEF tables, history
  <2>7. CASE Swap(r)
    <3>1. Owner(req[r].new) = m
      BY <1>0, <2>m, <2>7, SwapDoes DEF Begun, WInv, InHand, Fresh
    <3> QED BY <1>0, <2>m, <2>7, <3>1, SwapDoes DEF Begun, Takes
  <2>8. CASE Record(r)
    BY <1>a, <2>8, RecordDoes DEF history
  <2>9. CASE Push(r)
    <3>1. Owner(req[r].new) = m
      BY <2>m, <2>9, PushDoes DEF Begun, WInv, InHand, Fresh
    <3> QED BY <2>m, <2>9, <3>1, PushDoes DEF Begun, Takes
  <2>10. CASE announce_plugin_state(r)
    <3>1. heard'[n] = heard[n]
      BY <2>m, <2>10, AnnounceDoes DEF Begun, WInv, Shaped
    <3> QED BY <2>10, <3>1, AnnounceDoes DEF tables
  <2>11. CASE Clear(r)
    BY <2>m, <2>11, ClearDoes DEF Begun, history
  <2> QED BY <1>6, <2>1, <2>2, <2>3, <2>4, <2>5, <2>6, <2>7, <2>8, <2>9, <2>10, <2>11
          DEF RequestMoves
<1> QED BY <1>1, <1>2, <1>3, <1>4, <1>5, <1>6, StepKinds

\* What a plugin's processes and its marks say of it between requests, and what they say
\* when one request alone is served.
Living(n, life) == \A p \in Range(hosts) : Owner(p) = n => Life(p) = life
Told(p, n) == IF heard[n] = "crashed" THEN Bad(p) \/ n \in spoilt
                                     ELSE n \in stopped <=> heard[n] = "stopped"
Settled(n) ==
  (\A r \in Requests : Serves(r, n) => req[r].pc = "mark") =>
    \/ n \in unborn
    \/ \A p \in Range(hosts) : Owner(p) = n => /\ n \in stopped <=> Life(p) = "told"
                                               /\ Told(p, n)
Doing(x, n) ==
  /\ x.kind = "stop" /\ x.pc # "mark" => n \in stopped
  /\ x.kind = "stop" /\ x.pc = "tell" => Living(n, "told")
  /\ x.kind # "stop" /\ x.pc \in {"tell", "clear", "started"} => n \notin stopped /\ Living(n, "up")
  /\ x.pc \in Fresh => Life(x.new) = "up"
  /\ x.kind = "load" => n \notin stopped
BootHonest ==
  /\ stopped \subseteq recipe \cap Names
  /\ Booting =>
       /\ stopped \subseteq clashed
       /\ \A i \in DOMAIN Configured :
            \/ Configured[i] \in clashed
            \/ /\ Life(boot.hosts[i]) = "up"
               /\ heard[Configured[i]] # "stopped"
               /\ heard[Configured[i]] = "crashed" => Configured[i] \in spoilt
Honest == /\ \A n \in Names \ clashed :
               Settled(n) /\ \A r \in Requests : Serves(r, n) => Doing(req[r], n)
          /\ BootHonest

LEMMA OneServed ==
  ASSUME Clashes, NEW n \in Names \ clashed, NEW r \in Requests, Serves(r, n)
  PROVE  boot.pc = "ready" /\ \A q \in Requests : Serves(q, n) => q = r
BY DEF Clashes, Serves

LEMMA DoingStep ==
  ASSUME OInv, Single, Single', Shaped', Honest, [RegistryNext]_registryVars,
         NEW n \in Names \ clashed', NEW r \in Requests, Serves(r, n)'
  PROVE  Doing(req[r], n)'
<1>0. /\ None \notin Procs /\ WInv /\ n \in Names \ clashed
      /\ \A p \in Range(hosts) : p \in Procs /\ Life(p) # "unborn" /\ Owner(p)' = Owner(p)
  <2>1. \A p \in Range(hosts) : p \in Procs /\ Life(p) # "unborn"
    BY DEF OInv, WInv, Shaped, Lived, Range
  <2> QED BY <2>1, Onward, BornStay, RegistryAssumption DEF Lasts, OInv
<1>1. CASE req'[r] = req[r]
  <2>1. Serves(r, n)
    BY <1>1 DEF Serves, Serving
  <2>2. boot.pc = "ready" /\ \A q \in Requests : Serves(q, n) => q = r
    BY <1>0, <2>1, OneServed DEF OInv
  <2>3. Alike(n) /\ Doing(req[r], n)
    BY <1>0, <1>1, <2>1, <2>2, Bystanders DEF Honest
  <2>4. \A p \in Range(hosts') : Owner(p)' = n =>
          p \in Range(hosts) /\ Owner(p) = n /\ Life(p)' = Life(p)
    BY <1>0, <2>3 DEF Alike
  <2>5. req[r].pc \in Fresh => Life(req[r].new)' = Life(req[r].new)
    <3>1. req[r].pc \in Fresh => /\ req[r].new \in Procs /\ Owner(req[r].new) = n
                                 /\ Life(req[r].new) # "unborn"
      BY <1>0, <2>1 DEF WInv, InHand, Serves
    <3> QED BY <1>1, <2>3, <3>1 DEF Alike, Life
  <2> QED BY <1>1, <2>3, <2>4, <2>5 DEF Doing, Living, Alike, Life, Range, Owner
<1>2. CASE Begun(r)
  <2>1. req'[r].name = n
    BY DEF Serves
  <2>2. req'[r].kind = "load" => n \notin stopped'
    BY <1>2, <2>1 DEF Begun, Honest, BootHonest, tables
  <2>3. req'[r].pc \in {"mark", "cut", "spawn"} /\ (req'[r].kind = "stop" => req'[r].pc = "mark")
    BY <1>2 DEF Begun
  <2> QED BY <2>2, <2>3 DEF Doing, Fresh
<1>3. ASSUME GoesOn(r), RequestMoves(r) PROVE Doing(req[r], n)'
  <2>1. Carries(r) /\ Serving(r)
    BY <1>3 DEF GoesOn, Serves, Serving
  <2>2. Serves(r, n) /\ n = req[r].name
    BY <2>1 DEF Serves, Carries
  <2>3. Doing(req[r], n)
    BY <1>0, <2>2 DEF Honest
  <2>4. req[r].pc \in Steps(req[r].kind) /\ req[r].kind \in Kinds
    BY <1>0, <2>1 DEF WInv, InHand
  <2>5. \A p \in Range(hosts) : Owner(p) = n => p = HostOf(n)
    BY <1>0, SingleHost
  <2>6. ASSUME NEW m \in Names, \/ stop_plugin(r, m) \/ start_plugin(r, m)
                                \/ reload_plugin(r, m) \/ load_plugin(r, m)
        PROVE  FALSE
    BY <1>0, <2>1, <2>6, BeginDoes DEF Serving
  <2>7. CASE Mark(r)
    <3>1. n \in stopped' /\ req[r].kind = "stop" /\ req'[r].pc = "cut"
      BY <1>0, <2>2, <2>4, <2>7, MarkDoes DEF Steps, Kinds, Serves, Serving
    <3> QED BY <2>1, <3>1 DEF Doing, Carries, Fresh
  <2>8. CASE Cut(r)
    <3>1. /\ req[r].pc = "cut" /\ req'[r].pc = (IF req[r].kind = "stop" THEN "tell" ELSE "spawn")
          /\ proc'[req[r].old].life = "told" /\ stopped' = stopped /\ hosts' = hosts
          /\ req[r].kind # "load"
      BY <1>0, <2>4, <2>8, CutDoes DEF tables, Steps
    <3>2. HostOf(n) = req[r].old
      BY <1>0, <2>2, <3>1 DEF OInv, Kept
    <3>3. Living(n, "told")'
      <4>1. \A p \in Range(hosts) : Owner(p) = n => proc'[p].life = "told"
        BY <2>5, <3>1, <3>2
      <4> QED BY <1>0, <3>1, <4>1 DEF Living, Life, Range, Owner
    <3> QED BY <2>1, <2>3, <3>1, <3>3 DEF Doing, Carries, Fresh
  <2>9. CASE Spawn(r)
    <3>1. /\ stopped' = stopped /\ req[r].pc = "spawn"
          /\ \/ req'[r].pc = "done"
             \/ req'[r].pc \in {"collide", "wire"} /\ proc'[req'[r].new].life = "up"
      BY <1>0, <2>9, SpawnDoes DEF tables, Life
    <3>2. req'[r].pc \in {"collide", "wire"} /\ proc'[req'[r].new].life = "up"
      BY <3>1 DEF Serves, Serving
    <3>3. req[r].kind # "stop"
      BY <2>4, <3>1 DEF Steps
    <3> QED BY <2>1, <2>3, <3>1, <3>2, <3>3 DEF Doing, Carries, Life
  <2>10. CASE Collide(r)
    <3>1. req[r].pc = "collide" /\ req[r].kind = "load"
      BY <1>0, <2>4, <2>10, CollideDoes DEF Steps, Kinds
    <3>2. HostOf(n) = None
      BY <1>0, <2>2, <3>1 DEF OInv, Kept
    <3>3. proc' = proc /\ req'[r].pc = "wire" /\ req'[r].new = req[r].new /\ stopped' = stopped
      BY <1>0, <2>2, <2>10, <3>2, CollideDoes DEF tables
    <3> QED BY <2>1, <2>3, <3>1, <3>3 DEF Doing, Carries, Life, Fresh
  <2>11. CASE wire_new_host(r)
    <3>1. /\ req[r].pc = "wire" /\ req'[r].pc \in {"record", "swap"} /\ req'[r].new = req[r].new
          /\ req[r].new \in Procs /\ stopped' = stopped
          /\ proc'[req[r].new].life = Life(req[r].new) /\ req[r].kind # "stop"
      BY <1>0, <2>4, <2>11, WireDoes DEF tables, Steps, Life
    <3> QED BY <2>1, <2>3, <3>1 DEF Doing, Carries, Life, Fresh
  <2>12. ASSUME req[r].pc \in {"swap", "push"}, req'[r].pc = "tell", Takes(r), proc' = proc,
                n \notin stopped', req[r].kind # "stop"
         PROVE  Doing(req[r], n)'
    <3>1. /\ req[r].new \in Range(hosts') /\ Life(req[r].new) = "up"
          /\ Owner(req[r].new) = n
      BY <1>0, <2>1, <2>2, <2>3, <2>12 DEF Takes, Doing, Fresh, WInv, InHand
    <3>2. \A p \in Range(hosts') : proc'[p].name = n => p = req[r].new
      BY <2>12, <3>1 DEF Single, Owner, Range
    <3>3. Living(n, "up")'
      BY <2>12, <3>1, <3>2 DEF Living, Life, Range, Owner
    <3> QED BY <2>1, <2>12, <3>3 DEF Doing, Carries, Fresh
  <2>13. CASE Swap(r)
    <3>1. req[r].kind # "stop"
      BY <1>0, <2>4, <2>13, SwapDoes DEF Steps
    <3> QED BY <1>0, <2>2, <2>12, <2>13, <3>1, SwapDoes
  <2>14. CASE Record(r)
    <3>1. /\ req[r].pc = "record" /\ req'[r].pc = "push" /\ req'[r].new = req[r].new
          /\ proc' = proc /\ stopped' = stopped /\ req[r].kind # "stop"
      BY <1>0, <2>4, <2>14, RecordDoes DEF Steps
    <3> QED BY <2>1, <2>3, <3>1 DEF Doing, Carries, Life, Fresh
  <2>15. CASE Push(r)
    <3>1. req[r].kind = "load"
      BY <1>0, <2>4, <2>15, PushDoes DEF Steps, Kinds
    <3>2. n \notin stopped
      BY <2>3, <3>1 DEF Doing
    <3> QED BY <1>0, <2>12, <2>15, <3>1, <3>2, PushDoes
  <2>16. CASE announce_plugin_state(r)
    <3>1. /\ req[r].kind = "start" /\ req[r].pc = "tell" /\ req'[r].pc = "clear"
          /\ UNCHANGED <<proc, hosts, stopped>>
      BY <1>0, <2>16, AnnounceDoes DEF tables, Serves, Serving
    <3> QED BY <2>1, <2>3, <3>1 DEF Doing, Carries, Life, Fresh, Living, Owner, Range
  <2>17. CASE Clear(r)
    <3>1. /\ req[r].pc = "clear" /\ req'[r].pc = "started" /\ n \notin stopped'
          /\ UNCHANGED <<proc, hosts>> /\ req[r].kind = "start"
      BY <1>0, <2>2, <2>4, <2>17, ClearDoes DEF Steps, Kinds
    <3> QED BY <2>1, <2>3, <3>1 DEF Doing, Carries, Life, Fresh, Living, Owner, Range
  <2> QED BY <1>3, <2>6, <2>7, <2>8, <2>9, <2>10, <2>11, <2>13, <2>14, <2>15, <2>16, <2>17
          DEF RequestMoves
<1> QED BY <1>0, <1>1, <1>2, <1>3, Onward DEF Begun, GoesOn, Others

LEMMA SettledStep ==
  ASSUME OInv, Single, Shaped', Honest, [RegistryNext]_registryVars,
         NEW n \in Names \ clashed'
  PROVE  Settled(n)'
<1>0. /\ None \notin Procs /\ WInv /\ n \in Names \ clashed
      /\ \A p \in Range(hosts) : /\ p \in Procs /\ Life(p) # "unborn"
                                 /\ Owner(p)' = Owner(p) /\ (Bad(p) => Bad(p)')
      /\ heard \in [Names -> {"started", "stopped", "crashed"}]
      /\ spoilt \subseteq spoilt'
  <2>1. \A p \in Range(hosts) : p \in Procs /\ Life(p) # "unborn"
    BY DEF OInv, WInv, Shaped, Lived, Range
  <2> QED BY <2>1, Onward, BornStay, RegistryAssumption DEF Lasts, OInv, WInv, Shaped
<1> SUFFICES ASSUME \A r \in Requests : Serves(r, n)' => req'[r].pc = "mark", n \notin unborn'
             PROVE  \A p \in Range(hosts') : Owner(p)' = n =>
                      (n \in stopped' <=> Life(p)' = "told") /\ Told(p, n)'
  BY DEF Settled, Told, Bad, Range, Life, Owner
<1> DEFINE Goal == \A p \in Range(hosts') : Owner(p)' = n =>
                      (n \in stopped' <=> Life(p)' = "told") /\ Told(p, n)'
<1>1. CASE Booting /\ ~ Booting'
  <2>1. PublishHosts
    <3>1. UNCHANGED registryVars => boot' = boot
      BY DEF registryVars
    <3>2. BootOn => ~ Booting \/ Booting'
      BY <1>0, BootDoes DEF BootOn
    <3>3. ASSUME NEW q \in Procs, ProcStep(q) PROVE boot' = boot
      BY <1>0, <3>3, ReaderDoes
    <3>4. ASSUME NEW s \in Scans, Scanned(s) PROVE boot' = boot
      BY <1>0, <3>4, ScanDoes
    <3>5. ASSUME NEW r \in Requests, RequestMoves(r) PROVE boot' = boot
      BY <1>0, <3>5, RequestGoes
    <3> QED BY <1>1, <3>1, <3>2, <3>3, <3>4, <3>5, StepKinds
  <2>2. hosts' = boot.hosts /\ UNCHANGED <<proc, stopped, heard, spoilt>>
    BY <2>1 DEF PublishHosts
  <2> SUFFICES ASSUME NEW p \in Range(hosts'), Owner(p)' = n
               PROVE  /\ n \notin stopped' /\ Life(p)' = "up" /\ heard'[n] # "stopped"
                      /\ heard'[n] = "crashed" => n \in spoilt'
    BY DEF Told
  <2>3. PICK i \in DOMAIN Configured : p = boot.hosts[i] /\ Configured[i] = n
    BY <1>0, <1>1, <2>2, RegistryAssumption DEF WInv, Lived, Shaped, Range, Owner
  <2> QED BY <1>0, <1>1, <2>2, <2>3 DEF Honest, BootHonest, Life
<1>2. CASE /\ Booting => Booting'
           /\ \A r \in Requests : Serves(r, n) => req'[r] = req[r]
  <2>1. Alike(n)
    BY <1>0, <1>2, Bystanders
  <2>2. \A r \in Requests : Serves(r, n) => req[r].pc = "mark"
    BY <1>2 DEF Serves, Serving
  <2> SUFFICES ASSUME NEW p \in Range(hosts'), Owner(p)' = n
               PROVE  (n \in stopped' <=> Life(p)' = "told") /\ Told(p, n)'
    OBVIOUS
  <2>3. p \in Range(hosts) /\ Owner(p) = n
    BY <1>0, <2>1 DEF Alike
  <2>4. (n \in stopped <=> Life(p) = "told") /\ Told(p, n)
    BY <1>0, <2>1, <2>2, <2>3 DEF Honest, Settled, Alike
  <2>5. n \in stopped' <=> Life(p)' = "told"
    BY <1>0, <2>1, <2>3, <2>4 DEF Alike
  <2>6. p = HostOf(n) /\ HostOf(n) # None
    BY <1>0, <2>3, SingleHost
  <2>7. CASE heard'[n] = "crashed" /\ (Sound(n) => n \in spoilt')
    <3>1. ~ Sound(n) => Bad(p)
      BY <2>6 DEF Sound, Bad
    <3>2. Bad(p)' \/ n \in spoilt'
      BY <1>0, <2>3, <2>7, <3>1
    <3> QED BY <2>5, <2>7, <3>2 DEF Told, Bad, Life
  <2>8. CASE heard'[n] = heard[n]
    <3>1. Bad(p) => Bad(p)'
      BY <1>0, <2>3
    <3> QED BY <1>0, <2>1, <2>4, <2>5, <2>8, <3>1 DEF Told, Bad, Alike, Life
  <2> QED BY <2>1, <2>7, <2>8 DEF Alike
<1>3. ASSUME NEW r \in Requests, Serves(r, n), req'[r] # req[r] PROVE Goal
  <2>1. GoesOn(r) /\ RequestMoves(r)
    BY <1>0, <1>3, Onward DEF Begun, GoesOn, Others, Serves, Serving
  <2>2. Doing(req[r], n)
    BY <1>0, <1>3 DEF Honest
  <2>3. /\ req[r].pc \in Steps(req[r].kind) /\ req[r].kind \in Kinds /\ n = req[r].name
    BY <1>0, <1>3 DEF WInv, InHand, Serves
  <2>4. req'[r].pc = "done" /\ \A q \in Requests : Serves(q, n) => q = r
    <3>1. \/ req'[r].pc = "done"
          \/ Carries(r) /\ req'[r].pc \notin {"new", "done", "mark"}
      BY <2>1 DEF GoesOn
    <3>2. ~ Carries(r) \/ req'[r].pc \in {"new", "done", "mark"}
      BY <1>3 DEF Carries, Serves, Serving
    <3> QED BY <1>0, <1>3, <3>1, <3>2, OneServed DEF OInv
  <2>5. ASSUME NEW m \in Names, \/ stop_plugin(r, m) \/ start_plugin(r, m)
                                \/ reload_plugin(r, m) \/ load_plugin(r, m)
        PROVE  FALSE
    BY <1>0, <1>3, <2>5, BeginDoes DEF Serving, Serves
  <2>6. CASE Mark(r)
    <3>1. /\ n \in stopped /\ stopped' = stopped \cup {n}
          /\ UNCHANGED <<proc, hosts, heard, unborn, spoilt>>
          /\ req[r].pc = "mark"
      BY <1>0, <2>3, <2>4, <2>6, MarkDoes DEF history
    <3>2. \A p \in Range(hosts) : Owner(p) = n =>
            (n \in stopped <=> Life(p) = "told") /\ Told(p, n)
      BY <1>0, <2>4, <3>1 DEF Honest, Settled
    <3> QED BY <3>1, <3>2 DEF Life, Owner, Told, Bad
  <2>7. CASE Spawn(r)
    BY <1>0, <2>3, <2>4, <2>7, SpawnDoes
  <2>8. CASE Collide(r)
    <3>1. req[r].kind = "load" /\ req[r].pc = "collide"
      BY <1>0, <2>3, <2>8, CollideDoes DEF Steps, Kinds
    <3>2. HostOf(n) = None
      BY <1>0, <1>3, <3>1 DEF OInv, Kept
    <3> QED BY <1>0, <2>3, <2>4, <2>8, <3>2, CollideDoes
  <2>9. CASE announce_plugin_state(r)
    <3>1. /\ req[r].pc \in {"tell", "started"} /\ UNCHANGED <<proc, hosts, stopped>>
          /\ heard'[n] = IF req[r].kind = "stop" THEN "stopped" ELSE "started"
          /\ req[r].kind = "stop" => req[r].pc = "tell"
      BY <1>0, <2>3, <2>9, AnnounceDoes DEF tables, Steps
    <3>2. CASE req[r].kind = "stop"
      <4>1. n \in stopped /\ Living(n, "told")
        BY <2>2, <3>1, <3>2 DEF Doing
      <4> QED BY <3>1, <3>2, <4>1 DEF Living, Life, Owner, Told
    <3>3. CASE req[r].kind # "stop"
      <4>1. n \notin stopped /\ Living(n, "up")
        BY <2>2, <3>1, <3>3 DEF Doing
      <4> QED BY <3>1, <3>3, <4>1 DEF Living, Life, Owner, Told
    <3> QED BY <3>2, <3>3
  <2>10. ~ Cut(r) /\ ~ wire_new_host(r) /\ ~ Record(r) /\ ~ Clear(r)
    BY <1>0, <2>4, CutDoes, WireDoes, RecordDoes, ClearDoes
  <2>11. ~ Swap(r) /\ ~ Push(r)
    BY <1>0, <2>4, SwapDoes, PushDoes
  <2> QED BY <2>1, <2>5, <2>6, <2>7, <2>8, <2>9, <2>10, <2>11 DEF RequestMoves
<1> QED BY <1>1, <1>2, <1>3

LEMMA BootHonestStep ==
  ASSUME OInv, Honest, [RegistryNext]_registryVars
  PROVE  BootHonest'
<1>0. /\ None \notin Procs /\ WInv /\ recipe \subseteq recipe' /\ clashed \subseteq clashed'
      /\ spoilt \subseteq spoilt'
      /\ Booting' => Booting /\ boot'.hosts = boot.hosts
  BY Onward, RegistryAssumption DEF OInv
<1>1. stopped' \subseteq recipe' \cap Names
  <2>0. stopped \subseteq recipe \cap Names
    BY DEF Honest, BootHonest
  <2>1. CASE UNCHANGED registryVars
    BY <2>0, <2>1 DEF registryVars, tables
  <2>2. CASE PublishHosts
    BY <2>0, <2>2 DEF PublishHosts
  <2>3. CASE BootOn
    BY <1>0, <2>0, <2>3, BootDoes DEF BootOn, Aside
  <2>4. ASSUME NEW q \in Procs, ProcStep(q) PROVE stopped' \subseteq recipe' \cap Names
    BY <1>0, <2>0, <2>4, ReaderDoes DEF Aside
  <2>5. ASSUME NEW s \in Scans, Scanned(s)
        PROVE  stopped' \subseteq recipe' \cap Names
    BY <1>0, <2>0, <2>5, ScanDoes DEF Aside
  <2>6. ASSUME NEW r \in Requests, RequestMoves(r) PROVE stopped' \subseteq recipe' \cap Names
    <3>1. ASSUME NEW n \in Names, \/ stop_plugin(r, n) \/ start_plugin(r, n)
                                  \/ reload_plugin(r, n) \/ load_plugin(r, n)
          PROVE  stopped' = stopped
      BY <1>0, <3>1, BeginDoes DEF tables
    <3>2. CASE Mark(r)
      <4>1. req[r].name \in recipe \cap Names
        BY <1>0, <3>2, MarkDoes DEF WInv, InHand, Serving, Steps
      <4> QED BY <1>0, <2>0, <3>2, <4>1, MarkDoes
    <3>3. CASE Cut(r)
      BY <1>0, <2>0, <3>3, CutDoes DEF tables
    <3>4. CASE Spawn(r)
      BY <1>0, <2>0, <3>4, SpawnDoes DEF tables
    <3>5. CASE Collide(r)
      BY <1>0, <2>0, <3>5, CollideDoes DEF tables
    <3>6. CASE wire_new_host(r)
      BY <1>0, <2>0, <3>6, WireDoes DEF tables
    <3>7. CASE Swap(r)
      BY <1>0, <2>0, <3>7, SwapDoes
    <3>8. CASE Record(r)
      BY <1>0, <2>0, <3>8, RecordDoes
    <3>9. CASE Push(r)
      BY <1>0, <2>0, <3>9, PushDoes
    <3>10. CASE announce_plugin_state(r)
      BY <1>0, <2>0, <3>10, AnnounceDoes DEF tables
    <3>11. CASE Clear(r)
      BY <1>0, <2>0, <3>11, ClearDoes
    <3> QED BY <1>0, <2>0, <2>6, <3>1, <3>2, <3>3, <3>4, <3>5, <3>6, <3>7, <3>8, <3>9, <3>10,
               <3>11 DEF RequestMoves
  <2> QED BY <2>1, <2>2, <2>3, <2>4, <2>5, <2>6, StepKinds
<1> SUFFICES ASSUME Booting'
             PROVE  /\ stopped' \subseteq clashed'
                    /\ \A i \in DOMAIN Configured :
                         \/ Configured[i] \in clashed'
                         \/ /\ proc'[boot.hosts[i]].life = "up"
                            /\ heard'[Configured[i]] # "stopped"
                            /\ heard'[Configured[i]] = "crashed" => Configured[i] \in spoilt'
  BY <1>0, <1>1 DEF BootHonest, Life
<1>2. Booting /\ Booting' /\ boot'.hosts = boot.hosts
  BY <1>0
<1>3. ASSUME NEW n \in Names \ clashed PROVE Alike(n)
  <2>1. \A r \in Requests : ~ Serves(r, n)
    BY <1>2, <1>3 DEF OInv, Clashes, Serves
  <2> QED BY <1>0, <1>2, <2>1, Bystanders
<1>4. stopped' \subseteq clashed'
  <2> SUFFICES ASSUME NEW n \in stopped', n \notin clashed PROVE FALSE
    BY <1>0
  <2>1. n \in stopped
    BY <1>1, <1>3 DEF Alike
  <2> QED BY <1>2, <2>1 DEF Honest, BootHonest
<1>5. ASSUME NEW i \in DOMAIN Configured, Configured[i] \notin clashed
      PROVE  /\ proc'[boot.hosts[i]].life = "up" /\ heard'[Configured[i]] # "stopped"
             /\ heard'[Configured[i]] = "crashed" => Configured[i] \in spoilt'
  <2>1. Configured[i] \in Names /\ boot.hosts[i] \in Procs
    BY <1>0, <1>2, RegistryAssumption DEF WInv, Shaped
  <2>2. Alike(Configured[i])
    BY <1>3, <1>5, <2>1
  <2>3. /\ Life(boot.hosts[i]) = "up" /\ heard[Configured[i]] # "stopped"
        /\ heard[Configured[i]] = "crashed" => Configured[i] \in spoilt
    BY <1>2, <1>5 DEF Honest, BootHonest
  <2>4. Owner(boot.hosts[i]) = Configured[i]
    BY <1>0, <1>2 DEF WInv, Lived
  <2>5. proc'[boot.hosts[i]].life = Life(boot.hosts[i])
    <3>1. PICK o \in Procs : o = boot.hosts[i]
      BY <2>1
    <3>2. Life(o)' = Life(o)
      BY <2>2, <2>3, <2>4, <3>1 DEF Alike
    <3> QED BY <3>1, <3>2 DEF Life
  <2>6. Sound(Configured[i])
    <3>1. ASSUME HostOf(Configured[i]) # None PROVE FALSE
      <4>1. HostOf(Configured[i]) \in Range(hosts) /\ Owner(HostOf(Configured[i])) = Configured[i]
        BY <1>0, <3>1, HostFound DEF WInv
      <4> QED BY <1>2, <1>5, <4>1 DEF OInv, Hosted
    <3> QED BY <3>1 DEF Sound
  <2> QED BY <1>0, <2>2, <2>3, <2>5, <2>6 DEF Alike
<1> QED BY <1>0, <1>4, <1>5

HInv == OInv /\ Single /\ Honest

LEMMA HStep ==
  ASSUME DistinctNames
  PROVE  HInv /\ [RegistryNext]_registryVars => HInv'
<1> SUFFICES ASSUME HInv, [RegistryNext]_registryVars PROVE HInv'
  OBVIOUS
<1>1. OInv' /\ Single' /\ Shaped'
  BY WStep, ClashesStep, HostedStep, KeptStep, PlacedStep, SingleStep DEF OInv, HInv, WInv
<1>2. ASSUME NEW n \in Names \ clashed' PROVE Settled(n)'
  BY <1>1, <1>2, SettledStep DEF HInv
<1>3. ASSUME NEW n \in Names \ clashed', NEW r \in Requests, Serves(r, n)'
      PROVE  Doing(req[r], n)'
  BY <1>1, <1>3, DoingStep DEF HInv
<1>4. BootHonest'
  BY BootHonestStep DEF HInv
<1> QED BY <1>1, <1>2, <1>3, <1>4 DEF HInv, Honest

LEMMA HStarts == RegistryInit => HInv
<1> SUFFICES ASSUME RegistryInit PROVE HInv
  OBVIOUS
<1>1. OInv
  BY OStarts
<1>2. \A r \in Requests : req[r].pc = "new"
  BY DEF RegistryInit, Idle
<1>3. Range(hosts) = {} /\ stopped = {} /\ heard = [n \in Names |-> "started"]
  BY DEF RegistryInit, Range
<1>4. PICK hs \in [DOMAIN Configured -> Procs], d \in [Procs -> Decls] :
        /\ \A i, j \in DOMAIN hs : i # j => hs[i] # hs[j]
        /\ proc = [p \in Procs |->
                     IF p \in Range(hs)
                       THEN Born(Configured[CHOOSE i \in DOMAIN hs : hs[i] = p], d[p])
                       ELSE [Born(None, {}) EXCEPT !.life = "unborn"]]
        /\ boot = [pc |-> "publish", hosts |-> hs, decl |-> [p \in Procs |-> proc[p].decl]]
  BY StartsFrom DEF StartedWith
<1>5. \A i \in DOMAIN Configured : Life(boot.hosts[i]) = "up"
  <2> SUFFICES ASSUME NEW i \in DOMAIN Configured PROVE proc[hs[i]].life = "up"
    BY <1>4 DEF Life
  <2>1. hs[i] \in Procs /\ hs[i] \in Range(hs)
    BY <1>4 DEF Range
  <2> QED BY <1>4, <2>1 DEF Born
<1>6. \A i \in DOMAIN Configured : Configured[i] \in Names
  BY RegistryAssumption
<1>7. BootHonest
  BY <1>3, <1>5, <1>6 DEF BootHonest
<1>8. Single /\ \A n \in Names : Settled(n) /\ \A r \in Requests : ~ Serves(r, n)
  BY <1>2, <1>3 DEF Single, Settled, Serves, Serving
<1> QED BY <1>1, <1>7, <1>8 DEF HInv, Honest

\* StateIsHonest: between requests a plugin is refused to turns exactly when its process
\* has been told to go, and that is what clients heard last, unless they have heard since
\* that it crashed, and then its host is broken or was replaced while a scan was about to
\* say so.  What a request leaves behind is what its marks say, for it alone is served;
\* what a scan says is of the one host of the plugin.  No two configured plugins share a
\* name, which the code expects of the configuration and does not enforce.
THEOREM StateToldIsState ==
  ASSUME DistinctNames PROVE RegistrySpec => []StateIsHonest
<1>1. RegistryInit => HInv
  BY HStarts
<1>2. HInv /\ [RegistryNext]_registryVars => HInv'
  BY HStep
<1>3. HInv => StateIsHonest
  <2> SUFFICES ASSUME HInv, NEW p \in Range(hosts), NEW n, n = Owner(p),
                      \A r \in Requests : ~ Serves(r, n), n \notin clashed, n \notin unborn
               PROVE  (n \in stopped <=> Life(p) = "told") /\ Told(p, n)
    BY DEF StateIsHonest, Alone, Quiet, Serves, Owner, Life, Told, Bad
  <2>1. n \in Names
    BY DEF HInv, OInv, WInv, Lived
  <2> QED BY <2>1 DEF HInv, Honest, Settled
<1> QED BY <1>1, <1>2, <1>3, PTL DEF RegistrySpec

\* A plugin whose crash has been announced, or is about to be, has a host.
CrashHosted ==
  \A n \in Names \ clashed :
    n \in crashSaid \/ (\E s \in Scans : n \in scan[s].broken) =>
      \E p \in Range(hosts) : Owner(p) = n
CrashTold == /\ crashSaid \subseteq Names /\ cried \subseteq Procs
             /\ NoCrashSilenced

\* What a step says of crashes.
LEMMA CrashMoves ==
  ASSUME WInv, [RegistryNext]_registryVars
  PROVE  \/ UNCHANGED <<cried, spoilt, scan, clashed>> /\ crashSaid' \subseteq crashSaid
         \/ UNCHANGED <<cried, spoilt, scan, crashSaid>> /\ hosts' = hosts
         \/ \E s \in Scans :
              /\ Scanned(s)
              /\ \A z \in Scans \ {s} : scan'[z] = scan[z]
<1>0. None \notin Procs
  BY RegistryAssumption
<1>1. CASE UNCHANGED registryVars
  BY <1>1 DEF registryVars, tables, history
<1>2. CASE PublishHosts
  BY <1>2 DEF PublishHosts
<1>3. CASE BootOn
  BY <1>3, BootDoes DEF BootOn, Aside
<1>4. ASSUME NEW q \in Procs, ProcStep(q)
      PROVE  UNCHANGED <<cried, spoilt, scan, clashed, crashSaid>>
  BY <1>4, ReaderDoes DEF Aside
<1>5. ASSUME NEW s \in Scans, Scanned(s)
      PROVE  \A z \in Scans \ {s} : scan'[z] = scan[z]
  BY <1>5, ScanDoes
<1>6. ASSUME NEW r \in Requests, RequestMoves(r)
      PROVE  \/ UNCHANGED <<cried, spoilt, scan, clashed>> /\ crashSaid' \subseteq crashSaid
             \/ UNCHANGED <<cried, spoilt, scan, crashSaid>> /\ hosts' = hosts
  <2>1. ASSUME NEW n \in Names, \/ stop_plugin(r, n) \/ start_plugin(r, n)
                                \/ reload_plugin(r, n) \/ load_plugin(r, n)
        PROVE  UNCHANGED <<cried, spoilt, scan, crashSaid, hosts>>
    BY <1>0, <2>1, BeginDoes DEF tables
  <2>2. CASE Mark(r)
    BY <2>2, MarkDoes DEF history
  <2>3. CASE Cut(r)
    BY <2>3, CutDoes DEF tables, history
  <2>4. CASE Spawn(r)
    BY <2>4, SpawnDoes DEF tables
  <2>5. CASE Collide(r)
    BY <2>5, CollideDoes DEF tables, history
  <2>6. CASE wire_new_host(r)
    BY <2>6, WireDoes DEF tables, history
  <2>7. CASE Swap(r)
    BY <1>0, <2>7, SwapDoes
  <2>8. CASE Record(r)
    BY <2>8, RecordDoes DEF history
  <2>9. CASE Push(r)
    BY <2>9, PushDoes
  <2>10. CASE announce_plugin_state(r)
    BY <2>10, AnnounceDoes DEF tables
  <2>11. CASE Clear(r)
    BY <2>11, ClearDoes DEF history
  <2> QED BY <1>6, <2>1, <2>2, <2>3, <2>4, <2>5, <2>6, <2>7, <2>8, <2>9, <2>10, <2>11
          DEF RequestMoves
<1> QED BY <1>1, <1>2, <1>3, <1>4, <1>5, <1>6, StepKinds

\* A plugin that has a host keeps one.
LEMMA HostRemains ==
  ASSUME OInv, [RegistryNext]_registryVars, NEW n \in Names \ clashed',
         NEW p \in Range(hosts), Owner(p) = n
  PROVE  \E q \in Range(hosts') : Owner(q)' = n
<1>0. /\ None \notin Procs /\ WInv /\ n \in Names \ clashed
      /\ p \in Procs /\ Owner(p)' = n
  <2>1. p \in Procs /\ Life(p) # "unborn"
    BY DEF OInv, WInv, Shaped, Lived, Range
  <2> QED BY <2>1, Onward, BornStay, RegistryAssumption DEF Lasts, OInv
<1>1. CASE hosts' = hosts
  BY <1>0, <1>1
<1>2. ~ Booting
  BY <1>0 DEF OInv, Hosted
<1>3. ASSUME NEW r \in Requests, Placing(r) PROVE \E q \in Range(hosts') : Owner(q)' = n
  <2>1. PICK i \in DOMAIN hosts : p = hosts[i]
    BY DEF Range
  <2>2. /\ i \in DOMAIN hosts'
        /\ hosts'[i] = p \/ (p = HostOf(req[r].name) /\ hosts'[i] = req[r].new)
    BY <1>3, <2>1 DEF Placing, Takes
  <2>3. p = HostOf(req[r].name) => Owner(p) = req[r].name
    BY <1>0, HostFound DEF WInv
  <2>4. Owner(req[r].new) = req[r].name /\ proc' = proc
    BY <1>0, <1>3 DEF Placing, WInv, InHand, Fresh
  <2>5. hosts'[i] \in Range(hosts')
    BY <2>2 DEF Range
  <2> QED BY <1>0, <2>2, <2>3, <2>4, <2>5 DEF Owner
<1> QED BY <1>0, <1>1, <1>2, <1>3, TableMoves

LEMMA CrashHostedStep ==
  ASSUME OInv, CrashHosted, [RegistryNext]_registryVars
  PROVE  CrashHosted'
<1>0. WInv /\ clashed \subseteq clashed'
  BY Onward DEF OInv
<1> SUFFICES ASSUME NEW n \in Names \ clashed',
                    n \in crashSaid' \/ \E s \in Scans : n \in scan'[s].broken
             PROVE  \E p \in Range(hosts') : Owner(p)' = n
  BY DEF CrashHosted, Owner, Range
<1>1. CASE n \in crashSaid \/ \E s \in Scans : n \in scan[s].broken
  BY <1>0, <1>1, HostRemains DEF CrashHosted
<1>2. CASE /\ n \notin crashSaid /\ \A s \in Scans : n \notin scan[s].broken
  <2>1. PICK s \in Scans : /\ Scanned(s)
                           /\ \A z \in Scans \ {s} : scan'[z] = scan[z]
    BY <1>0, <1>2, CrashMoves
  <2>2. UNCHANGED <<hosts, proc>>
    BY <1>0, <2>1, ScanDoes DEF Aside
  <2>3. \/ UNCHANGED crashSaid /\ \A m \in scan'[s].broken : \E p \in Range(hosts) : Owner(p) = m
        \/ /\ scan'[s].broken \subseteq scan[s].broken
           /\ UNCHANGED crashSaid \/ ScanMark(s)
    BY <1>0, <2>1, ScanDoes
  <2>4. ScanMark(s) => crashSaid' \subseteq crashSaid \cup scan[s].broken
    BY DEF ScanMark
  <2> QED BY <1>2, <2>1, <2>2, <2>3, <2>4 DEF Owner
<1> QED BY <1>1, <1>2

LEMMA CrashToldStep ==
  ASSUME OInv, Single, CrashHosted, CrashTold, [RegistryNext]_registryVars
  PROVE  CrashTold'
<1>0. /\ WInv /\ clashed \subseteq clashed' /\ None \notin Procs
      /\ \A p \in Range(hosts) : /\ p \in Procs /\ Owner(p)' = Owner(p) /\ Owner(p) \in Names
                                 /\ Life(p) # "unborn"
  <2>1. \A p \in Range(hosts) : p \in Procs /\ Life(p) # "unborn" /\ Owner(p) \in Names
    BY DEF OInv, WInv, Shaped, Lived, Range
  <2> QED BY <2>1, Onward, BornStay, RegistryAssumption DEF Lasts, OInv
<1>1. crashSaid' \subseteq Names /\ cried' \subseteq Procs
  <2>1. ASSUME NEW s \in Scans, ScanMark(s)
        PROVE  crashSaid' \subseteq Names /\ cried' \subseteq Procs
    BY <1>0, <2>1 DEF ScanMark, CrashTold, WInv, Shaped, Scanning
  <2>2. ASSUME NEW s \in Scans, Scanned(s), ~ ScanMark(s) PROVE UNCHANGED <<crashSaid, cried>>
    BY <1>0, <2>2, ScanDoes
  <2> QED BY <1>0, <2>1, <2>2, CrashMoves DEF CrashTold
<1> SUFFICES ASSUME NEW p \in Range(hosts'), NEW n, n = Owner(p)', n \in crashSaid',
                    n \notin clashed', p \notin cried'
             PROVE  n \in spoilt'
  BY <1>1 DEF CrashTold, NoCrashSilenced, Owner, Range
<1>2. n \in Names \ clashed
  BY <1>0, <1>1
<1>3. ASSUME p \in Range(hosts), n \in crashSaid PROVE n \in spoilt \/ p \in cried
  BY <1>0, <1>2, <1>3 DEF CrashTold, NoCrashSilenced, Owner
<1>4. ASSUME NEW s \in Scans, Scanned(s) PROVE n \in spoilt'
  <2>0. p \in Range(hosts) /\ proc' = proc
    BY <1>0, <1>4, ScanDoes DEF Aside
  <2>1. CASE ~ ScanMark(s)
    <3>1. UNCHANGED <<crashSaid, cried>> /\ spoilt \subseteq spoilt'
      BY <1>0, <1>4, <2>1, ScanDoes
    <3> QED BY <1>3, <2>0, <3>1
  <2>2. CASE ScanMark(s)
    <3>1. n \in crashSaid => n \in spoilt \/ p \in cried
      BY <1>3, <2>0
    <3>2. p = HostOf(n) /\ p \in Procs
      BY <1>0, <1>2, <2>0, SingleHost DEF Owner
    <3>3. n \notin crashSaid => n \in scan[s].broken \ crashSaid
      BY <2>2 DEF ScanMark
    <3>4. n \notin crashSaid => p \in cried'
      BY <2>2, <3>2, <3>3 DEF ScanMark
    <3> QED BY <2>2, <3>1, <3>4 DEF ScanMark
  <2> QED BY <2>1, <2>2
<1>5. CASE hosts' = hosts
  <2>1. n \in crashSaid /\ cried' = cried /\ spoilt' = spoilt => n \in spoilt'
    BY <1>3, <1>5
  <2> QED BY <1>0, <1>4, <2>1, CrashMoves
<1>6. CASE /\ Booting /\ UNCHANGED <<crashSaid, scan>>
  <2>1. \E q \in Range(hosts) : Owner(q) = n
    BY <1>2, <1>6 DEF CrashHosted
  <2> QED BY <1>2, <1>6, <2>1 DEF OInv, Hosted
<1>7. ASSUME NEW r \in Requests, Placing(r), Swap(r) \/ Push(r) PROVE n \in spoilt'
  <2>1. /\ p \in Range(hosts) \/ p = req[r].new
        /\ Owner(req[r].new) = req[r].name /\ proc' = proc
    BY <1>0, <1>7 DEF Placing, Takes, WInv, InHand, Fresh
  <2>2. CASE Swap(r)
    <3>1. /\ crashSaid' = crashSaid \ {req[r].name} /\ UNCHANGED <<cried, spoilt>>
      BY <1>0, <2>2, SwapDoes
    <3>2. p \in Range(hosts)
      BY <2>1, <3>1 DEF Owner
    <3> QED BY <1>3, <3>1, <3>2
  <2>3. CASE Push(r)
    <3>1. req[r].pc = "push" /\ UNCHANGED <<crashSaid, cried, spoilt>>
      BY <1>0, <2>3, PushDoes
    <3>2. CASE p \in Range(hosts)
      BY <1>3, <3>1, <3>2
    <3>3. CASE n = req[r].name
      <4>1. HostOf(n) = None
        <5>1. req[r].kind = "load" /\ Serves(r, n)
          BY <1>7, <3>1, <3>3 DEF Placing, Serves
        <5> QED BY <1>2, <3>1, <5>1 DEF OInv, Kept
      <4>2. PICK q \in Range(hosts) : Owner(q) = n
        BY <1>2, <3>1 DEF CrashHosted
      <4>3. q = HostOf(n) /\ q \in Procs
        BY <1>0, <1>2, <4>2, SingleHost
      <4> QED BY <1>0, <4>1, <4>3
    <3> QED BY <2>1, <3>2, <3>3 DEF Owner
  <2> QED BY <1>7, <2>2, <2>3
<1> QED BY <1>0, <1>5, <1>6, <1>7, TableMoves

CInv == OInv /\ Single /\ CrashHosted /\ CrashTold

LEMMA CStarts == RegistryInit => CInv
<1> SUFFICES ASSUME RegistryInit PROVE CInv
  OBVIOUS
<1>1. OInv
  BY OStarts
<1>2. Range(hosts) = {} /\ crashSaid = {} /\ cried = {}
  BY DEF RegistryInit, Range
<1>3. \A s \in Scans : scan[s].broken = {}
  BY DEF RegistryInit
<1> QED BY <1>1, <1>2, <1>3 DEF CInv, Single, CrashHosted, CrashTold, NoCrashSilenced

\* NoCrashSilenced: the mark that keeps a crash from being announced twice stands for the
\* process that runs now, unless the plugin was replaced while a scan was about to announce
\* its crash, or two requests for it overlapped.  A plugin keeps a host once it has one, so
\* a mark set for it is cleared by the swap that replaces the host, and a plugin loaded
\* anew has no mark.
THEOREM EveryCrashHeard ==
  ASSUME DistinctNames PROVE RegistrySpec => []NoCrashSilenced
<1>1. RegistryInit => CInv
  BY CStarts
<1>2. CInv /\ [RegistryNext]_registryVars => CInv'
  BY WStep, ClashesStep, HostedStep, KeptStep, PlacedStep, SingleStep, CrashHostedStep,
     CrashToldStep DEF OInv, CInv
<1>3. CInv => NoCrashSilenced
  BY DEF CInv, CrashTold
<1> QED BY <1>1, <1>2, <1>3, PTL DEF RegistrySpec
=============================================================================
