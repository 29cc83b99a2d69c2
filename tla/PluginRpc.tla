------------------------------ MODULE PluginRpc ------------------------------
(***************************************************************************)
(* One plugin connection: the calls the host makes over the plugin's pipes  *)
(* (kn9t-plugin/src/host.rs) and the runner on the other side that answers   *)
(* them (kn9t-plugin-sdk/src/plugin.rs, ctx.rs).  A call is one host thread  *)
(* that checks the connection, registers a channel under its id, writes the  *)
(* hook, waits, and unregisters; one reader thread demultiplexes what the     *)
(* plugin prints.  The plugin runs each hook on a thread of its own, may       *)
(* stream chunks, may ask the host something in the middle, may panic, print   *)
(* garbage or die.                                                           *)
(*                                                                          *)
(* The table of pending calls is behind one mutex.  The reader keeps it while *)
(* it sends into a call's bounded channel, everybody else for one access.     *)
(* Everything the host writes goes into the plugin's stdin, a pipe of finite  *)
(* size, under one mutex: a write to a plugin that does not read blocks.       *)
(***************************************************************************)
EXTENDS Naturals, Sequences, FiniteSets

CONSTANTS
  Calls,       \* call ids, each used once (next_id is never reused)
  Streaming,   \* the calls made by call_streaming_cancellable
  Parent,      \* [Calls -> the call whose host request makes this one]
  NoCall,      \* the parent of a call that a turn makes by itself
  ChannelCap,  \* messages in a call's sync_channel; 32 in the code
  PipeCap,     \* messages that the plugin's stdin holds, a size of the system's
  MaxChunks,   \* bound: chunks that one call streams
  Cancelable   \* whether the plugin declared the capability

ASSUME ConstantsAssumption ==
  /\ IsFiniteSet(Calls) /\ NoCall \notin Calls
  /\ Streaming \subseteq Calls
  /\ Parent \in [Calls -> Calls \cup {NoCall}]
  /\ ChannelCap \in Nat \ {0} /\ PipeCap \in Nat \ {0}
  /\ MaxChunks \in Nat /\ Cancelable \in BOOLEAN

VARIABLES
  caller,     \* [Calls -> program counter of the host thread and its outcome]
  pending,    \* PluginHost::pending_calls: calls with a registered channel
  channel,    \* [Calls -> messages the caller has not received]
  reader,     \* the reader thread, and the calls it still has to send msg to
  unhealthy,  \* the connection is poisoned
  workers,    \* requests being served on a thread of their own
  toPlugin,   \* the plugin's stdin
  toHost,     \* the plugin's stdout
  task,       \* [Calls -> the plugin's thread for the call]
  token,      \* calls whose CancelToken is set
  asked,      \* [Calls -> the one host request of the task]
  alive       \* the plugin process runs

vars == <<caller, pending, channel, reader, unhealthy, workers, toPlugin,
          toHost, task, token, asked, alive>>
hostVars == <<caller, pending, channel, reader, unhealthy, workers>>
pluginVars == <<task, token, asked, alive>>

-----------------------------------------------------------------------------
Outcomes == {"none", "ok", "failed", "timeout", "cancelled", "refused", "unsent"}
InFlight == {"registered", "waiting", "cancelling", "leaving"}
Msg(t, c) == [t |-> t, c |-> c]
Garbage == Msg("garbage", NoCall)

Goto(c, pc) == caller' = [caller EXCEPT ![c].pc = pc]
Leave(c, pc, out) == caller' = [caller EXCEPT ![c] = [pc |-> pc, out |-> out]]

\* write_host_msg waits for room in the pipe, with the writers' mutex in hand, so that
\* everybody else who writes waits with it; the write to a dead process fails.
write_host_msg(m) == IF alive THEN /\ Len(toPlugin) < PipeCap
                                   /\ toPlugin' = Append(toPlugin, m)
                              ELSE UNCHANGED toPlugin

\* The plugin's writes may block just so; of its steps nothing is assumed anyway.
write_plugin(m) == toHost' = Append(toHost, m)

\* Only the reader holds the mutex over pending across steps.
LockFree == reader.to = {}

Init ==
  /\ caller = [c \in Calls |-> [pc |-> "idle", out |-> "none"]]
  /\ pending = {}
  /\ channel = [c \in Calls |-> <<>>]
  /\ reader = [pc |-> "reading", msg |-> "none", to |-> {}]
  /\ unhealthy = FALSE
  /\ workers = {}
  /\ toPlugin = <<>>
  /\ toHost = <<>>
  /\ task = [c \in Calls |-> [pc |-> "none", chunks |-> 0]]
  /\ token = {}
  /\ asked = [c \in Calls |-> "no"]
  /\ alive = TRUE

-----------------------------------------------------------------------------
(* The host thread of a call.                                               *)

check_healthy(c) ==
  /\ caller[c].pc = "idle"
  /\ Parent[c] # NoCall => Parent[c] \in workers
  /\ IF unhealthy THEN Leave(c, "done", "refused") ELSE Goto(c, "checked")
  /\ UNCHANGED <<pending, channel, reader, unhealthy, workers, toPlugin, toHost,
                 pluginVars>>

register_call(c) ==
  /\ caller[c].pc = "checked"
  /\ LockFree
  /\ pending' = pending \cup {c}
  /\ Goto(c, "registered")
  /\ UNCHANGED <<channel, reader, unhealthy, workers, toPlugin, toHost, pluginVars>>

\* No deadline runs yet, and no Cancel is looked at.
SendHook(c) ==
  /\ caller[c].pc = "registered"
  /\ IF alive THEN Goto(c, "waiting") ELSE Leave(c, "leaving", "unsent")
  /\ write_host_msg(Msg("hook", c))
  /\ UNCHANGED <<pending, channel, reader, unhealthy, workers, toHost, pluginVars>>

\* rx.recv_timeout: a chunk goes to on_chunk, the rest ends the wait.
Receive(c) ==
  /\ caller[c].pc = "waiting"
  /\ channel[c] # <<>>
  /\ channel' = [channel EXCEPT ![c] = Tail(@)]
  /\ CASE Head(channel[c]) = "chunk" -> UNCHANGED caller
       [] Head(channel[c]) = "final" -> Leave(c, "leaving", "ok")
       [] Head(channel[c]) = "err"   -> Leave(c, "leaving", "failed")
  /\ UNCHANGED <<pending, reader, unhealthy, workers, toPlugin, toHost, pluginVars>>

\* Slip: no deadline, the wait relies on the channel being disconnected.
SlipTimeOut(c) == FALSE /\ UNCHANGED vars

\* The deadline is looked at before the channel, so it may pass at any time.
TimeOut(c) ==
  /\ caller[c].pc = "waiting"
  /\ Leave(c, "leaving", "timeout")
  /\ UNCHANGED <<pending, channel, reader, unhealthy, workers, toPlugin, toHost,
                 pluginVars>>

\* The turn's Cancel has fired: the wait is over, and with it the deadline.
NoticeCancel(c) ==
  /\ caller[c].pc = "waiting" /\ c \in Streaming
  /\ Goto(c, "cancelling")
  /\ UNCHANGED <<pending, channel, reader, unhealthy, workers, toPlugin, toHost,
                 pluginVars>>

\* The plugin hears of it if it wants to.
cancel_call(c) ==
  /\ caller[c].pc = "cancelling"
  /\ Leave(c, "leaving", "cancelled")
  /\ IF Cancelable THEN write_host_msg(Msg("cancel", c)) ELSE UNCHANGED toPlugin
  /\ UNCHANGED <<pending, channel, reader, unhealthy, workers, toHost, pluginVars>>

\* The receiver is dropped when the call returns, after this.
unregister_call(c) ==
  /\ caller[c].pc = "leaving"
  /\ LockFree
  /\ pending' = pending \ {c}
  /\ channel' = [channel EXCEPT ![c] = <<>>]
  /\ Goto(c, "done")
  /\ UNCHANGED <<reader, unhealthy, workers, toPlugin, toHost, pluginVars>>

-----------------------------------------------------------------------------
(* The host's reader thread.                                                *)

Reading(t) ==
  /\ reader.pc = "reading" /\ LockFree
  /\ toHost # <<>> /\ Head(toHost).t = t
  /\ toHost' = Tail(toHost)

\* A result or a chunk: look the call up under the lock, and keep the lock.
ReadReply(t) ==
  /\ t \in {"chunk", "final"}
  /\ Reading(t)
  /\ reader' = [reader EXCEPT !.msg = t, !.to = {Head(toHost).c} \cap pending]
  /\ UNCHANGED <<caller, pending, channel, unhealthy, workers, toPlugin, pluginVars>>

\* Slip: the send gives up on a full channel.
SlipReaderSend(c) ==
  /\ c \in reader.to
  /\ channel' = [channel EXCEPT ![c] = IF Len(@) < ChannelCap
                                         THEN Append(@, reader.msg) ELSE @]
  /\ reader' = [reader EXCEPT !.to = @ \ {c}]
  /\ UNCHANGED <<caller, pending, unhealthy, workers, toPlugin, toHost, pluginVars>>

\* tx.send blocks while the channel is full.
ReaderSend(c) ==
  /\ c \in reader.to
  /\ Len(channel[c]) < ChannelCap
  /\ channel' = [channel EXCEPT ![c] = Append(@, reader.msg)]
  /\ reader' = [reader EXCEPT !.to = @ \ {c}]
  /\ UNCHANGED <<caller, pending, unhealthy, workers, toPlugin, toHost, pluginVars>>

\* A line that does not parse: first the flag, then every pending call.
ReadGarbage ==
  /\ Reading("garbage")
  /\ unhealthy' = TRUE
  /\ reader' = [reader EXCEPT !.pc = "poisoning"]
  /\ UNCHANGED <<caller, pending, channel, workers, toPlugin, pluginVars>>

FailPending ==
  /\ reader.pc = "poisoning"
  /\ reader' = [pc |-> "ended", msg |-> "err", to |-> pending]
  /\ UNCHANGED <<caller, pending, channel, unhealthy, workers, toPlugin, toHost,
                 pluginVars>>

\* A key-value request is served by the reader, an API request by a thread.
ReadKv ==
  /\ Reading("kv")
  /\ write_host_msg(Msg("reply", Head(toHost).c))
  /\ UNCHANGED <<hostVars, pluginVars>>

ReadRequest ==
  /\ Reading("request")
  /\ workers' = workers \cup {Head(toHost).c}
  /\ UNCHANGED <<caller, pending, channel, reader, unhealthy, toPlugin, pluginVars>>

\* The operation returns, fails or panics: each is one reply.  It may itself
\* have called the plugin, and then waits for that call.
WorkerReplies(c) ==
  /\ c \in workers
  /\ \A d \in Calls : Parent[d] = c => caller[d].pc \in {"idle", "done"}
  /\ workers' = workers \ {c}
  /\ write_host_msg(Msg("reply", c))
  /\ UNCHANGED <<caller, pending, channel, reader, unhealthy, toHost, pluginVars>>

\* End of file: nobody is told, the senders stay in the table.
ReadEof ==
  /\ reader.pc = "reading" /\ LockFree
  /\ ~alive /\ toHost = <<>>
  /\ reader' = [reader EXCEPT !.pc = "ended"]
  /\ UNCHANGED <<caller, pending, channel, unhealthy, workers, toPlugin, toHost,
                 pluginVars>>

-----------------------------------------------------------------------------
(* The plugin: its main loop and one thread per hook.                       *)

Dispatching(t) ==
  /\ alive
  /\ toPlugin # <<>> /\ Head(toPlugin).t = t
  /\ toPlugin' = Tail(toPlugin)

DispatchHook ==
  /\ Dispatching("hook")
  /\ task' = [task EXCEPT ![Head(toPlugin).c].pc = "spawned"]
  /\ UNCHANGED <<token, asked, alive, toHost, hostVars>>

\* The token of a call is in the map from StartTask to FinishTask.
DispatchCancel ==
  /\ Dispatching("cancel")
  /\ token' = token \cup {c \in {Head(toPlugin).c} : task[c].pc = "running"}
  /\ UNCHANGED <<task, asked, alive, toHost, hostVars>>

\* A reply that comes after the time-out of its request finds no channel.
DispatchReply ==
  /\ Dispatching("reply")
  /\ asked' = [asked EXCEPT ![Head(toPlugin).c] = IF @ = "sent" THEN "answered" ELSE @]
  /\ UNCHANGED <<task, token, alive, toHost, hostVars>>

TaskAt(c, pc) == alive /\ task[c].pc = pc
Busy(c) == asked[c] = "sent"

StartTask(c) ==
  /\ TaskAt(c, "spawned")
  /\ task' = [task EXCEPT ![c].pc = "running"]
  /\ UNCHANGED <<token, asked, alive, toPlugin, toHost, hostVars>>

SendChunk(c) ==
  /\ TaskAt(c, "running") /\ ~Busy(c)
  /\ c \in Streaming /\ task[c].chunks < MaxChunks
  /\ task' = [task EXCEPT ![c].chunks = @ + 1]
  /\ write_plugin(Msg("chunk", c))
  /\ UNCHANGED <<token, asked, alive, toPlugin, hostVars>>

\* KvClient and HostApiClient: one blocking request of a tool, and its time-out.
AskHost(c, t) ==
  /\ TaskAt(c, "running") /\ asked[c] = "no"
  /\ c \in Streaming
  /\ asked' = [asked EXCEPT ![c] = "sent"]
  /\ write_plugin(Msg(t, c))
  /\ UNCHANGED <<task, token, alive, toPlugin, hostVars>>

AskKv(c) == AskHost(c, "kv")
AskApi(c) == AskHost(c, "request")

AskTimeOut(c) ==
  /\ alive /\ Busy(c)
  /\ asked' = [asked EXCEPT ![c] = "timeout"]
  /\ UNCHANGED <<task, token, alive, toPlugin, toHost, hostVars>>

\* The token leaves the map, then the answer is written.
FinishTask(c) ==
  /\ TaskAt(c, "running") /\ ~Busy(c)
  /\ task' = [task EXCEPT ![c].pc = "finished"]
  /\ UNCHANGED <<token, asked, alive, toPlugin, toHost, hostVars>>

AnswerCall(c) ==
  /\ TaskAt(c, "finished")
  /\ task' = [task EXCEPT ![c].pc = "answered"]
  /\ write_plugin(Msg("final", c))
  /\ UNCHANGED <<token, asked, alive, toPlugin, hostVars>>

\* A handler that panics ends its thread: no answer is written.
PanicTask(c) ==
  /\ TaskAt(c, "running") /\ ~Busy(c)
  /\ task' = [task EXCEPT ![c].pc = "panicked"]
  /\ UNCHANGED <<token, asked, alive, toPlugin, toHost, hostVars>>

\* A handler prints to stdout, once at most.
PrintGarbage ==
  /\ alive /\ ~unhealthy
  /\ \A i \in 1 .. Len(toHost) : toHost[i] # Garbage
  /\ \E c \in Calls : task[c].pc = "running"
  /\ write_plugin(Garbage)
  /\ UNCHANGED <<toPlugin, pluginVars, hostVars>>

Die ==
  /\ alive
  /\ alive' = FALSE
  /\ toPlugin' = <<>>
  /\ UNCHANGED <<task, token, asked, toHost, hostVars>>

-----------------------------------------------------------------------------
CallerStep(c) == \/ check_healthy(c) \/ register_call(c) \/ SendHook(c)
                 \/ Receive(c) \/ TimeOut(c) \/ NoticeCancel(c) \/ cancel_call(c)
                 \/ unregister_call(c)
ReaderStep == \/ \E t \in {"chunk", "final"} : ReadReply(t)
              \/ \E c \in Calls : ReaderSend(c)
              \/ ReadGarbage \/ FailPending \/ ReadKv \/ ReadRequest \/ ReadEof
PluginMain == DispatchHook \/ DispatchCancel \/ DispatchReply
TaskStep(c) == \/ StartTask(c) \/ SendChunk(c) \/ AskKv(c) \/ AskApi(c) \/ AskTimeOut(c)
               \/ FinishTask(c) \/ AnswerCall(c) \/ PanicTask(c)

Next == \/ \E c \in Calls : CallerStep(c) \/ WorkerReplies(c) \/ TaskStep(c)
        \/ ReaderStep \/ PluginMain \/ PrintGarbage \/ Die

Spec == Init /\ [][Next]_vars

\* The host's threads are scheduled: a call that waits takes what has come, or its
\* deadline passes.  Nothing is assumed of the plugin.
CallProgress(c) == \/ register_call(c) \/ SendHook(c) \/ Receive(c) \/ TimeOut(c)
                   \/ cancel_call(c) \/ unregister_call(c)
FairSpec == Spec /\ WF_vars(ReaderStep) /\ \A c \in Calls : WF_vars(CallProgress(c))

-----------------------------------------------------------------------------
TypeOK ==
  /\ caller \in [Calls -> [pc : {"idle", "checked", "done"} \cup InFlight, out : Outcomes]]
  /\ pending \subseteq Calls
  /\ channel \in [Calls -> Seq({"chunk", "final", "err"})]
  /\ \A c \in Calls : Len(channel[c]) <= ChannelCap
  /\ reader \in [pc : {"reading", "poisoning", "ended"},
                 msg : {"none", "chunk", "final", "err"}, to : SUBSET Calls]
  /\ unhealthy \in BOOLEAN /\ workers \subseteq Calls
  /\ toPlugin \in Seq([t : {"hook", "cancel", "reply"}, c : Calls])
  /\ toHost \in Seq([t : {"chunk", "final", "kv", "request"}, c : Calls] \cup {Garbage})
  /\ task \in [Calls -> [pc : {"none", "spawned", "running", "finished", "answered",
                               "panicked"}, chunks : 0 .. MaxChunks]]
  /\ token \subseteq Calls
  /\ asked \in [Calls -> {"no", "sent", "answered", "timeout"}]
  /\ alive \in BOOLEAN

Queued(q, t, c) == \E i \in 1 .. Len(q) : q[i] = Msg(t, c)
Received(c, m) == \E i \in 1 .. Len(channel[c]) : channel[c][i] = m

\* A waiting call is in the plugin's hands, or its answer is in the pipe, in the
\* reader's hands or in the channel.
CallIsSomewhere(c) ==
  \/ Queued(toPlugin, "hook", c)
  \/ task[c].pc \in {"spawned", "running", "finished", "panicked"}
  \/ Queued(toHost, "final", c)
  \/ c \in reader.to /\ reader.msg = "final"
  \/ Received(c, "final")

\* What the plugin has asked is on the way, being worked on, or answered.
RequestIsSomewhere(c) ==
  \/ Queued(toHost, "kv", c) \/ Queued(toHost, "request", c)
  \/ c \in workers
  \/ Queued(toPlugin, "reply", c)

\* No call of the host and no request of the plugin is lost in either direction,
\* however early the answer comes (begin_call registers before it writes) and
\* also when an operation panics on its worker thread; except after the plugin's
\* death or the end of the reader.
NothingLost ==
  \A c \in Calls : alive /\ reader.pc = "reading" =>
    /\ caller[c].pc = "waiting" => CallIsSomewhere(c)
    /\ asked[c] = "sent" => RequestIsSomewhere(c)

\* The reader holds the table's lock and waits for room in the channel of a call
\* that will not read again, and that call waits for the lock, or soon will.
Wedged == \E c \in reader.to : /\ caller[c].pc \in {"cancelling", "leaving"}
                              /\ Len(channel[c]) = ChannelCap

\* The call writes, and the plugin lives and does not read: no deadline ends that.
Blocked(c) == alive /\ Len(toPlugin) = PipeCap /\ caller[c].pc \in {"registered", "cancelling"}

\* Every call of every session returns (each id is used once), whether the plugin
\* answers, panics, prints garbage or dies; but for the two ways in which it can fail
\* to: the connection is wedged, or the call is blocked in its own write.
EveryCallReturns ==
  <>[](Wedged \/ \A c \in Calls : caller[c].pc \in {"idle", "done"} \/ Blocked(c))

\* spec/08-plugin.md:109-110, "a slow hook is cut at its budget": also one to a plugin
\* that does not read.  In the code the budget starts when the hook has been written.
HookCutAtBudget == <>[](Wedged \/ \A c \in Calls : caller[c].pc \in {"idle", "done"})
=============================================================================
