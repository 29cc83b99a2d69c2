# A verification development for kn9t

kn9t is a coding agent built as a local server: clients (a terminal UI, a command line) talk
HTTP to `kn9t-server`, which keeps every session as an append-only event log in SQLite, runs the
model's turns on background threads, streams what happens over SSE, and calls plugins (tools,
providers, compactors, policies) over pipes. This directory holds TLA+ modules of the server's
core, the TLC configurations that check them on small instances, and TLAPS proofs of what holds
for every instance.

Paths below are relative to `src/crates/` unless they start with `src/`.

## 1. Inventory

| Component | Code | State it keeps | Operations | Talks to |
|---|---|---|---|---|
| Turn registry | `kn9t-server/src/turn.rs`, `state.rs`, `bus.rs`, `routes/session.rs` | `aborts` (session -> turn id, Cancel), `next_turn_id`, `running_turns`, `pending_steering` | prompt, steer, compact, abort; register, release, Drop; TurnFinishing | store (appends), bus (events), one OS thread per turn |
| Session store | `kn9t-store` | tables sessions, events, messages, blobs (counts), one connection behind a mutex, a write-ahead log | create, append, fork, fork empty, delete, plan, reproject, open | everything that appends; the echo goes to the bus |
| Event bus, SSE attach | `kn9t-core/src/bus.rs`, `kn9t-server/src/sse.rs`, `router.rs` | a ring per subscriber, a `dropped` mark, an attach in progress | publish, subscribe, prelude, live loop | store (backlog), client |
| Write lease | `kn9t-server/src/lease.rs`, `router.rs` | holder token and last activity per session | acquire, takeover, holds, touch, release | streams (heartbeat), write routes |
| Idle exit | `kn9t-server/src/state.rs`, `lib.rs` | attached clients, running turns, last activity | counts, watchdog every 200 ms | every route, turn and attach thread |
| ReAct loop | `kn9t-react` | round, cancellation, tool batch | stream, run tools, steer, compact, end | provider, tools, store, bus |
| Compaction | `kn9t-store/src/plan.rs`, `kn9t-server/src/turn.rs`, `kn9t-react/src/exec.rs` | the span being summarised | plan, summarise (plugin), append Compacted | store, plugin |
| Plugin host | `kn9t-plugin` | pending calls (channels of 32), writer, reader thread, health | call, stream, cancel, event, shutdown | child process |
| Host API, sub-agents | `kn9t-server/src/host_api.rs` | fork budget, nested turns | session create, fork, prompt; provider, tool, UI calls | turn registry, store, plugins |
| Approvals, interactions | `kn9t-server/src/policy.rs`, `interaction.rs` | slots with a condition variable, cache of decisions, its file | ask, answer, time out, abort | tool calls, clients |
| Plugin lifecycle | `kn9t-server/src/state.rs`, `tools.rs`, `main.rs` | hosts, tool registry, stopped plugins, announced crashes | start-up, stop, start, reload, load, declare, health scan | child processes, turns, clients |
| Server start and end | `kn9t-server/src/spawn.rs`, `main.rs`, `lib.rs`, `kn9t/src/main.rs` | port file, token file, spawn lock | ensure server, bind, serve, stop | clients, the file system |
| Config reload | `kn9t-server/src/watch.rs`, `config.rs`, `state.rs` | last mtime, pending reload, provider tables | observe, reload, resolve a model | provider processes, turns |
| Providers | `kn9t-provider-core`, `-openai`, `-replay` | none that outlives a call, but a retry count | stream, assemble, retry | network |
| Terminal client | `kn9t-tui` | `last_seq`, lease, prompt queue, transcript | enter, leave, prompt, steer, reconnect | server |
| Command line, bundled plugins, SDK | `kn9t`, `src/plugins`, `kn9t-plugin-sdk` | a read map in kn9t-tools | one-shot requests; tools | server |

How a prompt travels: the route checks the lease (`router.rs`), checks the registry, stores the
images, appends the user message, and spawns a thread. The thread registers its turn, composes the
loop, and appends a message for every answer, tool call and result; each append commits, then is
echoed on the session's bus; each subscriber's ring is drained by an SSE thread. At the end the
loop publishes TurnFinishing, which releases the registration through the sink, and then
TurnEnded, upon which a client may prompt again.

What is hard about it: a route's check and the thread's claim are far apart; a registration can be
released from three places; commit and echo are two steps; an attach reads the log while it is
being written; a connection ends long before the server knows; a compaction is planned in one
request and applied by another thread; a process killed in a tool call leaves half a conversation;
one connection serves every session, so an error path that forgets a transaction is everybody's.

What makes each correct:

- turn registry: a registration never outlives its thread, a thread never outlives its
  registration unseen, nobody is refused because of a turn that is over, tool results directly
  follow their calls;
- store: no gap in the log, projection = replay, acknowledged = durable, forks and compactions
  preserve what the model is told, an image lives as long as a reference to it;
- attach: a client sees the log in order without holes, or is told where its knowledge ends;
- lease: one writer; an attached one is not robbed, a vanished one does not block;
- idle exit: never in mid-turn, never before the linger time, eventually;
- ReAct loop: one result for every call, in order, whatever fails or is aborted;
- plugin host: a late or lost answer harms its own call only, nobody waits for ever;
- sub-agents: a nested turn ends, and never cancels the turn that asked for it; an abort of that turn
  reaches it; the fork budget holds;
- approvals: no answer is permission; the answer given is the one applied;
- plugin lifecycle: a plugin is refused exactly when it is stopped, no process without a host, the
  tools shown are those last declared;
- config reload: a turn never resolves a dead provider, no process leaks, the last edit wins;
- server start: one server, whose token its clients read.

## 2. Plan

The modules in the order in which they were written, the most important behaviour first.

| Module | Composes / refines | Section | Theorems |
|---|---|---|---|
| `TurnRegistry` | routes, turn threads, clients | 3.1 | types, slot ownership, idle count; every safety property of the careful client |
| `SessionStore` | - | 3.2 | all its safety properties |
| `SseAttach` | refines `EventStream` | 3.3 | types, `ResumeSafe`, `TransientsTrail`, and the refinement of `EventStream` |
| `WriteLease` | router, streams, clients | 3.4 | all its safety properties |
| `PluginRpc` | both ends of a connection | 3.5 | types, `NothingLost` |
| `SubAgent` | `PluginRpc` and the turns at both ends | 3.5 | types, `OnlyAbortCancelsParent`, the slots of sub-agents, and that it implements `PluginRpc` |
| `ReactLoop` | loop, tool threads, user | 3.6 | types, all its safety properties |
| `Approvals` | askers and answers | 3.7 | `OnlyUsersPermit` |
| `PluginRegistry` | requests, start-up, scans | 3.8 | all its safety properties |
| `ConfigReload` | watcher, requests, turns | 3.9 | types, `ResolvesAlive`, `NoLeak` |
| `ServerLife` | clients of both kinds, servers | 3.10 | types, all its safety properties, the exact count of clients |

Left to write: the prompt queue of the terminal client, and the message assembly of the providers
as pure operators. Section 6 says where they stand.

Every module has its parameters as CONSTANTS under a named ASSUME, one action per operation or
critical section, sets and functions in place of recursion, and its invariants as named conjuncts.
Every module has a type invariant (`TypeOK`, `AskTypeOK`, `RegistryTypeOK`), which holds on the
instance of its run; the runs spend their time on the other properties. `SubAgent`, `Approvals` and
`PluginRegistry` name their specifications apart (`AgentSpec`, `AskSpec`, `RegistrySpec`), so that
one module of proofs can extend two of the components.

## 3. What is modelled

### 3.1 TurnRegistry

State: `aborts`, `nextTurnId`, `cancelled`, `runningTurns`, `pendingSteering` as in `ServerState`;
`worker`, the background threads with a program counter; `request`, the HTTP threads; `log`, the
messages that matter for order; `client`, what an attached client believes.

One action is one critical section. `PromptGate`/`PromptAccept`, `SteerGate`/`SteerQueue`/
`SteerAppend`, `CompactGate`/`CompactAccept` are the routes; `Claim` and `Count` are
`TurnSlot::register`; `Compose` to `PublishEnded` are `spawn_turn` and `ReactLoop::run`;
`FinishLook`/`FinishRelease` are the sink's reaction to TurnFinishing (it asks whose turn is
registered, then releases that one); `DropRelease`/`DropCount` are the slot's Drop; `Panic`
unwinds; `CompactDone`/`CompactFails` are `spawn_compact`. `ClientRule` chooses the clients: `"any"`
sends what it likes, `"careful"` has one prompt or compaction outstanding and steers after
TurnStarted, `"TUI"` is the shipped client.

| Run | Bounds | Shows |
|---|---|---|
| `turns_any` | 1 session, 2 threads, 3 requests, 1 round | a registration always belongs to a live thread that will drop it (`SlotHasLiveOwner`); the idle count is the number of threads between register and Drop (`IdleCountExact`) |
| `turns_careful` | 2 threads, 3 requests, 2 rounds | with a client that waits: while its turn runs the server knows it (`RunningTurnKnown`), results follow their calls whatever is steered (`CallAnsweredNext`), a prompt sent upon TurnEnded is not refused (`NoSpurious409`), nothing is appended between a compaction's plan and its application (`CompactionUnraced`) |

Sessions share nothing here but `nextTurnId` and the idle count, so one session with two or three
threads holds every race; two rounds are the least in which a steer can be drained after results
and another queued. No liveness is stated: no step of a turn's thread waits for another's, so that
each thread ends is the scheduler's promise and nothing the registry does could break it; what can
keep a turn from ending is inside the loop, and `CancelEndsRun` of ReactLoop is about that.

Simplifications: a model is configured, appends succeed, plugins are ready (the start-up gate is a
plain wait), in-loop compaction is left to ReactLoop, and sub-agents do not occur.
`MCTurnRegistry_finish.cfg` and `MCTurnRegistry_steer.cfg` reproduce two disagreements (section 5).

### 3.2 SessionStore

`db` is what the connection sees and `disk` what a restart finds; they differ while a transaction
is left open (`openTx`). Every message has an identity, and a summary carries the identities it
stands for, which lets a property say what the model would still be told. `append` covers
`session.rs` and the projection of `project.rs`, including the error return that leaves the
transaction open; `PlanCompaction`/`AppendCompacted` are the two halves of a compaction, `AppendCall`/
`AppendResult` of a tool call, `put_blob`/`AppendText` of a prompt with an image. What a thread has in
hand between two halves is in `calls`, `spans` and `uploads`, of which a session may have any number
at once, and `GiveUp` is the end of a thread in the middle. Nothing keeps the halves of one thread
from those of another: the store has no such guard, and the routes append prompts and steers beside a
turn's thread. `mixed` remembers in which sessions that mattered: something was told to them, or a
compaction of them planned, while a call was unanswered or a compaction under way, or they were
forked from one of those. `CallAnsweredNext` and `CompactionUnraced` of TurnRegistry say that a
careful client never brings that about. A call stands for the calls of one assistant message, whose
results are one message too (`turn.rs:206-221`).
`fork_session` copies, renumbers and remaps; `delete_session` counts blobs down and collects;
`Restart` loses what was not committed, with or without a rebuild of the projection.

| Run | Bounds | Shows |
|---|---|---|
| `store` | 2 sessions, 1 blob, 4 events and images, any writers | the table of messages is the replay of the log (`MessagesAreReplay`); what was acknowledged survives a kill (`AckedDurable`); every message is told to the model, itself or in a summary (`NothingForgotten`); a fork tells the model what its origin told it at that point (`ForkFaithful`); a plan has every call next to its result, in the sessions that are not `mixed` (`PlanWellFormed`) |

Two sessions are an origin and its fork, or a victim and a bystander; four events make room for a
call, its result and a compaction over them, also after a fork (copies are not counted by the
bound), or for two compactions planned over the same messages. All operations take the one mutex, so
each is one action; a plan is one action as well.
`Careful` says that nobody writes to a session that is deleted or being deleted. The server does
not enforce that: `MCSessionStore_wedge.cfg` drops it (section 5), as `MCSessionStore_manual.cfg`
drops the assumption that a span is planned on the list it indexes, and `MCSessionStore_blobs.cfg`
checks the blob counts. `PlanWellFormed` excepts the mixed sessions because it must: a steer may be
appended between a call and its result. While the call is open a plan closes it in place; once its
result is there it stands behind the steer, and nothing repairs that (`MCSessionStore_between.cfg`).
The other four properties make no exception.

### 3.3 SseAttach and EventStream

`EventStream` is the promise: a client's set of seen events grows with the log; it is a prefix of
it, unless the client's ring has overflowed. `SseAttach` is the code: `Commit` and `Echo` are the
two halves of an append, `Emit` a transient such as TurnEnded, `Subscribe`, `ReadBacklog`,
`FlushOne`, `FlushDone` the prelude, `WriteFrame`, `GoLive`, `Forward` the socket, `Disconnect` the
loss of it at any point, `EnterSession` the client's snapshot. It implements `EventStream` under the
mapping in the module, checked as a PROPERTY.

| Run | Bounds | Shows |
|---|---|---|
| `attach` | 1 client, ring of 2, 4 events, 2 transients, 3 connections, fairness | the stream implements the promise, no hole but after an overflow (`ImplementsEventStream`); a cursor never lies beyond a hole (`ResumeSafe`); who sees a transient such as TurnEnded has seen what came before it (`TransientsTrail`); an event reaches everybody who stays (`EventuallyShown`) |

Clients share nothing but the log, so one is enough; a ring of two overflows within the bounds;
three connections let a client resume from a resumed cursor. `Serial = TRUE` has one writer at a
time, as a turn is; with two, echoes may be published in another order than commits and a client
that reconnects in between skips an event: `ImplementsEventStream` fails, `ResumeSafe` and
`EventuallyShown` still hold. Fairness: an
append that has committed goes on to its echo, and a stream thread keeps running.

Left out: `live_partial` (never written by the server), heartbeats (in WriteLease), the closing of
a bus when its session is deleted. `MCSseAttach_dup.cfg` reproduces a disagreement (section 5).

### 3.4 WriteLease

One session's lease, its clients and the stream threads that own it. Time moves in ticks, of which
`IdleTicks` make the idle timeout, and a tick passes only when every stream thread has woken in it
(15 seconds against five minutes). `acquire` is POST /lease, by a client that has reset its last
session; `lease_release` the reset; `AcceptWrite`/`RefuseWrite` the router's check of a [lease
required] route; `OpenStream` a first stream or a reconnection; `Heartbeat`, `LoseConnection`,
`EndStream` the life of its thread; `Crash` the end of a client.

| Run | Bounds | Shows |
|---|---|---|
| `lease` | 2 clients, timeout of 2 ticks, 3 tokens, 2 streams, fairness | accepted writes come from ever newer holders, so nobody writes after a later holder has (`WritersSucceed`); the lease of an attached client is not taken without force (`NoSilentSteal`) and still answers to it (`AttachedKeepsLease`); that of a vanished one comes free (`AbandonedLeaseFrees`) |

Three tokens are a holder, the thief and the holder's return; two streams are the old connection
and the new one, or one of each client. Fairness: time passes, a thread wakes for its heartbeat,
and a thread whose client is gone has a write fail.

`NoSilentSteal` and `AttachedKeepsLease` speak of streams opened with a lease that was refreshed in
the last tick: opening a stream does not refresh the lease, so one opened on an old lease may lose
it before its first heartbeat. The second speaks of a client with a single stream, because of
what `MCWriteLease_reconnect.cfg` reproduces (section 5).

### 3.5 PluginRpc and SubAgent

Both ends of one plugin connection. `caller` are the host threads of `begin_call`,
`wait_on_channel` and `call_streaming_cancellable` (`check_healthy`, `register_call`, `SendHook`, `Receive`, `TimeOut`, `cancel_call`,
`unregister_call`); `pending` is the table of channels behind its mutex; `reader` is the reader
thread, which takes a line (`ReadReply`, `ReadGarbage`, `ReadKv`, `ReadRequest`, `ReadEof`) and
sends into a bounded channel while it holds the table (`ReaderSend` blocks when it is full).
`write_host_msg` is the one way to the plugin, from the callers, the reader (`ReadKv`) and the
`workers`: the plugin's stdin is a pipe of `PipeCap` messages, and a write waits for room in it unless
the plugin is dead. A caller that has seen its Cancel (`NoticeCancel`) has that write ahead of it
before it leaves. The
`workers` serve host requests on threads of their own. On the other side `PluginMain` dispatches
what arrives and `TaskStep` is the SDK's thread for one hook: chunks, one request to the host, an
answer, or a panic. The plugin may print garbage or die at any time (`PrintGarbage`, `Die`). `Parent` lets a
host request call the plugin back, as a nested `tool_execute` does.

`SubAgent` composes the connection with the turns at both its ends. The outer turn makes the calls
without parent; the tool it runs may ask for `session_prompt`, and the worker that serves this
request runs a turn (`compose_loop`, `Register`, `EndRun`, `DropSlot`) whose hooks are calls to the
same plugin. `aborts` is the registry for two sessions, the outer turn's own and one it has forked;
a plugin may prompt either. The two helper threads are `Watchdog` (the deadline) and `Propagate`
(the Cancel that is observed); `abort` is POST /abort. A worker replies when its turn is over.

| Run | Bounds | Shows |
|---|---|---|
| `rpc` | a streaming call, its sub-agent in one of 2 sessions, one hook of that, channel of 1, pipe of 1, 1 chunk, fairness of the host | no call and no host request is lost (`NothingLost`); every call returns, whether the plugin answers, panics, prints garbage or dies, unless the connection is wedged or the call is blocked in its own write (`EveryCallReturns`); so does every sub-agent, with the outer turn over or the plugin dead (`SubAgentEnds`); the outer turn is cancelled by a client's abort only, never by a deadline of its sub-agent (`OnlyAbortCancelsParent`) |

A channel of one is full after one message, as the code's of 32 is after 32: what matters is
that the reader can find it full, and a chunk and a result do that. `Wedged` is that state: the
reader holds the table's lock and waits for room in the channel of a call that has timed out and
waits for the lock. `Blocked` is a caller in its write to a plugin that lives and does not read: the
hook has no deadline before it is written (`host.rs:690`), and neither it nor the Cancel that follows
it (`host.rs:868`) gives up. The code can reach both, so the liveness properties name them as the two
exceptions. `Blocked` is said of one call, not of the connection: a call whose hook has got
through returns, whoever else is blocked. A pipe of one message is full after one; what differs between sizes is only after how
many.

Fairness: the host's threads run, a deadline passes, and a run that is cancelled ends between two of
its calls (`CancelEndsRun` of ReactLoop); nothing is assumed of the plugin.
`MCPluginRpc_rpc.cfg` checks the connection alone with two chunks and a pipe of two,
`MCPluginRpc_clog.cfg` shows the call that its budget does not cut (section 5).

The run shows a call whose `check_healthy` precedes the poisoning and whose registration follows
it: nobody fails it, it waits for its deadline. It also has the sub-agent that prompts the outer
turn's own session and takes its registration over: from then on an abort of that session hits the
sub-agent alone, and its TurnFinishing leaves the outer turn unregistered. Not modelled: the
handshake, `shutdown` and events (`send_event`), which write to the same pipe, bytes lost when the reader's buffer is unwrapped after the handshake
(`host.rs:617`), the SDK's cancel that finds no token yet (`plugin.rs:246`), the check of a fork's
budget after the run.

### 3.6 ReactLoop

One run of the loop: `run` begins a round; `PlanRequest`, `run_compaction`, `Replan`,
`provider_attempt`, `AppendAnswer`, `ShouldStop` are an attempt, with the two retry budgets
(`truncN`, `replans`); `authorize` and `request_approval` judge each call; `Snapshot`, `Launch`,
`execute_one`, `ExecuteInline`, `InlineDone`, `InlinePanics`, `Collect`, `ThreadEnds` execute the
batch; `AppendResults` and `Steer` close the round. Hooks, the provider, the store and the tools
choose freely among what the code tells apart; `Cancel` may come at any step.

| Run | Bounds | Shows |
|---|---|---|
| `react` | 4 tools (parallel, serial, unknown, switched off), 2 calls in an answer, 2 rounds, 2 plugins, budgets of 1, fairness of the loop | results follow their calls, one each, in order (`CallsAnsweredInOrder`); a result says what happened to the call (`ResultsAreTrue`); a round without progress ends (`SpendBounded`); a cancel ends the run (`CancelEndsRun`) |

Two calls are the least with an order and with a parallel batch that is cut in the middle; each
tool stands for one way through `execute_batch`. Fairness: a stream, a hook, a store call, an
approval and an inline tool return, at the latest after a cancel; a parallel tool need not.

A plugin's Replace overrides an earlier plugin's Deny (`composed.rs`), which `before_tool_call`
keeps. Steering collected in the first round only rides along as a reminder and is not appended.
TurnRegistry has the same run with fewer steps and many turns; that it abstracts this module is
not checked.

### 3.7 Approvals

`asker` is the thread that asks (`request`, `Wake`, `GiveUp`, `remove`), `post` the thread of an
answer, step by step: `Look` finds the slot and writes it, `ReadMeta` takes the other lock,
`resolve_with_meta` to `approve_persistent` cache it, `ReadConfig` and `WriteConfig` rewrite the file. `Cancel` is the
abort of a turn, `Restart` loses everything but the file. `said` records what users have allowed.

| Run | Bounds | Shows |
|---|---|---|
| `approvals` | 2 approvals of one kind of call in two sessions, 1 interaction, 2 answers, 1 remembered approval, fairness of askers | a call is permitted only as far as a user has said so (`OnlyUsersPermit`); a question with a deadline ends, with nobody to answer or cancel it, and whichever way a question ends it leaves nothing behind (`EveryQuestionEnds`) |

Two answers to one question are a double click, and to two questions two always-approvals at
once: the second then rewrites the file without the first, which is lost at the next restart
(`policy.rs:188`). The code does not claim otherwise, and no property does. An answer that comes
at the deadline may be written and cached while the call is denied; it permits nothing that the
user did not allow. A lease of any session permits an answer (`router.rs:101`), hence any client may answer.

### 3.8 PluginRegistry

Every table of `ServerState` about plugins is a variable with its own lock: `hosts`, `registry`, `recipe`,
`stopped`, `crashSaid`. `boot` is `load_plugins_background`; `req` are request threads that stop,
start, reload or load a plugin (`Mark`, `Cut`, `Spawn`, `Collide`, `wire_new_host`, `Rebuild`,
`Swap`, `Record`, `Push`, `Clear`, `announce_plugin_state`); `declare` and `on_plugin_declare` are
a reader's callback; `ScanHosts`, `ScanMark` and `ScanTell` a turn's health check (it lists the broken
hosts, marks the new ones, and announces them one by one); `Poison` a crash. The start-up writes the
tools and then the hosts (`PublishTools`, `PublishHosts`: `main.rs:198`, `:199`), and a plugin may be
loaded in between. `heard` is the state of each plugin that clients were told last, a crash included.

| Run | Bounds | Shows |
|---|---|---|
| `plugins` | 2 plugins, one configured, 3 processes, 2 requests, 1 scan, 1 re-declaration, 2 tools of which a process says hello with the first | a plugin is refused exactly when it is stopped, and clients were told so, or that it crashed when its host is broken (`StateIsHonest`); no process runs without a host (`NoOrphan`); the model sees the tools last declared (`RegistryInStep`); a crash is not silenced by an older one's announcement (`NoCrashSilenced`) |

Two requests are the least that overlap; three processes are the configured plugin, its
replacement and a loaded one. One set of tools to say hello with (`Hellos`) is enough, since a re-declaration makes two; the
instance with two has passed as well (six million states). The properties are about plugins whose requests did not overlap, because two
requests for one plugin do break them (`state.rs:464`): a start clears the mark of a stop behind
it, the second of two reloads leaves the first's process behind, a request during start-up is
assigned over. History variables (`clashed`, `missed`, `unborn`, `spoilt`) name the exceptions one by
one; the model runs them all. `missed` covers a registry that is rebuilt between the start-up's two
writes, from hosts that are about to go (`Torn`): a plugin loaded there leaves its tools in the
registry and no host, `MCPluginRegistry_boot.cfg`. `spoilt` covers a plugin that was replaced while a
scan was about to announce its crash: it is said to have crashed and has not. A scan announces a
stopped plugin too, so that what clients heard last of it may be `crashed`. No liveness is stated: requests are finite code without waiting.

### 3.9 ConfigReload

`watcher` is the debouncer (`spawn_config_watcher`, `observe`), `thread` the reloads, of the watcher and
of POST /config/reload, in their steps `Read`, `resolve`, `SwapProviders`, `SwapProvider`,
`SwapModel`, `SwapHosts`, `Reap`: each swap is a lock of its own. A process is a generation and a
name. A turn picks a model, then resolves its provider (`PickModel`, `compose_loop`).

| Run | Bounds | Shows |
|---|---|---|
| `reload` | 2 providers, 5 contents of the file (among them one that does not parse and one that fails late), 2 edits, 1 requested reload, 1 turn, fairness | a name never resolves to a process shut down (`ResolvesAlive`); no process is leaked (`NoLeak`); the last edit comes into effect (`LastEditWins`) |

Two edits and a requested reload make reloads overlap; the histories `raced`, `unseen`, `headless`
and `stranded` name what the code does lose: a generation of processes when two reloads overlap, a
write before the watcher's first look, a fallback whose provider is gone (`state.rs:906`), the
processes of a reload that fails late. Fairness: the watcher polls and a reload ends.

### 3.10 ServerLife

Clients of two kinds reach a server: through `spawn::ensure_server` (`FastPath`, `acquire`,
`Recheck`, `DeleteStale`, `Spawn`, `Poll`, `TimeOut`, `ReadToken`), which only the crate's tests
call today, and through the program kn9t's own `ensure_server` (`ensure_home`, `ensure_server_cli`,
then the same spawn), which takes no lock. A server writes the token, binds, writes the port
(`WriteToken`, `Bind`, `WritePort`); its watchdog reads the counters, then the clock
(`ReadCounters`, `ReadClock`), its end closes the socket, removes the port file and exits
(`Deafen`, `RemovePort`, `Exit`). Clients and servers are killed at any step.

| Run | Bounds | Shows |
|---|---|---|
| `life` | 1 kn9t, 2 clients of the library, 2 servers | of the servers that were started under the lock and kept their port file one at most is up (`OneServer`); a client reads its server's token (`TokenFits`); the grace period is kept (`GraceKept`) |
| `life_together` (violation) | 2 kn9t, 1 client of the library | two clients that start together get two servers, which `spec/06-server.md:100` rules out |

Three clients are a holder of the lock, one that waits for it and one that takes none; two servers
are one and its rival or successor. `astray` marks a server that escaped the lock: started without it, given up on by its
starter, or robbed of its port file by its predecessor's exit (`main.rs:182`). A grace period is
one flag per server. `GraceKept` names the one window in which it is not kept: `client_detached`
decrements before it stamps the clock. Not modelled: the marker file that stands for the lock on Windows.

## 4. What is proved

Each proof module states its inductive invariants and why they are needed. `Plugins_proofs` holds
the connection, the sub-agents and the registry of plugins, `ClientRights_proofs` the write lease
and the approvals. Every theorem rests on the named ASSUME of its component's module (shapes of the
constants; finitely many threads, clients or readers where something is counted); what it needs
beyond that is in the last column. Of the passing runs every safety property is a theorem.

| Theorem | Statement | Needs |
|---|---|---|
| `TurnRegistry_proofs!SlotNeverOrphaned` | `[]SlotHasLiveOwner` | |
| `!IdleCountNeverDrifts`, `!TypeCorrect` | `[]IdleCountExact`, `[]TypeOK` | |
| `!RunningTurnRegistered`, `!ResultFollowsCall`, `!PromptAfterEndPasses`, `!CompactionFindsLogAsPlanned` | `[]RunningTurnKnown`, `[]CallAnsweredNext`, `[]NoSpurious409`, `[]CompactionUnraced` | the careful client |
| `!FinishIsScoped` | `FinishReleasesOwn`, which other clients violate (section 5) | same |
| `SessionStore_proofs!ProjectionIsReplay` | `[]MessagesAreReplay` | |
| `!AcknowledgedIsDurable` | `[]AckedDurable` | `Careful`: no write to a session being deleted |
| `!CompactionForgetsNothing`, `!CallsStayPaired`, `!ForksAreFaithful` | `[]NothingForgotten`, `[]PlanWellFormed`, `ForkFaithful` | `~ManualSpans`: spans come from `plan_request` |
| `SseAttach_proofs!CursorIsSafe`, `!TypeCorrect` | `[]ResumeSafe`, `[]TypeOK` | |
| `!TransientsNeverLead`, `!StreamImplementsPromise` | `[]TransientsTrail`, `ImplementsEventStream` | `Serial`: one writer at a time |
| `ClientRights_proofs!OneWriter`, `!NewestHolderWrites` | `[]SingleWriter`, `WritersSucceed` | |
| `!AttachedNotStolen`, `!AttachedClientCanWrite` | `NoSilentSteal`, `[]AttachedKeepsLease` | the timeout is worth two ticks |
| `!NoPermissionUnsaid` | `[]OnlyUsersPermit` | |
| `!LeaseTypeCorrect`, `!AskTypeCorrect` | `[]TypeOK` of `WriteLease`, `[]AskTypeOK` | |
| `Plugins_proofs!NoCallIsLost`, `!RpcTypeCorrect` | `[]NothingLost`, `[]TypeOK` of `PluginRpc` | |
| `!AgentImplementsRpc`, `!NestedCallsNotLost` | `AgentSpec => Spec`; so `AgentSpec => []NothingLost` | |
| `!ChildNeverCancelsParent`, `!NoSlotLeft`, `!AgentTypeCorrect` | `OnlyAbortCancelsParent`, `[]SlotsOwned`, `[]AgentTypeOK` | |
| `!RegistryFollows`, `!NoProcessOrphaned`, `!RegistryTypeCorrect` | `[]RegistryInStep`, `[]NoOrphan`, `[]RegistryTypeOK` | |
| `!StateToldIsState`, `!EveryCrashHeard` | `[]StateIsHonest`, `[]NoCrashSilenced` | `DistinctNames`: configured plugins declare different names |
| `ReactLoop_proofs!RoundIsBounded`, `!FatesAreTold`, `!CallsAnswered`, `!TypeCorrect` | `[]SpendBounded`, `[]ResultsAreTrue`, `[]CallsAnsweredInOrder`, `[]TypeOK` | |
| `ConfigReload_proofs!TablesNameTheLiving`, `!ReloadsLeakNothing`, `!TypeCorrect` | `[]ResolvesAlive`, `[]NoLeak`, `[]TypeOK` | |
| `ServerLife_proofs!LockLetsOneLive`, `!TokensFit`, `!GraceIsKept` | `[]OneServer`, `[]TokenFits`, `GraceKept` | |
| `!CountIsAttached`, `!TypeCorrect` | `[]Counted`, `[]TypeOK` | |

Where a theorem needs more than the code enforces, the runs of section 5 or the text of section 3
say what happens without it: `MCSessionStore_wedge.cfg` for `Careful`, `MCSessionStore_manual.cfg`
for `~ManualSpans`, `MCTurnRegistry_finish.cfg` for other clients. `DistinctNames` is such a need too:
`spawn_all_plugins` keeps every process (`tools.rs:433`), so two configured commands that declare
one name leave two hosts under it, of which every lifecycle operation finds the first. The code
does not compare names there; the run has one configured plugin.

*Registry.* A registration carries an id; the invariant says that ids of threads are distinct and
below `nextTurnId`, and that a registered id belongs to a thread still holding its slot. That is
why a release that compares ids, by whoever performs it, cannot orphan a registration. The idle count
needs finite sets: entering and leaving the counted threads changes their number by one, which is
where the type of `runningTurns` comes from too.

*The careful client.* Whatever a client has outstanding, as a request that was accepted, a thread
short of its TurnEnded or a turn that fell before it, is alone in its session, and the client knows
that it is not idle (`Orderly`: `OneRequest`, `AcceptedAlone`, `EngagedAlone`, `ClientWaits`,
`KeepsSlot`). Then nobody else appends (`AppendsUnmixed`), so the log ends as the thread at work
left it: at its call while the tools run, at the end of its span while it compacts (`LogOrderly`).

*Store.* Projection = replay is not inductive alone: a row a compaction deletes must not come back,
and a new event must lie beyond every range, so the invariant adds that every seq is at most the head
and that every log is finite, for the connection's view and for the committed one. Durability adds that no transaction is
open, that the two views are equal, and that a session of which somebody has something in hand is live.

*Compaction and forks.* Why nothing is forgotten is a fact of the log, not of the rows: every range
ends at rows, covers what it replaces and ends nowhere between a call and its result, and the last
event that covers a message is a row. Prefixes of such a log, and renumberings that keep its order,
are such logs again, and a fork is made of those two. That a cut exists at all is the least-number
principle. Writers do not take turns, so a span that was planned must stay applicable whatever is
appended and compacted before its summary arrives: it ends at a message, covers every message up to
there, and no later event undoes either (`Applicable`, `Fits`). In a session that is not mixed a call
in hand is the last message of its log, notes aside (`LastTold`), which is what pairs it with its
result, and no span in hand splits a pair.

*Attach.* An entry on its way to a client speaks of everything up to its reach. At every entry the
client will know, from what comes before it, all that the entry speaks of; and the whole covers what
has been echoed (`Covered`), so that the next entry is in the same position. One writer at a time
leaves one event at most committed and not yet echoed (`OneUnechoed`); two would be echoed in either
order. `ResumeSafe` has an invariant of its own that does without it. The refinement maps prelude,
ring, cursor and backlog to the one queue of `EventStream`; each step is a step of that or stutters.

*Lease.* Tokens are minted upwards, and only the last can be the session's; a lease whose owning
stream is up has age zero when the stream has woken in this tick and at most one when it has not;
the only stream of the last token still finds its lease.

*Approvals.* Everything on its way has been said: an answer a thread carries was sent by a user, one
that is being cached is an allowance, one on its way to the file an always-allowance, and so is all
the text read back from there (`Sent`); a slot holds an answer to its own question (`Heard`).

*Connection and sub-agents.* A call is in the table before its hook is written and until it has left
(`InTable`), so the reader finds it whenever its answer comes; with that, a message that leaves one
place of its way is at the next. Each step of a turn or of a
sub-agent is a step of `PluginRpc` or leaves the connection alone, so both invariants carry over; of
their own state the invariant is that a sub-agent is registered only for the session it was given,
and only while it runs (`SlotsOwned`).

*Plugins.* Two requests for one plugin can be under way, and then little is true of it, so most of the
invariant speaks of plugins that were never `clashed`. Of those: the one request that is served
finds its old process where it left it, the plugin's host in the table, and has told it to go before
it spawns the next (`Kept`); so a process that runs has its place (`Placed`), which is `NoOrphan`.
With distinct names there is one host per plugin (`Single`), the mark, the process and what clients
heard agree as far as the request has come (`Settled`, `Doing`, `BootHonest`), and a mark of a crash belongs to the host in the table
(`CrashHosted`). What a scan says is of the one host of a name, which is broken for good unless it is
replaced, and then the name is `spoilt` for good; so where clients heard `crashed` last, one of the two
holds (`Told`). `RegistryInStep` is apart from all that: hosts and the registry are written together,
so whatever leaves both alone keeps it, and a declaration that no callback will follow is `missed`. The
start-up alone writes them one after the other; between its writes the registry is that of the hosts
to come, or something is missed (`BootTold`).

*Loop.* Each provider call of a round that is over has been charged to one of its two budgets, and
when the store offered a span, planning has charged the call to come (`Charged`). Of a batch the
invariant says how far each pass has come and what that means for each call (`InHand`, `Judged`,
`Fates`, `Passed`); while a batch is in hand the answer it comes from is the last of the log.

*Reload.* Processes are numbered by the reload that starts them (`Numbered`); what a reload has
started is in no table yet, so no other has taken it from there to shut it down (`Untaken`), and
what a reload holds to be shut down is not what the tables it has swapped name now (`Spared`). This
is for any overlap. `NoLeak` is for reloads that do not overlap: those hand the table of hosts on.

*Server life.* A clean server (up, started under the lock, robbed of nothing) has its port in the
file, or its starter still waits for it under the lock (`Owned`); so who holds the lock and has found
no server knows that there is no clean one (`Guarded`), and the token in the file is the clean
server's, or that of one that has gone astray (`Tokened`). The grace period: after a client has left,
the clock is fresh or about to be touched (`Touched`). That the tracker counts exactly those who are
attached is an invariant by itself (`Counted`).

Only model-checked: the liveness properties, of which there are seven (`CancelEndsRun`,
`EventuallyShown`, `AbandonedLeaseFrees`, `EveryCallReturns`, `SubAgentEnds`, `EveryQuestionEnds`,
`LastEditWins`), because liveness and ENABLED are out of the prover's reach;
and `TypeOK` of `SessionStore`, of which the proofs have the parts they need: they leave open what
the fields of an event are taken from, so long as its seq is a number.

## 5. Disagreements found

`life_together` is a run of its own; PROJECT.json quotes the lines. The others are kept as
configurations, each with one property that TLC finds violated (`tlc -config X.cfg M`).

| Configuration | Property | What the code does |
|---|---|---|
| `MCTurnRegistry_finish.cfg` | `FinishReleasesOwn` | a TurnFinishing releases whatever turn is registered, not its own (`bus.rs:147`) |
| `MCTurnRegistry_steer.cfg` | `SteerDelivered` | a steer of the last round stays in the queue after the turn |
| `MCSessionStore_blobs.cfg` | `BlobsAlive` | a fork's images are not counted, so a deletion takes them |
| `MCSessionStore_wedge.cfg` | `AckedDurable` | an append to a missing session leaves the transaction open; what is acknowledged afterwards is lost by a kill |
| `MCSessionStore_manual.cfg` | `NothingForgotten` | a manual compaction plans on one list and indexes another |
| `MCSessionStore_between.cfg` | `CallsAlwaysPaired` | a steer that found no turn is appended between a call and its result (`routes/session.rs:341`), and the plan tells the call's true result apart from it |
| `MCPluginRpc_clog.cfg` | `HookCutAtBudget` | a hook to a plugin that does not read its stdin is not cut at its budget (`src/spec/08-plugin.md:109`): the deadline starts after the write (`host.rs:690`, `:868`) |
| `MCSubAgent_esc.cfg` | `ObservesParent` | a sub-agent observes the Cancel registered for the session it prompts, not that of the turn which asked (`host_api.rs:199`, `:218`, `docs/PLUGIN_DEVELOPMENT.md:627`) |
| `MCSseAttach_dup.cfg` | `NoDuplicate` | an event of the attach window can be delivered twice |
| `MCWriteLease_reconnect.cfg` | `StreamKeepsLease` | a reconnected client loses its lease to its own dead connection |
| `MCPluginRegistry_boot.cfg` | `ToolsHaveHosts` | the start-up does not update the state atomically (`main.rs:187`): a plugin loaded between its two writes (`main.rs:198`, `:199`) leaves tools without a host |
| `MCConfigReload_keeps.cfg` | `TurnKeepsProvider` | a reload shuts down the provider of a turn in flight, though a turn is said to keep its own (`state.rs:845`) |

Met while reading, in no run: `kn9t stop` says that turns in flight finish, the server exits at once
(`kn9t/src/cmd_stop.rs:1`, `kn9t-server/src/lib.rs:89`); session streams do not count as attached
clients, only GET /attach does (R-SRV-080); `register` of a compaction is said to make it
abortable, but its Cancel is never read (`turn.rs:964`); a run that ends without an answer, as a
cancelled one does, has `session_prompt` return the last assistant text of the session, however old
(`turn.rs:633`).

## 6. What is not modelled, and what is not claimed

PROJECT.json lists every component with its status. Not modelled, and why:

- the budget of a fork, which `run_session_turn` compares with what was spent only after the run
  (`turn.rs:609`): a comparison of two sums, with nothing to interleave;
- tool toggles: a set per session; the one hazard (a second toggle replaces the first's pending
  set, `turn.rs:369`) is sequential;
- the prompt queue and the reducer of the terminal client, and its rendering and editing: one
  thread. A prompt that meets a 409 goes back to that queue until the next TurnEnded (`app.rs:4207`);
  if the turn ended before the answer came, none follows. The server's half of it is `NoSpurious409`;
- message assembly, SSE parsing and retry delays of the providers, the encoding of requests:
  functions of one thread with no state that outlives a call;
- parsing of the configuration, test scaffolding, the tools of the bundled plugins: file and process I/O.

Most lines of the repository are of these kinds (rendering, widgets, encodings, configuration), so
the map covers a small share of all lines and most of those that keep shared state.

Not claimed of what is modelled: where a summary belongs among the messages kept behind it (it is
stored at the seq of its own event); that a blob is ever collected after a compaction drops its
last reference; that a fork inherits totals, toggles or handoffs; that a request accepted before a
takeover takes effect before it (the lease is checked, not held); that a hole in the live loop is
reported; that the thread of a closed bus's stream rests.

## 7. Conventions

`MC...` modules instantiate for TLC, `..._proofs` hold theorems. An operator `Slip...` is a mistake
a maintainer could make in the operator below it; each property of a passing run is violated with
one of them in place (PROJECT.json, "mutants"). `Max...` constants are bounds on counters and
nothing else.
