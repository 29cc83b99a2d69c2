----------------------------- MODULE ConfigReload -----------------------------
(***************************************************************************)
(* The configuration of a running server (kn9t-server/src/watch.rs,           *)
(* config.rs, state.rs): a thread polls the mtime of config.toml and reloads   *)
(* once a change has settled; POST /config/reload does the same on a thread of *)
(* its own.  A reload reads the file, starts the provider plugins it names,     *)
(* swaps its tables one lock at a time and shuts the replaced processes down.  *)
(* Meanwhile turns pick a model, and a provider for it, and keep them.          *)
(***************************************************************************)
EXTENDS Naturals, FiniteSets

CONSTANTS
  Names,      \* providers, each a plugin process
  Contents,   \* what may be in the file
  First,      \* what is in it at the start
  Manual,     \* threads of POST /config/reload, one request each
  Turns,      \* threads of turns
  MaxEdits,   \* bound on the writes of the file
  None

\* A content: whether it loads ("good"), fails to parse or is missing ("torn"), or fails
\* after its providers have been started ("late"); its providers, and the one whose
\* model is picked as the default.
Content == [load : {"good", "torn", "late"}, ps : SUBSET Names, default : Names \cup {None}]
ASSUME ContentsAssumption ==
  /\ Contents \subseteq Content /\ First \in Contents
  /\ First.load = "good" /\ First.default \in First.ps
  /\ None \notin Names /\ MaxEdits \in Nat /\ "watch" \notin Manual

Threads == Manual \cup {"watch"}

VARIABLES
  file, mtime,   \* config.toml: its content, and how often it has been written
  watcher,       \* the Debouncer: started, last_seen, pending
  thread,        \* [Threads -> a reload: where it is, what it read, its processes]
  gen,           \* reloads that have started processes so far: <<gen, name>> is a process
  providers,     \* [Names -> the gen of its process, 0: no such provider]
  provider,      \* the fallback: a process
  default_model, \* the provider of the default model
  provider_hosts,\* the processes that the next reload shuts down
  live,          \* the processes not told to shut down
  turn,          \* [Turns -> the thread of a turn]
  raced,         \* history: two reloads have overlapped
  unseen,        \* history: the last write was before the watcher looked, after the load
  headless,      \* history: a reload found no process for the default model
  stranded       \* history: the processes that a reload started before it failed

tables == <<providers, provider, default_model, provider_hosts>>
history == <<raced, unseen, headless, stranded>>
vars == <<file, mtime, watcher, thread, gen, tables, live, turn, history>>

-----------------------------------------------------------------------------
Procs(g, ps) == {<<g, p>> : p \in ps}
Idle == [pc |-> "idle", read |-> First, gen |-> 0, old |-> {}]

\* The server has loaded its configuration and has yet to start the watcher.
Init ==
  /\ file = First /\ mtime = 1
  /\ watcher = [on |-> FALSE, last_seen |-> 0, pending |-> 0]
  /\ thread = [t \in Threads |-> Idle]
  /\ gen = 1
  /\ providers = [p \in Names |-> IF p \in First.ps THEN 1 ELSE 0]
  /\ provider = <<1, First.default>> /\ default_model = First.default
  /\ provider_hosts = Procs(1, First.ps) /\ live = provider_hosts
  /\ turn = [t \in Turns |-> [pc |-> "idle", model |-> None, host |-> None]]
  /\ raced = FALSE /\ unseen = FALSE /\ headless = FALSE /\ stranded = {}

\* The file is written: by an editor, in one go or truncated first, or by the server
\* itself, for an always-approval or a change of the policy mode.
Edit ==
  /\ mtime <= MaxEdits
  /\ file' \in Contents /\ mtime' = mtime + 1
  /\ unseen' = ~watcher.on
  /\ UNCHANGED <<watcher, thread, gen, tables, live, turn, raced, headless, stranded>>

-----------------------------------------------------------------------------
(* The watcher.                                                              *)

spawn_config_watcher ==
  /\ ~watcher.on
  /\ watcher' = [on |-> TRUE, last_seen |-> mtime, pending |-> 0]
  /\ UNCHANGED <<file, mtime, thread, gen, tables, live, turn, history>>

Reloading(t) == thread[t].pc # "idle"
Start(t) == /\ thread' = [thread EXCEPT ![t].pc = "read"]
            /\ raced' = (raced \/ \E u \in Threads \ {t} : Reloading(u))

\* Slip: a change counts as seen when it is first noticed.
Slipobserve ==
  /\ watcher.on /\ ~Reloading("watch")
  /\ mtime # watcher.last_seen
  /\ IF mtime = watcher.pending
       THEN Start("watch") /\ watcher' = [watcher EXCEPT !.pending = 0, !.last_seen = mtime]
       ELSE /\ watcher' = [watcher EXCEPT !.pending = mtime, !.last_seen = mtime]
            /\ UNCHANGED <<thread, raced>>
  /\ UNCHANGED <<file, mtime, gen, tables, live, turn, unseen, headless, stranded>>

\* Every two seconds.  A change is armed, and acted on when the next look finds the
\* same mtime; the file itself is read later still.
observe ==
  /\ watcher.on /\ ~Reloading("watch")
  /\ watcher.pending # 0 \/ mtime # watcher.last_seen
  /\ IF mtime = watcher.pending
       THEN Start("watch") /\ watcher' = [watcher EXCEPT !.pending = 0, !.last_seen = mtime]
       ELSE watcher' = [watcher EXCEPT !.pending = mtime] /\ UNCHANGED <<thread, raced>>
  /\ UNCHANGED <<file, mtime, gen, tables, live, turn, unseen, headless, stranded>>

\* POST /config/reload.
post_reload(t) ==
  /\ t \in Manual /\ thread[t] = Idle
  /\ Start(t)
  /\ UNCHANGED <<file, mtime, watcher, gen, tables, live, turn, unseen, headless, stranded>>

-----------------------------------------------------------------------------
(* reload_config, on thread t.                                               *)

At(t, pc) == thread[t].pc = pc
Then(t, pc) == thread' = [thread EXCEPT ![t].pc = pc]
Over(t) == thread' = [thread EXCEPT ![t] = [Idle EXCEPT !.old = {None}]]

Read(t) ==
  /\ At(t, "read")
  /\ IF file.load = "torn" THEN Over(t)
     ELSE thread' = [thread EXCEPT ![t] = [@ EXCEPT !.pc = "resolve", !.read = file]]
  /\ UNCHANGED <<file, mtime, watcher, gen, tables, live, turn, history>>

\* The providers are started, then the rest is checked: a configuration that fails now,
\* or is without a provider, changes nothing, and what was started runs on.
resolve(t) ==
  LET c == thread[t].read IN
  /\ At(t, "resolve")
  /\ gen' = gen + 1 /\ live' = live \cup Procs(gen + 1, c.ps)
  /\ IF c.load = "late" \/ c.ps = {}
       THEN Over(t) /\ stranded' = stranded \cup Procs(gen + 1, c.ps)
       ELSE /\ thread' = [thread EXCEPT ![t] = [@ EXCEPT !.pc = "providers", !.gen = gen + 1,
                                                         !.old = provider_hosts]]
            /\ UNCHANGED stranded
  /\ UNCHANGED <<file, mtime, watcher, tables, turn, raced, unseen, headless>>

\* Slip: the replaced processes are shut down before the tables are swapped.
SlipSwapProviders(t) ==
  /\ At(t, "providers")
  /\ live' = live \ thread[t].old
  /\ providers' = [p \in Names |-> IF p \in thread[t].read.ps THEN thread[t].gen ELSE 0]
  /\ Then(t, "provider")
  /\ UNCHANGED <<file, mtime, watcher, gen, provider, default_model, provider_hosts, turn,
                 history>>

SwapProviders(t) ==
  /\ At(t, "providers")
  /\ providers' = [p \in Names |-> IF p \in thread[t].read.ps THEN thread[t].gen ELSE 0]
  /\ Then(t, "provider")
  /\ UNCHANGED <<file, mtime, watcher, gen, provider, default_model, provider_hosts, live, turn,
                 history>>

SwapProvider(t) ==
  LET c == thread[t].read IN
  /\ At(t, "provider")
  /\ provider' = IF c.default \in c.ps THEN <<thread[t].gen, c.default>> ELSE provider
  /\ headless' = (headless \/ c.default \notin c.ps)
  /\ Then(t, "model")
  /\ UNCHANGED <<file, mtime, watcher, gen, providers, default_model, provider_hosts, live,
                 turn, raced, unseen, stranded>>

SwapModel(t) ==
  LET c == thread[t].read IN
  /\ At(t, "model")
  /\ default_model' = IF c.default = None THEN default_model ELSE c.default
  /\ Then(t, "hosts")
  /\ UNCHANGED <<file, mtime, watcher, gen, providers, provider, provider_hosts, live, turn,
                 history>>

\* Slip: the table of processes is not replaced.
SlipSwapHosts(t) ==
  /\ At(t, "hosts") /\ Then(t, "reap")
  /\ UNCHANGED <<file, mtime, watcher, gen, tables, live, turn, history>>

SwapHosts(t) ==
  /\ At(t, "hosts")
  /\ provider_hosts' = Procs(thread[t].gen, thread[t].read.ps)
  /\ Then(t, "reap")
  /\ UNCHANGED <<file, mtime, watcher, gen, providers, provider, default_model, live, turn,
                 history>>

\* Last, those that were in the table when the reload began to swap.
Reap(t) ==
  /\ At(t, "reap")
  /\ live' = live \ thread[t].old
  /\ Over(t)
  /\ UNCHANGED <<file, mtime, watcher, gen, tables, turn, history>>

-----------------------------------------------------------------------------
(* A turn takes the model its session pins, or the default, and the provider of that   *)
(* name, or the fallback; it keeps the provider to its end.                            *)

PickModel(t) ==
  /\ turn[t].pc = "idle"
  /\ \E m \in Names \cup {default_model} :
       turn' = [turn EXCEPT ![t] = [pc |-> "picked", model |-> m, host |-> None]]
  /\ UNCHANGED <<file, mtime, watcher, thread, gen, tables, live, history>>

compose_loop(t) ==
  LET m == turn[t].model
      h == IF providers[m] # 0 THEN <<providers[m], m>> ELSE provider IN
  /\ turn[t].pc = "picked"
  /\ turn' = [turn EXCEPT ![t] = [pc |-> "running", model |-> m, host |-> h]]
  /\ UNCHANGED <<file, mtime, watcher, thread, gen, tables, live, history>>

EndTurn(t) ==
  /\ turn[t].pc = "running"
  /\ turn' = [turn EXCEPT ![t] = [pc |-> "idle", model |-> None, host |-> None]]
  /\ UNCHANGED <<file, mtime, watcher, thread, gen, tables, live, history>>

-----------------------------------------------------------------------------
ReloadStep(t) == \/ Read(t) \/ resolve(t) \/ SwapProviders(t) \/ SwapProvider(t)
                 \/ SwapModel(t) \/ SwapHosts(t) \/ Reap(t)
Next == \/ Edit \/ spawn_config_watcher \/ observe
        \/ \E t \in Threads : post_reload(t) \/ ReloadStep(t)
        \/ \E t \in Turns : PickModel(t) \/ compose_loop(t) \/ EndTurn(t)

Spec == Init /\ [][Next]_vars
\* The watcher's thread polls, and reloads end.
FairSpec == /\ Spec /\ WF_vars(spawn_config_watcher) /\ WF_vars(observe)
            /\ \A t \in Threads : WF_vars(ReloadStep(t))

-----------------------------------------------------------------------------
TypeOK ==
  /\ file \in Contents /\ mtime \in 1 .. MaxEdits + 1
  /\ providers \in [Names -> 0 .. gen] /\ default_model \in Names
  /\ provider_hosts \subseteq live \cup (Nat \X Names)
  /\ \A t \in Threads : thread[t].pc \in {"idle", "read", "resolve", "providers", "provider",
                                          "model", "hosts", "reap"}

\* However reloads overlap, a turn resolves the name of a provider to a process that has
\* not been shut down, and so it does the fallback, unless a configuration came
\* without a process for its default model: then the fallback stays and its process goes.
ResolvesAlive ==
  /\ \A p \in Names : providers[p] # 0 => <<providers[p], p>> \in live
  /\ headless \/ provider \in live

\* Reloads leak no process, if no two overlap: each is in the table of the next reload to
\* shut down, or with a reload under way, except those of a reload that failed.
NoLeak ==
  raced \/ live \subseteq provider_hosts \cup stranded
             \cup (UNION {thread[t].old : t \in Threads})
             \cup (UNION {Procs(thread[t].gen, thread[t].read.ps) : t \in Threads})

InEffect == /\ \A p \in Names : p \in file.ps <=> providers[p] # 0
            /\ file.default = None \/ file.default = default_model

\* Once the file is left alone in a good state it comes into effect, whichever writes were
\* seen half done; but a write between the server's own load and the watcher's first
\* look waits for the next one, and of two overlapping reloads the older text may win.
LastEditWins ==
  \A n \in 1 .. MaxEdits + 1 :
    mtime = n /\ file.load = "good" /\ file.ps # {}
      ~> mtime # n \/ InEffect \/ unseen \/ raced

\* A turn keeps its provider while the configuration changes: it applies to the next.
TurnKeepsProvider == \A t \in Turns : turn[t].pc = "running" => turn[t].host \in live
=============================================================================
