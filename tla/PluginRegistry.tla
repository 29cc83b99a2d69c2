---------------------------- MODULE PluginRegistry ----------------------------
(***************************************************************************)
(* The plugins of a running server (kn9t-server/src/state.rs, tools.rs,       *)
(* main.rs): which subprocess stands for which plugin, which tools the model   *)
(* is shown, which plugins are stopped, whose crash has been announced.  A     *)
(* background thread starts the configured plugins; requests, each on its own  *)
(* thread, stop, start, reload and load them; each plugin's reader thread      *)
(* re-declares its tools; a turn scans their health before every model call.   *)
(* Every table has its own lock and no operation holds one across a spawn or   *)
(* an announcement.                                                            *)
(***************************************************************************)
EXTENDS Naturals, Sequences, FiniteSets, SequencesExt, FiniteSetsExt

CONSTANTS
  Names,     \* plugins; a plugin's command always declares the same name
  Configured,\* the sequence of those the server starts with
  Tools,     \* tool names
  Decls,     \* the sets of tools a plugin may declare
  Hellos,    \* those it may declare in its hello
  Procs,     \* subprocesses
  Requests,  \* threads of lifecycle requests
  Scans,     \* threads of turns that scan the health
  MaxDeclares, \* bound on re-declarations
  None

ASSUME RegistryAssumption ==
  /\ Configured \in Seq(Names) /\ Hellos \subseteq Decls /\ Decls \subseteq SUBSET Tools
  /\ None \notin Procs \cup Names /\ MaxDeclares \in Nat

VARIABLES
  proc,      \* [Procs -> the subprocess and its PluginHost]
  hosts,     \* plugin_hosts
  registry,  \* tools: [Tools -> the process that runs it]
  recipe,    \* plugin_spawn
  stopped,   \* stopped_plugins
  crashSaid, \* crash_announced
  boot,      \* load_plugins_background: where it is, what it extracted
  req,       \* [Requests -> the thread of a request]
  scan,      \* [Scans -> the thread of a scan]
  declares,  \* re-declarations so far
  heard,     \* history: [Names -> the last lifecycle state announced]
  clashed,   \* history: plugins of which two requests were served at once
  missed,    \* history: plugins whose last declaration no registry has been built from,
             \* or which had it built from hosts that the start-up overwrites
  unborn,    \* history: plugins whose respawn failed
  cried,     \* history: processes whose crash has been announced
  spoilt     \* history: plugins found crashed and replaced before it was announced

tables == <<hosts, registry, recipe, stopped, crashSaid>>
history == <<declares, heard, clashed, missed, unborn, cried, spoilt>>
registryVars == <<proc, tables, boot, req, scan, history>>

-----------------------------------------------------------------------------
Born(n, decl) == [name |-> n, life |-> "up", bad |-> FALSE, decl |-> decl, wired |-> FALSE,
                  news |-> FALSE]
Idle(pc) == [pc |-> pc, kind |-> None, name |-> None, old |-> None, new |-> None, decl |-> {}]

RegistryInit ==
  \E hs \in [DOMAIN Configured -> Procs] :
    /\ \A i, j \in DOMAIN hs : i # j => hs[i] # hs[j]
    /\ \E d \in [Procs -> Hellos] :
         /\ proc = [p \in Procs |->
                      IF p \in Range(hs)
                        THEN Born(Configured[CHOOSE i \in DOMAIN hs : hs[i] = p], d[p])
                        ELSE [Born(None, {}) EXCEPT !.life = "unborn"]]
         /\ boot = [pc |-> "publish", hosts |-> hs, decl |-> [p \in Procs |-> proc[p].decl]]
    /\ hosts = <<>> /\ registry = [t \in Tools |-> None]
    /\ recipe = {} /\ stopped = {} /\ crashSaid = {}
    /\ req = [r \in Requests |-> Idle("new")]
    /\ scan = [s \in Scans |-> [pc |-> "new", broken |-> {}]]
    /\ declares = 0 /\ heard = [n \in Names |-> "started"]
    /\ clashed = {} /\ missed = {} /\ unborn = {} /\ cried = {} /\ spoilt = {}

\* The registry built from hosts hs of which h offers offer[h]: the first wins.
FirstWins(hs, offer) ==
  [t \in Tools |-> LET I == {i \in DOMAIN hs : t \in offer[hs[i]]}
                   IN IF I = {} THEN None ELSE hs[Min(I)]]
Declared == [p \in Procs |-> proc[p].decl]

-----------------------------------------------------------------------------
(* load_plugins_background.  The tools were extracted as each plugin started; a *)
(* declaration before the callbacks are installed changes no registry.  Tools  *)
(* and hosts are written one after the other, and a plugin that is loaded in    *)
(* between leaves its tools with the hosts of the start-up.                    *)
Boot(from, to) == boot.pc = from /\ boot' = [pc |-> to, hosts |-> <<>>, decl |-> <<>>]

PublishTools ==
  /\ boot.pc = "publish"
  /\ boot' = [pc |-> "hosts", hosts |-> boot.hosts, decl |-> boot.decl]
  /\ registry' = FirstWins(boot.hosts, boot.decl) /\ missed' = {}
  /\ UNCHANGED <<declares, proc, hosts, recipe, stopped, crashSaid, req, scan, heard,
                 clashed, unborn, cried, spoilt>>

PublishHosts ==
  /\ Boot("hosts", "record")
  /\ hosts' = boot.hosts
  /\ missed' = missed \cup {proc[p].name : p \in {q \in Range(boot.hosts) :
                                                  boot.decl[q] # proc[q].decl}}
  /\ UNCHANGED <<declares, proc, registry, recipe, stopped, crashSaid, req, scan, heard,
                 clashed, unborn, cried, spoilt>>

\* Whoever builds the registry now builds it from hosts that are about to go.
Torn(n) == IF boot.pc = "hosts" THEN {n} ELSE {}

set_plugin_spawn ==
  /\ Boot("record", "install")
  /\ recipe' = recipe \cup Range(Configured)
  /\ UNCHANGED <<proc, hosts, registry, stopped, crashSaid, req, scan, history>>

install_declare_callbacks ==
  /\ Boot("install", "ready")
  /\ proc' = [p \in Procs |-> [proc[p] EXCEPT !.wired = @ \/ p \in Range(hosts)]]
  /\ UNCHANGED <<tables, req, scan, history>>

-----------------------------------------------------------------------------
(* The subprocesses.                                                         *)

\* The reader takes a declaration.  The registry follows when its callback, if it
\* has one yet, gets the lock of the hosts.
declare(p) ==
  /\ proc[p].life = "up" /\ ~proc[p].bad /\ ~proc[p].news
  /\ declares < MaxDeclares /\ declares' = declares + 1
  /\ \E d \in Decls \ {proc[p].decl} :
       proc' = [proc EXCEPT ![p] = [@ EXCEPT !.decl = d, !.news = proc[p].wired]]
  /\ missed' = missed \cup {n \in {proc[p].name} : p \in Range(hosts) /\ ~proc[p].wired}
  /\ UNCHANGED <<tables, boot, req, scan, heard, clashed, unborn, cried, spoilt>>

\* Slip: the declaration is announced, the registry is not rebuilt.
Slipon_plugin_declare(p) ==
  /\ proc[p].news
  /\ proc' = [proc EXCEPT ![p].news = FALSE]
  /\ UNCHANGED <<tables, boot, req, scan, history>>

on_plugin_declare(p) ==
  /\ proc[p].news
  /\ proc' = [proc EXCEPT ![p].news = FALSE]
  /\ registry' = FirstWins(hosts, Declared)
  /\ missed' = Torn(proc[p].name)
  /\ UNCHANGED <<declares, hosts, recipe, stopped, crashSaid, boot, req, scan, heard,
                 clashed, unborn, cried, spoilt>>

\* A malformed line poisons the host for good.
Poison(p) ==
  /\ proc[p].life = "up" /\ ~proc[p].bad /\ ~proc[p].news
  /\ proc' = [proc EXCEPT ![p].bad = TRUE]
  /\ UNCHANGED <<tables, boot, req, scan, history>>

-----------------------------------------------------------------------------
(* Requests.                                                                 *)

Serving(r) == req[r].pc \notin {"new", "done"}
Set(r, q) == req' = [req EXCEPT ![r] = q]
Go(r, pc) == Set(r, IF pc = "done" THEN Idle(pc) ELSE [req[r] EXCEPT !.pc = pc])
HostOf(n) == LET I == {i \in DOMAIN hosts : proc[hosts[i]].name = n}
             IN IF I = {} THEN None ELSE hosts[Min(I)]
Clash(n) == clashed' = IF boot.pc # "ready" \/ \E r \in Requests : Serving(r) /\ req[r].name = n
                       THEN clashed \cup {n} ELSE clashed
Begin(r, k, n, pc) ==
  /\ req[r].pc = "new"
  /\ Set(r, [req[r] EXCEPT !.pc = pc, !.kind = k, !.name = n, !.old = HostOf(n)])
  /\ Clash(n)
  /\ UNCHANGED <<declares, proc, tables, boot, scan, heard, missed, unborn, cried, spoilt>>

Known(n) == HostOf(n) # None /\ n \in recipe
stop_plugin(r, n) == Known(n) /\ Begin(r, "stop", n, "mark")
start_plugin(r, n) == Known(n) /\ n \in stopped /\ Begin(r, "start", n, "cut")
reload_plugin(r, n) == Known(n) /\ Begin(r, "reload", n, "cut")
load_plugin(r, n) == n \notin recipe /\ Begin(r, "load", n, "spawn")

\* Marked before the shutdown, so that a turn that looks from now on is refused.
Mark(r) ==
  /\ req[r].pc = "mark"
  /\ stopped' = stopped \cup {req[r].name}
  /\ Go(r, IF req[r].name \in stopped THEN "done" ELSE "cut")
  /\ UNCHANGED <<proc, hosts, registry, recipe, crashSaid, boot, scan, history>>

\* Slip: a reload spawns the new process without telling the old one to go.
SlipCut(r) ==
  /\ req[r].pc = "cut"
  /\ IF req[r].kind = "stop"
       THEN proc' = [proc EXCEPT ![req[r].old].life = "told"] /\ Go(r, "tell")
       ELSE Go(r, "spawn") /\ UNCHANGED proc
  /\ UNCHANGED <<tables, boot, scan, history>>

\* The calls in flight are cancelled and waited for, not for long; then shutdown.
Cut(r) ==
  /\ req[r].pc = "cut"
  /\ proc' = [proc EXCEPT ![req[r].old].life = "told"]
  /\ Go(r, IF req[r].kind = "stop" THEN "tell" ELSE "spawn")
  /\ UNCHANGED <<tables, boot, scan, history>>

\* A new process says hello and is wired; or it fails to, and the old host, which has
\* been shut down, stays where it is.
Spawn(r) ==
  /\ req[r].pc = "spawn"
  /\ \/ \E p \in Procs, d \in Hellos :
          /\ proc[p].life = "unborn"
          /\ proc' = [proc EXCEPT ![p] = Born(req[r].name, d)]
          /\ Set(r, [req[r] EXCEPT !.new = p,
                                   !.pc = IF req[r].kind = "load" THEN "collide" ELSE "wire"])
          /\ UNCHANGED unborn
     \/ /\ unborn' = unborn \cup {req[r].name}
        /\ Go(r, "done") /\ UNCHANGED proc
  /\ UNCHANGED <<declares, tables, boot, scan, heard, clashed, missed, cried, spoilt>>

Collide(r) ==
  /\ req[r].pc = "collide"
  /\ IF HostOf(req[r].name) = None THEN Go(r, "wire") /\ UNCHANGED proc
     ELSE /\ proc' = [proc EXCEPT ![req[r].new].life = "told"]
          /\ Go(r, "done")
  /\ UNCHANGED <<tables, boot, scan, history>>

\* Wired, then its tools are extracted.
wire_new_host(r) ==
  /\ req[r].pc = "wire"
  /\ proc' = [proc EXCEPT ![req[r].new].wired = TRUE]
  /\ Set(r, [req[r] EXCEPT !.pc = IF req[r].kind = "load" THEN "record" ELSE "swap",
                           !.decl = proc[req[r].new].decl])
  /\ UNCHANGED <<tables, boot, scan, history>>

\* The registry is rebuilt with the tools extracted a while ago; what the newcomer has
\* declared since is missed unless its callback is still to come.
Rebuild(r, hs) ==
  /\ hosts' = hs
  /\ registry' = FirstWins([i \in DOMAIN hs |->
                              IF proc[hs[i]].name = req[r].name THEN req[r].new ELSE hs[i]],
                           [Declared EXCEPT ![req[r].new] = req[r].decl])
  /\ missed' = {n \in {req[r].name} : /\ req[r].decl # proc[req[r].new].decl
                                      /\ ~proc[req[r].new].news} \cup Torn(req[r].name)

\* The new host takes the place of the old, and the marks of stopped plugins and of
\* announced crashes lose those given.
SwapClearing(r, starts, crashes) ==
  LET n == req[r].name IN
  /\ req[r].pc = "swap"
  /\ Rebuild(r, IF HostOf(n) = None THEN Append(hosts, req[r].new)
                ELSE [i \in DOMAIN hosts |-> IF hosts[i] = HostOf(n) THEN req[r].new
                                            ELSE hosts[i]])
  /\ stopped' = stopped \ starts /\ crashSaid' = crashSaid \ crashes
  /\ unborn' = unborn \ {n}
  /\ Go(r, "tell")
  /\ UNCHANGED <<declares, proc, recipe, boot, scan, heard, clashed, cried, spoilt>>

\* Slip: a reload leaves a stopped plugin refused.
SlipSwap(r) == SwapClearing(r, {}, {req[r].name})

\* Slip: a reload forgets that the crash is over.
SlipSwapCrash(r) == SwapClearing(r, {req[r].name}, {})

Swap(r) == SwapClearing(r, {req[r].name}, {req[r].name})

Record(r) ==
  /\ req[r].pc = "record"
  /\ recipe' = recipe \cup {req[r].name}
  /\ Go(r, "push")
  /\ UNCHANGED <<proc, hosts, registry, stopped, crashSaid, boot, scan, history>>

Push(r) ==
  /\ req[r].pc = "push"
  /\ Rebuild(r, Append(hosts, req[r].new))
  /\ unborn' = unborn \ {req[r].name}
  /\ Go(r, "tell")
  /\ UNCHANGED <<declares, proc, recipe, stopped, crashSaid, boot, scan, heard, clashed,
                 cried, spoilt>>

announce_plugin_state(r) ==
  /\ req[r].pc \in {"tell", "started"}
  /\ heard' = [heard EXCEPT ![req[r].name] = IF req[r].kind = "stop" THEN "stopped"
                                             ELSE "started"]
  /\ Go(r, IF req[r].kind = "start" /\ req[r].pc = "tell" THEN "clear" ELSE "done")
  /\ UNCHANGED <<declares, proc, tables, boot, scan, clashed, missed, unborn, cried,
                 spoilt>>

\* start_plugin clears the flag that the reload in it has cleared already.
Clear(r) ==
  /\ req[r].pc = "clear"
  /\ stopped' = stopped \ {req[r].name}
  /\ Go(r, "started")
  /\ UNCHANGED <<proc, hosts, registry, recipe, crashSaid, boot, scan, history>>

-----------------------------------------------------------------------------
(* scan_plugin_health: which hosts are broken, stopped ones included, then what   *)
(* is new of it, which is marked at once and announced one by one.             *)

ScanHosts(s) ==
  /\ scan[s].pc = "new"
  /\ \E p \in Range(hosts) : proc[p].bad
  /\ scan' = [scan EXCEPT ![s] = [pc |-> "fresh",
                 broken |-> {proc[p].name : p \in {q \in Range(hosts) : proc[q].bad}}]]
  /\ UNCHANGED <<proc, tables, boot, req, history>>

Sound(n) == HostOf(n) = None \/ ~proc[HostOf(n)].bad
Rest(s, names) ==
  scan' = [scan EXCEPT ![s] = [pc |-> IF names = {} THEN "new" ELSE "tell", broken |-> names]]

ScanMark(s) ==
  LET fresh == scan[s].broken \ crashSaid IN
  /\ scan[s].pc = "fresh"
  /\ crashSaid' = crashSaid \cup fresh
  /\ cried' = cried \cup {p \in Procs : p \in {HostOf(n) : n \in fresh}}
  /\ spoilt' = spoilt \cup {n \in fresh : Sound(n)}
  /\ Rest(s, fresh)
  /\ UNCHANGED <<declares, proc, hosts, registry, recipe, stopped, boot, req, heard,
                 clashed, missed, unborn>>

ScanTell(s, n) ==
  /\ scan[s].pc = "tell" /\ n \in scan[s].broken
  /\ heard' = [heard EXCEPT ![n] = "crashed"]
  /\ spoilt' = spoilt \cup {m \in {n} : Sound(m)}
  /\ Rest(s, scan[s].broken \ {n})
  /\ UNCHANGED <<declares, proc, tables, boot, req, clashed, missed, unborn, cried>>

-----------------------------------------------------------------------------
BootStep == PublishTools \/ PublishHosts \/ set_plugin_spawn \/ install_declare_callbacks
ProcStep(p) == declare(p) \/ on_plugin_declare(p) \/ Poison(p)
RequestStep(r) ==
  \/ \E n \in Names : \/ stop_plugin(r, n) \/ start_plugin(r, n)
                      \/ reload_plugin(r, n) \/ load_plugin(r, n)
  \/ Mark(r) \/ Cut(r) \/ Spawn(r) \/ Collide(r) \/ wire_new_host(r) \/ Swap(r) \/ Record(r)
  \/ Push(r) \/ announce_plugin_state(r) \/ Clear(r)
RegistryNext == \/ BootStep
                \/ \E p \in Procs : ProcStep(p)
                \/ \E r \in Requests : RequestStep(r)
                \/ \E s \in Scans : \/ ScanHosts(s) \/ ScanMark(s)
                                      \/ \E n \in Names : ScanTell(s, n)

RegistrySpec == RegistryInit /\ [][RegistryNext]_registryVars

-----------------------------------------------------------------------------
RegistryTypeOK ==
  /\ hosts \in Seq(Procs) /\ registry \in [Tools -> Procs \cup {None}]
  /\ recipe \cup stopped \cup crashSaid \subseteq Names
  /\ \A p \in Procs : /\ proc[p].name \in Names \cup {None}
                       /\ proc[p].life \in {"unborn", "up", "told"}
  /\ cried \subseteq Procs

Quiet(n) == boot.pc = "ready" /\ ~\E r \in Requests : Serving(r) /\ req[r].name = n
Alone(n) == Quiet(n) /\ n \notin clashed

\* Between requests, whatever went on for other plugins, a plugin is refused to turns
\* exactly when its process has been told to go, and that is what clients were told
\* last; unless they have been told of a crash since, which a scan also finds in a
\* stopped plugin's host, and then that host is broken.  Not so after a respawn that
\* failed (a dead host, not refused), nor after two requests for it at once: a start
\* clears the mark of the stop behind it.  And a plugin that was replaced while a scan
\* was about to announce its crash is said to have crashed and has not.
StateIsHonest ==
  \A p \in Range(hosts) : LET n == proc[p].name IN
    Alone(n) /\ n \notin unborn =>
      /\ n \in stopped <=> proc[p].life = "told"
      /\ IF heard[n] = "crashed" THEN proc[p].bad \/ n \in spoilt
                                 ELSE n \in stopped <=> heard[n] = "stopped"

\* No subprocess runs on without a host in the table to stop it by, unless two
\* requests for its plugin overlapped, or one the start of the server.
NoOrphan ==
  \A p \in Procs : proc[p].life = "up" =>
    \/ p \in Range(hosts) \/ ~Alone(proc[p].name)

\* The model is shown what the plugins have last declared, each tool by the first that
\* offers it, once the callbacks have run; but what was declared between the extraction
\* and the swap is not there until something rebuilds the registry, nor are the start-up's
\* own tools if something has rebuilt it between the start-up's two writes, and a plugin
\* loaded twice (by requests that overlap) counts once.
RegistryInStep ==
  /\ boot.pc # "hosts" /\ missed = {} /\ ~\E p \in Procs : proc[p].news
  /\ \A p, q \in Range(hosts) : proc[p].name = proc[q].name => p = q
  => registry = FirstWins(hosts, Declared)

\* The mark that keeps a crash from being announced twice stands for the process that
\* runs now: a new process's crash is not silenced by an old one's.  Not so if the
\* plugin was replaced while a scan was about to announce it.
NoCrashSilenced ==
  \A p \in Range(hosts) : LET n == proc[p].name IN
    n \in crashSaid => p \in cried \/ n \in spoilt \/ n \in clashed

\* main.rs:187, "Updates state atomically when complete": once the server is ready and
\* nobody is served, every tool that the model is shown is run by a host in the table.
ToolsHaveHosts ==
  boot.pc = "ready" /\ (\A r \in Requests : ~Serving(r)) =>
    \A t \in Tools : registry[t] # None => registry[t] \in Range(hosts)
=============================================================================
