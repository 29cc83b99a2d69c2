-------------------------- MODULE ConfigReload_proofs --------------------------
(* Proofs about ConfigReload: whichever reloads overlap, no table names a       *)
(* process that has been shut down; and reloads one after the other leak none.  *)
EXTENDS ConfigReload, TLAPS

Steps == {"idle", "read", "resolve", "providers", "provider", "model", "hosts", "reap"}
Working == {"providers", "provider", "model", "hosts"}  \* its processes: in no table
Swapping == Working \cup {"reap"}
Swapped == {"provider", "model", "hosts", "reap"}        \* providers is, or was, its own
FellBack == {"model", "hosts", "reap"}                   \* and so the fallback

(***************************************************************************)
(* Processes are numbered by the reload that starts them, and no two reloads  *)
(* under way have the same number.                                          *)
(***************************************************************************)
Started == (1 .. gen) \X Names
Numbered ==
  /\ provider_hosts \subseteq Started /\ live \subseteq Started
  /\ \A t \in Threads : thread[t].pc \in Swapping =>
       thread[t].gen \in 1 .. gen /\ thread[t].old \subseteq Started
  /\ \A t, u \in Threads : /\ thread[t].pc \in Working /\ thread[u].pc \in Working
                           /\ thread[t].gen = thread[u].gen
                           => t = u

(***************************************************************************)
(* What a reload has started nobody is about to shut down: its processes are   *)
(* not in the table of hosts, so no reload has taken them from there.          *)
(***************************************************************************)
Untaken ==
  \A t \in Threads : thread[t].pc \in Working =>
    /\ Procs(thread[t].gen, thread[t].read.ps) \subseteq live
    /\ \A n \in Names :
         /\ <<thread[t].gen, n>> \notin provider_hosts
         /\ \A u \in Threads :
              thread[u].pc \in Swapping => <<thread[t].gen, n>> \notin thread[u].old

(***************************************************************************)
(* A reload that has swapped a table does not hold, to be shut down, what the   *)
(* table names now, whether it wrote that itself or another reload has since.    *)
(***************************************************************************)
Spared ==
  \A t \in Threads :
    /\ thread[t].pc \in Swapped => \A p \in Names : <<providers[p], p>> \notin thread[t].old
    /\ thread[t].pc \in FellBack => headless \/ provider \notin thread[t].old

(***************************************************************************)
(* Reloads that do not overlap hand the table of hosts from one to the next.    *)
(***************************************************************************)
Alone == \A t, u \in Threads : Reloading(t) /\ Reloading(u) => t = u
HandedOn ==
  \A t \in Threads :
    /\ thread[t].pc \in Working => thread[t].old = provider_hosts
    /\ thread[t].pc = "reap" => provider_hosts = Procs(thread[t].gen, thread[t].read.ps)
Covered ==
  \A e \in live :
    \/ e \in provider_hosts \cup stranded
    \/ \E t \in Threads : /\ thread[t].pc \in Swapping
                          /\ e \in thread[t].old \cup Procs(thread[t].gen, thread[t].read.ps)
InOrder == raced \/ (Alone /\ HandedOn /\ Covered)

Reload == [pc : Steps, read : Contents, gen : Nat, old : SUBSET ((Nat \X Names) \cup {None})]
Typed ==
  /\ file \in Contents /\ mtime \in 1 .. MaxEdits + 1 /\ gen \in Nat \ {0}
  /\ providers \in [Names -> 0 .. gen] /\ default_model \in Names
  /\ thread \in [Threads -> Reload]
IInv == Typed /\ Numbered /\ Untaken /\ Spared /\ ResolvesAlive /\ InOrder

-----------------------------------------------------------------------------
(* What a step does to the thread that makes it.                             *)

LEMMA Fields ==
  ASSUME NEW c \in Contents
  PROVE  /\ c.load \in {"good", "torn", "late"} /\ c.ps \subseteq Names
         /\ c.default \in Names \cup {None}
BY ContentsAssumption DEF Content

LEMMA FirstTyped == First \in Contents /\ First.default \in First.ps /\ First.default \in Names
BY ContentsAssumption, Fields

LEMMA ProcsIn ==
  ASSUME NEW g \in Nat, NEW ps \in SUBSET Names
  PROVE  /\ Procs(g, ps) \subseteq Nat \X Names
         /\ \A e \in Procs(g, ps) : \E n \in ps : e = <<g, n>>
         /\ \A n \in ps : <<g, n>> \in Procs(g, ps)
BY DEF Procs

LEMMA StartedKept ==
  ASSUME gen \in Nat \ {0}, gen' = gen \/ gen' = gen + 1
  PROVE  Started \subseteq Started' /\ \A g \in 1 .. gen : g \in 1 .. gen'
BY DEF Started

\* The thread moves on, and keeps what it holds.
LEMMA Moved ==
  ASSUME Typed, NEW t \in Threads, NEW p \in Steps, thread' = [thread EXCEPT ![t].pc = p]
  PROVE  /\ thread' \in [Threads -> Reload]
         /\ thread'[t].pc = p /\ thread'[t].read = thread[t].read
         /\ thread'[t].gen = thread[t].gen /\ thread'[t].old = thread[t].old
         /\ \A u \in Threads : u # t => thread'[u] = thread[u]
BY DEF Typed, Reload

LEMMA IsOver ==
  ASSUME Typed, NEW t \in Threads, Over(t)
  PROVE  /\ thread' \in [Threads -> Reload]
         /\ thread'[t].pc = "idle"
         /\ \A u \in Threads : u # t => thread'[u] = thread[u]
<1>1. [Idle EXCEPT !.old = {None}] \in Reload /\ [Idle EXCEPT !.old = {None}].pc = "idle"
  BY FirstTyped DEF Idle, Reload, Steps
<1> QED
  BY <1>1 DEF Typed, Over

LEMMA ReadEffect ==
  ASSUME Typed, NEW t \in Threads, Read(t)
  PROVE  /\ thread' \in [Threads -> Reload]
         /\ thread[t].pc = "read" /\ thread'[t].pc \in {"idle", "resolve"}
         /\ \A u \in Threads : u # t => thread'[u] = thread[u]
<1>1. CASE file.load = "torn"
  BY <1>1, IsOver DEF Read, At
<1>2. CASE file.load # "torn"
  <2>1. /\ thread' = [thread EXCEPT ![t] = [@ EXCEPT !.pc = "resolve", !.read = file]]
        /\ thread[t].pc = "read"
    BY <1>2 DEF Read, At
  <2>2. thread \in [Threads -> Reload] /\ file \in Contents /\ "resolve" \in Steps
    BY DEF Typed, Steps
  <2>3. [thread[t] EXCEPT !.pc = "resolve", !.read = file] \in Reload
    BY <2>2 DEF Reload
  <2>4. [thread[t] EXCEPT !.pc = "resolve", !.read = file].pc = "resolve"
    BY <2>2 DEF Reload
  <2> QED
    BY <2>1, <2>2, <2>3, <2>4
<1> QED
  BY <1>1, <1>2

LEMMA ResolveEffect ==
  ASSUME Typed, provider_hosts \subseteq Started, NEW t \in Threads, resolve(t)
  PROVE  /\ thread' \in [Threads -> Reload] /\ thread[t].pc = "resolve"
         /\ \A u \in Threads : u # t => thread'[u] = thread[u]
         /\ \/ /\ thread'[t].pc = "idle"
               /\ stranded' = stranded \cup Procs(gen + 1, thread[t].read.ps)
            \/ /\ thread'[t].pc = "providers" /\ thread'[t].read = thread[t].read
               /\ thread'[t].gen = gen + 1 /\ thread'[t].old = provider_hosts
               /\ UNCHANGED stranded
<1>0. thread[t].pc = "resolve"
  BY DEF resolve, At
<1>1. CASE Over(t)
  <2>1. stranded' = stranded \cup Procs(gen + 1, thread[t].read.ps)
    <3>1. thread'[t].pc = "idle"
      BY <1>1, IsOver
    <3>2. CASE thread[t].read.load = "late" \/ thread[t].read.ps = {}
      BY <3>2 DEF resolve
    <3>3. CASE ~(thread[t].read.load = "late" \/ thread[t].read.ps = {})
      <4>1. thread' = [thread EXCEPT ![t] = [@ EXCEPT !.pc = "providers", !.gen = gen + 1,
                                                      !.old = provider_hosts]]
        BY <3>3 DEF resolve
      <4>2. thread'[t].pc = "providers"
        BY <4>1 DEF Typed, Reload
      <4> QED
        BY <3>1, <4>2
    <3> QED
      BY <3>2, <3>3
  <2> QED
    BY <1>0, <1>1, <2>1, IsOver
<1>2. CASE ~Over(t)
  <2>1. /\ thread' = [thread EXCEPT ![t] = [@ EXCEPT !.pc = "providers", !.gen = gen + 1,
                                                    !.old = provider_hosts]]
        /\ UNCHANGED stranded
    BY <1>2 DEF resolve
  <2>2. provider_hosts \in SUBSET ((Nat \X Names) \cup {None}) /\ gen + 1 \in Nat
    BY DEF Started, Typed
  <2>3. thread \in [Threads -> Reload] /\ "providers" \in Steps
    BY DEF Typed, Steps
  <2> QED
    BY <1>0, <2>1, <2>2, <2>3 DEF Reload
<1> QED
  BY <1>1, <1>2

LEMMA SwapEffect ==
  ASSUME Typed, NEW t \in Threads, NEW p \in Steps, Then(t, p)
  PROVE  /\ thread' \in [Threads -> Reload]
         /\ thread'[t].pc = p /\ thread'[t].read = thread[t].read
         /\ thread'[t].gen = thread[t].gen /\ thread'[t].old = thread[t].old
         /\ \A u \in Threads : u # t => thread'[u] = thread[u]
BY Moved DEF Then

LEMMA TypeStep == Typed /\ Numbered /\ [Next]_vars => Typed'
<1> SUFFICES ASSUME Typed, Numbered, [Next]_vars PROVE Typed'
  OBVIOUS
<1>1. ASSUME UNCHANGED <<file, mtime, gen, providers, default_model>>,
             thread' \in [Threads -> Reload]
      PROVE  Typed'
  BY <1>1 DEF Typed
<1>w. "watch" \in Threads
  BY DEF Threads
<1>2. CASE Edit
  BY <1>2, ContentsAssumption DEF Edit, tables, Typed
<1>3. CASE spawn_config_watcher \/ UNCHANGED vars
             \/ \E t \in Turns : PickModel(t) \/ compose_loop(t) \/ EndTurn(t)
  BY <1>3 DEF spawn_config_watcher, vars, PickModel, compose_loop, EndTurn, tables, Typed
<1>4. CASE observe
  BY <1>1, <1>4, <1>w, Moved DEF observe, Start, tables, Steps, Typed
<1>5. ASSUME NEW t \in Threads, post_reload(t) \/ ReloadStep(t) PROVE Typed'
  <2>1. CASE post_reload(t)
    BY <1>1, <2>1, Moved DEF post_reload, Start, tables, Steps
  <2>2. CASE Read(t)
    BY <1>1, <2>2, ReadEffect DEF Read, tables
  <2>3. CASE resolve(t)
    <3>1. thread' \in [Threads -> Reload]
      BY <2>3, ResolveEffect DEF Numbered
    <3>2. /\ gen' = gen + 1 /\ UNCHANGED <<file, mtime, providers, default_model>>
      BY <2>3 DEF resolve, tables
    <3>3. gen' \in Nat \ {0} /\ \A k \in 0 .. gen : k \in 0 .. gen'
      BY <3>2 DEF Typed
    <3> QED
      BY <3>1, <3>2, <3>3 DEF Typed
  <2>4. CASE SwapProviders(t)
    <3>1. thread[t].pc = "providers" /\ thread'\in [Threads -> Reload]
      BY <2>4, SwapEffect DEF SwapProviders, At, Steps
    <3>2. thread[t].gen \in 0 .. gen /\ 0 \in 0 .. gen
      BY <3>1 DEF Numbered, Swapping, Working, Typed
    <3>3. providers' = [p \in Names |-> IF p \in thread[t].read.ps THEN thread[t].gen ELSE 0]
      BY <2>4 DEF SwapProviders
    <3> QED
      BY <2>4, <3>1, <3>2, <3>3 DEF SwapProviders, Typed
  <2>5. CASE SwapModel(t)
    <3>1. thread'\in [Threads -> Reload]
      BY <2>5, SwapEffect DEF SwapModel, Steps
    <3>2. default_model' \in Names
      BY <2>5, Fields DEF SwapModel, Typed, Reload
    <3> QED
      BY <2>5, <3>1, <3>2 DEF SwapModel, Typed
  <2>6. CASE SwapProvider(t)
    BY <1>1, <2>6, SwapEffect DEF SwapProvider, Steps
  <2>7. CASE SwapHosts(t)
    BY <1>1, <2>7, SwapEffect DEF SwapHosts, Steps
  <2>8. CASE Reap(t)
    BY <1>1, <2>8, IsOver DEF Reap, tables
  <2> QED
    BY <1>5, <2>1, <2>2, <2>3, <2>4, <2>5, <2>6, <2>7, <2>8 DEF ReloadStep
<1> QED
  BY <1>2, <1>3, <1>4, <1>5 DEF Next

-----------------------------------------------------------------------------
(* The invariant of overlapping reloads.                                     *)

Overlapping == Numbered /\ Untaken /\ Spared /\ ResolvesAlive
tabled == <<providers, provider, provider_hosts>>

\* Whoever is not swapping tables, and starts nothing, changes nothing of it.
LEMMA Outside ==
  ASSUME Overlapping, NEW t \in Threads, thread[t].pc \notin Swapping,
         thread'[t].pc \notin Swapping, UNCHANGED <<gen, tabled, live, headless>>,
         \A u \in Threads : u # t => thread'[u] = thread[u]
  PROVE  Overlapping'
<1>1. \A u \in Threads : /\ thread'[u].pc \in Swapping => thread'[u] = thread[u]
                         /\ thread'[u].pc \in Working => thread'[u] = thread[u]
                         /\ thread'[u].pc \in Swapped => thread'[u] = thread[u]
                         /\ thread'[u].pc \in FellBack => thread'[u] = thread[u]
  BY DEF Swapping, Working, Swapped, FellBack
<1>2. Started' = Started
  BY DEF Started
<1>3. Numbered'
  BY <1>1, <1>2 DEF Overlapping, Numbered, tabled
<1>4. Untaken'
  BY <1>1 DEF Overlapping, Untaken, tabled
<1>5. Spared' /\ ResolvesAlive'
  BY <1>1 DEF Overlapping, Spared, ResolvesAlive, tabled
<1> QED
  BY <1>3, <1>4, <1>5 DEF Overlapping

\* What a reload starts has a number of its own.
LEMMA OverlapResolve ==
  ASSUME Typed, Overlapping, NEW t \in Threads, resolve(t)
  PROVE  Overlapping'
<1> DEFINE ps == thread[t].read.ps
<1>0. /\ gen \in Nat \ {0} /\ gen' = gen + 1 /\ ps \in SUBSET Names
      /\ live' = live \cup Procs(gen + 1, ps) /\ UNCHANGED <<tabled, headless>>
  BY Fields DEF resolve, tables, tabled, Typed, Reload
<1>1. /\ thread[t].pc = "resolve"
      /\ \A u \in Threads : u # t => thread'[u] = thread[u]
      /\ \/ thread'[t].pc = "idle"
         \/ /\ thread'[t].pc = "providers" /\ thread'[t].read = thread[t].read
            /\ thread'[t].gen = gen + 1 /\ thread'[t].old = provider_hosts
  BY ResolveEffect DEF Overlapping, Numbered
<1>2. /\ Started \subseteq Started' /\ gen + 1 \in 1 .. gen'
      /\ \A g \in 1 .. gen : g \in 1 .. gen' /\ g # gen + 1
      /\ Procs(gen + 1, ps) \subseteq Started'
      /\ \A n : <<gen + 1, n>> \notin Started
  BY <1>0 DEF Started, Procs
<1>3. Numbered'
  <2>1. provider_hosts' \subseteq Started' /\ live' \subseteq Started'
    BY <1>0, <1>2 DEF Overlapping, Numbered, tabled
  <2>2. \A u \in Threads : thread'[u].pc \in Swapping =>
          thread'[u].gen \in 1 .. gen' /\ thread'[u].old \subseteq Started'
    BY <1>1, <1>2 DEF Overlapping, Numbered, Swapping, Working
  <2>3. \A u, v \in Threads : thread'[u].pc \in Working /\ thread'[v].pc \in Working
                              /\ thread'[u].gen = thread'[v].gen => u = v
    BY <1>1, <1>2 DEF Overlapping, Numbered, Swapping, Working
  <2> QED
    BY <2>1, <2>2, <2>3 DEF Numbered
<1>4. Untaken'
  <2>1. ASSUME NEW u \in Threads, thread'[u].pc \in Working
        PROVE  Procs(thread'[u].gen, thread'[u].read.ps) \subseteq live'
    BY <1>0, <1>1, <2>1 DEF Overlapping, Untaken, Working
  <2>2. ASSUME NEW u \in Threads, thread'[u].pc \in Working, NEW n \in Names
        PROVE  /\ <<thread'[u].gen, n>> \notin provider_hosts'
               /\ \A v \in Threads : thread'[v].pc \in Swapping =>
                    <<thread'[u].gen, n>> \notin thread'[v].old
    <3>1. CASE u = t
      <4>1. thread'[u].gen = gen + 1 /\ <<gen + 1, n>> \notin Started
        BY <1>1, <1>2, <2>2, <3>1 DEF Working
      <4>2. \A v \in Threads : thread'[v].pc \in Swapping => thread'[v].old \subseteq Started
        BY <1>1 DEF Overlapping, Numbered, Swapping, Working
      <4> QED
        BY <1>0, <4>1, <4>2 DEF Overlapping, Numbered, tabled
    <3>2. CASE u # t
      <4>1. /\ thread'[u] = thread[u] /\ <<thread[u].gen, n>> \notin provider_hosts
            /\ \A v \in Threads :
                 thread[v].pc \in Swapping => <<thread[u].gen, n>> \notin thread[v].old
        BY <1>1, <2>2, <3>2 DEF Overlapping, Untaken
      <4> QED
        BY <1>0, <1>1, <4>1 DEF tabled, Swapping, Working
    <3> QED
      BY <3>1, <3>2
  <2> QED
    BY <2>1, <2>2 DEF Untaken
<1>5. Spared' /\ ResolvesAlive'
  <2>1. \A u \in Threads : /\ thread'[u].pc \in Swapped => thread'[u] = thread[u]
                           /\ thread'[u].pc \in FellBack => thread'[u] = thread[u]
    BY <1>1 DEF Swapped, FellBack
  <2> QED
    BY <1>0, <2>1 DEF Overlapping, Spared, ResolvesAlive, tabled
<1> QED
  BY <1>3, <1>4, <1>5 DEF Overlapping

\* A swap of a table other than the hosts: the thread and that table.
LEMMA SwapKeeps ==
  ASSUME Overlapping, NEW t \in Threads, thread[t].pc \in Working, thread'[t].pc \in Working,
         thread'[t].read = thread[t].read, thread'[t].gen = thread[t].gen,
         thread'[t].old = thread[t].old, UNCHANGED <<gen, provider_hosts, live>>,
         \A u \in Threads : u # t => thread'[u] = thread[u]
  PROVE  Numbered' /\ Untaken'
<1>1. \A u \in Threads : /\ thread'[u].read = thread[u].read /\ thread'[u].gen = thread[u].gen
                         /\ thread'[u].old = thread[u].old
                         /\ thread'[u].pc \in Working <=> thread[u].pc \in Working
                         /\ thread'[u].pc \in Swapping <=> thread[u].pc \in Swapping
  BY DEF Swapping
<1>2. Started' = Started
  BY DEF Started
<1> QED
  BY <1>1, <1>2 DEF Overlapping, Numbered, Untaken

LEMMA OverlapProviders ==
  ASSUME Typed, Overlapping, NEW t \in Threads, SwapProviders(t)
  PROVE  Overlapping'
<1> DEFINE ps == thread[t].read.ps
           g == thread[t].gen
<1>0. /\ thread[t].pc = "providers"
      /\ providers' = [p \in Names |-> IF p \in ps THEN g ELSE 0]
      /\ UNCHANGED <<gen, provider, provider_hosts, live, headless>>
      /\ Then(t, "provider")
  BY DEF SwapProviders, At, history
<1>1. /\ thread'[t].pc = "provider" /\ thread'[t].read = thread[t].read
      /\ thread'[t].gen = g /\ thread'[t].old = thread[t].old
      /\ \A u \in Threads : u # t => thread'[u] = thread[u]
  BY <1>0, SwapEffect DEF Steps
<1>2. Numbered' /\ Untaken'
  BY <1>0, <1>1, SwapKeeps DEF Working
<1>3. \A p \in Names : providers'[p] = g \/ providers'[p] = 0
  BY <1>0
\* Its own processes nobody has taken; and no process has the number 0.
<1>4. \A u \in Threads : thread'[u].pc \in Swapped =>
        \A p \in Names : <<providers'[p], p>> \notin thread'[u].old
  <2>1. ASSUME NEW u \in Threads, thread'[u].pc \in Swapped, NEW p \in Names
        PROVE  <<g, p>> \notin thread'[u].old /\ <<0, p>> \notin thread'[u].old
    <3>1. thread'[u].old = thread[u].old /\ thread[u].pc \in Swapping
      BY <1>0, <1>1, <2>1 DEF Swapped, Swapping, Working
    <3>2. <<g, p>> \notin thread[u].old
      BY <1>0, <3>1 DEF Overlapping, Untaken, Working
    <3>3. thread[u].old \subseteq Started /\ <<0, p>> \notin Started
      BY <3>1 DEF Overlapping, Numbered, Started
    <3> QED
      BY <3>1, <3>2, <3>3
  <2> QED
    BY <1>3, <2>1
<1>5. Spared'
  <2>1. \A u \in Threads : thread'[u].pc \in FellBack => thread'[u] = thread[u]
    BY <1>1 DEF FellBack
  <2> QED
    BY <1>0, <1>4, <2>1 DEF Overlapping, Spared
<1>6. ResolvesAlive'
  <2>1. ps \in SUBSET Names /\ g \in Nat /\ Procs(g, ps) \subseteq live
    BY <1>0, Fields DEF Typed, Reload, Overlapping, Untaken, Working
  <2>2. \A p \in Names : providers'[p] # 0 => <<providers'[p], p>> \in live
    BY <1>0, <2>1, ProcsIn
  <2> QED
    BY <1>0, <2>2 DEF Overlapping, ResolvesAlive
<1> QED
  BY <1>2, <1>5, <1>6 DEF Overlapping

LEMMA OverlapProvider ==
  ASSUME Typed, Overlapping, NEW t \in Threads, SwapProvider(t)
  PROVE  Overlapping'
<1> DEFINE c == thread[t].read
           g == thread[t].gen
<1>0. /\ thread[t].pc = "provider" /\ Then(t, "model")
      /\ provider' = IF c.default \in c.ps THEN <<g, c.default>> ELSE provider
      /\ headless' = (headless \/ c.default \notin c.ps)
      /\ UNCHANGED <<gen, providers, provider_hosts, live>>
  BY DEF SwapProvider, At
<1>1. /\ thread'[t].pc = "model" /\ thread'[t].read = c
      /\ thread'[t].gen = g /\ thread'[t].old = thread[t].old
      /\ \A u \in Threads : u # t => thread'[u] = thread[u]
  BY <1>0, SwapEffect DEF Steps
<1>2. Numbered' /\ Untaken'
  BY <1>0, <1>1, SwapKeeps DEF Working
<1>3. c.ps \in SUBSET Names /\ g \in Nat /\ Procs(g, c.ps) \subseteq live
  BY <1>0, Fields DEF Typed, Reload, Overlapping, Untaken, Working
<1>4. \/ headless'
      \/ \A u \in Threads : thread'[u].pc \in FellBack => provider' \notin thread'[u].old
  <2>1. CASE c.default \notin c.ps
    BY <1>0, <2>1
  <2>2. ASSUME c.default \in c.ps, NEW u \in Threads, thread'[u].pc \in FellBack
        PROVE  provider' \notin thread'[u].old
    <3>1. thread'[u].old = thread[u].old /\ thread[u].pc \in Swapping
      BY <1>0, <1>1, <2>2 DEF FellBack, Swapping, Working
    <3>2. provider' = <<g, c.default>> /\ c.default \in Names
      BY <1>0, <1>3, <2>2
    <3> QED
      BY <1>0, <3>1, <3>2 DEF Overlapping, Untaken, Working
  <2> QED
    BY <2>1, <2>2
<1>5. \A u \in Threads : thread'[u].pc \in Swapped =>
        \A p \in Names : <<providers'[p], p>> \notin thread'[u].old
  <2>1. \A u \in Threads : thread'[u].pc \in Swapped =>
          thread[u].pc \in Swapped /\ thread'[u].old = thread[u].old
    BY <1>0, <1>1 DEF Swapped
  <2> QED
    BY <1>0, <2>1 DEF Overlapping, Spared
<1>6. ResolvesAlive'
  <2>1. headless' \/ provider' \in live
    BY <1>0, <1>3, ProcsIn DEF Overlapping, ResolvesAlive
  <2> QED
    BY <1>0, <2>1 DEF Overlapping, ResolvesAlive
<1> QED
  BY <1>2, <1>4, <1>5, <1>6 DEF Overlapping, Spared

LEMMA OverlapModel ==
  ASSUME Typed, Overlapping, NEW t \in Threads, SwapModel(t)
  PROVE  Overlapping'
<1>0. /\ thread[t].pc = "model" /\ Then(t, "hosts")
      /\ UNCHANGED <<gen, tabled, live, headless>>
  BY DEF SwapModel, At, history, tabled
<1>1. /\ thread'[t].pc = "hosts" /\ thread'[t].read = thread[t].read
      /\ thread'[t].gen = thread[t].gen /\ thread'[t].old = thread[t].old
      /\ \A u \in Threads : u # t => thread'[u] = thread[u]
  BY <1>0, SwapEffect DEF Steps
<1>2. Numbered' /\ Untaken'
  BY <1>0, <1>1, SwapKeeps DEF Working, tabled
<1>3. \A u \in Threads : /\ thread'[u].old = thread[u].old
                         /\ thread'[u].pc \in Swapped => thread[u].pc \in Swapped
                         /\ thread'[u].pc \in FellBack => thread[u].pc \in FellBack
  BY <1>0, <1>1 DEF Swapped, FellBack
<1>4. Spared' /\ ResolvesAlive'
  BY <1>0, <1>3 DEF Overlapping, Spared, ResolvesAlive, tabled
<1> QED
  BY <1>2, <1>4 DEF Overlapping

\* From now on the next reload may take its processes; no other one's are in the table.
LEMMA OverlapHosts ==
  ASSUME Typed, Overlapping, NEW t \in Threads, SwapHosts(t)
  PROVE  Overlapping'
<1> DEFINE ps == thread[t].read.ps
           g == thread[t].gen
<1>0. /\ thread[t].pc = "hosts" /\ Then(t, "reap") /\ provider_hosts' = Procs(g, ps)
      /\ UNCHANGED <<gen, providers, provider, live, headless>>
  BY DEF SwapHosts, At, history
<1>1. /\ thread'[t].pc = "reap" /\ thread'[t].read = thread[t].read
      /\ thread'[t].gen = g /\ thread'[t].old = thread[t].old
      /\ \A u \in Threads : u # t => thread'[u] = thread[u]
  BY <1>0, SwapEffect DEF Steps
<1>2. /\ ps \in SUBSET Names /\ g \in 1 .. gen /\ g \in Nat /\ Procs(g, ps) \subseteq live
      /\ Started' = Started /\ Procs(g, ps) \subseteq Started
  BY <1>0, Fields DEF Typed, Reload, Overlapping, Numbered, Untaken, Working, Swapping, Started
<1>3. \A u \in Threads :
        /\ thread'[u].read = thread[u].read /\ thread'[u].gen = thread[u].gen
        /\ thread'[u].old = thread[u].old
        /\ thread'[u].pc \in Working => thread[u].pc \in Working /\ u # t
        /\ thread'[u].pc \in Swapping <=> thread[u].pc \in Swapping
        /\ thread'[u].pc \in Swapped => thread[u].pc \in Swapped
        /\ thread'[u].pc \in FellBack => thread[u].pc \in FellBack
  BY <1>0, <1>1 DEF Working, Swapping, Swapped, FellBack
<1>4. Numbered'
  BY <1>0, <1>2, <1>3 DEF Overlapping, Numbered
<1>5. Untaken'
  <2>1. ASSUME NEW u \in Threads, thread'[u].pc \in Working, NEW n \in Names
        PROVE  <<thread'[u].gen, n>> \notin provider_hosts'
    <3>1. thread[u].gen # g /\ thread'[u].gen = thread[u].gen
      BY <1>0, <1>3, <2>1 DEF Overlapping, Numbered, Working
    <3> QED
      BY <1>0, <1>2, <3>1, ProcsIn
  <2> QED
    BY <1>0, <1>3, <2>1 DEF Overlapping, Untaken
<1>6. Spared' /\ ResolvesAlive'
  BY <1>0, <1>3 DEF Overlapping, Spared, ResolvesAlive
<1> QED
  BY <1>4, <1>5, <1>6 DEF Overlapping

\* What it shuts down no table names, and no other reload has just started.
LEMMA OverlapReap ==
  ASSUME Typed, Overlapping, NEW t \in Threads, Reap(t)
  PROVE  Overlapping'
<1>0. /\ thread[t].pc = "reap" /\ live' = live \ thread[t].old /\ Over(t)
      /\ UNCHANGED <<gen, tabled, headless>>
  BY DEF Reap, At, history, tables, tabled
<1>1. /\ thread'[t].pc = "idle"
      /\ \A u \in Threads : u # t => thread'[u] = thread[u]
  BY <1>0, IsOver
<1>2. \A u \in Threads : /\ thread'[u].pc \in Swapping => thread'[u] = thread[u]
                         /\ thread'[u].pc \in Working => thread'[u] = thread[u]
                         /\ thread'[u].pc \in Swapped => thread'[u] = thread[u]
                         /\ thread'[u].pc \in FellBack => thread'[u] = thread[u]
  BY <1>1 DEF Swapping, Working, Swapped, FellBack
<1>3. Started' = Started
  BY <1>0 DEF Started
<1>4. Numbered'
  BY <1>0, <1>2, <1>3 DEF Overlapping, Numbered, tabled
<1>5. Untaken'
  <2>1. ASSUME NEW u \in Threads, thread[u].pc \in Working,
               NEW e \in Procs(thread[u].gen, thread[u].read.ps)
        PROVE  e \in live'
    <3>1. e \in live
      BY <2>1 DEF Overlapping, Untaken
    <3>2. PICK n \in Names : e = <<thread[u].gen, n>>
      BY <2>1, Fields, ProcsIn DEF Typed, Reload
    <3>3. e \notin thread[t].old
      BY <1>0, <2>1, <3>2 DEF Overlapping, Untaken, Swapping
    <3> QED
      BY <1>0, <3>1, <3>3
  <2> QED
    BY <1>0, <1>2, <2>1 DEF Overlapping, Untaken, tabled
<1>6. Spared'
  BY <1>0, <1>2 DEF Overlapping, Spared, tabled
<1>7. ResolvesAlive'
  <2>1. /\ \A p \in Names : <<providers[p], p>> \notin thread[t].old
        /\ headless \/ provider \notin thread[t].old
    BY <1>0 DEF Overlapping, Spared, Swapped, FellBack
  <2> QED
    BY <1>0, <2>1 DEF Overlapping, ResolvesAlive, tabled
<1> QED
  BY <1>4, <1>5, <1>6, <1>7 DEF Overlapping

LEMMA Still ==
  ASSUME Overlapping, UNCHANGED <<thread, gen, tabled, live, headless>>
  PROVE  Overlapping'
BY DEF Overlapping, Numbered, Untaken, Spared, ResolvesAlive, Started, tabled

LEMMA OverlapStep == Typed /\ Overlapping /\ [Next]_vars => Overlapping'
<1> SUFFICES ASSUME Typed, Overlapping, [Next]_vars PROVE Overlapping'
  OBVIOUS
<1>w. "watch" \in Threads
  BY DEF Threads
<1>1. CASE Edit \/ spawn_config_watcher \/ UNCHANGED vars
           \/ \E t \in Turns : PickModel(t) \/ compose_loop(t) \/ EndTurn(t)
  BY <1>1, Still DEF Edit, spawn_config_watcher, vars, PickModel, compose_loop, EndTurn, tables,
     tabled, history
<1>2. ASSUME NEW t \in Threads, thread[t].pc = "idle", Start(t),
             UNCHANGED <<gen, tabled, live, headless>>
      PROVE  Overlapping'
  <2>1. thread'[t].pc = "read" /\ \A u \in Threads : u # t => thread'[u] = thread[u]
    BY <1>2, Moved DEF Start, Steps
  <2> QED
    BY <1>2, <2>1, Outside DEF Swapping, Working
<1>3. CASE observe
  <2>1. CASE Start("watch")
    BY <1>2, <1>3, <1>w, <2>1 DEF observe, Reloading, tables, tabled
  <2>2. CASE UNCHANGED thread
    BY <1>3, <2>2, Still DEF observe, tables, tabled
  <2> QED
    BY <1>3, <2>1, <2>2 DEF observe
<1>4. ASSUME NEW t \in Threads, post_reload(t) PROVE Overlapping'
  <2>1. thread[t].pc = "idle"
    BY <1>4 DEF post_reload, Idle
  <2> QED
    BY <1>2, <1>4, <2>1 DEF post_reload, tables, tabled
<1>5. ASSUME NEW t \in Threads, Read(t) PROVE Overlapping'
  BY <1>5, ReadEffect, Outside DEF Read, tables, tabled, history, Swapping, Working
<1> QED
  BY <1>1, <1>3, <1>4, <1>5, OverlapResolve, OverlapProviders, OverlapProvider, OverlapModel,
     OverlapHosts, OverlapReap DEF Next, ReloadStep

-----------------------------------------------------------------------------
(* Reloads one after the other.                                              *)

Serial == Alone /\ HandedOn /\ Covered
Unclaimed == live \subseteq provider_hosts \cup stranded

\* While no reload swaps tables, every process is in the table or stranded.
LEMMA NobodySwaps ==
  ASSUME \A t \in Threads : thread[t].pc \notin Swapping
  PROVE  Covered <=> Unclaimed
BY DEF Covered, Unclaimed

LEMMA AloneNow ==
  ASSUME Alone, NEW t \in Threads, thread[t].pc # "idle"
  PROVE  \A u \in Threads : u # t => thread[u].pc = "idle" /\ thread[u].pc \notin Swapping
BY DEF Alone, Reloading, Swapping, Working

\* The thread of the only reload moves.
LEMMA AloneStep ==
  ASSUME Alone, NEW t \in Threads, thread[t].pc # "idle",
         \A u \in Threads : u # t => thread'[u] = thread[u]
  PROVE  Alone' /\ \A u \in Threads : u # t => thread'[u].pc = "idle"
BY AloneNow DEF Alone, Reloading

\* It is the only one, so the claims of the others need no thought.
LEMMA SerialBy ==
  ASSUME Alone', NEW t \in Threads, \A u \in Threads : u # t => thread'[u].pc = "idle",
         thread'[t].pc \in Working => thread'[t].old = provider_hosts',
         thread'[t].pc = "reap" =>
           provider_hosts' = Procs(thread'[t].gen, thread'[t].read.ps),
         \A e \in live' :
           \/ e \in provider_hosts' \cup stranded'
           \/ /\ thread'[t].pc \in Swapping
              /\ e \in thread'[t].old \cup Procs(thread'[t].gen, thread'[t].read.ps)
  PROVE  Serial'
BY DEF Serial, HandedOn, Covered, Swapping, Working

LEMMA SerialReload ==
  ASSUME Typed, Numbered, Serial, NEW t \in Threads, ReloadStep(t)
  PROVE  Serial'
<1>0. /\ \A e \in live : \/ e \in provider_hosts \cup stranded
                         \/ /\ thread[t].pc \in Swapping
                            /\ e \in thread[t].old \cup Procs(thread[t].gen, thread[t].read.ps)
      /\ thread[t].pc \in Working => thread[t].old = provider_hosts
      /\ thread[t].pc = "reap" => provider_hosts = Procs(thread[t].gen, thread[t].read.ps)
  <2>1. thread[t].pc # "idle"
    BY DEF ReloadStep, Read, resolve, SwapProviders, SwapProvider, SwapModel, SwapHosts, Reap, At
  <2> QED
    BY <2>1, AloneNow DEF Serial, Covered, HandedOn
<1>1. ASSUME thread[t].pc # "idle", \A u \in Threads : u # t => thread'[u] = thread[u],
             thread'[t].pc \in Working => thread'[t].old = provider_hosts',
             thread'[t].pc = "reap" =>
               provider_hosts' = Procs(thread'[t].gen, thread'[t].read.ps),
             \A e \in live' :
               \/ e \in provider_hosts' \cup stranded'
               \/ /\ thread'[t].pc \in Swapping
                  /\ e \in thread'[t].old \cup Procs(thread'[t].gen, thread'[t].read.ps)
      PROVE  Serial'
  BY <1>1, AloneStep, SerialBy DEF Serial
<1>2. CASE Read(t)
  <2>1. /\ thread[t].pc = "read" /\ thread'[t].pc \in {"idle", "resolve"}
        /\ \A u \in Threads : u # t => thread'[u] = thread[u]
    BY <1>2, ReadEffect
  <2> QED
    BY <1>0, <1>1, <1>2, <2>1 DEF Read, tables, history, Swapping, Working
<1>3. CASE resolve(t)
  <2>1. /\ thread[t].pc = "resolve"
        /\ \A u \in Threads : u # t => thread'[u] = thread[u]
        /\ \/ /\ thread'[t].pc = "idle"
              /\ stranded' = stranded \cup Procs(gen + 1, thread[t].read.ps)
           \/ /\ thread'[t].pc = "providers" /\ thread'[t].read = thread[t].read
              /\ thread'[t].gen = gen + 1 /\ thread'[t].old = provider_hosts
              /\ UNCHANGED stranded
    BY <1>3, ResolveEffect DEF Numbered
  <2>2. live' = live \cup Procs(gen + 1, thread[t].read.ps) /\ provider_hosts' = provider_hosts
    BY <1>3 DEF resolve, tables
  <2>3. Unclaimed
    BY <1>0, <2>1 DEF Unclaimed, Swapping, Working
  <2> QED
    BY <1>1, <2>1, <2>2, <2>3 DEF Unclaimed, Swapping, Working
<1>4. CASE SwapProviders(t) \/ SwapProvider(t) \/ SwapModel(t)
  <2>1. PICK p \in {"provider", "model", "hosts"} : Then(t, p)
    BY <1>4 DEF SwapProviders, SwapProvider, SwapModel
  <2>2. thread[t].pc \in Working /\ UNCHANGED <<provider_hosts, live, stranded>>
    BY <1>4 DEF SwapProviders, SwapProvider, SwapModel, At, Working, history
  <2>3. /\ thread'[t].pc = p /\ thread'[t].read = thread[t].read
        /\ thread'[t].gen = thread[t].gen /\ thread'[t].old = thread[t].old
        /\ \A u \in Threads : u # t => thread'[u] = thread[u]
    BY <2>1, SwapEffect DEF Steps
  <2>4. thread[t].pc # "idle" /\ thread'[t].pc # "reap" /\ thread'[t].pc \in Swapping
    BY <2>2, <2>3 DEF Working, Swapping
  <2> QED
    BY <1>0, <1>1, <2>2, <2>3, <2>4
<1>5. CASE SwapHosts(t)
  <2>1. /\ thread[t].pc = "hosts" /\ Then(t, "reap")
        /\ provider_hosts' = Procs(thread[t].gen, thread[t].read.ps)
        /\ UNCHANGED <<live, stranded>>
    BY <1>5 DEF SwapHosts, At, history
  <2>2. /\ thread'[t].pc = "reap" /\ thread'[t].read = thread[t].read
        /\ thread'[t].gen = thread[t].gen /\ thread'[t].old = thread[t].old
        /\ \A u \in Threads : u # t => thread'[u] = thread[u]
    BY <2>1, SwapEffect DEF Steps
  <2>3. thread[t].old = provider_hosts
    BY <1>0, <2>1 DEF Working
  <2> QED
    BY <1>0, <1>1, <2>1, <2>2, <2>3 DEF Swapping, Working
<1>6. CASE Reap(t)
  <2>1. /\ thread[t].pc = "reap" /\ live' = live \ thread[t].old /\ Over(t)
        /\ UNCHANGED <<provider_hosts, stranded>>
    BY <1>6 DEF Reap, At, history, tables
  <2>2. thread'[t].pc = "idle" /\ \A u \in Threads : u # t => thread'[u] = thread[u]
    BY <2>1, IsOver
  <2> QED
    BY <1>0, <1>1, <2>1, <2>2 DEF Swapping, Working
<1> QED
  BY <1>2, <1>3, <1>4, <1>5, <1>6 DEF ReloadStep

LEMMA InOrderStep == Typed /\ Numbered /\ InOrder /\ [Next]_vars => InOrder'
<1> SUFFICES ASSUME Typed, Numbered, InOrder, [Next]_vars PROVE InOrder'
  OBVIOUS
<1>w. "watch" \in Threads
  BY DEF Threads
<1>1. ASSUME UNCHANGED <<thread, provider_hosts, live, raced, stranded>> PROVE InOrder'
  BY <1>1 DEF InOrder, Alone, HandedOn, Covered, Reloading
<1>2. CASE Edit \/ spawn_config_watcher \/ UNCHANGED vars
           \/ \E t \in Turns : PickModel(t) \/ compose_loop(t) \/ EndTurn(t)
  BY <1>1, <1>2 DEF Edit, spawn_config_watcher, vars, PickModel, compose_loop, EndTurn, tables,
     history
\* A reload that starts: no other is under way, or raced says so.
<1>3. ASSUME NEW t \in Threads, thread[t].pc = "idle", Start(t),
             UNCHANGED <<provider_hosts, live, stranded>>
      PROVE  InOrder'
  <2>1. thread'[t].pc = "read" /\ \A u \in Threads : u # t => thread'[u] = thread[u]
    BY <1>3, Moved DEF Start, Steps
  <2>2. raced' = (raced \/ \E u \in Threads \ {t} : Reloading(u))
    BY <1>3 DEF Start
  <2>3. CASE raced'
    BY <2>3 DEF InOrder
  <2>4. CASE ~raced'
    <3>1. Serial /\ \A u \in Threads : u # t => thread[u].pc = "idle"
      BY <2>2, <2>4 DEF InOrder, Serial, Reloading
    <3>2. Unclaimed
      BY <1>3, <3>1, NobodySwaps DEF Serial, Swapping, Working
    <3>3. Alone' /\ \A u \in Threads : u # t => thread'[u].pc = "idle"
      BY <2>1, <3>1 DEF Alone, Reloading
    <3>4. Serial'
      BY <1>3, <2>1, <3>2, <3>3, SerialBy DEF Unclaimed, Working
    <3> QED
      BY <3>4 DEF InOrder, Serial
  <2> QED
    BY <2>3, <2>4
<1>4. CASE observe
  <2>1. CASE Start("watch")
    BY <1>3, <1>4, <1>w, <2>1 DEF observe, Reloading, tables
  <2>2. CASE UNCHANGED <<thread, raced>>
    BY <1>1, <1>4, <2>2 DEF observe, tables
  <2> QED
    BY <1>4, <2>1, <2>2 DEF observe
<1>5. ASSUME NEW t \in Threads, post_reload(t) PROVE InOrder'
  <2>1. thread[t].pc = "idle"
    BY <1>5 DEF post_reload, Idle
  <2> QED
    BY <1>3, <1>5, <2>1 DEF post_reload, tables
<1>6. ASSUME NEW t \in Threads, ReloadStep(t) PROVE InOrder'
  <2>1. raced' = raced
    BY <1>6 DEF ReloadStep, Read, resolve, SwapProviders, SwapProvider, SwapModel, SwapHosts, Reap,
       history
  <2> QED
    BY <1>6, <2>1, SerialReload DEF InOrder, Serial
<1> QED
  BY <1>2, <1>4, <1>5, <1>6 DEF Next

-----------------------------------------------------------------------------
LEMMA InitInv == Init => IInv
<1> SUFFICES ASSUME Init PROVE IInv
  OBVIOUS
<1>0. /\ First \in Contents /\ First.ps \in SUBSET Names /\ First.default \in First.ps
      /\ MaxEdits \in Nat
  BY ContentsAssumption, FirstTyped, Fields
<1>1. /\ gen = 1 /\ live = Procs(1, First.ps) /\ provider_hosts = Procs(1, First.ps)
      /\ provider = <<1, First.default>> /\ default_model = First.default
      /\ providers = [p \in Names |-> IF p \in First.ps THEN 1 ELSE 0]
      /\ file = First /\ mtime = 1 /\ thread = [t \in Threads |-> Idle]
  BY DEF Init
<1>2. Idle \in Reload /\ Idle.pc = "idle"
  BY <1>0 DEF Idle, Reload, Steps
<1>3. \A t \in Threads : thread[t].pc = "idle"
  BY <1>1, <1>2
<1>4. Typed
  <2>1. thread \in [Threads -> Reload]
    BY <1>1, <1>2
  <2>2. providers \in [Names -> 0 .. gen]
    BY <1>1
  <2> QED
    BY <1>0, <1>1, <2>1, <2>2 DEF Typed
<1>5. live \subseteq Started
  BY <1>0, <1>1 DEF Started, Procs
<1>6. Numbered /\ Untaken /\ Spared
  BY <1>1, <1>3, <1>5 DEF Numbered, Untaken, Spared, Swapping, Working, Swapped, FellBack
<1>7. ResolvesAlive
  BY <1>0, <1>1, ProcsIn DEF ResolvesAlive
<1>8. InOrder
  BY <1>1, <1>3 DEF InOrder, Alone, HandedOn, Covered, Reloading, Working
<1> QED
  BY <1>4, <1>6, <1>7, <1>8 DEF IInv

LEMMA StepInv == IInv /\ [Next]_vars => IInv'
BY TypeStep, OverlapStep, InOrderStep DEF IInv, Overlapping

LEMMA Invariance == Spec => []IInv
BY InitInv, StepInv, PTL DEF Spec

\* Every table names providers, by processes that have been started.
THEOREM TypeCorrect == Spec => []TypeOK
<1>1. IInv => TypeOK
  <2> SUFFICES ASSUME IInv PROVE TypeOK
    OBVIOUS
  <2>1. \A t \in Threads : thread[t].pc \in Steps
    BY DEF IInv, Typed, Reload
  <2>2. provider_hosts \subseteq Nat \X Names
    BY DEF IInv, Typed, Numbered, Started
  <2> QED
    BY <2>1, <2>2 DEF IInv, Typed, TypeOK, Steps
<1> QED
  BY <1>1, Invariance, PTL

\* For every number of reloads that overlap in every way, and whatever is written to the
\* file meanwhile: a turn never resolves a name to a process that has been shut down.
THEOREM TablesNameTheLiving == Spec => []ResolvesAlive
<1>1. IInv => ResolvesAlive
  BY DEF IInv
<1> QED
  BY <1>1, Invariance, PTL

\* For every number of reloads, none overlapping another: every process that runs will be
\* shut down by a reload, but for those of reloads that failed.
THEOREM ReloadsLeakNothing == Spec => []NoLeak
<1>1. IInv => NoLeak
  <2>1. ASSUME IInv, ~raced, NEW e \in live
        PROVE  \/ e \in provider_hosts \cup stranded
               \/ \E t \in Threads : e \in thread[t].old
               \/ \E t \in Threads : e \in Procs(thread[t].gen, thread[t].read.ps)
    BY <2>1 DEF IInv, InOrder, Covered
  <2>2. \A u \in Threads :
          /\ thread[u].old \in {thread[t].old : t \in Threads}
          /\ Procs(thread[u].gen, thread[u].read.ps)
               \in {Procs(thread[t].gen, thread[t].read.ps) : t \in Threads}
    OBVIOUS
  <2> DEFINE Held == UNION {thread[t].old : t \in Threads}
             Begun == UNION {Procs(thread[t].gen, thread[t].read.ps) : t \in Threads}
  <2>4. \A u \in Threads : /\ thread[u].old \subseteq Held
                           /\ Procs(thread[u].gen, thread[u].read.ps) \subseteq Begun
    BY <2>2
  <2>5. NoLeak <=> raced \/ live \subseteq provider_hosts \cup stranded \cup Held \cup Begun
    BY DEF NoLeak
  <2> HIDE DEF Held, Begun
  <2>3. ASSUME IInv, ~raced, NEW e \in live
        PROVE  e \in provider_hosts \cup stranded \cup Held \cup Begun
    BY <2>1, <2>3, <2>4
  <2> QED
    BY <2>3, <2>5
<1> QED
  BY <1>1, Invariance, PTL
=============================================================================
