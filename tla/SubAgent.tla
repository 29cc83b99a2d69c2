------------------------------- MODULE SubAgent -------------------------------
(***************************************************************************)
(* A turn inside a turn (kn9t-server/src/host_api.rs, turn.rs): a tool call of  *)
(* a turn asks the host for session_prompt, and the host's worker thread runs   *)
(* another turn before it replies, whose hooks go back to the same plugin over  *)
(* the connection of PluginRpc.  The sub-agent registers in ServerState::aborts *)
(* like any turn, with a Cancel of its own, which a watchdog fires at its        *)
(* deadline and a second helper thread when the Cancel it observes has fired.    *)
(***************************************************************************)
EXTENDS PluginRpc

CONSTANTS
  Prompts,   \* the calls that may ask for session_prompt; each names its sub-agent
  Top,       \* the turn that makes the calls without parent
  NoTurn

ASSUME SubAgentAssumption ==
  /\ Prompts \subseteq Streaming /\ Top \notin Prompts /\ NoTurn \notin Prompts \cup {Top}

VARIABLES
  aborts,     \* [Sessions -> the registered turn]
  agent,      \* [Prompts -> the worker's turn: where it is, its session, what it observes]
  top,        \* where the outer turn is
  cancelled,  \* turns whose Cancel has fired
  aborted     \* history: a client's abort has hit the outer turn

agentVars == <<aborts, agent, top, cancelled, aborted>>
allVars == <<vars, agentVars>>

\* The session of the outer turn, and the one it has forked.
Sessions == {"own", "child"}
TurnOf(c) == IF Parent[c] = NoCall THEN Top ELSE Parent[c]

NoAgent == [pc |-> "none", on |-> "child", watch |-> NoTurn]

AgentInit ==
  /\ Init
  /\ aborts = [s \in Sessions |-> IF s = "own" THEN Top ELSE NoTurn]
  /\ agent = [c \in Prompts |-> NoAgent]
  /\ top = "running" /\ cancelled = {} /\ aborted = FALSE

At(c, pcs) == agent[c].pc \in pcs
Goes(c, pc) == agent' = [agent EXCEPT ![c].pc = pc]
register_with(s, t) == aborts' = [aborts EXCEPT ![s] = t]
release_turn(s, t) == aborts' = [aborts EXCEPT ![s] = IF @ = t THEN NoTurn ELSE @]

\* TurnFinishing: the sink releases the turn that is registered, whosever it is (in two
\* steps, which TurnRegistry takes apart).
TurnFinishing(s) == release_turn(s, aborts[s])

-----------------------------------------------------------------------------
(* The worker that serves session_prompt.                                     *)

\* The SDK fills in the caller's own session when the plugin names none.  What is
\* taken for the parent's Cancel is that of the turn registered for the session
\* to be prompted.
session_prompt(c) ==
  /\ c \in workers /\ At(c, {"none"})
  /\ \E s \in Sessions :
       agent' = [agent EXCEPT ![c] = [pc |-> "composing", on |-> s, watch |-> aborts[s]]]
  /\ UNCHANGED <<vars, aborts, top, cancelled, aborted>>

\* The prompt is appended and the loop composed, either of which may fail; then the
\* helpers are started.
compose_loop(c) ==
  /\ At(c, {"composing"})
  /\ \/ Goes(c, "watched")
     \/ agent' = [agent EXCEPT ![c] = [NoAgent EXCEPT !.pc = "over"]]
  /\ UNCHANGED <<vars, aborts, top, cancelled, aborted>>

Register(c) ==
  /\ At(c, {"watched"}) /\ Goes(c, "running")
  /\ register_with(agent[c].on, c)
  /\ UNCHANGED <<vars, top, cancelled, aborted>>

\* Slip: the watchdog aborts the session instead of firing the Cancel.
SlipWatchdog(c) ==
  /\ At(c, {"watched", "running"})
  /\ cancelled' = cancelled \cup ({aborts[agent[c].on]} \ {NoTurn})
  /\ UNCHANGED <<vars, aborts, agent, top, aborted>>

\* Slip: the deadline is left to the loop, which looks at it between rounds.
SlipNoWatchdog(c) == FALSE /\ UNCHANGED allVars

Watchdog(c) ==
  /\ At(c, {"watched", "running"})
  /\ cancelled' = cancelled \cup {c}
  /\ UNCHANGED <<vars, aborts, agent, top, aborted>>

Propagate(c) ==
  /\ At(c, {"watched", "running"}) /\ agent[c].watch \in cancelled
  /\ cancelled' = cancelled \cup {c}
  /\ UNCHANGED <<vars, aborts, agent, top, aborted>>

\* The loop ends between two calls of its own, by its TurnFinishing or by a panic,
\* which from_io catches on the worker.
EndRun(c) ==
  /\ At(c, {"running"}) /\ Goes(c, "ending")
  /\ \A d \in Calls : Parent[d] = c => caller[d].pc \in {"idle", "done"}
  /\ TurnFinishing(agent[c].on) \/ UNCHANGED aborts
  /\ UNCHANGED <<vars, top, cancelled, aborted>>

\* The slot and the Cancel are dropped, the helpers told that the turn is over.
DropSlot(c) ==
  /\ At(c, {"ending"})
  /\ agent' = [agent EXCEPT ![c] = [NoAgent EXCEPT !.pc = "over"]]
  /\ release_turn(agent[c].on, c)
  /\ cancelled' = cancelled \ {c}
  /\ UNCHANGED <<vars, top, aborted>>

\* The reply to session_prompt, or to any other request.
Reply(c) ==
  /\ c \in Prompts => At(c, {"none", "over"})
  /\ WorkerReplies(c)
  /\ UNCHANGED agentVars

-----------------------------------------------------------------------------
(* The calls: those without parent are the outer turn's, the others are made by   *)
(* a running sub-agent.  A call is cancelled when its turn is.                    *)

Caller(c) ==
  /\ CallerStep(c)
  /\ caller[c].pc = "idle" => IF Parent[c] = NoCall THEN top = "running"
                                                    ELSE At(Parent[c], {"running"})
  /\ NoticeCancel(c) => TurnOf(c) \in cancelled
  /\ UNCHANGED agentVars

\* POST /abort: whichever turn is registered for the session.
abort(s) ==
  /\ aborts[s] # NoTurn
  /\ cancelled' = cancelled \cup {aborts[s]}
  /\ aborted' = (aborted \/ aborts[s] = Top)
  /\ UNCHANGED <<vars, aborts, agent, top>>

\* The outer turn ends, by its TurnFinishing or unwinding, and drops its slot.
TopEnds ==
  /\ top = "running" /\ top' = "over"
  /\ \A c \in Calls : Parent[c] = NoCall => caller[c].pc \in {"idle", "done"}
  /\ TurnFinishing("own") \/ release_turn("own", Top)
  /\ UNCHANGED <<vars, agent, cancelled, aborted>>

AgentStep(c) == \/ session_prompt(c) \/ compose_loop(c) \/ Register(c) \/ Watchdog(c)
                \/ Propagate(c) \/ EndRun(c) \/ DropSlot(c)
PluginStep == ReaderStep \/ PluginMain \/ PrintGarbage \/ Die \/ \E c \in Calls : TaskStep(c)
AgentNext ==
  \/ \E c \in Calls : Caller(c) \/ Reply(c)
  \/ PluginStep /\ UNCHANGED agentVars
  \/ \E c \in Prompts : AgentStep(c)
  \/ \E s \in Sessions : abort(s)
  \/ TopEnds

AgentSpec == AgentInit /\ [][AgentNext]_allVars

\* As PluginRpc; and a loop that is cancelled ends (ReactLoop, CancelEndsRun), the
\* worker that runs it is scheduled, and so is the watchdog.
AgentFairSpec ==
  /\ AgentSpec
  /\ WF_allVars(ReaderStep /\ UNCHANGED agentVars)
  /\ \A c \in Calls : WF_allVars(CallProgress(c) /\ UNCHANGED agentVars)
  /\ \A c \in Prompts :
       /\ WF_allVars(\/ compose_loop(c) \/ Register(c) \/ DropSlot(c)
                     \/ c \in cancelled /\ EndRun(c))
       /\ WF_allVars(Watchdog(c))

-----------------------------------------------------------------------------
AgentTypeOK ==
  /\ TypeOK
  /\ aborts \in [Sessions -> Prompts \cup {Top, NoTurn}]
  /\ agent \in [Prompts -> [pc : {"none", "composing", "watched", "running", "ending", "over"},
                            on : Sessions, watch : Prompts \cup {Top, NoTurn}]]
  /\ top \in {"running", "over"}
  /\ cancelled \subseteq Prompts \cup {Top} /\ aborted \in BOOLEAN

\* turn.rs:560-561, "one-directional, so the child can never cancel its parent": the
\* outer turn is cancelled by a client's abort only, whatever deadlines pass, and also
\* when the sub-agent has taken over the registration of its session.
OnlyAbortCancelsParent == Top \in cancelled => aborted

\* A sub-agent ends, by its deadline at the latest, although the outer turn may be
\* long over and the plugin dead: its slot and the idle count come free.  Unless one of
\* its calls cannot return: the connection is wedged, or the call is blocked in its
\* write, where it looks at no Cancel.
SubAgentEnds ==
  <>[](Wedged \/ \A c \in Prompts :
                    At(c, {"none", "over"}) \/ \E d \in Calls : Parent[d] = c /\ Blocked(d))

-----------------------------------------------------------------------------
\* host_api.rs:199-200, "the parent's Cancel propagates, so ESC aborts the sub-agent":
\* the Cancel that a sub-agent observes is that of the turn which asked for it.
ObservesParent == \A c \in Prompts : At(c, {"watched", "running"}) => agent[c].watch = Top
=============================================================================
