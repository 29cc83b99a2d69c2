------------------------------ MODULE Approvals ------------------------------
(***************************************************************************)
(* Questions to the user that block a thread (kn9t-server/src/policy.rs,      *)
(* interaction.rs): approvals, which a policy plugin or a plugin's            *)
(* tool_execute asks for and whose answer may be cached for the session or     *)
(* for always, and the interactions of plugins, whose answer is opaque.  Both  *)
(* are a table of slots: the asker waits on its slot until an answer, its      *)
(* Cancel or a deadline; POST /approve and POST /ui-respond look a slot up     *)
(* and write it, each on a thread of its own, as often as clients like.        *)
(***************************************************************************)
EXTENDS Naturals, FiniteSets

CONSTANTS
  Questions,     \* approval and interaction ids, each used once
  IsApproval,    \* [Questions -> BOOLEAN]
  Session,       \* [Questions -> the session that asks]
  Fingerprint,   \* [Questions -> what a cached answer is filed under]
  Deadlines,     \* the questions with a deadline
  Reachable,     \* those whose Cancel a running turn holds
  Remembered,    \* the always-approvals of earlier runs
  Nothing,       \* no answer yet
  Posts          \* the answers that clients send

ASSUME ApprovalsAssumption ==
  /\ DOMAIN IsApproval = Questions /\ DOMAIN Session = Questions
  /\ DOMAIN Fingerprint = Questions
  /\ Deadlines \cup Reachable \subseteq Questions

VARIABLES
  asker,       \* [Questions -> the thread that asks: where it is, what it concluded]
  inner, meta, \* the registries' tables: questions with a slot, approvals with a meta
  slot,        \* [Questions -> the answer in the slot]
  cancelled,   \* questions whose turn has been cancelled
  post,        \* [Posts -> the thread of an answer]
  sessionOk, persistent,   \* ApprovalCache
  config,      \* the always-approvals in config.toml
  said         \* history: what users have allowed

askVars == <<asker, inner, meta, slot, cancelled, post, sessionOk, persistent, config,
             said>>
cache == <<sessionOk, persistent, config>>

-----------------------------------------------------------------------------
Decisions == {"allow", "deny"}
Scopes == {"once", "session", "always"}
Answer(q, d, s) == [q |-> q, decision |-> d, scope |-> s]

AskInit ==
  /\ asker = [q \in Questions |-> [pc |-> "idle", outcome |-> "none"]]
  /\ inner = {} /\ meta = {}
  /\ slot = [q \in Questions |-> "none"]
  /\ cancelled = {}
  /\ post = [p \in Posts |-> [pc |-> "idle", answer |-> Nothing, text |-> {}]]
  /\ sessionOk = {} /\ persistent = Remembered /\ config = Remembered
  /\ said = {}

-----------------------------------------------------------------------------
(* The thread that asks.                                                    *)

is_approved(q) == \/ Fingerprint[q] \in persistent
                  \/ <<Session[q], Fingerprint[q]>> \in sessionOk

\* A cached approval answers without troubling the user.  Otherwise the slot, its
\* meta, and only then the event that tells clients the id.
request(q) ==
  /\ asker[q].pc = "idle"
  /\ IF IsApproval[q] /\ is_approved(q)
       THEN /\ asker' = [asker EXCEPT ![q] = [pc |-> "done", outcome |-> "cached"]]
            /\ UNCHANGED <<inner, meta>>
       ELSE /\ inner' = inner \cup {q}
            /\ meta' = IF IsApproval[q] THEN meta \cup {q} ELSE meta
            /\ asker' = [asker EXCEPT ![q].pc = "waiting"]
  /\ UNCHANGED <<slot, cancelled, post, cache, said>>

Conclude(q, outcome) == asker' = [asker EXCEPT ![q] = [pc |-> "leaving", outcome |-> outcome]]

Wake(q) ==
  /\ asker[q].pc = "waiting" /\ slot[q] # "none"
  /\ Conclude(q, slot[q])
  /\ UNCHANGED <<inner, meta, slot, cancelled, post, cache, said>>

\* Cancelled or too late; the slot is still empty, its lock is held.  Every
\* 100 ms.
GiveUp(q) ==
  /\ asker[q].pc = "waiting" /\ slot[q] = "none"
  /\ q \in cancelled \cup Deadlines
  /\ Conclude(q, "unanswered")
  /\ UNCHANGED <<inner, meta, slot, cancelled, post, cache, said>>

\* Slip: a question that nobody answered keeps its slot.
Slipremove(q) ==
  /\ asker[q].pc = "leaving"
  /\ asker' = [asker EXCEPT ![q].pc = "done"]
  /\ IF asker[q].outcome = "unanswered" THEN UNCHANGED <<inner, meta>>
     ELSE inner' = inner \ {q} /\ meta' = meta \ {q}
  /\ slot' = [slot EXCEPT ![q] = "none"]
  /\ UNCHANGED <<cancelled, post, cache, said>>

\* remove, discard: whoever looks the id up from now on finds nothing.  An answer
\* that has found the slot before writes it, and nobody reads it.
remove(q) ==
  /\ asker[q].pc = "leaving"
  /\ asker' = [asker EXCEPT ![q].pc = "done"]
  /\ inner' = inner \ {q} /\ meta' = meta \ {q}
  /\ slot' = [slot EXCEPT ![q] = "none"]
  /\ UNCHANGED <<cancelled, post, cache, said>>

Cancel(q) ==
  /\ q \in Reachable \ cancelled /\ asker[q].pc = "waiting"
  /\ cancelled' = cancelled \cup {q}
  /\ UNCHANGED <<asker, inner, meta, slot, post, cache, said>>

-----------------------------------------------------------------------------
(* The thread of an answer: resolve_approval or respond.                     *)

Over == [pc |-> "done", answer |-> Nothing, text |-> {}]
Step(p, pc) == post' = [post EXCEPT ![p] = IF pc = "done" THEN Over ELSE [@ EXCEPT !.pc = pc]]

\* A client answers a question it has been shown, perhaps one that is over.  The
\* scope of a refusal is never looked at, and an interaction's answer has none.
Look(p, a) ==
  /\ post[p].pc = "idle"
  /\ a.scope # "once" => IsApproval[a.q] /\ a.decision = "allow"
  /\ asker[a.q].pc \in {"waiting", "leaving", "done"} /\ asker[a.q].outcome # "cached"
  /\ said' = said \cup {o \in {a} : o.decision = "allow"}
  /\ post' = [post EXCEPT ![p] = IF a.q \in inner THEN [@ EXCEPT !.pc = "found", !.answer = a]
                                 ELSE Over]
  /\ UNCHANGED <<asker, inner, meta, slot, cancelled, cache>>

\* An approval without its meta any more is decided, but not cached.
ReadMeta(p) ==
  /\ post[p].pc = "found"
  /\ Step(p, IF post[p].answer.q \in meta THEN "known" ELSE "unknown")
  /\ UNCHANGED <<asker, inner, meta, slot, cancelled, cache, said>>

Cacheable(a) == a.decision = "allow" /\ a.scope # "once"

\* The slot is written whether or not it has been before, and wakes the asker.
resolve_with_meta(p) ==
  LET a == post[p].answer IN
  /\ post[p].pc \in {"known", "unknown"}
  /\ slot' = [slot EXCEPT ![a.q] = IF asker[a.q].pc = "done" THEN @ ELSE a.decision]
  /\ Step(p, IF post[p].pc = "known" /\ Cacheable(a) THEN "caching" ELSE "done")
  /\ UNCHANGED <<asker, inner, meta, cancelled, cache, said>>

\* Slip: a session approval is filed under its fingerprint for everybody.
Slipapprove_session(p) ==
  LET a == post[p].answer IN
  /\ post[p].pc = "caching" /\ a.scope = "session"
  /\ sessionOk' = sessionOk \cup {<<Session[q], Fingerprint[a.q]>> : q \in Questions}
  /\ Step(p, "done")
  /\ UNCHANGED <<asker, inner, meta, slot, cancelled, persistent, config, said>>

approve_session(p) ==
  LET a == post[p].answer IN
  /\ post[p].pc = "caching" /\ a.scope = "session"
  /\ sessionOk' = sessionOk \cup {<<Session[a.q], Fingerprint[a.q]>>}
  /\ Step(p, "done")
  /\ UNCHANGED <<asker, inner, meta, slot, cancelled, persistent, config, said>>

\* Known already: nothing is written, even if it never reached the file.
approve_persistent(p) ==
  LET a == post[p].answer IN
  /\ post[p].pc = "caching" /\ a.scope = "always"
  /\ persistent' = persistent \cup {Fingerprint[a.q]}
  /\ Step(p, IF Fingerprint[a.q] \in persistent THEN "done" ELSE "save")
  /\ UNCHANGED <<asker, inner, meta, slot, cancelled, sessionOk, config, said>>

\* write_persistent_to_disk reads the file, adds the entry and renames a new file
\* over it, without a lock: two at once may lose one.  Each half may fail.
ReadConfig(p) ==
  /\ post[p].pc = "save"
  /\ \/ post' = [post EXCEPT ![p] = [@ EXCEPT !.pc = "write", !.text = config]]
     \/ Step(p, "done")
  /\ UNCHANGED <<asker, inner, meta, slot, cancelled, cache, said>>

WriteConfig(p) ==
  LET fp == Fingerprint[post[p].answer.q] IN
  /\ post[p].pc = "write"
  /\ config' \in {config, post[p].text \cup {fp}}
  /\ Step(p, "done")
  /\ UNCHANGED <<asker, inner, meta, slot, cancelled, sessionOk, persistent, said>>

\* The server is killed and started again: the cache is read from the file.
Restart ==
  /\ \E q \in Questions : asker[q].pc # "idle"
  /\ asker' = [q \in Questions |-> IF asker[q].pc \in {"idle", "done"} THEN asker[q]
                                   ELSE [pc |-> "done", outcome |-> "killed"]]
  /\ inner' = {} /\ meta' = {} /\ cancelled' = {}
  /\ slot' = [q \in Questions |-> "none"]
  /\ post' = [p \in Posts |-> IF post[p].pc = "idle" THEN post[p]
                              ELSE Over]
  /\ sessionOk' = {} /\ persistent' = config
  /\ UNCHANGED <<config, said>>

-----------------------------------------------------------------------------
AskerStep(q) == Wake(q) \/ GiveUp(q) \/ remove(q)
PostStep(p) == \/ ReadMeta(p) \/ resolve_with_meta(p) \/ approve_session(p)
               \/ approve_persistent(p) \/ ReadConfig(p) \/ WriteConfig(p)
AskNext == \/ \E q \in Questions : request(q) \/ AskerStep(q) \/ Cancel(q)
           \/ \E p \in Posts : PostStep(p)
           \/ \E p \in Posts, q \in Questions, d \in Decisions, s \in Scopes :
                Look(p, Answer(q, d, s))
           \/ Restart

AskSpec == AskInit /\ [][AskNext]_askVars

\* The thread that asks runs, and its clock.  No user need ever answer.
FairAskSpec == AskSpec /\ \A q \in Questions : WF_askVars(AskerStep(q))

-----------------------------------------------------------------------------
AskTypeOK ==
  /\ asker \in [Questions ->
       [pc : {"idle", "waiting", "leaving", "done"},
        outcome : {"none", "cached", "unanswered", "killed"} \cup Decisions]]
  /\ inner \subseteq Questions /\ meta \subseteq Questions /\ cancelled \subseteq Questions
  /\ slot \in [Questions -> Decisions \cup {"none"}]
  /\ \A p \in Posts : post[p].pc \in {"idle", "found", "known", "unknown", "caching", "save",
                                      "write", "done"}

\* Some user has allowed it: this very call, its kind in this session, or always.
Allowed(q) == \E a \in said : a.q = q
AllowedIn(s, f) == \E a \in said : /\ a.scope = "session"
                                   /\ Session[a.q] = s /\ Fingerprint[a.q] = f
AllowedAlways(f) == f \in Remembered \/ \E a \in said : /\ a.scope = "always"
                                                        /\ Fingerprint[a.q] = f

\* No answer is permission, whatever races with the deadline, a cancel, another
\* answer or a restart: a call is permitted, now or from the cache, only as far
\* as a user has said so, and a refusal or a "once" permits nothing later.
OnlyUsersPermit ==
  /\ \A q \in Questions :
       /\ asker[q].outcome = "allow" => Allowed(q)
       /\ asker[q].outcome = "cached" => \/ AllowedIn(Session[q], Fingerprint[q])
                                         \/ AllowedAlways(Fingerprint[q])
  /\ \A e \in sessionOk : AllowedIn(e[1], e[2])
  /\ \A f \in persistent \cup config : AllowedAlways(f)

\* Nobody blocks for ever on a question that nobody answers, even when its Cancel
\* can be fired by no one; and a question that is over, whichever way it ended, leaves
\* nothing in the tables, so that an answer still on its way finds no slot.
EveryQuestionEnds ==
  \A q \in Questions :
    (asker[q].pc \in {"leaving"} \cup (IF q \in Deadlines THEN {"waiting"} ELSE {}))
      ~> (asker[q].pc = "done" /\ q \notin inner \cup meta)
=============================================================================
