----------------------------- MODULE EventStream -----------------------------
(***************************************************************************)
(* What a session's event stream promises its clients (R-SRV-040): what a    *)
(* client has seen of the log is a prefix of it, which only grows.  A client *)
(* whose ring overflowed is holed from then on and is promised nothing.      *)
(***************************************************************************)
EXTENDS Naturals

CONSTANT Clients

VARIABLES
  head,    \* events committed
  seen,    \* [Clients -> the events the client has been shown]
  holed    \* [Clients -> an event was dropped on the way to it]

vars == <<head, seen, holed>>

Init ==
  /\ head = 0
  /\ seen = [c \in Clients |-> {}]
  /\ holed = [c \in Clients |-> FALSE]

Append == head' = head + 1 /\ UNCHANGED <<seen, holed>>

\* The next event, or several at once when the client loads a snapshot.
Show(c) ==
  /\ ~holed[c]
  /\ \E n \in 1..head : seen[c] \subseteq 1..n /\ seen' = [seen EXCEPT ![c] = 1..n]
  /\ UNCHANGED <<head, holed>>

\* One event can be too much for several rings.
Lose ==
  /\ \E lost \in SUBSET Clients :
       holed' = [c \in Clients |-> holed[c] \/ c \in lost]
  /\ UNCHANGED <<head, seen>>

\* What a holed client shows is its own affair.
Drift(c) ==
  /\ holed[c]
  /\ \E more \in SUBSET (1..head) : seen' = [seen EXCEPT ![c] = @ \cup more]
  /\ UNCHANGED <<head, holed>>

Next == Append \/ Lose \/ \E c \in Clients : Show(c) \/ Drift(c)

Spec == Init /\ [][Next]_vars
=============================================================================
