------------------------------ MODULE MCSubAgent ------------------------------
(* PluginRpc on two calls: a tool call that streams, and a hook of the sub-agent  *)
(* that the tool call has asked for.                                            *)
EXTENDS SubAgent
CONSTANTS tool, nested
MCParent == [c \in Calls |-> IF c = nested THEN tool ELSE NoCall]
=============================================================================
