----------------------------- MODULE MCPluginRpc -----------------------------
(* PluginRpc on two calls: a tool call that streams, and the hook of a turn     *)
(* that the tool call's own request to the host runs.                          *)
EXTENDS PluginRpc
CONSTANTS tool, nested
MCParent == [c \in Calls |-> IF c = nested THEN tool ELSE NoCall]
=============================================================================
