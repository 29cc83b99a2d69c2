----------------------------- MODULE MCReactLoop -----------------------------
(* ReactLoop with one tool of each kind: parallel-safe, sequential, not in the  *)
(* registry, switched off.                                                     *)
EXTENDS ReactLoop
CONSTANTS safe, unsafe, unknown, off
=============================================================================
