----------------------------- MODULE MCSseAttach -----------------------------
(* SseAttach on small instances.                                            *)
EXTENDS SseAttach
=============================================================================
