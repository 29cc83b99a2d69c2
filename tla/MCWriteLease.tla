---------------------------- MODULE MCWriteLease ----------------------------
(* WriteLease on small instances.                                           *)
EXTENDS WriteLease
=============================================================================
