--------------------------- MODULE MCSessionStore ---------------------------
(* SessionStore on small instances.  Session ids are never compared:        *)
(* the safety runs may permute them.                                           *)
EXTENDS SessionStore, TLC

Symmetry == Permutations(Sessions)
=============================================================================
