--------------------------- MODULE MCTurnRegistry ---------------------------
(* TurnRegistry on small instances: interchangeable threads and requests.    *)
EXTENDS TurnRegistry, TLC

\* Threads and requests are never compared: the safety runs may permute them.
Symmetry == Permutations(Workers) \cup Permutations(Requests)
=============================================================================
