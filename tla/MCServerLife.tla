----------------------------- MODULE MCServerLife -----------------------------
EXTENDS ServerLife, TLC
CONSTANTS s1, s2, k1, l1, l2
Symmetric == Permutations(Servers) \cup Permutations(Clients \ Cli)
=============================================================================
