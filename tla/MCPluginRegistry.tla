-------------------------- MODULE MCPluginRegistry --------------------------
EXTENDS PluginRegistry
CONSTANTS n1, n2, p1, p2, p3, r1, r2, s1
MCConfigured == <<n1>>
MCHellos == {{"t"}}
MCDecls == {{"t"}, {"t", "u"}}
MCSymmetry == Permutations({p1, p2, p3}) \cup Permutations(Requests)
=============================================================================
