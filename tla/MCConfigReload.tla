---------------------------- MODULE MCConfigReload ----------------------------
EXTENDS ConfigReload
CONSTANTS a, b, t1
Good(ps, d) == [load |-> "good", ps |-> ps, default |-> d]
MCFirst == Good({a}, a)
MCContents == {MCFirst, Good({b}, b), Good({a, b}, None),
               [MCFirst EXCEPT !.load = "torn"], [MCFirst EXCEPT !.load = "late"]}
=============================================================================
