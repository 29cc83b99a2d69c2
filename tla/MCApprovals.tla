----------------------------- MODULE MCApprovals -----------------------------
(* Approvals: the same call in two sessions, an interaction, and an approval    *)
(* given in an earlier run.                                                    *)
EXTENDS Approvals
CONSTANTS a1, a2, ui, s1, s2, f, g, p1, p2
MCIsApproval == [q \in Questions |-> q # ui]
MCSession == [q \in Questions |-> IF q = a2 THEN s2 ELSE s1]
MCFingerprint == [q \in Questions |-> IF q = ui THEN g ELSE f]
=============================================================================
