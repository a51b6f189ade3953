-------------------------------- MODULE MCAccess --------------------------------
(* Small instances of Access for TLC.                                      *)
EXTENDS Access, TLC

CONSTANTS root, k1, k2, k3, t1, t2, g1, g2, a1, a2, b1, w1, w2

TwoKeys == {root, k1}
ThreeKeys == {root, k1, k2}
FourKeys == {root, k1, k2, k3}
OneThread == {t1}
TwoThreads == {t1, t2}
OneGrant == {g1}
TwoGrants == {g1, g2}
OneAdmin == {a1}
TwoAdmins == {a1, a2}
OneKb == {b1}
TwoWorkspaces == {w1, w2}
InFirst == [b \in OneKb |-> w1]

Issuable == {"service"}
\* An editor of another workspace than the base's.
Elsewhere == [k \in {k1} |-> [NoKey EXCEPT !.there = TRUE, !.role = "editor",
                                          !.scope = "workspace", !.ws = w2]]
NoPreset == [k \in {} |-> NoKey]

Point(score, corrupt) ==
  [kb |-> b1, ws |-> w1, readers |-> {k1, k2}, score |-> score, corrupt |-> corrupt]
GoodAndBad == {Point(2, FALSE), Point(1, TRUE)}

Symmetry == Permutations(TwoThreads) \cup Permutations(TwoGrants)
=============================================================================
