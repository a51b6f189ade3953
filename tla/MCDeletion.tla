------------------------------ MODULE MCDeletion ------------------------------
(* Small instances of Deletion for TLC.                                    *)
EXTENDS Deletion, TLC

CONSTANTS b1, b2, b3, d1, d2, i1, p1, q1, q2

MCBuilds == {b1, b2, b3}
TwoBuilds == {b1, b2}
OneDoc == {d1}
TwoDocs == {d1, d2}
MCIdentities == {i1}
OneOperator == {p1}
OneClerk == {q1}
TwoClerks == {q1, q2}

FreshBuilds == {"fresh_builds"}

Symmetry == Permutations(MCBuilds) \cup Permutations({d1, d2}) \cup Permutations({q1, q2})
=============================================================================
