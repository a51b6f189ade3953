--------------------------- MODULE MCIndexLifecycle ---------------------------
(* Small instances of IndexLifecycle for TLC.                              *)
EXTENDS IndexLifecycle, TLC

CONSTANTS b1, b2, b3, d1, i1, i2, p1, p2

MCBuilds == {b1, b2, b3}
MCDocs == {d1}
MCIdentities == {i1, i2}
OneOperator == {p1}
TwoOperators == {p1, p2}

NoRules == {}
FreshBuildsOnly == {"fresh_builds"}
FreshBuilds == {"fresh_builds", "keep_standby"}
AtomicRules == {"fresh_builds", "reconcile_first"}

Symmetry == Permutations(MCBuilds) \cup Permutations(MCIdentities) \cup Permutations({p1, p2})
=============================================================================
