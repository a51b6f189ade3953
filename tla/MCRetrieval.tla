----------------------------- MODULE MCRetrieval -----------------------------
(* Small instances of Retrieval for TLC.                                   *)
EXTENDS Retrieval, TLC

CONSTANTS b1, b2, b3, d1, i1, i2, p1, p2, q1

MCBuilds == {b1, b2, b3}
TwoBuilds == {b1, b2}
MCDocs == {d1}
MCIdentities == {i1, i2}
OneOperator == {p1}
TwoOperators == {p1, p2}
MCReaders == {q1}

\* Two models whose vectors have one size, and two sizes.
OneSize == [i \in MCIdentities |-> [model |-> i, dims |-> 1]]
TwoSizes == [i \in MCIdentities |-> [model |-> i, dims |-> IF i = i1 THEN 1 ELSE 2]]

NoRules == {}
FreshBuilds == {"fresh_builds", "keep_standby"}
AnyRetire == {"fresh_builds"}

BuildSymmetry == Permutations(MCBuilds) \cup Permutations(TwoOperators)
=============================================================================
