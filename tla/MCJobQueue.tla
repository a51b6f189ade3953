------------------------------ MODULE MCJobQueue ------------------------------
(* Small instances of JobQueue for TLC.                                    *)
EXTENDS JobQueue, TLC

CONSTANTS w1, w2, c1, c2, k1, k2

OneWorker == {w1}
TwoWorkers == {w1, w2}
NoClients == {}
OneClient == {c1}
TwoClients == {c1, c2}

Ingest(key, prio) == [kind |-> "pipeline", key |-> key, prio |-> prio]
Eval(key) == [kind |-> "unsupported", key |-> key, prio |-> 0]
SameKey == {Ingest(k1, 0)}
TwoKeys == {Ingest(k1, 0), Ingest(k2, 0)}
Mixed == {Ingest(k1, 0), Ingest(None, 10), Eval(k2)}

NoSteps == {}
BuildOnly == {"build"}
AnyStep == Steps
NoAsks == {}
ResumeOnly == {"resume"}
CancelOnly == {"cancel"}
BothAsks == {"resume", "cancel"}

Symmetry == Permutations(TwoWorkers) \cup Permutations(TwoClients)
=============================================================================
