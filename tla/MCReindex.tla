------------------------------- MODULE MCReindex -------------------------------
(* Small instances of Reindex for TLC.                                     *)
EXTENDS Reindex

CONSTANTS w1, w2, nightly, onChange, watcher, v1, v2, kSched, k1, k2, kManual

OneWorker == {w1}
TwoWorkers == {w1, w2}
NoClients == {}
NoSteps == {}
NoAsks == {}

AllTriggers == {nightly, onChange, watcher}
TwoTriggers == {nightly, onChange}
OneTrigger == {nightly}
Kinds_ == [t \in Triggers |->
  IF t = nightly THEN "scheduled" ELSE IF t = onChange THEN "config_change" ELSE "change_detected"]
TwoVersions == {v1, v2}
KeyOf == [v \in {v1, v2} |-> IF v = v1 THEN k1 ELSE k2]
Offered == {[kind |-> "pipeline", key |-> k, prio |-> 0] : k \in {kSched, k1, k2}}
           \cup {[kind |-> "pipeline", key |-> kManual, prio |-> 10]}
=============================================================================
