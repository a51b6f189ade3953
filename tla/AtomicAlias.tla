------------------------------ MODULE AtomicAlias ------------------------------
(***************************************************************************)
(* What the two-phase alias swap promises: one pair (live, standby) that   *)
(* changes in single steps.  A promotion makes a new collection live and   *)
(* the one that was live the standby; a rollback exchanges the two.        *)
(* IndexLifecycle implements it when the callers keep its rules.           *)
(***************************************************************************)
CONSTANTS Builds, None

VARIABLES live, standby

Init == live = None /\ standby = None

Promote(b) ==
  /\ b # live
  /\ live' = b
  /\ standby' = live

Rollback ==
  /\ standby # None
  /\ live' = standby
  /\ standby' = live

Next == Rollback \/ \E b \in Builds : Promote(b)

Spec == Init /\ [][Next]_<<live, standby>>
=============================================================================
