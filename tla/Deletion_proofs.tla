---------------------------- MODULE Deletion_proofs ----------------------------
(***************************************************************************)
(* Deletion for any number of builds, documents, clerks and operators.     *)
(* The argument has one idea: a collection that was served or restored is  *)
(* closed, nobody adds a point to it again, so what was once removed from  *)
(* it stays removed.  That needs two of the rules of IndexLifecycle: no    *)
(* build id is used twice, and the standby is not dropped (a dropped       *)
(* collection could be restored a second time under its name).             *)
(***************************************************************************)
EXTENDS Deletion, IndexLifecycle_proofs

\* The provers of a step that names none, in the order they are tried.
USE Z3T(60), ZenonT(20), SMTT(40)

\* The rules this module assumes of the callers.
RulesKept == Keeps("fresh_builds") /\ Keeps("keep_standby")

(* Types: what a call works on is there, and the log is numbered.          *)
Deleting == {"read_record", "delete_live", "delete_n1", "sweep", "report"}
Restoring == {"mark", "list", "replay", "commit", "clear"}

Ready(q) ==
  /\ job[q].pc \in Deleting => job[q].doc \in Docs
  /\ job[q].pc \in Restoring \cup {"restore"} => job[q].target \in Builds

Numbered ==
  /\ IsFiniteSet(tombstones)
  /\ Cardinality(tombstones) <= MaxTombstones
  /\ \A e \in tombstones : e[1] <= Cardinality(tombstones)

DeletionTypeInv == TypeInv /\ LagInv /\ DeletionTypeOK /\ Numbered /\ \A q \in Clerks : Ready(q)

-----------------------------------------------------------------------------
(* What the steps are built from.                                          *)

\* No call, and a call with one of its fields set, are well typed.
LEMMA NoJobType == NoJob \in Job
  BY DEF NoJob, Job, JobPC, MaybeBuild

LEMMA JobReturns ==
  ASSUME DeletionTypeInv, NEW q \in Clerks, JobReturn(q)
  PROVE  job' \in [Clerks -> Job] /\ \A r \in Clerks : Ready(r)'
  <1>1. job' \in [Clerks -> Job]
    BY NoJobType DEF JobReturn, DeletionTypeInv, DeletionTypeOK
  <1>2. NoJob.pc = "idle" BY DEF NoJob
  <1> QED BY <1>1, <1>2 DEF JobReturn, DeletionTypeInv, DeletionTypeOK, Ready, Deleting, Restoring

LEMMA JobMoves ==
  ASSUME DeletionTypeInv, NEW q \in Clerks, NEW new \in Job, job' = [job EXCEPT ![q] = new],
         new.pc \in Deleting => new.doc \in Docs,
         new.pc \in Restoring \cup {"restore"} => new.target \in Builds
  PROVE  job' \in [Clerks -> Job] /\ \A r \in Clerks : Ready(r)'
  BY DEF DeletionTypeInv, DeletionTypeOK, Ready

\* The requests of the clerks leave well typed collections.
LEMMA ClerkRequests ==
  ASSUME coll \in [Builds -> Collection], NEW b \in Builds
  PROVE  /\ \A d \in Docs : DocumentDeleted(b, d) \in [Builds -> Collection]
         /\ \A m \in BOOLEAN : MarkerSet(b, m) \in [Builds -> Collection]
         /\ \A s \in Snapshot :
              [coll EXCEPT ![b] = [exists |-> TRUE, points |-> s.points, identity |-> s.identity,
                                   unreplayed |-> s.unreplayed]] \in [Builds -> Collection]
  <1>1. ASSUME NEW d \in Docs PROVE DocumentDeleted(b, d) \in [Builds -> Collection]
    BY DEF DocumentDeleted, Collection
  <1>2. ASSUME NEW m \in BOOLEAN PROVE MarkerSet(b, m) \in [Builds -> Collection]
    BY DEF MarkerSet, Collection
  <1>3. ASSUME NEW s \in Snapshot
        PROVE  [coll EXCEPT ![b] = [exists |-> TRUE, points |-> s.points, identity |-> s.identity,
                                    unreplayed |-> s.unreplayed]] \in [Builds -> Collection]
    BY DEF Snapshot, Collection, MaybeIdentity
  <1> QED BY <1>1, <1>2, <1>3

LEMMA DeletesType ==
  ASSUME coll \in [Builds -> Collection], NEW b \in MaybeBuild, NEW d \in Docs, DeleteIfThere(b, d)
  PROVE  coll' \in [Builds -> Collection]
  BY ClerkRequests DEF DeleteIfThere, MaybeBuild

\* A step that leaves the lifecycle alone, collections apart, keeps its invariants.
LEMMA LifecycleStays ==
  ASSUME TypeInv, LagInv, coll' \in [Builds -> Collection], UNCHANGED Rest
  PROVE  TypeInv' /\ LagInv'
  BY DEF Rest, TypeInv, TypeOK, StoreTypeOK, Equipped, LagInv, RecordLagsAlias, Past, Remembered

\* The log grows by one numbered entry.
LEMMA LogGrows ==
  ASSUME Numbered, tombstones \subseteq Entry, Cardinality(tombstones) < MaxTombstones,
         NEW d \in Docs, tombstones' = Appended(d)
  PROVE  /\ Cardinality(tombstones) \in Nat
         /\ Cardinality(tombstones') = Cardinality(tombstones) + 1
         /\ Numbered' /\ tombstones' \subseteq Entry
  <1> DEFINE n == Cardinality(tombstones)
             new == <<n + 1, d>>
  <1>1. n \in Nat BY FS_CardinalityType DEF Numbered
  <1>2. new \notin tombstones BY <1>1 DEF Numbered
  <1>3. IsFiniteSet(tombstones') /\ Cardinality(tombstones') = n + 1
    BY <1>1, <1>2, FS_AddElement DEF Numbered, Appended
  <1>4. \A e \in tombstones : e[1] \in Nat BY DEF Entry
  <1>5. \A e \in tombstones' : e[1] <= n + 1
    BY <1>1, <1>4 DEF Numbered, Appended
  <1>6. new \in Entry BY <1>1, DeletionAssumption DEF Entry
  <1>7. tombstones' \subseteq Entry BY <1>6 DEF Appended
  <1>8. n + 1 <= MaxTombstones BY <1>1, DeletionAssumption
  <1> QED BY <1>1, <1>3, <1>5, <1>7, <1>8 DEF Numbered

-----------------------------------------------------------------------------
(* Type correctness.                                                       *)

\* The initial state is well typed.
LEMMA DeletionTypeInit == DeletionInit => DeletionTypeInv
  <1> SUFFICES ASSUME DeletionInit PROVE DeletionTypeInv
    OBVIOUS
  <1>1. TypeInv /\ LagInv
    BY TypeInit DEF DeletionInit, Init, StoreInit, NoRecord, Idle, LagInv, RecordLagsAlias, Past, Remembered
  <1>2. Cardinality({}) = 0 /\ IsFiniteSet({}) BY FS_EmptySet
  <1>3. DeletionTypeOK
    BY NoJobType DEF DeletionInit, DeletionTypeOK
  <1>4. Numbered BY <1>2, DeletionAssumption DEF DeletionInit, Numbered
  <1>5. \A q \in Clerks : Ready(q)
    BY DEF DeletionInit, Ready, NoJob, Deleting, Restoring
  <1> QED BY <1>1, <1>3, <1>4, <1>5 DEF DeletionTypeInv

\* The calls of the lifecycle know nothing of the log.
LEMMA TypeLifecycle ==
  ASSUME DeletionTypeInv, LifecycleStep
  PROVE  DeletionTypeInv'
  <1>1. TypeInv' /\ LagInv'
    BY TypeStep, LagStep DEF DeletionTypeInv, LifecycleStep
  <1> QED BY <1>1 DEF DeletionTypeInv, LifecycleStep, DeletionTypeOK, Numbered, Ready

\* A promotion of a restored collection starts like that of a build.
LEMMA TypeRestoredPromotion ==
  ASSUME DeletionTypeInv, NEW p \in Operators, NEW b \in Builds, StartRestoredPromotion(p, b)
  PROVE  DeletionTypeInv'
  <1> USE DEF DeletionTypeInv
  <1>1. 1 \in Chunks
    <2>1. Cardinality(Docs) \in Nat /\ Cardinality(Docs) # 0
      BY DocsAssumption, DeletionAssumption, FS_CardinalityType, FS_EmptySet
    <2> QED BY <2>1 DEF Chunks
  <1>2. TypeInv'
    <2> USE DEF TypeInv, TypeOK, StoreTypeOK
    <2>1. op' \in [Operators -> Call]
      BY <1>1, IdleType DEF StartRestoredPromotion, Start, Idle, Call, PC, MaybeBuild
    <2>2. \A q \in Operators : Equipped(q)'
      BY IdleType DEF StartRestoredPromotion, Start, Idle, Equipped
    <2>3. calls' \in 0 .. MaxCalls
      BY LifecycleAssumption DEF StartRestoredPromotion, Start
    <2> QED BY <2>1, <2>2, <2>3 DEF StartRestoredPromotion
  <1>3. LagInv'
    <2> USE DEF TypeInv
    <2>1. \A q \in Operators \ {p} : Remembered(q)'
      BY OthersRemember DEF StartRestoredPromotion, Start
    <2>2. Remembered(p)'
      BY DEF StartRestoredPromotion, Start, TypeOK, Remembered, Idle, NoRecord, Past
    <2> QED BY <2>1, <2>2 DEF StartRestoredPromotion, LagInv, RecordLagsAlias, Past
  <1> QED
    BY <1>2, <1>3
    DEF StartRestoredPromotion, deletionVars, DeletionTypeOK, Numbered, Ready

\* The steps of delete_document leave the state well typed.
LEMMA TypeDelete ==
  ASSUME DeletionTypeInv, NEW q \in Clerks,
         \/ \E d \in Docs, purge \in BOOLEAN : AppendTombstone(q, d, purge)
         \/ ReadRecord(q)
         \/ DeleteFromLive(q)
         \/ \E ok \in BOOLEAN : DeleteFromN1(q, ok)
         \/ \E b \in Builds : SweepSnapshots(q, b)
         \/ ReportDeletion(q)
  PROVE  DeletionTypeInv'
  <1> DEFINE JobsOK == job' \in [Clerks -> Job] /\ \A r \in Clerks : Ready(r)'
  <1>0. /\ coll \in [Builds -> Collection] /\ job[q] \in Job /\ Ready(q)
        /\ record.collection \in MaybeBuild /\ record.previous \in MaybeBuild
    BY DEF DeletionTypeInv, DeletionTypeOK, TypeInv, TypeOK, StoreTypeOK, Record
  <1>1. ASSUME NEW d \in Docs, NEW purge \in BOOLEAN, AppendTombstone(q, d, purge)
        PROVE  DeletionTypeInv'
    <2> DEFINE new == [NoJob EXCEPT !.pc = "read_record", !.doc = d, !.purge = purge]
    <2>1. new \in Job /\ new.pc \in Deleting \ Restoring /\ new.pc # "restore" /\ new.doc \in Docs
      BY NoJobType DEF NoJob, Job, JobPC, Deleting, Restoring
    <2>2. job' = [job EXCEPT ![q] = new] BY <1>1 DEF AppendTombstone
    <2>3. JobsOK BY <2>1, <2>2, JobMoves
    <2>4. Numbered' /\ tombstones' \subseteq Entry
      BY <1>1, LogGrows DEF AppendTombstone, DeletionTypeInv, DeletionTypeOK
    <2>5. TypeInv' /\ LagInv'
      BY <1>1, LifecycleStays DEF AppendTombstone, DeletionTypeInv, vars, Rest, TypeInv, TypeOK, StoreTypeOK
    <2> QED BY <1>1, <2>3, <2>4, <2>5 DEF AppendTombstone, DeletionTypeInv, DeletionTypeOK, history
  <1>2. CASE ReadRecord(q)
    <2> DEFINE new == [job[q] EXCEPT !.pc = "delete_live", !.live = record.collection,
                                     !.n1 = record.previous]
    <2>1. new \in Job BY <1>0 DEF Job, JobPC
    <2>2. job' = [job EXCEPT ![q] = new] BY <1>2 DEF ReadRecord
    <2>3. new.pc \in Deleting \ Restoring /\ new.pc # "restore" /\ new.doc \in Docs
      BY <1>0, <1>2 DEF ReadRecord, JobAt, Ready, Deleting, Restoring, Job
    <2>4. JobsOK BY <2>1, <2>2, <2>3, JobMoves
    <2>5. TypeInv' /\ LagInv'
      BY <1>2, LifecycleStays DEF ReadRecord, DeletionTypeInv, vars, Rest, TypeInv, TypeOK, StoreTypeOK
    <2> QED BY <1>2, <2>4, <2>5 DEF ReadRecord, DeletionTypeInv, DeletionTypeOK, history, Numbered
  <1>3. CASE DeleteFromLive(q)
    <2> DEFINE new == [job[q] EXCEPT !.pc = "delete_n1", !.swept = {job[q].live} \ {None}]
    <2>1. new \in Job BY <1>0 DEF Job, JobPC, MaybeBuild
    <2>2. job' = [job EXCEPT ![q] = new] BY <1>3 DEF DeleteFromLive
    <2>3. new.pc \in Deleting \ Restoring /\ new.pc # "restore" /\ new.doc \in Docs
      BY <1>0, <1>3 DEF DeleteFromLive, JobAt, Ready, Deleting, Restoring, Job
    <2>4. JobsOK BY <2>1, <2>2, <2>3, JobMoves
    <2>5. job[q].live \in MaybeBuild /\ job[q].doc \in Docs
      BY <1>0, <1>3 DEF DeleteFromLive, JobAt, Ready, Deleting, Job
    <2>6. TypeInv' /\ LagInv'
      BY <1>0, <1>3, <2>5, DeletesType, LifecycleStays DEF DeleteFromLive, DeletionTypeInv
    <2> QED BY <1>3, <2>4, <2>6 DEF DeleteFromLive, DeletionTypeInv, DeletionTypeOK, history, Numbered
  <1>4. ASSUME NEW ok \in BOOLEAN, DeleteFromN1(q, ok)
        PROVE  DeletionTypeInv'
    <2> DEFINE new == [job[q] EXCEPT !.pc = IF job[q].purge THEN "sweep" ELSE "report",
                         !.swept = job[q].swept \cup (IF ok THEN {job[q].n1} \ {None} ELSE {}),
                         !.sweep = IF job[q].purge THEN ToSweep ELSE {}]
    <2>0. /\ new.pc \in JobPC /\ new.sweep \subseteq Builds
          /\ job[q].swept \cup (IF ok THEN {job[q].n1} \ {None} ELSE {}) \subseteq Builds
      BY <1>0 DEF Job, JobPC, MaybeBuild, ToSweep
    <2>1. new \in Job BY ZenonT(60), <1>0, <2>0 DEF Job
    <2>2. job' = [job EXCEPT ![q] = new] BY <1>4 DEF DeleteFromN1
    <2>3. new.pc \in Deleting \ Restoring /\ new.pc # "restore" /\ new.doc \in Docs
      BY <1>0, <1>4 DEF DeleteFromN1, JobAt, Ready, Deleting, Restoring, Job
    <2>4. JobsOK BY <2>1, <2>2, <2>3, JobMoves
    <2>5. job[q].n1 \in MaybeBuild /\ job[q].doc \in Docs
      BY <1>0, <1>4 DEF DeleteFromN1, JobAt, Ready, Deleting, Job
    <2>6. TypeInv' /\ LagInv'
      BY <1>0, <1>4, <2>5, DeletesType, LifecycleStays DEF DeleteFromN1, DeletionTypeInv
    <2> QED BY <1>4, <2>4, <2>6 DEF DeleteFromN1, DeletionTypeInv, DeletionTypeOK, history, Numbered
  <1>5. ASSUME NEW b \in Builds, SweepSnapshots(q, b)
        PROVE  DeletionTypeInv'
    <2> DEFINE new == [job[q] EXCEPT !.sweep = job[q].sweep \ {b},
                         !.clear = IF coll[b].exists THEN job[q].clear \cup {b} ELSE job[q].clear]
    <2>1. new \in Job BY <1>0 DEF Job
    <2>2. job' = [job EXCEPT ![q] = new] BY <1>5 DEF SweepSnapshots
    <2>3. new.pc \in Deleting \ Restoring /\ new.pc # "restore" /\ new.doc \in Docs
      BY <1>0, <1>5 DEF SweepSnapshots, JobAt, Ready, Deleting, Restoring, Job
    <2>4. JobsOK BY <2>1, <2>2, <2>3, JobMoves
    <2>5. TypeInv' /\ LagInv'
      BY <1>5, LifecycleStays DEF SweepSnapshots, DeletionTypeInv, vars, Rest, TypeInv, TypeOK, StoreTypeOK
    <2> QED
      BY <1>5, <2>4, <2>5
      DEF SweepSnapshots, DeletionTypeInv, DeletionTypeOK, history, Numbered, SnapshotsOf
  <1>6. CASE ReportDeletion(q)
    <2>1. JobsOK BY <1>6, JobReturns DEF ReportDeletion
    <2>2. job[q].doc \in Docs /\ job[q].swept \subseteq Builds
      BY <1>0, <1>6 DEF ReportDeletion, JobAt, Ready, Deleting, Job
    <2>3. cleaned' \subseteq Docs \X Builds /\ purged' \subseteq cleaned'
      BY <1>6, <2>2 DEF ReportDeletion, DeletionTypeInv, DeletionTypeOK
    <2>4. TypeInv' /\ LagInv'
      BY <1>6, LifecycleStays DEF ReportDeletion, DeletionTypeInv, vars, Rest, TypeInv, TypeOK, StoreTypeOK
    <2> QED BY <1>6, <2>1, <2>3, <2>4 DEF ReportDeletion, DeletionTypeInv, DeletionTypeOK, Numbered
  <1> QED BY <1>1, <1>2, <1>3, <1>4, <1>5, <1>6

\* The steps of restore_from_snapshot leave the state well typed.
LEMMA TypeRestore ==
  ASSUME DeletionTypeInv, NEW q \in Clerks,
         \/ \E s \in snapshots, b \in Builds : StartRestore(q, s, b)
         \/ RestoreSnapshot(q)
         \/ SetMarker(q)
         \/ ListUnreplayed(q)
         \/ \E e \in tombstones : ReplayTombstone(q, e)
         \/ CommitReplays(q)
         \/ \E ok \in BOOLEAN : ClearMarker(q, ok)
         \/ AbortJob(q)
  PROVE  DeletionTypeInv'
  <1> DEFINE JobsOK == job' \in [Clerks -> Job] /\ \A r \in Clerks : Ready(r)'
  <1>0. /\ coll \in [Builds -> Collection] /\ job[q] \in Job /\ Ready(q)
        /\ Cardinality(tombstones) \in 0 .. MaxTombstones
    BY FS_CardinalityType, DeletionAssumption
    DEF DeletionTypeInv, DeletionTypeOK, TypeInv, TypeOK, StoreTypeOK, Numbered
  <1>1. ASSUME NEW s \in snapshots, NEW b \in Builds, StartRestore(q, s, b)
        PROVE  DeletionTypeInv'
    <2> DEFINE new == [NoJob EXCEPT !.pc = "restore", !.source = s, !.target = b]
    <2>1. new \in Job
      BY NoJobType DEF NoJob, Job, JobPC, MaybeBuild, DeletionTypeInv, DeletionTypeOK
    <2>2. new.pc \notin Deleting /\ new.target \in Builds BY DEF NoJob, Deleting
    <2>3. job' = [job EXCEPT ![q] = new] BY <1>1 DEF StartRestore
    <2>4. JobsOK BY <2>1, <2>2, <2>3, JobMoves
    <2>5. TypeInv' /\ LagInv'
      BY <1>1, LifecycleStays DEF StartRestore, DeletionTypeInv, vars, Rest, TypeInv, TypeOK, StoreTypeOK
    <2> QED BY <1>1, <2>4, <2>5 DEF StartRestore, DeletionTypeInv, DeletionTypeOK, history, Numbered
  <1>2. CASE RestoreSnapshot(q)
    <2> DEFINE new == [job[q] EXCEPT !.pc = "mark"]
    <2>1. new \in Job BY <1>0 DEF Job, JobPC
    <2>2. new.pc \notin Deleting /\ new.target \in Builds
      BY <1>0, <1>2 DEF RestoreSnapshot, JobAt, Ready, Deleting, Restoring, Job
    <2>3. job' = [job EXCEPT ![q] = new] BY <1>2 DEF RestoreSnapshot, JobTo
    <2>4. JobsOK BY <2>1, <2>2, <2>3, JobMoves
    <2>5. job[q].source \in Snapshot /\ job[q].target \in Builds
      BY <1>2, <2>2 DEF RestoreSnapshot, DeletionTypeInv, DeletionTypeOK
    <2>6. TypeInv' /\ LagInv'
      BY <1>0, <1>2, <2>5, ClerkRequests, LifecycleStays DEF RestoreSnapshot, DeletionTypeInv
    <2> QED BY <1>0, <1>2, <2>4, <2>6 DEF RestoreSnapshot, DeletionTypeInv, DeletionTypeOK, history, Numbered
  <1>3. CASE SetMarker(q)
    <2> DEFINE new == [job[q] EXCEPT !.pc = "list"]
    <2>1. new \in Job BY <1>0 DEF Job, JobPC
    <2>2. new.pc \notin Deleting /\ new.target \in Builds
      BY <1>0, <1>3 DEF SetMarker, JobAt, Ready, Deleting, Restoring, Job
    <2>3. job' = [job EXCEPT ![q] = new] BY <1>3 DEF SetMarker, JobTo
    <2>4. JobsOK BY <2>1, <2>2, <2>3, JobMoves
    <2>5. job[q].target \in Builds BY <2>2
    <2>6. TypeInv' /\ LagInv'
      BY <1>0, <1>3, <2>5, ClerkRequests, LifecycleStays DEF SetMarker, DeletionTypeInv
    <2> QED BY <1>3, <2>4, <2>6 DEF SetMarker, DeletionTypeInv, DeletionTypeOK, history, Numbered
  <1>4. CASE ListUnreplayed(q)
    <2> DEFINE new == [job[q] EXCEPT !.pc = "replay",
                         !.todo = {e \in tombstones : <<e[1], job[q].target>> \notin replays}]
    <2>1. new \in Job BY <1>0 DEF Job, JobPC, DeletionTypeInv, DeletionTypeOK
    <2>2. new.pc \notin Deleting /\ new.target \in Builds
      BY <1>0, <1>4 DEF ListUnreplayed, JobAt, Ready, Deleting, Restoring, Job
    <2>3. job' = [job EXCEPT ![q] = new] BY <1>4 DEF ListUnreplayed
    <2>4. JobsOK BY <2>1, <2>2, <2>3, JobMoves
    <2>5. TypeInv' /\ LagInv'
      BY <1>4, LifecycleStays DEF ListUnreplayed, DeletionTypeInv, vars, Rest, TypeInv, TypeOK, StoreTypeOK
    <2> QED BY <1>0, <1>4, <2>4, <2>5 DEF ListUnreplayed, DeletionTypeInv, DeletionTypeOK, history, Numbered
  <1>5. ASSUME NEW e \in tombstones, ReplayTombstone(q, e)
        PROVE  DeletionTypeInv'
    <2> DEFINE new == [job[q] EXCEPT !.todo = job[q].todo \ {e}, !.marks = job[q].marks \cup {e[1]}]
    <2>0. e \in Entry BY DEF DeletionTypeInv, DeletionTypeOK
    <2>1. new \in Job BY <1>0, <2>0 DEF Job, Entry
    <2>2. new.pc \notin Deleting /\ new.target \in Builds
      BY <1>0, <1>5 DEF ReplayTombstone, JobAt, Ready, Deleting, Restoring, Job
    <2>3. job' = [job EXCEPT ![q] = new] BY <1>5 DEF ReplayTombstone
    <2>4. JobsOK BY <2>1, <2>2, <2>3, JobMoves
    <2>5. job[q].target \in MaybeBuild /\ e[2] \in Docs BY <2>0, <2>2 DEF MaybeBuild, Entry
    <2>6. TypeInv' /\ LagInv'
      BY <1>0, <1>5, <2>5, DeletesType, LifecycleStays DEF ReplayTombstone, DeletionTypeInv
    <2> QED BY <1>5, <2>4, <2>6 DEF ReplayTombstone, DeletionTypeInv, DeletionTypeOK, history, Numbered
  <1>6. CASE CommitReplays(q)
    <2> DEFINE new == [job[q] EXCEPT !.pc = "clear"]
    <2>1. new \in Job BY <1>0 DEF Job, JobPC
    <2>2. new.pc \notin Deleting /\ new.target \in Builds
      BY <1>0, <1>6 DEF CommitReplays, JobAt, Ready, Deleting, Restoring, Job
    <2>3. job' = [job EXCEPT ![q] = new] BY <1>6 DEF CommitReplays, JobTo
    <2>4. JobsOK BY <2>1, <2>2, <2>3, JobMoves
    <2>5. job[q].marks \subseteq 1 .. MaxTombstones /\ job[q].target \in Builds
      BY <1>0, <2>2 DEF Job
    <2>6. TypeInv' /\ LagInv'
      BY <1>6, LifecycleStays DEF CommitReplays, DeletionTypeInv, vars, Rest, TypeInv, TypeOK, StoreTypeOK
    <2> QED
      BY <1>6, <2>4, <2>5, <2>6
      DEF CommitReplays, MarkedReplayed, DeletionTypeInv, DeletionTypeOK, history, Numbered
  <1>7. ASSUME NEW ok \in BOOLEAN, ClearMarker(q, ok)
        PROVE  DeletionTypeInv'
    <2>1. JobsOK BY <1>7, JobReturns DEF ClearMarker
    <2>2. job[q].target \in Builds BY <1>0, <1>7 DEF ClearMarker, JobAt, Ready, Restoring
    <2>3. TypeInv' /\ LagInv'
      BY <1>0, <1>7, <2>2, ClerkRequests, LifecycleStays DEF ClearMarker, DeletionTypeInv
    <2> QED BY <1>7, <2>1, <2>2, <2>3 DEF ClearMarker, DeletionTypeInv, DeletionTypeOK, history, Numbered
  <1>8. CASE AbortJob(q)
    <2>1. JobsOK BY <1>8, JobReturns DEF AbortJob
    <2>2. TypeInv' /\ LagInv'
      BY <1>8, LifecycleStays DEF AbortJob, DeletionTypeInv, vars, Rest, TypeInv, TypeOK, StoreTypeOK
    <2> QED BY <1>8, <2>1, <2>2 DEF AbortJob, DeletionTypeInv, DeletionTypeOK, history, Numbered
  <1> QED BY <1>1, <1>2, <1>3, <1>4, <1>5, <1>6, <1>7, <1>8

\* A snapshot is a copy of a collection.
LEMMA TypeSnapshot ==
  ASSUME DeletionTypeInv, NEW b \in Builds, NEW aged \in SUBSET snapshots, SnapshotCold(b, aged)
  PROVE  DeletionTypeInv'
  <1>1. coll[b] \in Collection BY DEF DeletionTypeInv, TypeInv, TypeOK, StoreTypeOK
  <1>2. snapshots' \subseteq Snapshot
    BY <1>1 DEF SnapshotCold, Snapshot, Collection, MaybeIdentity, DeletionTypeInv, DeletionTypeOK
  <1>3. TypeInv' /\ LagInv'
    BY LifecycleStays DEF SnapshotCold, DeletionTypeInv, vars, Rest, TypeInv, TypeOK, StoreTypeOK
  <1> QED BY <1>2, <1>3 DEF SnapshotCold, DeletionTypeInv, DeletionTypeOK, history, Numbered, Ready

\* Every step leaves the state well typed.
LEMMA DeletionTypeStep == DeletionTypeInv /\ [DeletionNext]_allVars => DeletionTypeInv'
  <1> SUFFICES ASSUME DeletionTypeInv, [DeletionNext]_allVars PROVE DeletionTypeInv'
    OBVIOUS
  <1>1. CASE UNCHANGED allVars
    <2>1. TypeInv' /\ LagInv'
      BY <1>1, LifecycleStays DEF allVars, DeletionTypeInv, vars, Rest, TypeInv, TypeOK, StoreTypeOK
    <2> QED BY <1>1, <2>1 DEF allVars, deletionVars, DeletionTypeInv, DeletionTypeOK, Numbered, Ready
  <1>2. CASE DeletionNext
    BY <1>2, TypeLifecycle, TypeRestoredPromotion, TypeDelete, TypeRestore, TypeSnapshot
    DEF DeletionNext
  <1> QED BY <1>1, <1>2

\* Type correctness: the log, the replay table, the snapshots and the locals of every
\* clerk keep their types beside any lifecycle calls, whatever rules are kept.
THEOREM DeletionTypeCorrect == DeletionSpec => []DeletionTypeOK
  <1>1. DeletionTypeInv => DeletionTypeOK BY DEF DeletionTypeInv
  <1> QED BY <1>1, DeletionTypeInit, DeletionTypeStep, PTL DEF DeletionSpec

-----------------------------------------------------------------------------
(* Closed collections.                                                     *)

Closed(b) == b \in served \/ restored[b] # None
Working(p) == op[p].pc \in {"pin", "ingest"}
Promoting(p) == op[p].pc \in {"read_identity", "get_record", "validate", "marker", "phase1"}

\* A run writes to a collection of its own that is not closed, a promotion has a
\* collection that is there, and no call drops one.
Owned(p) ==
  /\ op[p].pc # "drop"
  /\ Working(p) =>
       /\ coll[op[p].b].exists
       /\ ~Closed(op[p].b)
       /\ \A r \in Operators \ {p} : op[r].b # op[p].b
       /\ \A q \in Clerks : job[q].target # op[p].b
  /\ Promoting(p) => coll[op[p].b].exists

\* A closed or a finished collection is there; a finished one is no restore.
Kept(b) ==
  /\ Closed(b) \/ result[b] # None => coll[b].exists
  /\ result[b] # None => restored[b] = None

ClosedInv ==
  /\ \A p \in Operators : Owned(p)
  /\ \A b \in Builds : Kept(b)
  /\ \A q \in Clerks : job[q].pc \in Restoring => restored[job[q].target] # None

\* What a step does to the collections: a closed one stays closed and only shrinks.
Shrinks ==
  /\ served \subseteq served'
  /\ \A b \in Builds :
       /\ restored[b] # None => restored'[b] # None
       /\ Closed(b) => coll'[b].points \subseteq coll[b].points

\* A step of one caller leaves the collections of the others their own.
LEMMA OwnedStep ==
  ASSUME DeletionTypeInv, ClosedInv, NEW p \in Operators, NEW call \in Call,
         op' = [op EXCEPT ![p] = call], UNCHANGED <<restored, job>>,
         \A b \in Builds : coll[b].exists => coll'[b].exists,
         call.pc # "drop",
         \A r \in Operators \ {p} : Working(r) => op[r].b # call.b /\ op[r].b \notin served' \ served,
         call.pc \in {"pin", "ingest"} =>
           /\ call.b \in Builds
           /\ coll'[call.b].exists
           /\ call.b \notin served' /\ restored[call.b] = None
           /\ \A r \in Operators \ {p} : op[r].b # call.b
           /\ \A q \in Clerks : job[q].target # call.b,
         call.pc \in {"read_identity", "get_record", "validate", "marker", "phase1"} =>
           call.b \in Builds /\ coll'[call.b].exists
  PROVE  \A r \in Operators : Owned(r)'
  <1>1. \A r \in Operators : Equipped(r) /\ Owned(r)
    BY DEF DeletionTypeInv, TypeInv, ClosedInv
  <1>2. op \in [Operators -> Call]
    BY DEF DeletionTypeInv, TypeInv, TypeOK
  <1>3. Owned(p)'
    BY <1>2 DEF Owned, Working, Promoting, Closed
  <1>4. ASSUME NEW r \in Operators \ {p} PROVE Owned(r)'
    <2>1. op'[r] = op[r] /\ op'[p] = call BY <1>2
    <2>2. Working(r) \/ Promoting(r) => op[r].b \in Builds
      BY <1>1 DEF Equipped, Working, Promoting
    <2>3. Working(r) => \A t \in Operators \ {r} : op'[t].b # op[r].b
      BY <1>1, <1>2, <2>1 DEF Owned
    <2> QED BY <1>1, <2>1, <2>2, <2>3 DEF Owned, Working, Promoting, Closed
  <1> QED BY <1>3, <1>4

\* A call that returns, or goes on with the collection it has.
LEMMA MovesOn ==
  ASSUME DeletionTypeInv, ClosedInv, NEW p \in Operators, NEW call \in Call,
         op' = [op EXCEPT ![p] = call], UNCHANGED <<coll, served, restored, job>>,
         ~Working(p), call.pc \notin {"pin", "ingest", "drop"},
         call.b \in {op[p].b, None},
         call.pc \in {"read_identity", "get_record", "validate", "marker", "phase1"} =>
           Promoting(p) /\ call.b = op[p].b
  PROVE  \A r \in Operators : Owned(r)'
  <1>1. \A r \in Operators : Equipped(r) /\ Owned(r) /\ (Working(r) => op[r].b # None)
    BY BuildsAssumption DEF DeletionTypeInv, TypeInv, ClosedInv, Equipped, Working
  <1>2. \A r \in Operators \ {p} : Working(r) => op[r].b # call.b
    BY <1>1 DEF Owned
  <1>3. Promoting(p) => op[p].b \in Builds /\ coll[op[p].b].exists
    BY <1>1 DEF Equipped, Owned, Promoting
  <1> QED BY <1>2, <1>3, OwnedStep

\* A call that returns.
LEMMA Returns ==
  ASSUME DeletionTypeInv, ClosedInv, NEW p \in Operators, Return(p),
         UNCHANGED <<coll, restored, job>>, served' = served
  PROVE  \A r \in Operators : Owned(r)'
  <1>1. Idle \in Call /\ Idle.pc = "idle" /\ Idle.b = None BY IdleType DEF Idle
  <1>2. \A r \in Operators : Working(r) => op[r].b # None
    BY BuildsAssumption DEF DeletionTypeInv, TypeInv, Equipped, Working
  <1> QED BY <1>1, <1>2, OwnedStep DEF Return

\* A build writes to its own collection only.
LEMMA ClosedBuild ==
  ASSUME DeletionTypeInv, ClosedInv, RulesKept, NEW p \in Operators, Build(p), LifecycleStep
  PROVE  ClosedInv' /\ Shrinks
  <1>0. /\ coll \in [Builds -> Collection] /\ op \in [Operators -> Call]
        /\ \A r \in Operators : Equipped(r) /\ Owned(r)
        /\ UNCHANGED <<restored, job>>
    BY DEF DeletionTypeInv, TypeInv, TypeOK, StoreTypeOK, ClosedInv, LifecycleStep
  <1>1. ASSUME NEW b \in Builds, NEW m \in Identities, NEW batch \in SUBSET Docs,
               StartBuild(p, b, m, batch)
        PROVE  ClosedInv' /\ Shrinks
    <2> DEFINE call == [Idle EXCEPT !.pc = IF coll[b].exists THEN "ingest" ELSE "pin",
                                    !.b = b, !.model = m, !.todo = batch,
                                    !.total = Cardinality(batch)]
    <2>1. call \in Call /\ call.pc \in {"pin", "ingest"} /\ call.b = b
      BY ZenonT(60), IdleType, BatchSize DEF Idle, Call, PC, MaybeBuild, MaybeIdentity
    <2>2. op' = [op EXCEPT ![p] = call] /\ b \notin served /\ (\A r \in Operators : op[r].b # b)
      BY <1>1 DEF StartBuild, Start, RulesKept, Untouched
    <2>3. p \in Started
      BY <1>0, <1>1, <2>1, <2>2 DEF StartBuild, Start, Started
    <2>4. restored[b] = None /\ \A q \in Clerks : job[q].target # b
      BY <1>0, <2>1, <2>2, <2>3 DEF LifecycleStep, RulesKept
    <2>5. coll'[b].exists /\ \A c \in Builds : c # b => coll'[c] = coll[c]
      BY <1>0, <1>1 DEF StartBuild, Created, Absent
    <2>6. \A c \in Builds : coll[c].exists => coll'[c].exists BY <2>5
    <2>8. served' = served /\ result' = result BY <1>1 DEF StartBuild
    <2> HIDE DEF call
    <2>7. \A r \in Operators : Owned(r)'
      BY ZenonT(60), <1>0, <2>1, <2>2, <2>4, <2>5, <2>6, <2>8, OwnedStep
    <2>9. ~Closed(b) BY <2>2, <2>4 DEF Closed
    <2> QED BY <1>0, <2>5, <2>6, <2>7, <2>8, <2>9 DEF ClosedInv, Kept, Closed, Shrinks
  <1>2. CASE PinIdentity(p)
    <2> DEFINE call == [op[p] EXCEPT !.pc = "ingest"]
    <2>1. call \in Call BY <1>0 DEF Call, PC
    <2>2. op' = [op EXCEPT ![p] = call] BY <1>2 DEF PinIdentity, Goto
    <2>3. Working(p) /\ op[p].b \in Builds /\ call.b = op[p].b /\ call.pc = "ingest"
      BY <1>0, <1>2 DEF PinIdentity, At, Working, Equipped, Call
    <2>4. \A c \in Builds : coll'[c].exists = coll[c].exists /\ coll'[c].points = coll[c].points
      BY <1>0, <1>2 DEF PinIdentity, IdentitySet, Collection
    <2>5. served' = served /\ result' = result BY <1>2 DEF PinIdentity
    <2>6. \A r \in Operators : Owned(r)'
      <3>1. \A r \in Operators \ {p} : Working(r) => op[r].b # call.b BY <1>0, <2>3 DEF Owned
      <3>2. /\ coll'[call.b].exists /\ call.b \notin served' /\ restored[call.b] = None
            /\ \A r \in Operators \ {p} : op[r].b # call.b
            /\ \A q \in Clerks : job[q].target # call.b
        BY <1>0, <2>3, <2>4, <2>5 DEF Owned, Closed
      <3> HIDE DEF call
      <3> QED BY ZenonT(60), <1>0, <2>1, <2>2, <2>3, <2>4, <2>5, <3>1, <3>2, OwnedStep
    <2> QED BY <1>0, <2>4, <2>5, <2>6 DEF ClosedInv, Kept, Closed, Shrinks
  <1>3. ASSUME NEW d \in Docs, IngestDocument(p, d)
        PROVE  ClosedInv' /\ Shrinks
    <2> DEFINE call == [op[p] EXCEPT !.todo = op[p].todo \ {d}]
    <2>1. call \in Call BY <1>0 DEF Call
    <2>2. op' = [op EXCEPT ![p] = call] BY <1>3 DEF IngestDocument
    <2>3. Working(p) /\ op[p].b \in Builds /\ call.b = op[p].b /\ call.pc = "ingest"
      BY <1>0, <1>3 DEF IngestDocument, At, Working, Equipped, Call
    <2>4. \A c \in Builds : /\ coll'[c].exists = coll[c].exists
                            /\ c # op[p].b => coll'[c].points = coll[c].points
      BY <1>0, <1>3 DEF IngestDocument, Upserted, Collection
    <2>5. served' = served /\ result' = result BY <1>3 DEF IngestDocument
    <2>6. \A r \in Operators : Owned(r)'
      <3>1. \A r \in Operators \ {p} : Working(r) => op[r].b # call.b BY <1>0, <2>3 DEF Owned
      <3>2. /\ coll'[call.b].exists /\ call.b \notin served' /\ restored[call.b] = None
            /\ \A r \in Operators \ {p} : op[r].b # call.b
            /\ \A q \in Clerks : job[q].target # call.b
        BY <1>0, <2>3, <2>4, <2>5 DEF Owned, Closed
      <3> HIDE DEF call
      <3> QED BY ZenonT(60), <1>0, <2>1, <2>2, <2>3, <2>4, <2>5, <3>1, <3>2, OwnedStep
    <2>7. ~Closed(op[p].b) BY <1>0, <2>3 DEF Owned
    <2> QED BY <1>0, <2>4, <2>5, <2>6, <2>7 DEF ClosedInv, Kept, Closed, Shrinks
  <1>4. ASSUME NEW go \in BOOLEAN, FinishBuild(p, go)
        PROVE  ClosedInv' /\ Shrinks
    <2> DEFINE call == IF go THEN [op[p] EXCEPT !.pc = "read_identity"] ELSE Idle
    <2>1. call \in Call BY <1>0, IdleType DEF Call, PC
    <2>2. op' = [op EXCEPT ![p] = call] BY <1>4 DEF FinishBuild, Goto, Return
    <2>3. Working(p) /\ op[p].b \in Builds
      BY <1>0, <1>4 DEF FinishBuild, At, Working, Equipped
    <2>4. coll' = coll /\ served' = served /\ \A c \in Builds : c # op[p].b => result'[c] = result[c]
      BY <1>4 DEF FinishBuild, DeletionTypeInv, TypeInv, TypeOK
    <2>5. coll[op[p].b].exists /\ ~Closed(op[p].b) BY <1>0, <2>3 DEF Owned
    <2>6. \A r \in Operators : Owned(r)'
      <3>1. call.pc \in {"read_identity", "idle"} /\ call.b \in {op[p].b, None}
            /\ (call.pc = "read_identity" => call.b = op[p].b)
        BY <1>0 DEF Idle, Call
      <3>2. \A r \in Operators \ {p} : Working(r) => op[r].b # call.b
        BY <1>0, <2>3, <3>1, BuildsAssumption DEF Owned, Equipped, Working
      <3>3. call.pc \notin {"drop", "pin", "ingest"} BY <3>1
      <3> HIDE DEF call
      <3>4. op'[p] = call /\ \A r \in Operators \ {p} : op'[r] = op[r] BY <1>0, <2>2
      <3>5. Owned(p)' BY <1>0, <2>4, <2>5, <3>1, <3>3, <3>4 DEF Owned, Working, Promoting
      <3>6. ASSUME NEW r \in Operators \ {p} PROVE Owned(r)'
        <4>1. Owned(r) /\ op'[r] = op[r] BY <1>0, <3>4
        <4>2. Working(r) => \A t \in Operators \ {r} : op'[t].b # op[r].b
          BY <3>2, <3>4, <4>1 DEF Owned
        <4>3. Working(r) \/ Promoting(r) => op[r].b \in Builds
          BY <1>0 DEF Equipped, Working, Promoting
        <4> QED BY <1>0, <2>4, <4>1, <4>2, <4>3 DEF Owned, Working, Promoting, Closed
      <3> QED BY <3>5, <3>6
    <2> QED BY <1>0, <2>4, <2>5, <2>6 DEF ClosedInv, Kept, Closed, Shrinks
  <1> QED BY <1>1, <1>2, <1>3, <1>4 DEF Build

\* A promotion serves a collection that is there and has no run on it.
LEMMA ClosedPromote ==
  ASSUME DeletionTypeInv, ClosedInv, RulesKept, NEW p \in Operators, Promote(p),
         UNCHANGED <<restored, job>>
  PROVE  ClosedInv' /\ Shrinks
  <1>0. /\ coll \in [Builds -> Collection] /\ op \in [Operators -> Call] /\ alias \in Past
        /\ \A r \in Operators : Equipped(r) /\ Owned(r)
    BY DEF DeletionTypeInv, TypeInv, TypeOK, StoreTypeOK, ClosedInv, LagInv
  <1>a. ASSUME NEW call \in Call, op' = [op EXCEPT ![p] = call], UNCHANGED <<coll, served>>,
               ~Working(p), call.pc \notin {"pin", "ingest", "drop"}, call.b \in {op[p].b, None},
               call.pc \in {"read_identity", "get_record", "validate", "marker", "phase1"} =>
                 Promoting(p) /\ call.b = op[p].b
        PROVE  \A r \in Operators : Owned(r)'
    BY <1>a, MovesOn
  <1>1. ASSUME NEW b \in Builds, StartPromotion(p, b)
        PROVE  ClosedInv' /\ Shrinks
    <2> DEFINE call == [Idle EXCEPT !.pc = "read_identity", !.b = b, !.total = result[b]]
    <2>1. call \in Call /\ call.pc = "read_identity" /\ call.b = b
      BY <1>1, IdleType DEF StartPromotion, Idle, Call, PC, MaybeBuild, DeletionTypeInv, TypeInv, TypeOK
    <2>2. op' = [op EXCEPT ![p] = call] /\ (\A r \in Operators : op[r].b # b)
      BY <1>1 DEF StartPromotion, Start, RulesKept, Untouched
    <2>3. coll' = coll /\ served' = served /\ result' = result BY <1>1 DEF StartPromotion
    <2>4. coll[b].exists BY <1>1 DEF StartPromotion, ClosedInv, Kept
    <2> HIDE DEF call
    <2>5. \A r \in Operators : Owned(r)' BY <2>1, <2>2, <2>3, <2>4, OwnedStep
    <2> QED BY <2>3, <2>5 DEF ClosedInv, Kept, Closed, Shrinks
  <1>2. CASE ReadIdentity(p)
    <2> DEFINE call == [op[p] EXCEPT !.pc = "get_record", !.identity = coll[op[p].b].identity]
    <2>1. op[p].b \in Builds BY <1>0, <1>2 DEF ReadIdentity, At, Equipped
    <2>2. call \in Call BY ZenonT(60), <1>0, <2>1 DEF Call, PC, Collection, MaybeIdentity
    <2>3. /\ call.pc = "get_record" /\ call.b = op[p].b /\ Promoting(p) /\ ~Working(p)
          /\ op' = [op EXCEPT ![p] = call]
      BY <1>0, <1>2 DEF ReadIdentity, At, Call, Promoting, Working
    <2>4. coll' = coll /\ served' = served /\ result' = result BY <1>2 DEF ReadIdentity
    <2>5. \A r \in Operators : Owned(r)' BY <2>2, <2>3, <2>4, <1>a
    <2> QED BY <2>4, <2>5 DEF ClosedInv, Kept, Closed, Shrinks
  <1>3. CASE EnsureRecord(p)
    <2> DEFINE call == [op[p] EXCEPT !.pc = "validate", !.seen = record]
    <2>1. op[p] \in Call /\ record \in Record
      BY <1>0 DEF DeletionTypeInv, TypeInv, TypeOK
    <2>2. call \in Call BY <2>1 DEF Call, PC
    <2>3. /\ call.pc = "validate" /\ call.b = op[p].b /\ Promoting(p) /\ ~Working(p)
          /\ op' = [op EXCEPT ![p] = call]
      BY <1>0, <1>3 DEF EnsureRecord, At, Call, Promoting, Working
    <2>4. coll' = coll /\ served' = served /\ result' = result BY <1>3 DEF EnsureRecord
    <2>5. \A r \in Operators : Owned(r)' BY <2>2, <2>3, <2>4, <1>a
    <2> QED BY <2>4, <2>5 DEF ClosedInv, Kept, Closed, Shrinks
  <1>4. CASE Validate(p) \/ CheckMarker(p)
    <2>1. coll' = coll /\ served' = served /\ result' = result BY <1>4 DEF Validate, CheckMarker
    <2>2. Promoting(p) /\ ~Working(p) BY <1>4 DEF Validate, CheckMarker, At, Promoting, Working
    <2>3. ASSUME NEW pc \in {"marker", "phase1"}, Goto(p, pc)
          PROVE  \A r \in Operators : Owned(r)'
      <3> DEFINE call == [op[p] EXCEPT !.pc = pc]
      <3>1. call \in Call /\ call.pc = pc /\ call.b = op[p].b BY <1>0 DEF Call, PC
      <3>2. op' = [op EXCEPT ![p] = call] BY <2>3 DEF Goto
      <3> QED BY <2>1, <2>2, <3>1, <3>2, <1>a
    <2>4. \A r \in Operators : Owned(r)'
      BY <1>4, <2>1, <2>3, Returns DEF Validate, CheckMarker
    <2> QED BY <2>1, <2>4 DEF ClosedInv, Kept, Closed, Shrinks
  <1>5. CASE PromotePhase1(p)
    <2>1. coll' = coll /\ result' = result BY <1>5 DEF PromotePhase1
    <2>2. CASE Return(p) /\ UNCHANGED <<alias, served>>
      <3>1. \A r \in Operators : Owned(r)' BY <2>1, <2>2, Returns
      <3> QED BY <2>1, <2>2, <3>1 DEF ClosedInv, Kept, Closed, Shrinks
    <2>3. CASE Goto(p, "phase2") /\ Retarget(op[p].b)
      <3> DEFINE call == [op[p] EXCEPT !.pc = "phase2"]
      <3>1. call \in Call /\ call.pc = "phase2" /\ call.b = op[p].b BY <1>0 DEF Call, PC
      <3>2. op' = [op EXCEPT ![p] = call] BY <2>3 DEF Goto
      <3>3. served' = served \cup {op[p].b} BY <2>3 DEF Retarget
      <3>4. op[p].b \in Builds /\ Promoting(p) /\ ~Working(p)
        BY <1>0, <1>5 DEF PromotePhase1, At, Equipped, Promoting, Working
      <3>5. coll[op[p].b].exists BY <1>0, <3>4 DEF Owned
      <3>6. \A r \in Operators \ {p} :
              Working(r) => op[r].b # call.b /\ op[r].b \notin served' \ served
        BY <1>0, <3>1, <3>3 DEF Owned
      <3> HIDE DEF call
      <3>7. \A r \in Operators : Owned(r)'
        BY <2>1, <3>1, <3>2, <3>6, OwnedStep
      <3> QED BY <2>1, <3>3, <3>5, <3>7 DEF ClosedInv, Kept, Closed, Shrinks
    <2> QED BY <1>5, <2>2, <2>3 DEF PromotePhase1
  <1>6. CASE PromotePhase2(p)
    <2>1. coll' = coll /\ served' = served /\ result' = result BY <1>6 DEF PromotePhase2
    <2>2. CASE Return(p)
      <3>1. \A r \in Operators : Owned(r)' BY <2>1, <2>2, Returns
      <3> QED BY <2>1, <3>1 DEF ClosedInv, Kept, Closed, Shrinks
    <2>3. CASE ~Return(p)
      <3> DEFINE existing == IF op[p].seen.there THEN op[p].seen ELSE record
                 call == [op[p] EXCEPT !.pc = "commit2", !.seen = existing]
      <3>1. call \in Call /\ call.pc = "commit2" /\ call.b = op[p].b
        BY ZenonT(60), <1>0 DEF Call, PC, DeletionTypeInv, TypeInv, TypeOK
      <3>2. op' = [op EXCEPT ![p] = call] /\ ~Working(p)
        BY <1>6, <2>3 DEF PromotePhase2, At, Working
      <3>3. \A r \in Operators : Owned(r)' BY <2>1, <3>1, <3>2, <1>a
      <3> QED BY <2>1, <3>3 DEF ClosedInv, Kept, Closed, Shrinks
    <2> QED BY <2>2, <2>3
  <1>7. CASE PromoteCommit(p)
    <2>1. coll' = coll /\ served' = served /\ result' = result BY <1>7 DEF PromoteCommit
    <2>2. \A r \in Operators : Owned(r)' BY <1>7, <2>1, Returns DEF PromoteCommit
    <2> QED BY <2>1, <2>2 DEF ClosedInv, Kept, Closed, Shrinks
  <1> QED BY <1>1, <1>2, <1>3, <1>4, <1>5, <1>6, <1>7 DEF Promote

\* A rollback and a repair go to what was served before; no collection is retired.
LEMMA ClosedRest ==
  ASSUME DeletionTypeInv, ClosedInv, RulesKept, NEW p \in Operators,
         Rollback(p) \/ Reconcile(p) \/ Retire(p) \/ Abort(p), UNCHANGED <<restored, job>>
  PROVE  ClosedInv' /\ Shrinks
  <1>0. /\ coll \in [Builds -> Collection] /\ op \in [Operators -> Call] /\ alias \in Past
        /\ record \in Record
        /\ \A r \in Operators : Equipped(r) /\ Owned(r) /\ Remembered(r)
    BY DEF DeletionTypeInv, TypeInv, TypeOK, StoreTypeOK, ClosedInv, LagInv
  <1>a. ASSUME UNCHANGED <<coll, result, served>>, \A r \in Operators : Owned(r)'
        PROVE  ClosedInv' /\ Shrinks
    BY <1>a DEF ClosedInv, Kept, Closed, Shrinks
  <1>1. ASSUME NEW available \in SUBSET Identities, StartRollback(p, available)
        PROVE  ClosedInv' /\ Shrinks
    <2> DEFINE call == [Idle EXCEPT !.pc = "rollback1", !.seen = record, !.available = available]
    <2>1. call \in Call /\ call.pc = "rollback1" /\ call.b = None
      BY <1>0, IdleType DEF Idle, Call, PC
    <2>2. op' = [op EXCEPT ![p] = call] /\ ~Working(p)
      BY <1>1 DEF StartRollback, Start, At, Working
    <2>3. coll' = coll /\ served' = served /\ result' = result BY <1>1 DEF StartRollback
    <2>4. \A r \in Operators : Owned(r)' BY <2>1, <2>2, <2>3, MovesOn
    <2> QED BY <2>3, <2>4, <1>a
  <1>2. CASE RollbackPhase1(p)
    <2>1. coll' = coll /\ result' = result BY <1>2 DEF RollbackPhase1
    <2>2. CASE Return(p) /\ UNCHANGED <<alias, served>>
      <3>1. \A r \in Operators : Owned(r)' BY <2>1, <2>2, Returns
      <3> QED BY <2>1, <2>2, <3>1, <1>a
    <2>3. CASE Goto(p, "rollback2") /\ Retarget(op[p].seen.previous)
      <3> DEFINE call == [op[p] EXCEPT !.pc = "rollback2"]
      <3>1. call \in Call /\ call.pc = "rollback2" /\ call.b = op[p].b BY <1>0 DEF Call, PC
      <3>2. op' = [op EXCEPT ![p] = call] /\ ~Working(p)
        BY <1>2, <2>3 DEF RollbackPhase1, At, Goto, Working
      <3>3. op[p].seen.previous \in served
        BY <1>0, <1>2 DEF RollbackPhase1, At, Remembered
      <3>4. served' = served BY <2>3, <3>3 DEF Retarget
      <3>5. \A r \in Operators : Owned(r)' BY <2>1, <3>1, <3>2, <3>4, MovesOn
      <3> QED BY <2>1, <3>4, <3>5, <1>a
    <2> QED BY <1>2, <2>2, <2>3 DEF RollbackPhase1
  <1>3. CASE RollbackCommit(p) \/ ReconcileRepair(p) \/ Abort(p)
    <2>1. Return(p) /\ coll' = coll /\ served' = served /\ result' = result
      BY <1>3 DEF RollbackCommit, ReconcileRepair, Abort
    <2>2. \A r \in Operators : Owned(r)' BY <2>1, Returns
    <2> QED BY <2>1, <2>2, <1>a
  <1>4. CASE StartReconcile(p)
    <2> DEFINE call == [Idle EXCEPT !.pc = "reconcile_get", !.b = alias]
    <2>1. alias \in served BY <1>0, <1>4 DEF StartReconcile, Past
    <2>2. call \in Call /\ call.pc = "reconcile_get" /\ call.b = alias
      BY <2>1, IdleType DEF Idle, Call, PC, MaybeBuild, DeletionTypeInv, TypeInv, TypeOK
    <2>3. op' = [op EXCEPT ![p] = call] BY <1>4 DEF StartReconcile, Start
    <2>4. coll' = coll /\ served' = served /\ result' = result BY <1>4 DEF StartReconcile
    <2>5. \A r \in Operators \ {p} : Working(r) => op[r].b # call.b /\ op[r].b \notin served' \ served
      BY <1>0, <2>1, <2>2, <2>4 DEF Owned, Closed
    <2> HIDE DEF call
    <2>6. \A r \in Operators : Owned(r)' BY <2>2, <2>3, <2>4, <2>5, OwnedStep
    <2> QED BY <2>4, <2>6, <1>a
  <1>5. CASE ReconcileGet(p)
    <2>1. coll' = coll /\ served' = served /\ result' = result BY <1>5 DEF ReconcileGet
    <2>2. CASE Return(p)
      <3>1. \A r \in Operators : Owned(r)' BY <2>1, <2>2, Returns
      <3> QED BY <2>1, <3>1, <1>a
    <2>3. CASE op' = [op EXCEPT ![p].pc = "reconcile_repair", ![p].seen = record]
      <3> DEFINE call == [op[p] EXCEPT !.pc = "reconcile_repair", !.seen = record]
      <3>1. call \in Call /\ call.pc = "reconcile_repair" /\ call.b = op[p].b
        BY ZenonT(60), <1>0 DEF Call, PC
      <3>2. op' = [op EXCEPT ![p] = call] /\ ~Working(p)
        BY <1>5, <2>3 DEF ReconcileGet, At, Working
      <3>3. \A r \in Operators : Owned(r)' BY <2>1, <3>1, <3>2, MovesOn
      <3> QED BY <2>1, <3>3, <1>a
    <2> QED BY <1>5, <2>2, <2>3 DEF ReconcileGet
  <1>6. CASE StartRetire(p) BY <1>6 DEF StartRetire, RulesKept
  <1>7. CASE Drop(p) BY <1>0, <1>7 DEF Drop, At, Owned
  <1> QED BY <1>1, <1>2, <1>3, <1>4, <1>5, <1>6, <1>7 DEF Rollback, Reconcile, Retire

\* No step of the lifecycle adds to a closed collection.
LEMMA ClosedLifecycle ==
  ASSUME DeletionTypeInv, ClosedInv, RulesKept, LifecycleStep
  PROVE  ClosedInv' /\ Shrinks
  <1> PICK p \in Operators :
        Build(p) \/ Promote(p) \/ Rollback(p) \/ Reconcile(p) \/ Retire(p) \/ Abort(p)
    BY DEF LifecycleStep, Next
  <1>1. UNCHANGED <<restored, job>> BY DEF LifecycleStep
  <1> QED BY <1>1, ClosedBuild, ClosedPromote, ClosedRest

\* A restored collection is there, and no run works on it.
LEMMA ClosedRestoredPromotion ==
  ASSUME DeletionTypeInv, ClosedInv, RulesKept, NEW p \in Operators, NEW b \in Builds,
         StartRestoredPromotion(p, b)
  PROVE  ClosedInv' /\ Shrinks
  <1> DEFINE call == [Idle EXCEPT !.pc = "read_identity", !.b = b, !.total = 1]
  <1>1. call \in Call /\ call.pc = "read_identity" /\ call.b = b
    <2>1. op' \in [Operators -> Call]
      BY TypeRestoredPromotion DEF DeletionTypeInv, TypeInv, TypeOK
    <2>2. op'[p] = call
      BY DEF StartRestoredPromotion, Start, DeletionTypeInv, TypeInv, TypeOK
    <2> QED BY <2>1, <2>2, IdleType DEF Idle
  <1>2. op' = [op EXCEPT ![p] = call] /\ (\A r \in Operators : op[r].b # b)
    BY DEF StartRestoredPromotion, Start, RulesKept, Untouched
  <1>3. UNCHANGED <<coll, served, result, restored, job>>
    BY DEF StartRestoredPromotion, deletionVars
  <1>4. coll[b].exists BY DEF StartRestoredPromotion, ClosedInv, Kept, Closed
  <1> HIDE DEF call
  <1>5. \A r \in Operators : Owned(r)' BY <1>1, <1>2, <1>3, <1>4, OwnedStep
  <1> QED BY <1>3, <1>5 DEF ClosedInv, Kept, Closed, Shrinks

\* A clerk adds to no collection that is there, and restores into none that a run
\* works on.
LEMMA ClerkClosed ==
  ASSUME DeletionTypeInv, ClosedInv, NEW q \in Clerks, UNCHANGED Rest,
         \A r \in Clerks \ {q} : job'[r] = job[r],
         \A b \in Builds : coll[b].exists =>
           coll'[b].exists /\ coll'[b].points \subseteq coll[b].points,
         job'[q].target \in {job[q].target, None}
           \/ (\A p \in Operators : op[p].b # job'[q].target),
         \A b \in Builds : restored'[b] # restored[b] =>
           /\ job[q].pc \in Restoring \cup {"restore"} /\ b = job[q].target /\ restored'[b] # None
           /\ coll'[b].exists
           /\ coll[b].exists => restored[b] # None,
         job'[q].pc \in Restoring => restored'[job'[q].target] # None
  PROVE  ClosedInv' /\ Shrinks
  <1>0. /\ \A p \in Operators : Equipped(p) /\ Owned(p)
        /\ \A b \in Builds : Kept(b)
        /\ \A r \in Clerks : job[r].pc \in Restoring => restored[job[r].target] # None
        /\ \A r \in Clerks : Ready(r)
        /\ UNCHANGED <<op, result, served>>
    BY DEF DeletionTypeInv, TypeInv, ClosedInv, Rest
  <1>1. \A b \in Builds : restored[b] # None => restored'[b] # None OBVIOUS
  <1>2. ASSUME NEW p \in Operators PROVE Owned(p)'
    <2>1. Working(p) \/ Promoting(p) => op[p].b \in Builds
      BY <1>0 DEF Equipped, Working, Promoting
    <2>2. Working(p) => restored'[op[p].b] = restored[op[p].b] /\ job'[q].target # op[p].b
      BY <1>0, <2>1, BuildsAssumption DEF Owned
    <2> QED BY <1>0, <2>1, <2>2 DEF Owned, Working, Promoting, Closed
  <1>3. ASSUME NEW b \in Builds PROVE Kept(b)'
    BY <1>0 DEF Kept, Closed
  <1>4. ASSUME NEW r \in Clerks, job'[r].pc \in Restoring PROVE restored'[job'[r].target] # None
    BY <1>0, <1>1, <1>4 DEF Ready
  <1>5. Shrinks BY <1>0, <1>1 DEF Shrinks, Kept, Closed
  <1> QED BY <1>2, <1>3, <1>4, <1>5 DEF ClosedInv

\* delete_by_document creates and drops nothing and only removes.
LEMMA DeletesShrink ==
  ASSUME coll \in [Builds -> Collection], NEW b, NEW d, DeleteIfThere(b, d)
  PROVE  \A c \in Builds : coll[c].exists =>
           coll'[c].exists /\ coll'[c].points \subseteq coll[c].points
  BY DEF DeleteIfThere, DocumentDeleted, Collection

\* What the second delete leaves in the locals of the call.
LEMMA N1Locals ==
  ASSUME job \in [Clerks -> Job], NEW q \in Clerks, NEW ok, DeleteFromN1(q, ok)
  PROVE  /\ \A r \in Clerks \ {q} : job'[r] = job[r]
         /\ job'[q].live = job[q].live /\ job'[q].n1 = job[q].n1 /\ job'[q].doc = job[q].doc
         /\ job'[q].clear = job[q].clear /\ job'[q].target = job[q].target
         /\ job'[q].todo = job[q].todo /\ job'[q].marks = job[q].marks
         /\ job'[q].swept = job[q].swept \cup (IF ok THEN {job[q].n1} \ {None} ELSE {})
         /\ job'[q].pc \in {"sweep", "report"}
  <1> DEFINE pc == IF job[q].purge THEN "sweep" ELSE "report"
             new == IF ok THEN {job[q].n1} \ {None} ELSE {}
             sweep == IF job[q].purge THEN ToSweep ELSE {}
  <1>1. job' = [job EXCEPT ![q].pc = pc, ![q].swept = @ \cup new, ![q].sweep = sweep]
    BY DEF DeleteFromN1
  <1>2. pc \in {"sweep", "report"} OBVIOUS
  <1> HIDE DEF pc, sweep
  <1> QED BY <1>1, <1>2 DEF Job

\* The steps of delete_document take documents out of collections.
LEMMA ClosedDelete ==
  ASSUME DeletionTypeInv, ClosedInv, NEW q \in Clerks,
         \/ \E d \in Docs, purge \in BOOLEAN : AppendTombstone(q, d, purge)
         \/ ReadRecord(q)
         \/ DeleteFromLive(q)
         \/ \E ok \in BOOLEAN : DeleteFromN1(q, ok)
         \/ \E b \in Builds : SweepSnapshots(q, b)
         \/ ReportDeletion(q)
  PROVE  ClosedInv' /\ Shrinks
  <1>0. /\ coll \in [Builds -> Collection] /\ job \in [Clerks -> Job]
        /\ ClosedInv
    BY DEF DeletionTypeInv, DeletionTypeOK, TypeInv, TypeOK, StoreTypeOK
  <1>1. UNCHANGED Rest /\ UNCHANGED restored /\ \A r \in Clerks \ {q} : job'[r] = job[r]
    BY <1>0
    DEF AppendTombstone, ReadRecord, DeleteFromLive, DeleteFromN1, SweepSnapshots, ReportDeletion,
        JobReturn, vars, Rest
  <1> DEFINE Removes ==
        /\ \A b \in Builds : coll[b].exists =>
             coll'[b].exists /\ coll'[b].points \subseteq coll[b].points
        /\ job'[q].target \in {job[q].target, None}
        /\ job'[q].pc \notin Restoring
  <1>2. Removes
    <2> USE <1>0 DEF Restoring, JobAt, Job
    <2>1. ASSUME NEW d \in Docs, NEW purge \in BOOLEAN, AppendTombstone(q, d, purge) PROVE Removes
      BY ZenonT(60), <2>1 DEF AppendTombstone, vars, NoJob
    <2>2. CASE ReadRecord(q) BY <2>2 DEF ReadRecord, vars
    <2>3. CASE DeleteFromLive(q)
      BY <2>3, DeletesShrink DEF DeleteFromLive
    <2>4. ASSUME NEW ok \in BOOLEAN, DeleteFromN1(q, ok) PROVE Removes
      BY <2>4, N1Locals, DeletesShrink DEF DeleteFromN1
    <2>5. ASSUME NEW b \in Builds, SweepSnapshots(q, b) PROVE Removes
      BY ZenonT(60), <2>5 DEF SweepSnapshots, vars
    <2>6. CASE ReportDeletion(q) BY <2>6 DEF ReportDeletion, JobReturn, NoJob, vars
    <2> QED BY <2>1, <2>2, <2>3, <2>4, <2>5, <2>6
  <1> QED BY <1>1, <1>2, ClerkClosed

\* A restore creates its target, which no run works on.
LEMMA ClosedRestore ==
  ASSUME DeletionTypeInv, ClosedInv, RulesKept, NEW q \in Clerks,
         \/ \E s \in snapshots, b \in Builds : StartRestore(q, s, b)
         \/ RestoreSnapshot(q)
         \/ SetMarker(q)
         \/ ListUnreplayed(q)
         \/ \E e \in tombstones : ReplayTombstone(q, e)
         \/ CommitReplays(q)
         \/ \E ok \in BOOLEAN : ClearMarker(q, ok)
         \/ AbortJob(q)
  PROVE  ClosedInv' /\ Shrinks
  <1>0. /\ coll \in [Builds -> Collection] /\ job \in [Clerks -> Job] /\ Ready(q)
        /\ restored \in [Builds -> (0 .. MaxTombstones) \cup {None}]
        /\ Cardinality(tombstones) \in Nat
        /\ \A b \in Builds : Kept(b)
        /\ job[q].pc \in Restoring => restored[job[q].target] # None
    BY FS_CardinalityType
    DEF DeletionTypeInv, DeletionTypeOK, TypeInv, TypeOK, StoreTypeOK, Numbered, ClosedInv
  <1>n. Cardinality(tombstones) # None BY <1>0, DeletionAssumption
  <1>1. ASSUME NEW s \in snapshots, NEW b \in Builds, StartRestore(q, s, b)
        PROVE  ClosedInv' /\ Shrinks
    <2>1. /\ UNCHANGED Rest /\ UNCHANGED restored /\ \A r \in Clerks \ {q} : job'[r] = job[r]
          /\ coll' = coll
      BY <1>0, <1>1 DEF StartRestore, vars, Rest
    <2>2. job'[q].target = b /\ job'[q].pc = "restore"
      BY <1>0, <1>1 DEF StartRestore, NoJob
    <2>3. \A p \in Operators : op[p].b # b BY <1>1 DEF StartRestore, RulesKept, Untouched
    <2>4. job'[q].pc \notin Restoring BY <2>2 DEF Restoring
    <2>5. \A p \in Operators : op[p].b # job'[q].target BY <2>2, <2>3
    <2> QED BY <2>1, <2>4, <2>5, ClerkClosed
  <1>2. CASE RestoreSnapshot(q)
    <2> DEFINE t == job[q].target
    <2>1. t \in Builds /\ job[q].pc = "restore" BY <1>0, <1>2 DEF RestoreSnapshot, JobAt, Ready
    <2>2. UNCHANGED Rest /\ \A r \in Clerks \ {q} : job'[r] = job[r]
      BY <1>0, <1>2 DEF RestoreSnapshot, JobTo
    <2>3. ~coll[t].exists /\ coll'[t].exists /\ \A b \in Builds : b # t => coll'[b] = coll[b]
      BY <1>0, <1>2, <2>1 DEF RestoreSnapshot
    <2>4. restored'[t] # None /\ \A b \in Builds : b # t => restored'[b] = restored[b]
      BY <1>0, <1>n, <1>2, <2>1 DEF RestoreSnapshot
    <2>5. job'[q].target = t /\ job'[q].pc = "mark"
      BY <1>0, <1>2 DEF RestoreSnapshot, JobTo, Job
    <2> HIDE DEF t
    <2>6. \A b \in Builds : coll[b].exists =>
            coll'[b].exists /\ coll'[b].points \subseteq coll[b].points
      BY <2>1, <2>3
    <2>7. \A b \in Builds : restored'[b] # restored[b] =>
            b = t /\ restored'[b] # None /\ coll'[b].exists /\ ~coll[b].exists
      BY <2>1, <2>3, <2>4
    <2> QED BY <2>1, <2>2, <2>4, <2>5, <2>6, <2>7, ClerkClosed DEF t
  <1>3. CASE ListUnreplayed(q)
    <2> DEFINE t == job[q].target
    <2>1. t \in Builds /\ job[q].pc \in Restoring
      BY <1>0, <1>3 DEF ListUnreplayed, JobAt, Ready, Restoring
    <2>2. UNCHANGED Rest /\ coll' = coll /\ \A r \in Clerks \ {q} : job'[r] = job[r]
      BY <1>0, <1>3 DEF ListUnreplayed, vars, Rest
    <2>3. restored[t] # None /\ coll[t].exists BY <1>0, <2>1 DEF Kept, Closed
    <2>4. restored'[t] # None /\ \A b \in Builds : b # t => restored'[b] = restored[b]
      BY <1>0, <1>n, <1>3, <2>1 DEF ListUnreplayed
    <2>5. job'[q].target = t BY <1>0, <1>3 DEF ListUnreplayed, Job
    <2> HIDE DEF t
    <2>7. \A b \in Builds : restored'[b] # restored[b] =>
            b = t /\ restored'[b] # None /\ coll'[b].exists /\ restored[b] # None
      BY <2>1, <2>2, <2>3, <2>4
    <2> QED BY <2>1, <2>2, <2>4, <2>5, <2>7, ClerkClosed DEF t
  <1>4. CASE \/ SetMarker(q)
             \/ \E e \in tombstones : ReplayTombstone(q, e)
             \/ CommitReplays(q)
             \/ \E ok \in BOOLEAN : ClearMarker(q, ok)
             \/ AbortJob(q)
    <2>1. UNCHANGED Rest /\ UNCHANGED restored /\ \A r \in Clerks \ {q} : job'[r] = job[r]
      BY <1>0, <1>4
      DEF SetMarker, ReplayTombstone, CommitReplays, ClearMarker, AbortJob, JobReturn, JobTo, vars, Rest
    <2> DEFINE Removes ==
          /\ \A b \in Builds : coll[b].exists =>
               coll'[b].exists /\ coll'[b].points \subseteq coll[b].points
          /\ job'[q].target \in {job[q].target, None}
          /\ job'[q].pc \in Restoring =>
               job[q].pc \in Restoring /\ job'[q].target = job[q].target
    <2>2. Removes
      <3> USE <1>0 DEF Restoring, JobAt, Job
      <3>1. CASE SetMarker(q) BY <3>1 DEF SetMarker, JobTo, MarkerSet, Collection
      <3>2. ASSUME NEW e \in tombstones, ReplayTombstone(q, e) PROVE Removes
        BY ZenonT(60), <3>2, DeletesShrink DEF ReplayTombstone
      <3>3. CASE CommitReplays(q) BY <3>3 DEF CommitReplays, JobTo, vars
      <3>4. ASSUME NEW ok \in BOOLEAN, ClearMarker(q, ok) PROVE Removes
        BY <3>4 DEF ClearMarker, JobReturn, NoJob, MarkerSet, Collection
      <3>5. CASE AbortJob(q) BY <3>5 DEF AbortJob, JobReturn, NoJob, vars
      <3> QED BY <1>4, <3>1, <3>2, <3>3, <3>4, <3>5
    <2>3. job'[q].pc \in Restoring => restored'[job'[q].target] # None
      BY <1>0, <2>1, <2>2
    <2> QED BY <2>1, <2>2, <2>3, ClerkClosed
  <1> QED BY <1>1, <1>2, <1>3, <1>4

\* No step adds to a closed collection.
LEMMA ClosedStep ==
  ASSUME DeletionTypeInv, ClosedInv, RulesKept, [DeletionNext]_allVars
  PROVE  ClosedInv' /\ Shrinks
  <1>1. CASE UNCHANGED allVars
    BY <1>1 DEF allVars, vars, deletionVars, ClosedInv, Owned, Kept, Closed, Working, Promoting, Shrinks
  <1>2. ASSUME NEW b \in Builds, NEW aged \in SUBSET snapshots, SnapshotCold(b, aged)
        PROVE  ClosedInv' /\ Shrinks
    BY <1>2 DEF SnapshotCold, vars, ClosedInv, Owned, Kept, Closed, Working, Promoting, Shrinks
  <1>3. CASE DeletionNext
    BY <1>2, <1>3, ClosedLifecycle, ClosedRestoredPromotion, ClosedDelete, ClosedRestore
    DEF DeletionNext
  <1> QED BY <1>1, <1>3

\* At first nothing is there.
LEMMA ClosedInit == DeletionInit => ClosedInv
  BY DEF DeletionInit, Init, StoreInit, Absent, Idle, NoJob, ClosedInv, Owned, Kept, Closed,
         Working, Promoting, Restoring

-----------------------------------------------------------------------------
(* What was removed stays removed.                                         *)

DocsOf(s) == {x[1] : x \in s.points}

\* What a clerk has read from the record was served, what it has deleted from and
\* what it has destroyed the snapshots of is clean.
CleanJob(q) ==
  /\ job[q].live \in Past /\ job[q].n1 \in Past
  /\ \A b \in job[q].swept :
       /\ b \in served /\ job[q].doc \notin DocsIn(b)
       /\ b \in job[q].clear =>
            \A s \in snapshots : s.of = b => job[q].doc \notin DocsOf(s)
  /\ job[q].pc \in {"delete_live", "delete_n1"} => job[q].clear = {}
  /\ job[q].pc \in {"read_record", "delete_live"} => job[q].swept = {} /\ job[q].clear = {}

CleanInv ==
  /\ \A x \in cleaned : x[2] \in served
  /\ CleanedStaysClean
  /\ PurgedStaysPurged
  /\ \A q \in Clerks : CleanJob(q)

\* A closed collection only loses documents.
LEMMA DocsShrink ==
  ASSUME Shrinks, NEW b \in Builds, Closed(b)
  PROVE  DocsIn(b)' \subseteq DocsIn(b)
  BY DEF Shrinks, DocsIn

\* A step that reports nothing and takes at most snapshots of what is there leaves
\* clean what was.
LEMMA CleanStays ==
  ASSUME DeletionTypeInv, CleanInv, Shrinks,
         \A r \in Clerks : job'[r] = job[r] \/ CleanJob(r)',
         \A s \in snapshots' \ snapshots : s.of \in Builds /\ s.points = coll[s.of].points,
         UNCHANGED <<cleaned, purged>>
  PROVE  CleanInv'
  <1>0. /\ served \subseteq Builds /\ served \subseteq served'
        /\ cleaned \subseteq Docs \X Builds /\ purged \subseteq cleaned
        /\ job \in [Clerks -> Job]
    BY DEF DeletionTypeInv, DeletionTypeOK, TypeInv, TypeOK, Shrinks
  <1>1. \A b \in served : DocsIn(b)' \subseteq DocsIn(b)
    BY <1>0, DocsShrink DEF Closed
  <1>2. \A s \in snapshots' \ snapshots : DocsOf(s) = DocsIn(s.of)
    BY DEF DocsOf, DocsIn
  <1>3. (\A x \in cleaned : x[2] \in served)' /\ CleanedStaysClean'
    BY <1>0, <1>1 DEF CleanInv, CleanedStaysClean
  <1>4. PurgedStaysPurged'
    <2> SUFFICES ASSUME NEW x \in purged, NEW s \in snapshots', s.of = x[2]
                 PROVE  x[1] \notin {y[1] : y \in s.points}
      BY DEF PurgedStaysPurged
    <2>1. CASE s \in snapshots BY <2>1 DEF CleanInv, PurgedStaysPurged
    <2>2. CASE s \notin snapshots
      BY <1>0, <1>2, <2>2 DEF CleanInv, CleanedStaysClean, DocsOf
    <2> QED BY <2>1, <2>2
  <1>5. ASSUME NEW r \in Clerks, job'[r] = job[r] PROVE CleanJob(r)'
    <2>1. CleanJob(r) /\ job'[r] = job[r] BY <1>5 DEF CleanInv
    <2>2. ASSUME NEW b \in job[r].swept
          PROVE  b \in served' /\ job[r].doc \notin DocsIn(b)'
      BY <1>0, <1>1, <2>1 DEF CleanJob
    <2>3. ASSUME NEW b \in job[r].swept, b \in job[r].clear, NEW s \in snapshots', s.of = b
          PROVE  job[r].doc \notin DocsOf(s)
      BY <1>2, <2>1, <2>3 DEF CleanJob
    <2>4. job[r].live \in Past' /\ job[r].n1 \in Past' BY <1>0, <2>1 DEF CleanJob, Past
    <2> QED BY <2>1, <2>2, <2>3, <2>4 DEF CleanJob
  <1> QED BY <1>3, <1>4, <1>5 DEF CleanInv

\* A call that returns has nothing to keep clean.
LEMMA CleanReturns ==
  ASSUME DeletionTypeInv, NEW q \in Clerks, JobReturn(q)
  PROVE  CleanJob(q)'
  BY DEF DeletionTypeInv, DeletionTypeOK, JobReturn, NoJob, CleanJob, Past

\* A clerk that moves on with what it has.
LEMMA CleanMoves ==
  ASSUME DeletionTypeInv, CleanInv, Shrinks, NEW q \in Clerks, snapshots' \subseteq snapshots,
         job'[q].live = job[q].live, job'[q].n1 = job[q].n1, job'[q].doc = job[q].doc,
         job'[q].swept = job[q].swept, job'[q].clear = job[q].clear,
         job'[q].pc \notin {"read_record", "delete_live", "delete_n1"}
  PROVE  CleanJob(q)'
  <1>0. served \subseteq Builds /\ served \subseteq served' /\ CleanJob(q)
    BY DEF DeletionTypeInv, TypeInv, TypeOK, Shrinks, CleanInv
  <1>1. \A b \in served : DocsIn(b)' \subseteq DocsIn(b)
    BY <1>0, DocsShrink DEF Closed
  <1> QED BY <1>0, <1>1 DEF CleanJob, Past

\* delete_by_document on a collection that is there removes the document from it.
LEMMA DeletesClean ==
  ASSUME coll \in [Builds -> Collection], NEW b \in Builds, coll[b].exists, NEW d,
         DeleteIfThere(b, d)
  PROVE  d \notin DocsIn(b)'
  <1>1. coll'[b].points = coll[b].points \ PointsOf(b, d)
    BY BuildsAssumption DEF DeleteIfThere, DocumentDeleted, Collection
  <1> QED BY <1>1 DEF DocsIn, PointsOf

\* delete_document removes the document before it counts a collection as done, and a
\* purge destroys the snapshots of a collection it has removed the document from.
LEMMA CleanDelete ==
  ASSUME DeletionTypeInv, ClosedInv, CleanInv, Shrinks, NEW q \in Clerks,
         \/ \E d \in Docs, purge \in BOOLEAN : AppendTombstone(q, d, purge)
         \/ ReadRecord(q)
         \/ DeleteFromLive(q)
         \/ \E ok \in BOOLEAN : DeleteFromN1(q, ok)
         \/ \E b \in Builds : SweepSnapshots(q, b)
         \/ ReportDeletion(q)
  PROVE  CleanInv'
  <1>0. /\ coll \in [Builds -> Collection] /\ job \in [Clerks -> Job] /\ CleanJob(q)
        /\ served \subseteq Builds /\ None \notin Builds
        /\ record.collection \in Past /\ record.previous \in Past
        /\ \A b \in served : coll[b].exists
    BY BuildsAssumption
    DEF DeletionTypeInv, DeletionTypeOK, TypeInv, TypeOK, StoreTypeOK, LagInv, RecordLagsAlias, Past,
        CleanInv, ClosedInv, Kept, Closed
  <1>1. \A b \in served : b \in Builds /\ DocsIn(b)' \subseteq DocsIn(b)
    BY <1>0, DocsShrink DEF Closed
  <1>a. ASSUME \A r \in Clerks \ {q} : job'[r] = job[r], CleanJob(q)',
               snapshots' \subseteq snapshots, UNCHANGED history
        PROVE  CleanInv'
    <2>1. \A s \in snapshots' \ snapshots : s.of \in Builds /\ s.points = coll[s.of].points
      BY <1>a
    <2> QED BY <1>a, <2>1, CleanStays DEF history
  <1>2. ASSUME NEW d \in Docs, NEW purge \in BOOLEAN, AppendTombstone(q, d, purge)
        PROVE  CleanInv'
    <2>1. CleanJob(q)' BY <1>0, <1>2 DEF AppendTombstone, NoJob, CleanJob, Past
    <2> QED BY <1>0, <1>2, <2>1, <1>a DEF AppendTombstone
  <1>3. CASE ReadRecord(q)
    <2>1. CleanJob(q)' BY <1>0, <1>3 DEF ReadRecord, JobAt, Job, CleanJob, Past, vars
    <2> QED BY <1>0, <1>3, <2>1, <1>a DEF ReadRecord
  <1>4. CASE DeleteFromLive(q)
    <2>1. /\ job'[q].live = job[q].live /\ job'[q].n1 = job[q].n1 /\ job'[q].doc = job[q].doc
          /\ job'[q].swept = {job[q].live} \ {None} /\ job'[q].clear = job[q].clear
          /\ job'[q].pc = "delete_n1"
      BY <1>0, <1>4 DEF DeleteFromLive, Job
    <2>2. job[q].clear = {} /\ served' = served
      BY <1>0, <1>4 DEF DeleteFromLive, JobAt, CleanJob, Rest
    <2>3. ASSUME NEW b \in job'[q].swept PROVE b \in served' /\ job[q].doc \notin DocsIn(b)'
      <3>1. b = job[q].live /\ b \in served BY <1>0, <2>1 DEF CleanJob, Past
      <3> QED BY <1>0, <1>4, <2>2, <3>1, DeletesClean DEF DeleteFromLive
    <2>4. CleanJob(q)' BY <1>0, <2>1, <2>2, <2>3 DEF CleanJob, Past
    <2> QED BY <1>0, <1>4, <2>4, <1>a DEF DeleteFromLive
  <1>5. ASSUME NEW ok \in BOOLEAN, DeleteFromN1(q, ok)
        PROVE  CleanInv'
    <2>1. /\ job'[q].live = job[q].live /\ job'[q].n1 = job[q].n1 /\ job'[q].doc = job[q].doc
          /\ job'[q].swept = job[q].swept \cup (IF ok THEN {job[q].n1} \ {None} ELSE {})
          /\ job'[q].clear = job[q].clear /\ job'[q].pc \in {"sweep", "report"}
      BY <1>0, <1>5, N1Locals
    <2>2. job[q].clear = {} /\ served' = served
      BY <1>0, <1>5 DEF DeleteFromN1, JobAt, CleanJob, Rest
    <2>3. ASSUME NEW b \in job'[q].swept PROVE b \in served' /\ job[q].doc \notin DocsIn(b)'
      <3>1. CASE b \in job[q].swept BY <1>0, <1>1, <2>2, <3>1 DEF CleanJob
      <3>2. CASE b \notin job[q].swept
        <4>1. ok /\ b = job[q].n1 /\ b \in served BY <1>0, <2>1, <3>2 DEF CleanJob, Past
        <4> QED BY <1>0, <1>5, <2>2, <4>1, DeletesClean DEF DeleteFromN1
      <3> QED BY <3>1, <3>2
    <2>4. CleanJob(q)' BY <1>0, <2>1, <2>2, <2>3 DEF CleanJob, Past
    <2> QED BY <1>0, <1>5, <2>4, <1>a DEF DeleteFromN1
  <1>6. ASSUME NEW b \in Builds, SweepSnapshots(q, b)
        PROVE  CleanInv'
    <2>1. /\ job'[q].live = job[q].live /\ job'[q].n1 = job[q].n1 /\ job'[q].doc = job[q].doc
          /\ job'[q].swept = job[q].swept /\ job'[q].pc = "sweep"
          /\ job'[q].clear = IF coll[b].exists THEN job[q].clear \cup {b} ELSE job[q].clear
      <3> DEFINE clear == IF coll[b].exists THEN job[q].clear \cup {b} ELSE job[q].clear
      <3>1. job' = [job EXCEPT ![q].sweep = @ \ {b}, ![q].clear = clear] /\ job[q].pc = "sweep"
        BY <1>6 DEF SweepSnapshots, JobAt
      <3>2. job'[q].clear = clear /\ job'[q] = [job[q] EXCEPT !.sweep = @ \ {b}, !.clear = clear]
        <4> HIDE DEF clear
        <4> QED BY <1>0, <3>1 DEF Job
      <3> HIDE DEF clear
      <3>3. /\ job'[q].live = job[q].live /\ job'[q].n1 = job[q].n1 /\ job'[q].doc = job[q].doc
            /\ job'[q].swept = job[q].swept /\ job'[q].pc = "sweep"
        BY <1>0, <3>1, <3>2 DEF Job
      <3> QED BY <3>2, <3>3 DEF clear
    <2>2. served' = served /\ coll' = coll BY <1>6 DEF SweepSnapshots, vars
    <2>3. snapshots' = IF coll[b].exists THEN snapshots \ SnapshotsOf(b) ELSE snapshots
      BY <1>6 DEF SweepSnapshots
    <2>4. ASSUME NEW c \in job[q].swept, c \in job'[q].clear, NEW s \in snapshots', s.of = c
          PROVE  job[q].doc \notin DocsOf(s)
      BY <1>0, <2>1, <2>3, <2>4 DEF CleanJob, SnapshotsOf
    <2>5. CleanJob(q)'
      BY <1>0, <2>1, <2>2, <2>4 DEF CleanJob, Past, DocsIn
    <2> QED BY <1>0, <1>6, <2>3, <2>5, <1>a DEF SweepSnapshots
  <1>7. CASE ReportDeletion(q)
    <2>1. /\ cleaned' = cleaned \cup ({job[q].doc} \X job[q].swept)
          /\ purged' = purged \cup ({job[q].doc} \X (job[q].swept \cap job[q].clear))
          /\ coll' = coll /\ served' = served /\ snapshots' = snapshots
      BY <1>7 DEF ReportDeletion, vars
    <2>2. (\A x \in cleaned : x[2] \in served)' /\ CleanedStaysClean'
      BY <1>0, <2>1 DEF CleanInv, CleanJob, CleanedStaysClean, DocsIn
    <2>3. PurgedStaysPurged'
      BY <1>0, <2>1 DEF CleanInv, CleanJob, PurgedStaysPurged, DocsOf
    <2>4. ASSUME NEW r \in Clerks PROVE CleanJob(r)'
      <3>1. CASE r = q BY <1>7, <3>1, CleanReturns DEF ReportDeletion
      <3>2. CASE r # q
        <4>1. CleanJob(r) /\ job'[r] = job[r]
          BY <1>0, <1>7, <3>2 DEF ReportDeletion, JobReturn, CleanInv
        <4> QED BY <2>1, <4>1 DEF CleanJob, Past, DocsIn
      <3> QED BY <3>1, <3>2
    <2> QED BY <2>2, <2>3, <2>4 DEF CleanInv
  <1> QED BY <1>2, <1>3, <1>4, <1>5, <1>6, <1>7

\* A restore reports no deletion and takes no snapshot.
LEMMA CleanRestore ==
  ASSUME DeletionTypeInv, CleanInv, Shrinks, NEW q \in Clerks,
         \/ \E s \in snapshots, b \in Builds : StartRestore(q, s, b)
         \/ RestoreSnapshot(q)
         \/ SetMarker(q)
         \/ ListUnreplayed(q)
         \/ \E e \in tombstones : ReplayTombstone(q, e)
         \/ CommitReplays(q)
         \/ \E ok \in BOOLEAN : ClearMarker(q, ok)
         \/ AbortJob(q)
  PROVE  CleanInv'
  <1>0. job \in [Clerks -> Job] BY DEF DeletionTypeInv, DeletionTypeOK
  <1> DEFINE Aside == /\ \A r \in Clerks \ {q} : job'[r] = job[r]
                      /\ snapshots' = snapshots /\ UNCHANGED history
             Moves == /\ job'[q].live = job[q].live /\ job'[q].n1 = job[q].n1
                      /\ job'[q].doc = job[q].doc /\ job'[q].swept = job[q].swept
                      /\ job'[q].clear = job[q].clear
                      /\ job'[q].pc \notin {"read_record", "delete_live", "delete_n1"}
  <1>1. Aside
    BY <1>0
    DEF StartRestore, RestoreSnapshot, SetMarker, ListUnreplayed, ReplayTombstone, CommitReplays,
        ClearMarker, AbortJob, JobReturn, JobTo, history
  <1>2. CASE RestoreSnapshot(q) \/ SetMarker(q) \/ ListUnreplayed(q) \/ CommitReplays(q)
    <2>1. Moves
      <3>1. ASSUME NEW pc \in {"mark", "list", "clear"}, JobTo(q, pc) PROVE Moves
        BY <1>0, <3>1 DEF JobTo, Job
      <3>2. CASE ListUnreplayed(q) BY <1>0, <3>2 DEF ListUnreplayed, Job
      <3> QED BY <1>2, <3>1, <3>2 DEF RestoreSnapshot, SetMarker, CommitReplays
    <2>2. CleanJob(q)' BY <1>1, <2>1, CleanMoves
    <2> QED BY <1>1, <2>2, CleanStays DEF history
  <1>3. ASSUME NEW e \in tombstones, ReplayTombstone(q, e)
        PROVE  CleanInv'
    <2>1. Moves BY ZenonT(60), <1>0, <1>3 DEF ReplayTombstone, JobAt, Job
    <2>2. CleanJob(q)' BY <1>1, <2>1, CleanMoves
    <2> QED BY <1>1, <2>2, CleanStays DEF history
  <1>4. ASSUME NEW s \in snapshots, NEW b \in Builds, StartRestore(q, s, b)
        PROVE  CleanInv'
    <2>1. CleanJob(q)' BY <1>0, <1>4 DEF StartRestore, NoJob, CleanJob, Past
    <2> QED BY <1>1, <2>1, CleanStays DEF history
  <1>5. CASE (\E ok \in BOOLEAN : ClearMarker(q, ok)) \/ AbortJob(q)
    <2>1. CleanJob(q)' BY <1>5, CleanReturns DEF ClearMarker, AbortJob
    <2> QED BY <1>1, <2>1, CleanStays DEF history
  <1> QED BY <1>2, <1>3, <1>4, <1>5

\* CleanInv is inductive relative to the closed collections.
LEMMA CleanStep ==
  ASSUME DeletionTypeInv, ClosedInv, CleanInv, Shrinks, [DeletionNext]_allVars
  PROVE  CleanInv'
  <1>a. ASSUME snapshots' = snapshots, job' = job, UNCHANGED history PROVE CleanInv'
    BY <1>a, CleanStays DEF history
  <1>1. CASE UNCHANGED allVars BY <1>1, <1>a DEF allVars, deletionVars, history
  <1>2. CASE LifecycleStep BY <1>2, <1>a DEF LifecycleStep, history
  <1>3. ASSUME NEW p \in Operators, NEW b \in Builds, StartRestoredPromotion(p, b) PROVE CleanInv'
    BY <1>3, <1>a DEF StartRestoredPromotion, deletionVars, history
  <1>4. ASSUME NEW b \in Builds, NEW aged \in SUBSET snapshots, SnapshotCold(b, aged)
        PROVE  CleanInv'
    <2>1. \A s \in snapshots' \ snapshots : s.of \in Builds /\ s.points = coll[s.of].points
      BY <1>4 DEF SnapshotCold
    <2>2. job' = job /\ UNCHANGED <<cleaned, purged>> BY <1>4 DEF SnapshotCold, history
    <2> QED BY <2>1, <2>2, CleanStays
  <1>5. CASE DeletionNext
    BY <1>2, <1>3, <1>4, <1>5, CleanDelete, CleanRestore DEF DeletionNext
  <1> QED BY <1>1, <1>5

-----------------------------------------------------------------------------
(* The replay table.                                                       *)

\* Entry n of the log holds of the restored collection b.
Done(n, b) ==
  /\ b \in Builds /\ restored[b] # None
  /\ n <= Cardinality(tombstones)
  /\ \A e \in tombstones : e[1] = n => e[2] \notin DocsIn(b)

ReplayJob(q) ==
  /\ job[q].todo \subseteq tombstones
  /\ \A n \in job[q].marks : Done(n, job[q].target)

ReplayInv ==
  /\ \A e, f \in tombstones : e[1] = f[1] => e = f
  /\ \A x \in replays : Done(x[1], x[2])
  /\ \A q \in Clerks : ReplayJob(q)

\* The log keeps its entries and gives the next one a new number.
LogExtends ==
  \/ tombstones' = tombstones
  \/ \E d \in Docs : Cardinality(tombstones) < MaxTombstones /\ tombstones' = Appended(d)

\* What holds of a closed collection goes on to hold while the log grows.
LEMMA DoneStays ==
  ASSUME DeletionTypeInv, Shrinks, LogExtends, NEW n \in 1 .. MaxTombstones, NEW b, Done(n, b)
  PROVE  Done(n, b)'
  <1>1. b \in Builds /\ restored'[b] # None /\ DocsIn(b)' \subseteq DocsIn(b)
    BY DocsShrink DEF Done, Shrinks, Closed
  <1>2. CASE tombstones' = tombstones BY <1>1, <1>2 DEF Done
  <1>3. ASSUME NEW d \in Docs, Cardinality(tombstones) < MaxTombstones, tombstones' = Appended(d)
        PROVE  Done(n, b)'
    <2>1. /\ Cardinality(tombstones) \in Nat
          /\ Cardinality(tombstones') = Cardinality(tombstones) + 1
      BY <1>3, LogGrows DEF DeletionTypeInv, DeletionTypeOK
    <2>2. n <= Cardinality(tombstones) /\ n <= Cardinality(tombstones')
      BY <2>1 DEF Done
    <2>3. ASSUME NEW e \in tombstones', e[1] = n PROVE e \in tombstones
      BY <1>3, <2>1, <2>2, <2>3 DEF Appended
    <2> QED BY <1>1, <2>2, <2>3 DEF Done
  <1> QED BY <1>2, <1>3 DEF LogExtends

\* The numbers of the log stay unique.
LEMMA UniqueStays ==
  ASSUME DeletionTypeInv, LogExtends, \A e, f \in tombstones : e[1] = f[1] => e = f
  PROVE  /\ tombstones \subseteq tombstones'
         /\ \A e, f \in tombstones' : e[1] = f[1] => e = f
  <1>1. ASSUME NEW d \in Docs, tombstones' = Appended(d)
        PROVE  \A e, f \in tombstones' : e[1] = f[1] => e = f
    <2>1. Cardinality(tombstones) \in Nat /\ \A e \in tombstones : e[1] \in Nat
      BY FS_CardinalityType DEF DeletionTypeInv, DeletionTypeOK, Numbered, Entry
    <2>2. \A e \in tombstones : e[1] # Cardinality(tombstones) + 1
      BY <2>1 DEF DeletionTypeInv, Numbered
    <2> QED BY <1>1, <2>2 DEF Appended
  <1> QED BY <1>1 DEF LogExtends, Appended

\* A step that adds no row, of a clerk that has its replays right.
LEMMA ReplayStays ==
  ASSUME DeletionTypeInv, ReplayInv, Shrinks, LogExtends,
         \A r \in Clerks : job'[r] = job[r] \/ ReplayJob(r)',
         \A x \in replays' \ replays : Done(x[1], x[2])'
  PROVE  ReplayInv'
  <1>0. /\ replays \subseteq (1 .. MaxTombstones) \X Builds
        /\ \A r \in Clerks : job[r].marks \subseteq 1 .. MaxTombstones
    BY DEF DeletionTypeInv, DeletionTypeOK, Job
  <1>1. /\ tombstones \subseteq tombstones'
        /\ \A e, f \in tombstones' : e[1] = f[1] => e = f
    BY UniqueStays DEF ReplayInv
  <1>2. \A x \in replays : Done(x[1], x[2])' BY <1>0, DoneStays DEF ReplayInv
  <1>3. ASSUME NEW r \in Clerks, job'[r] = job[r] PROVE ReplayJob(r)'
    <2>1. job[r].todo \subseteq tombstones' BY <1>1 DEF ReplayInv, ReplayJob
    <2>2. \A n \in job[r].marks : Done(n, job[r].target)'
      BY <1>0, <1>3, DoneStays DEF ReplayInv, ReplayJob
    <2> QED BY <1>3, <2>1, <2>2 DEF ReplayJob, Done
  <1> QED BY <1>1, <1>2, <1>3 DEF ReplayInv

\* A clerk that goes on with the entries it has replayed.
LEMMA ReplayMoves ==
  ASSUME DeletionTypeInv, ReplayInv, Shrinks, NEW q \in Clerks, tombstones' = tombstones,
         job'[q].todo \subseteq tombstones, job'[q].marks = job[q].marks,
         job'[q].target = job[q].target
  PROVE  ReplayJob(q)'
  <1>1. \A n \in job[q].marks : Done(n, job[q].target)'
    BY DoneStays DEF LogExtends, ReplayInv, ReplayJob, DeletionTypeInv, DeletionTypeOK, Job
  <1> QED BY <1>1 DEF ReplayJob, Done

\* A call that has replayed nothing.
LEMMA ReplayNothing ==
  ASSUME NEW q \in Clerks, job'[q].todo = {}, job'[q].marks = {}
  PROVE  ReplayJob(q)'
  BY DEF ReplayJob

\* The steps of a restore write down what is so.
LEMMA ReplayRestore ==
  ASSUME DeletionTypeInv, ClosedInv, ReplayInv, Shrinks, NEW q \in Clerks,
         \/ \E s \in snapshots, b \in Builds : StartRestore(q, s, b)
         \/ RestoreSnapshot(q)
         \/ SetMarker(q)
         \/ ListUnreplayed(q)
         \/ \E e \in tombstones : ReplayTombstone(q, e)
         \/ CommitReplays(q)
         \/ \E ok \in BOOLEAN : ClearMarker(q, ok)
         \/ AbortJob(q)
  PROVE  ReplayInv'
  <1>0. job \in [Clerks -> Job] /\ coll \in [Builds -> Collection] /\ Ready(q) /\ ReplayJob(q)
    BY DEF DeletionTypeInv, DeletionTypeOK, TypeInv, TypeOK, StoreTypeOK, ReplayInv
  <1>1. tombstones' = tombstones /\ \A r \in Clerks \ {q} : job'[r] = job[r]
    BY <1>0
    DEF StartRestore, RestoreSnapshot, SetMarker, ListUnreplayed, ReplayTombstone, CommitReplays,
        ClearMarker, AbortJob, JobReturn, JobTo
  <1>a. ASSUME replays' = replays, ReplayJob(q)' PROVE ReplayInv'
    BY <1>1, <1>a, ReplayStays DEF LogExtends
  <1>2. ASSUME NEW pc \in {"mark", "list"}, JobTo(q, pc), replays' = replays PROVE ReplayInv'
    <2>1. /\ job'[q].todo = job[q].todo /\ job'[q].marks = job[q].marks
          /\ job'[q].target = job[q].target
      BY <1>0, <1>2 DEF JobTo, Job
    <2> QED BY <1>0, <1>1, <1>2, <2>1, <1>a, ReplayMoves DEF ReplayJob
  <1>3. CASE ListUnreplayed(q)
    <2>1. /\ job'[q].todo \subseteq tombstones /\ job'[q].marks = job[q].marks
          /\ job'[q].target = job[q].target
      BY <1>0, <1>3 DEF ListUnreplayed, Job
    <2> QED BY <1>1, <1>3, <2>1, <1>a, ReplayMoves DEF ListUnreplayed
  <1>4. ASSUME NEW e \in tombstones, ReplayTombstone(q, e)
        PROVE  ReplayInv'
    <2>0. job[q].pc \in Restoring /\ job[q].target \in Builds
      BY <1>0, <1>4 DEF ReplayTombstone, JobAt, Ready, Restoring
    <2>1. PICK t \in Builds : t = job[q].target BY <2>0
    <2>2. restored[t] # None /\ coll[t].exists BY <2>0, <2>1 DEF ClosedInv, Kept, Closed
    <2>3. /\ job'[q].todo = job[q].todo \ {e} /\ job'[q].marks = job[q].marks \cup {e[1]}
          /\ job'[q].target = t /\ restored' = restored
      BY <1>0, <1>4, <2>1 DEF ReplayTombstone, Job
    <2>4. e[2] \notin DocsIn(t)'
      <3>1. DeleteIfThere(t, e[2]) BY <1>4, <2>1 DEF ReplayTombstone
      <3> QED BY <1>0, <2>2, <3>1, DeletesClean
    <2>5. e[1] <= Cardinality(tombstones) BY DEF DeletionTypeInv, Numbered
    <2>6. Done(e[1], t)'
      <3>1. \A f \in tombstones : f[1] = e[1] => f[2] = e[2] BY DEF ReplayInv
      <3> QED BY <1>1, <2>2, <2>3, <2>4, <2>5, <3>1 DEF Done
    <2>7. \A n \in job[q].marks : Done(n, t)'
      BY <1>0, <1>1, <2>1, DoneStays DEF LogExtends, ReplayJob, Job
    <2>8. ReplayJob(q)' BY <1>0, <1>1, <2>3, <2>6, <2>7 DEF ReplayJob
    <2> QED BY <1>4, <2>8, <1>a DEF ReplayTombstone
  <1>5. CASE CommitReplays(q)
    <2>1. /\ job'[q].todo = job[q].todo /\ job'[q].marks = job[q].marks
          /\ job'[q].target = job[q].target
      BY <1>0, <1>5 DEF CommitReplays, JobTo, Job
    <2>2. ReplayJob(q)' BY <1>0, <1>1, <2>1, ReplayMoves DEF ReplayJob
    <2>3. \A x \in replays' \ replays : Done(x[1], x[2])'
      BY <1>5, <2>1, <2>2 DEF CommitReplays, MarkedReplayed, ReplayJob, Done
    <2> QED BY <1>1, <2>2, <2>3, ReplayStays DEF LogExtends
  <1>6. CASE \/ \E s \in snapshots, b \in Builds : StartRestore(q, s, b)
             \/ \E ok \in BOOLEAN : ClearMarker(q, ok)
             \/ AbortJob(q)
    <2>1. job'[q].todo = {} /\ job'[q].marks = {} /\ replays' = replays
      <3>1. CASE JobReturn(q) /\ replays' = replays BY <1>0, <3>1 DEF JobReturn, NoJob
      <3>2. ASSUME NEW s \in snapshots, NEW b \in Builds, StartRestore(q, s, b)
            PROVE  job'[q].todo = {} /\ job'[q].marks = {} /\ replays' = replays
        BY <1>0, <3>2 DEF StartRestore, NoJob
      <3> QED BY <1>6, <3>1, <3>2 DEF ClearMarker, AbortJob
    <2> QED BY <2>1, <1>a, ReplayNothing
  <1> QED BY <1>2, <1>3, <1>4, <1>5, <1>6 DEF RestoreSnapshot, SetMarker

\* The steps of delete_document leave the replays of the other clerks.
LEMMA ReplayDelete ==
  ASSUME DeletionTypeInv, ReplayInv, Shrinks, NEW q \in Clerks,
         \/ \E d \in Docs, purge \in BOOLEAN : AppendTombstone(q, d, purge)
         \/ ReadRecord(q)
         \/ DeleteFromLive(q)
         \/ \E ok \in BOOLEAN : DeleteFromN1(q, ok)
         \/ \E b \in Builds : SweepSnapshots(q, b)
         \/ ReportDeletion(q)
  PROVE  ReplayInv'
  <1>0. job \in [Clerks -> Job] /\ ReplayJob(q)
    BY DEF DeletionTypeInv, DeletionTypeOK, ReplayInv
  <1>a. ASSUME replays' = replays, \A r \in Clerks \ {q} : job'[r] = job[r], LogExtends, ReplayJob(q)'
        PROVE  ReplayInv'
    BY <1>a, ReplayStays
  <1>1. ASSUME NEW d \in Docs, NEW purge \in BOOLEAN, AppendTombstone(q, d, purge)
        PROVE  ReplayInv'
    <2>1. job'[q].todo = {} /\ job'[q].marks = {}
      BY <1>0, <1>1 DEF AppendTombstone, NoJob
    <2>2. LogExtends BY <1>1 DEF AppendTombstone, LogExtends
    <2> QED BY <1>0, <1>1, <2>1, <2>2, <1>a, ReplayNothing DEF AppendTombstone
  <1>b. ASSUME tombstones' = tombstones, replays' = replays,
               \A r \in Clerks \ {q} : job'[r] = job[r],
               job'[q].todo = job[q].todo, job'[q].marks = job[q].marks,
               job'[q].target = job[q].target
        PROVE  ReplayInv'
    <2>1. ReplayJob(q)' BY <1>0, <1>b, ReplayMoves DEF ReplayJob
    <2> QED BY <1>b, <2>1, <1>a DEF LogExtends
  <1>2. CASE ReadRecord(q) BY <1>0, <1>2, <1>b DEF ReadRecord, Job
  <1>3. CASE DeleteFromLive(q) BY <1>0, <1>3, <1>b DEF DeleteFromLive, Job
  <1>4. ASSUME NEW ok \in BOOLEAN, DeleteFromN1(q, ok) PROVE ReplayInv'
    BY <1>0, <1>4, <1>b, N1Locals DEF DeleteFromN1
  <1>5. ASSUME NEW b \in Builds, SweepSnapshots(q, b) PROVE ReplayInv'
    BY ZenonT(60), <1>0, <1>5, <1>b DEF SweepSnapshots, Job
  <1>6. CASE ReportDeletion(q)
    <2>1. job'[q].todo = {} /\ job'[q].marks = {}
      BY <1>0, <1>6 DEF ReportDeletion, JobReturn, NoJob
    <2> QED BY <1>0, <1>6, <2>1, <1>a, ReplayNothing DEF ReportDeletion, JobReturn, LogExtends
  <1> QED BY <1>1, <1>2, <1>3, <1>4, <1>5, <1>6

\* ReplayInv is inductive relative to the closed collections.
LEMMA ReplayStep ==
  ASSUME DeletionTypeInv, ClosedInv, ReplayInv, Shrinks, [DeletionNext]_allVars
  PROVE  ReplayInv'
  <1>a. ASSUME UNCHANGED <<tombstones, replays, job>> PROVE ReplayInv'
    BY <1>a, ReplayStays DEF LogExtends
  <1>1. CASE UNCHANGED allVars BY <1>1, <1>a DEF allVars, deletionVars
  <1>2. CASE LifecycleStep BY <1>2, <1>a DEF LifecycleStep
  <1>3. ASSUME NEW p \in Operators, NEW b \in Builds, StartRestoredPromotion(p, b) PROVE ReplayInv'
    BY <1>3, <1>a DEF StartRestoredPromotion, deletionVars
  <1>4. ASSUME NEW b \in Builds, NEW aged \in SUBSET snapshots, SnapshotCold(b, aged) PROVE ReplayInv'
    BY <1>4, <1>a DEF SnapshotCold
  <1>5. CASE DeletionNext
    BY <1>2, <1>3, <1>4, <1>5, ReplayDelete, ReplayRestore DEF DeletionNext
  <1> QED BY <1>1, <1>5

-----------------------------------------------------------------------------
(* What is promoted was replayed.                                          *)

Whole(b) == \A e \in tombstones : e[1] <= restored[b] => <<e[1], b>> \in replays

\* A restore has the entries up to its listing before it, in its transaction or in
\* the table.
Listed(q) ==
  /\ job[q].pc = "replay" =>
       \A e \in tombstones : e[1] <= restored[job[q].target] =>
         e \in job[q].todo \/ e[1] \in job[q].marks \/ <<e[1], job[q].target>> \in replays
  /\ job[q].pc = "clear" => Whole(job[q].target)

\* A restore that has not returned has its target for itself.
Apart(q) ==
  job[q].pc \in Restoring =>
    /\ job[q].target \notin returned
    /\ \A r \in Clerks \ {q} : job[r].pc \in Restoring => job[r].target # job[q].target

Awaited(b) == restored[b] # None => b \in returned

RestoreInv ==
  /\ \A b \in Builds : restored[b] # None => restored[b] <= Cardinality(tombstones)
  /\ \A b \in returned : restored[b] # None /\ Whole(b)
  /\ \A q \in Clerks : Apart(q) /\ Listed(q)
  /\ \A p \in Operators : Promoting(p) => Awaited(op[p].b)
  /\ \A b \in served : Awaited(b)

\* A promotion under way has the collection it had, or one that was built; what
\* comes to be served was being promoted.
Sources ==
  /\ \A p \in Operators : Promoting(p)' =>
       (Promoting(p) /\ op'[p].b = op[p].b) \/ restored[op'[p].b] = None
  /\ \A b \in served' : b \in served \/ \E p \in Operators : Promoting(p) /\ op[p].b = b

\* Only a build and a retry of a promotion start promoting, phase 1 serves.
LEMMA LifecycleSources ==
  ASSUME DeletionTypeInv, ClosedInv, Next
  PROVE  Sources
  <1> PICK p \in Operators :
        Build(p) \/ Promote(p) \/ Rollback(p) \/ Reconcile(p) \/ Retire(p) \/ Abort(p)
    BY DEF Next
  <1>0. /\ op \in [Operators -> Call]
        /\ \A r \in Operators : Equipped(r) /\ Owned(r) /\ Remembered(r)
    BY DEF DeletionTypeInv, TypeInv, TypeOK, ClosedInv, LagInv
  <1>a. ASSUME \A r \in Operators \ {p} : op'[r] = op[r], served' = served,
               Promoting(p)' => (Promoting(p) /\ op'[p].b = op[p].b) \/ restored[op'[p].b] = None
        PROVE  Sources
    BY <1>a DEF Sources, Promoting
  <1>b. ASSUME \A r \in Operators \ {p} : op'[r] = op[r], served' = served, ~Promoting(p)'
        PROVE  Sources
    BY <1>a, <1>b
  <1>c. ASSUME Return(p), served' = served PROVE Sources
    BY <1>0, <1>b, <1>c DEF Return, Idle, Promoting
  <1>d. ASSUME NEW pc, Goto(p, pc), served' = served, Promoting(p) PROVE Sources
    BY <1>0, <1>a, <1>d DEF Goto, Call
  <1>1. CASE Build(p)
    <2>1. ASSUME NEW b \in Builds, NEW m \in Identities, NEW batch \in SUBSET Docs,
                 StartBuild(p, b, m, batch)
          PROVE  Sources
      BY <1>0, <2>1, <1>b DEF StartBuild, Start, Idle, Promoting
    <2>2. CASE PinIdentity(p) BY <1>0, <2>2, <1>b DEF PinIdentity, Goto, Promoting, Call
    <2>3. ASSUME NEW d \in Docs, IngestDocument(p, d) PROVE Sources
      BY <1>0, <2>3, <1>b DEF IngestDocument, At, Promoting, Call
    <2>4. ASSUME NEW go \in BOOLEAN, FinishBuild(p, go) PROVE Sources
      <3>1. served' = served /\ restored[op[p].b] = None
        BY <1>0, <2>4 DEF FinishBuild, At, Owned, Working, Closed
      <3>2. CASE Goto(p, "read_identity")
        BY <1>0, <3>1, <3>2, <1>a DEF Goto, Call
      <3> QED BY <2>4, <3>1, <3>2, <1>c DEF FinishBuild
    <2> QED BY <1>1, <2>1, <2>2, <2>3, <2>4 DEF Build
  <1>2. CASE Promote(p)
    <2>1. ASSUME NEW b \in Builds, StartPromotion(p, b) PROVE Sources
      <3>1. restored[b] = None BY <2>1 DEF StartPromotion, ClosedInv, Kept
      <3> QED BY <1>0, <2>1, <3>1, <1>a DEF StartPromotion, Start, Idle
    <2>2. CASE ReadIdentity(p)
      BY <1>0, <2>2, <1>a DEF ReadIdentity, At, Promoting, Call
    <2>3. CASE EnsureRecord(p)
      BY <1>0, <2>3, <1>a DEF EnsureRecord, At, Promoting, Call
    <2>4. CASE Validate(p) \/ CheckMarker(p)
      <3>1. Promoting(p) /\ served' = served BY <2>4 DEF Validate, CheckMarker, At, Promoting
      <3> QED BY <2>4, <3>1, <1>c, <1>d DEF Validate, CheckMarker
    <2>5. CASE PromotePhase1(p)
      <3>1. CASE Return(p) /\ UNCHANGED <<alias, served>> BY <3>1, <1>c
      <3>2. CASE Goto(p, "phase2") /\ Retarget(op[p].b)
        <4>1. Promoting(p) /\ served' = served \cup {op[p].b}
          BY <2>5, <3>2 DEF PromotePhase1, At, Promoting, Retarget
        <4> QED BY <1>0, <3>2, <4>1 DEF Goto, Sources, Promoting, Call
      <3> QED BY <2>5, <3>1, <3>2 DEF PromotePhase1
    <2>6. CASE PromotePhase2(p)
      <3>1. CASE Return(p) BY <2>6, <3>1, <1>c DEF PromotePhase2
      <3>2. CASE ~Return(p)
        BY <1>0, <2>6, <3>2, <1>b DEF PromotePhase2, Promoting, Call
      <3> QED BY <3>1, <3>2
    <2>7. CASE PromoteCommit(p) BY <2>7, <1>c DEF PromoteCommit
    <2> QED BY <1>2, <2>1, <2>2, <2>3, <2>4, <2>5, <2>6, <2>7 DEF Promote
  <1>3. CASE Rollback(p)
    <2>1. ASSUME NEW available \in SUBSET Identities, StartRollback(p, available) PROVE Sources
      BY <1>0, <2>1, <1>b DEF StartRollback, Start, Idle, Promoting
    <2>2. CASE RollbackPhase1(p)
      <3>1. CASE Return(p) /\ UNCHANGED <<alias, served>> BY <3>1, <1>c
      <3>2. CASE Goto(p, "rollback2") /\ Retarget(op[p].seen.previous)
        <4>1. served' = served
          BY <1>0, <2>2, <3>2 DEF RollbackPhase1, At, Remembered, Retarget
        <4> QED BY <1>0, <3>2, <4>1, <1>b DEF Goto, Promoting, Call
      <3> QED BY <2>2, <3>1, <3>2 DEF RollbackPhase1
    <2>3. CASE RollbackCommit(p) BY <2>3, <1>c DEF RollbackCommit
    <2> QED BY <1>3, <2>1, <2>2, <2>3 DEF Rollback
  <1>4. CASE Reconcile(p)
    <2>1. CASE StartReconcile(p)
      BY <1>0, <2>1, <1>b DEF StartReconcile, Start, Idle, Promoting
    <2>2. CASE ReconcileGet(p)
      <3>1. CASE Return(p) BY <2>2, <3>1, <1>c DEF ReconcileGet
      <3>2. CASE ~Return(p) BY <1>0, <2>2, <3>2, <1>b DEF ReconcileGet, Promoting, Call
      <3> QED BY <3>1, <3>2
    <2>3. CASE ReconcileRepair(p) BY <2>3, <1>c DEF ReconcileRepair
    <2> QED BY <1>4, <2>1, <2>2, <2>3 DEF Reconcile
  <1>5. CASE Retire(p)
    <2>1. CASE StartRetire(p) BY <1>0, <2>1, <1>b DEF StartRetire, Start, Idle, Promoting
    <2>2. CASE Drop(p) BY <2>2, <1>c DEF Drop
    <2> QED BY <1>5, <2>1, <2>2 DEF Retire
  <1>6. CASE Abort(p) BY <1>6, <1>c DEF Abort
  <1> QED BY <1>1, <1>2, <1>3, <1>4, <1>5, <1>6

\* The entries a restored collection has replayed stay so while the log grows: a new
\* entry has a number of its own.
LEMMA WholeStays ==
  ASSUME DeletionTypeInv, RestoreInv, LogExtends, replays \subseteq replays',
         NEW b \in Builds, restored[b] # None, restored'[b] = restored[b]
  PROVE  /\ restored'[b] <= Cardinality(tombstones')
         /\ \A e \in tombstones' : e[1] <= restored[b] => e \in tombstones
  <1>1. restored[b] \in Nat /\ restored[b] <= Cardinality(tombstones)
    BY DeletionAssumption DEF DeletionTypeInv, DeletionTypeOK, RestoreInv
  <1>2. ASSUME NEW d \in Docs, Cardinality(tombstones) < MaxTombstones, tombstones' = Appended(d)
        PROVE  /\ restored'[b] <= Cardinality(tombstones')
               /\ \A e \in tombstones' : e[1] <= restored[b] => e \in tombstones
    <2>1. /\ Cardinality(tombstones) \in Nat
          /\ Cardinality(tombstones') = Cardinality(tombstones) + 1
      BY <1>2, LogGrows DEF DeletionTypeInv, DeletionTypeOK
    <2>2. ASSUME NEW e \in tombstones', e[1] <= restored[b] PROVE e \in tombstones
      BY <1>1, <1>2, <2>1, <2>2 DEF Appended
    <2> QED BY <1>1, <2>1, <2>2
  <1> QED BY <1>1, <1>2 DEF LogExtends

\* A step of a clerk that restores nothing new and returns from no restore.
LEMMA RestoreStays ==
  ASSUME DeletionTypeInv, ClosedInv, RestoreInv, LogExtends, replays \subseteq replays',
         UNCHANGED <<op, served, restored, returned>>,
         \A r \in Clerks :
           \/ job'[r] = job[r]
           \/ job'[r].pc \notin Restoring
           \/ /\ job[r].pc \in Restoring /\ job'[r].target = job[r].target
              /\ Listed(r)'
  PROVE  RestoreInv'
  <1>0. /\ \A r \in Clerks : Ready(r)
        /\ \A r \in Clerks : job[r].pc \in Restoring => restored[job[r].target] # None
        /\ returned \subseteq Builds
    BY DEF DeletionTypeInv, DeletionTypeOK, ClosedInv
  <1>1. \A b \in Builds : restored'[b] # None => restored'[b] <= Cardinality(tombstones')
    BY WholeStays
  <1>2. \A b \in Builds : restored[b] # None /\ Whole(b) => Whole(b)'
    BY WholeStays DEF Whole
  <1>3. \A b \in returned' : restored'[b] # None /\ Whole(b)'
    BY <1>0, <1>2 DEF RestoreInv
  <1>4. ASSUME NEW r \in Clerks PROVE Apart(r)' /\ Listed(r)'
    <2>1. ASSUME NEW t \in Clerks, job'[t].pc \in Restoring
          PROVE  job[t].pc \in Restoring /\ job'[t].target = job[t].target
      BY <2>1
    <2>2. Apart(r)' BY <2>1 DEF RestoreInv, Apart
    <2>3. Listed(r)'
      <3>1. CASE job'[r] = job[r]
        <4>1. CASE job[r].pc \in Restoring
          <5>1. job[r].target \in Builds /\ restored[job[r].target] # None /\ Listed(r)
            BY <1>0, <4>1 DEF Ready, RestoreInv
          <5>2. job'[r].pc = "replay" =>
                  \A e \in tombstones' : e[1] <= restored'[job'[r].target] =>
                    e \in job'[r].todo \/ e[1] \in job'[r].marks \/ <<e[1], job'[r].target>> \in replays'
            BY <3>1, <5>1, WholeStays DEF Listed
          <5>3. job[r].pc = "clear" => Whole(job[r].target)'
            BY <1>2, <3>1, <5>1 DEF Listed, Whole
          <5> QED BY <3>1, <5>2, <5>3 DEF Listed, Whole
        <4>2. CASE job[r].pc \notin Restoring BY <3>1, <4>2 DEF Listed, Restoring
        <4> QED BY <4>1, <4>2
      <3>2. CASE job'[r].pc \notin Restoring BY <3>2 DEF Listed, Restoring
      <3> QED BY <3>1, <3>2
    <2> QED BY <2>2, <2>3
  <1>5. \A p \in Operators : Promoting(p)' => Awaited(op[p].b)'
    BY DEF RestoreInv, Promoting, Awaited
  <1>6. \A b \in served' : Awaited(b)' BY DEF RestoreInv, Awaited
  <1> QED BY <1>1, <1>3, <1>4, <1>5, <1>6 DEF RestoreInv, Promoting, Awaited

\* A step of the lifecycle serves what was promoted.
LEMMA RestoreSources ==
  ASSUME DeletionTypeInv, RestoreInv, Sources,
         UNCHANGED <<tombstones, replays, restored, returned, job>>
  PROVE  RestoreInv'
  <1>1. \A p \in Operators : Promoting(p)' => Awaited(op[p].b)'
    BY DEF RestoreInv, Sources, Awaited
  <1>2. \A b \in served' : Awaited(b)' BY DEF RestoreInv, Sources, Awaited
  <1>3. \A q \in Clerks : Apart(q)' /\ Listed(q)' BY DEF RestoreInv, Apart, Listed, Whole
  <1>4. \A b \in returned' : restored'[b] # None /\ Whole(b)' BY DEF RestoreInv, Whole
  <1> QED BY <1>1, <1>2, <1>3, <1>4 DEF RestoreInv

\* The steps of a restore, one clerk per target.
LEMMA RestoreRestore ==
  ASSUME DeletionTypeInv, ClosedInv, RestoreInv, NEW q \in Clerks,
         \/ \E s \in snapshots, b \in Builds : StartRestore(q, s, b)
         \/ RestoreSnapshot(q)
         \/ SetMarker(q)
         \/ ListUnreplayed(q)
         \/ \E e \in tombstones : ReplayTombstone(q, e)
         \/ CommitReplays(q)
         \/ \E ok \in BOOLEAN : ClearMarker(q, ok)
         \/ AbortJob(q)
  PROVE  RestoreInv'
  <1>0. /\ job \in [Clerks -> Job] /\ coll \in [Builds -> Collection] /\ Listed(q) /\ Apart(q)
        /\ restored \in [Builds -> (0 .. MaxTombstones) \cup {None}]
        /\ Cardinality(tombstones) \in Nat /\ Cardinality(tombstones) # None
        /\ \A r \in Clerks : Ready(r)
        /\ \A b \in Builds : Kept(b)
        /\ \A r \in Clerks : job[r].pc \in Restoring => restored[job[r].target] # None
    BY FS_CardinalityType, DeletionAssumption
    DEF DeletionTypeInv, DeletionTypeOK, TypeInv, TypeOK, StoreTypeOK, RestoreInv, ClosedInv, Numbered
  <1>1. /\ tombstones' = tombstones /\ UNCHANGED <<op, served>> /\ replays \subseteq replays'
        /\ \A r \in Clerks \ {q} : job'[r] = job[r]
    BY <1>0
    DEF StartRestore, RestoreSnapshot, SetMarker, ListUnreplayed, ReplayTombstone, CommitReplays,
        ClearMarker, AbortJob, JobReturn, JobTo, vars, Rest
  <1>a. ASSUME UNCHANGED <<restored, returned>>,
               \/ job'[q].pc \notin Restoring
               \/ job[q].pc \in Restoring /\ job'[q].target = job[q].target /\ Listed(q)'
        PROVE  RestoreInv'
    BY <1>1, <1>a, RestoreStays DEF LogExtends
  <1>2. ASSUME NEW s \in snapshots, NEW b \in Builds, StartRestore(q, s, b) PROVE RestoreInv'
    BY <1>0, <1>2, <1>a DEF StartRestore, NoJob, Restoring
  <1>3. CASE SetMarker(q)
    BY <1>0, <1>3, <1>a DEF SetMarker, JobTo, JobAt, Listed, Restoring, Job
  <1>4. ASSUME NEW e \in tombstones, ReplayTombstone(q, e) PROVE RestoreInv'
    <2>1. /\ job'[q].todo = job[q].todo \ {e} /\ job'[q].marks = job[q].marks \cup {e[1]}
          /\ job'[q].target = job[q].target /\ job'[q].pc = "replay" /\ job[q].pc = "replay"
          /\ UNCHANGED <<restored, returned, replays>>
      BY ZenonT(60), <1>0, <1>4 DEF ReplayTombstone, JobAt, Job
    <2>2. Listed(q)' BY <1>0, <1>1, <2>1 DEF Listed
    <2> QED BY <2>1, <2>2, <1>a DEF Restoring
  <1>5. CASE CommitReplays(q)
    <2>1. /\ job'[q].target = job[q].target /\ job'[q].pc = "clear" /\ job[q].pc = "replay"
          /\ job[q].todo = {} /\ replays' = replays \cup (job[q].marks \X {job[q].target})
          /\ UNCHANGED <<restored, returned>>
      BY <1>0, <1>5 DEF CommitReplays, JobTo, JobAt, Job, MarkedReplayed
    <2>2. Listed(q)' BY <1>0, <1>1, <2>1 DEF Listed, Whole
    <2> QED BY <2>1, <2>2, <1>a DEF Restoring
  <1>6. CASE AbortJob(q)
    BY <1>0, <1>6, <1>a DEF AbortJob, JobReturn, NoJob, Restoring
  <1>7. ASSUME NEW ok \in BOOLEAN, ClearMarker(q, ok) PROVE RestoreInv'
    <2>0. job[q].pc = "clear" /\ job[q].pc \in Restoring /\ job[q].target \in Builds
      BY <1>0, <1>7 DEF ClearMarker, JobAt, Ready, Restoring
    <2>1. PICK t \in Builds : t = job[q].target BY <2>0
    <2>2. /\ returned' = returned \cup {t} /\ UNCHANGED <<restored, replays>>
          /\ job'[q].pc \notin Restoring
      BY <1>0, <1>7, <2>1 DEF ClearMarker, JobReturn, NoJob, Restoring
    <2>3. restored[t] # None /\ Whole(t) BY <1>0, <2>0, <2>1 DEF Listed
    <2>4. \A b \in returned' : restored'[b] # None /\ Whole(b)'
      BY <1>1, <2>2, <2>3 DEF RestoreInv, Whole
    <2>5. ASSUME NEW r \in Clerks PROVE Apart(r)' /\ Listed(r)'
      <3>1. CASE r = q BY <2>2, <3>1 DEF Apart, Listed, Restoring
      <3>2. CASE r # q
        <4>1. job'[r] = job[r] /\ Apart(r) /\ Listed(r) BY <1>1, <3>2 DEF RestoreInv
        <4>2. job[r].pc \in Restoring => job[r].target # t
          BY <2>0, <2>1, <3>2, <4>1 DEF Apart
        <4>3. Apart(r)' BY <1>1, <2>2, <4>1, <4>2 DEF Apart
        <4> QED BY <1>1, <2>2, <4>1, <4>3 DEF Listed, Whole
      <3> QED BY <3>1, <3>2
    <2> QED BY <1>1, <2>2, <2>4, <2>5 DEF RestoreInv, Promoting, Awaited
  <1>8. CASE RestoreSnapshot(q)
    <2>0. job[q].target \in Builds BY <1>0, <1>8 DEF RestoreSnapshot, JobAt, Ready
    <2>1. PICK t \in Builds : t = job[q].target BY <2>0
    <2>2. /\ ~coll[t].exists /\ UNCHANGED <<returned, replays>>
          /\ restored' = [restored EXCEPT ![t] = Cardinality(tombstones)]
          /\ job'[q].pc = "mark" /\ job'[q].target = t
      BY <1>0, <1>8, <2>1 DEF RestoreSnapshot, JobTo, Job
    <2>3. restored[t] = None /\ t \notin returned /\ t \notin served
      BY <1>0, <2>2 DEF Kept, Closed, RestoreInv
    <2>4. \A b \in Builds : restored'[b] # None => restored'[b] <= Cardinality(tombstones')
      BY <1>0, <1>1, <2>2 DEF RestoreInv
    <2>5. \A b \in returned' : restored'[b] # None /\ Whole(b)'
      BY <1>0, <1>1, <2>2, <2>3 DEF RestoreInv, Whole, DeletionTypeInv, DeletionTypeOK
    <2>6. \A r \in Clerks : job[r].pc \in Restoring => job[r].target # t
      BY <1>0, <2>3
    <2>7. ASSUME NEW r \in Clerks PROVE Apart(r)' /\ Listed(r)'
      <3>1. CASE r = q
        <4>1. Apart(r)' BY <1>1, <2>2, <2>3, <2>6, <3>1 DEF Apart
        <4> QED BY <2>2, <3>1, <4>1 DEF Listed
      <3>2. CASE r # q
        <4>1. job'[r] = job[r] /\ Apart(r) /\ Listed(r) BY <1>1, <3>2 DEF RestoreInv
        <4>2. Apart(r)' BY <1>1, <2>1, <2>2, <2>6, <4>1 DEF Apart
        <4>3. Listed(r)'
          <5>1. CASE job[r].pc \in Restoring
            <6>1. job[r].target \in Builds /\ job[r].target # t
              BY <1>0, <2>6, <5>1 DEF Ready
            <6>2. restored'[job[r].target] = restored[job[r].target] BY <1>0, <2>2, <6>1
            <6> QED BY <1>1, <2>2, <4>1, <6>2 DEF Listed, Whole
          <5>2. CASE job[r].pc \notin Restoring BY <4>1, <5>2 DEF Listed, Restoring
          <5> QED BY <5>1, <5>2
        <4> QED BY <4>2, <4>3
      <3> QED BY <3>1, <3>2
    <2>8. ASSUME NEW p \in Operators, Promoting(p) PROVE Awaited(op[p].b)'
      <3>1. coll[op[p].b].exists /\ op[p].b \in Builds /\ Awaited(op[p].b)
        BY <2>8 DEF ClosedInv, Owned, DeletionTypeInv, TypeInv, Equipped, Promoting, RestoreInv
      <3> QED BY <1>0, <1>1, <2>2, <3>1 DEF Awaited
    <2>9. \A b \in served : Awaited(b)'
      BY <1>0, <2>2, <2>3 DEF RestoreInv, Awaited, DeletionTypeInv, TypeInv, TypeOK
    <2> QED BY <1>1, <2>4, <2>5, <2>7, <2>8, <2>9 DEF RestoreInv, Promoting, Awaited
  <1>9. CASE ListUnreplayed(q)
    <2>0. job[q].pc \in Restoring /\ job[q].target \in Builds
      BY <1>0, <1>9 DEF ListUnreplayed, JobAt, Ready, Restoring
    <2>1. PICK t \in Builds : t = job[q].target BY <2>0
    <2>2. /\ UNCHANGED <<returned, replays>>
          /\ restored' = [restored EXCEPT ![t] = Cardinality(tombstones)]
          /\ job'[q].pc = "replay" /\ job'[q].target = t
          /\ job'[q].todo = {e \in tombstones : <<e[1], t>> \notin replays}
      BY <1>0, <1>9, <2>1 DEF ListUnreplayed, Job
    <2>3. restored[t] # None /\ t \notin returned BY <1>0, <2>0, <2>1 DEF Apart
    <2>4. \A b \in Builds : restored'[b] # None => restored'[b] <= Cardinality(tombstones')
      BY <1>0, <1>1, <2>2 DEF RestoreInv
    <2>5. \A b \in returned' : restored'[b] # None /\ Whole(b)'
      BY <1>0, <1>1, <2>2, <2>3 DEF RestoreInv, Whole, DeletionTypeInv, DeletionTypeOK
    <2>7. ASSUME NEW r \in Clerks PROVE Apart(r)' /\ Listed(r)'
      <3>1. CASE r = q
        <4>1. Apart(r)' BY <1>0, <1>1, <2>0, <2>1, <2>2, <3>1 DEF Apart
        <4>2. Listed(r)' BY <1>1, <2>2, <3>1 DEF Listed
        <4> QED BY <4>1, <4>2
      <3>2. CASE r # q
        <4>1. job'[r] = job[r] /\ Apart(r) /\ Listed(r) BY <1>1, <3>2 DEF RestoreInv
        <4>2. Apart(r)' BY <1>1, <2>0, <2>1, <2>2, <4>1 DEF Apart
        <4>3. Listed(r)'
          <5>1. CASE job[r].pc \in Restoring
            <6>1. job[r].target \in Builds /\ job[r].target # t
              BY <1>0, <2>0, <2>1, <3>2, <5>1 DEF Ready, Apart
            <6>2. restored'[job[r].target] = restored[job[r].target] BY <1>0, <2>2, <6>1
            <6> QED BY <1>1, <2>2, <4>1, <6>2 DEF Listed, Whole
          <5>2. CASE job[r].pc \notin Restoring BY <4>1, <5>2 DEF Listed, Restoring
          <5> QED BY <5>1, <5>2
        <4> QED BY <4>2, <4>3
      <3> QED BY <3>1, <3>2
    <2>8. \A b \in Builds : Awaited(b) => Awaited(b)' BY <1>0, <2>2, <2>3 DEF Awaited
    <2>9. ASSUME NEW p \in Operators, Promoting(p) PROVE Awaited(op[p].b)'
      BY <1>1, <2>8, <2>9 DEF DeletionTypeInv, TypeInv, Equipped, Promoting, RestoreInv, Awaited
    <2>10. \A b \in served : Awaited(b)'
      BY <2>8 DEF RestoreInv, DeletionTypeInv, TypeInv, TypeOK
    <2> QED BY <1>1, <2>4, <2>5, <2>7, <2>9, <2>10 DEF RestoreInv, Promoting, Awaited
  <1> QED BY <1>2, <1>3, <1>4, <1>5, <1>6, <1>7, <1>8, <1>9

\* A deletion adds at most an entry with a new number.
LEMMA RestoreDelete ==
  ASSUME DeletionTypeInv, ClosedInv, RestoreInv, NEW q \in Clerks,
         \/ \E d \in Docs, purge \in BOOLEAN : AppendTombstone(q, d, purge)
         \/ ReadRecord(q)
         \/ DeleteFromLive(q)
         \/ \E ok \in BOOLEAN : DeleteFromN1(q, ok)
         \/ \E b \in Builds : SweepSnapshots(q, b)
         \/ ReportDeletion(q)
  PROVE  RestoreInv'
  <1>0. job \in [Clerks -> Job] BY DEF DeletionTypeInv, DeletionTypeOK
  <1>a. ASSUME LogExtends, UNCHANGED <<op, served, restored, returned, replays>>,
               \A r \in Clerks \ {q} : job'[r] = job[r], job'[q].pc \notin Restoring
        PROVE  RestoreInv'
    BY <1>a, RestoreStays
  <1>1. ASSUME NEW d \in Docs, NEW purge \in BOOLEAN, AppendTombstone(q, d, purge) PROVE RestoreInv'
    BY <1>0, <1>1, <1>a DEF AppendTombstone, NoJob, LogExtends, Restoring, vars
  <1>2. CASE ReadRecord(q)
    BY <1>0, <1>2, <1>a DEF ReadRecord, LogExtends, Restoring, vars, Job
  <1>3. CASE DeleteFromLive(q)
    BY <1>0, <1>3, <1>a DEF DeleteFromLive, LogExtends, Restoring, Rest, Job
  <1>4. ASSUME NEW ok \in BOOLEAN, DeleteFromN1(q, ok) PROVE RestoreInv'
    BY <1>0, <1>4, <1>a, N1Locals DEF DeleteFromN1, LogExtends, Restoring, Rest
  <1>5. ASSUME NEW b \in Builds, SweepSnapshots(q, b) PROVE RestoreInv'
    BY ZenonT(60), <1>0, <1>5, <1>a DEF SweepSnapshots, JobAt, LogExtends, Restoring, vars, Job
  <1>6. CASE ReportDeletion(q)
    BY <1>0, <1>6, <1>a DEF ReportDeletion, JobReturn, NoJob, LogExtends, Restoring, vars
  <1> QED BY <1>1, <1>2, <1>3, <1>4, <1>5, <1>6

\* RestoreInv is inductive relative to the closed collections, if the callers promote
\* a restored collection only once its restore returned.
LEMMA RestoreStep ==
  ASSUME AwaitRestore, DeletionTypeInv, ClosedInv, RestoreInv, [DeletionNext]_allVars
  PROVE  RestoreInv'
  <1>1. CASE UNCHANGED allVars
    <2>1. Sources BY <1>1 DEF allVars, vars, Sources, Promoting
    <2> QED BY <1>1, <2>1, RestoreSources DEF allVars, deletionVars
  <1>2. CASE LifecycleStep
    BY <1>2, LifecycleSources, RestoreSources DEF LifecycleStep
  <1>3. ASSUME NEW p \in Operators, NEW b \in Builds, StartRestoredPromotion(p, b) PROVE RestoreInv'
    <2>1. op' = [op EXCEPT ![p] = [Idle EXCEPT !.pc = "read_identity", !.b = b, !.total = 1]]
      BY <1>3 DEF StartRestoredPromotion, Start
    <2>2. Awaited(b) /\ served' = served /\ UNCHANGED deletionVars
      BY <1>3 DEF StartRestoredPromotion, Awaited
    <2>3. ASSUME NEW r \in Operators, Promoting(r)' PROVE Awaited(op[r].b)'
      BY <2>1, <2>2, <2>3
      DEF deletionVars, RestoreInv, Promoting, Awaited, Idle, DeletionTypeInv, TypeInv, TypeOK
    <2> QED BY <2>2, <2>3 DEF deletionVars, RestoreInv, Whole, Apart, Listed, Awaited
  <1>4. ASSUME NEW b \in Builds, NEW aged \in SUBSET snapshots, SnapshotCold(b, aged) PROVE RestoreInv'
    <2>1. Sources BY <1>4 DEF SnapshotCold, vars, Sources, Promoting
    <2> QED BY <1>4, <2>1, RestoreSources DEF SnapshotCold
  <1>5. CASE DeletionNext
    BY <1>2, <1>3, <1>4, <1>5, RestoreDelete, RestoreRestore DEF DeletionNext
  <1> QED BY <1>1, <1>5

-----------------------------------------------------------------------------
(* The theorems.                                                           *)

DeletionInv == DeletionTypeInv /\ ClosedInv /\ CleanInv /\ ReplayInv

\* At first nothing was deleted, restored or replayed.
LEMMA DeletionInvInit == DeletionInit => DeletionInv /\ RestoreInv
  <1> SUFFICES ASSUME DeletionInit PROVE DeletionInv /\ RestoreInv
    OBVIOUS
  <1>1. CleanInv
    BY DEF DeletionInit, NoJob, CleanInv, CleanedStaysClean, PurgedStaysPurged, CleanJob, Past
  <1>2. ReplayInv BY DEF DeletionInit, NoJob, ReplayInv, ReplayJob
  <1>3. RestoreInv
    BY DEF DeletionInit, Init, Idle, NoJob, RestoreInv, Apart, Listed, Promoting, Restoring
  <1> QED BY <1>1, <1>2, <1>3, DeletionTypeInit, ClosedInit DEF DeletionInv

\* The invariant of the deletion is inductive under the two rules.
LEMMA DeletionInvStep == RulesKept /\ DeletionInv /\ [DeletionNext]_allVars => DeletionInv'
  <1> SUFFICES ASSUME RulesKept, DeletionInv, [DeletionNext]_allVars PROVE DeletionInv'
    OBVIOUS
  <1>1. DeletionTypeInv' BY DeletionTypeStep DEF DeletionInv
  <1>2. ClosedInv' /\ Shrinks BY ClosedStep DEF DeletionInv
  <1>3. CleanInv' /\ ReplayInv' BY <1>2, CleanStep, ReplayStep DEF DeletionInv
  <1> QED BY <1>1, <1>2, <1>3 DEF DeletionInv

\* So it holds in every state of a system that keeps the rules.
LEMMA DeletionInvHolds ==
  ASSUME RulesKept
  PROVE  DeletionSpec => []DeletionInv
  BY DeletionInvInit, DeletionInvStep, PTL DEF DeletionSpec

\* What a returned deletion removed from a collection stays out of it, whatever is built,
\* promoted, rolled back, restored or interrupted beside it.
THEOREM CleanedIsLasting ==
  ASSUME RulesKept
  PROVE  DeletionSpec => []CleanedStaysClean
  <1>1. DeletionSpec => []DeletionInv BY DeletionInvHolds
  <1>2. DeletionInv => CleanedStaysClean BY DEF DeletionInv, CleanInv
  <1> QED BY <1>1, <1>2, PTL

\* No snapshot of a collection that a purge swept holds the document (D-05), however
\* many are taken later.
THEOREM PurgedIsLasting ==
  ASSUME RulesKept
  PROVE  DeletionSpec => []PurgedStaysPurged
  <1>1. DeletionSpec => []DeletionInv BY DeletionInvHolds
  <1>2. DeletionInv => PurgedStaysPurged BY DEF DeletionInv, CleanInv
  <1> QED BY <1>1, <1>2, PTL

\* A row of the replay table is true for ever, so a replay may skip its entry (17.1).
THEOREM ReplayRowsAreTrue ==
  ASSUME RulesKept
  PROVE  DeletionSpec => []ReplaysAreTrue
  <1>1. DeletionSpec => []DeletionInv BY DeletionInvHolds
  <1>2. DeletionInv => ReplaysAreTrue BY DEF DeletionInv, ReplayInv, Done, ReplaysAreTrue
  <1> QED BY <1>1, <1>2, PTL

\* Invariant 6 of the platform: a restored collection that is served has had every
\* deletion up to its listing replayed, if its restore was awaited before the promotion.
THEOREM ServedRestoreIsReplayed ==
  ASSUME RulesKept, AwaitRestore
  PROVE  DeletionSpec => []RestoredIsReplayed
  <1>1. DeletionInit => DeletionInv /\ RestoreInv BY DeletionInvInit
  <1>2. DeletionInv /\ RestoreInv /\ [DeletionNext]_allVars => (DeletionInv /\ RestoreInv)'
    <2> SUFFICES ASSUME DeletionInv, RestoreInv, [DeletionNext]_allVars
                 PROVE  DeletionInv' /\ RestoreInv'
      OBVIOUS
    <2> QED BY DeletionInvStep, RestoreStep DEF DeletionInv
  <1>3. DeletionInv /\ RestoreInv => RestoredIsReplayed
    <2> SUFFICES ASSUME DeletionInv, RestoreInv, alias # None, restored[alias] # None,
                        NEW e \in tombstones, e[1] <= restored[alias]
                 PROVE  e[2] \notin DocsIn(alias)
      BY DEF RestoredIsReplayed
    <2>1. alias \in served BY DEF DeletionInv, DeletionTypeInv, LagInv, Past
    <2>2. alias \in returned BY <2>1 DEF RestoreInv, Awaited
    <2>3. <<e[1], alias>> \in replays BY <2>2 DEF RestoreInv, Whole
    <2> QED BY <2>3 DEF DeletionInv, ReplayInv, Done
  <1> QED BY <1>1, <1>2, <1>3, PTL DEF DeletionSpec
=============================================================================
