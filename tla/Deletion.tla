------------------------------- MODULE Deletion -------------------------------
(***************************************************************************)
(* Deletion completeness: delete_document and purge (pipeline/deletion.py),*)
(* the tombstone log (control/tombstone.py), cold snapshots and restore    *)
(* (snapshot_cold and restore_from_snapshot of index/lifecycle.py),        *)
(* running beside the lifecycle of IndexLifecycle on the same vector store *)
(* and alias record.                                                       *)
(*                                                                         *)
(* A step of a clerk is one request to the vector store or one database    *)
(* transaction; between two of them promotions, rollbacks and crashes      *)
(* happen.                                                                 *)
(***************************************************************************)
EXTENDS IndexLifecycle

CONSTANTS Clerks,       \* callers of delete_document, snapshot_cold, restore_from_snapshot
          MaxTombstones, \* bound on the tombstone log
          MaxSnapshots,  \* bound on the snapshots kept at a time
          AwaitRestore   \* callers promote a restored collection only once the restore returned

ASSUME DeletionAssumption ==
  MaxTombstones \in Nat /\ MaxSnapshots \in Nat /\ AwaitRestore \in BOOLEAN
  /\ Docs # {} /\ None \notin Nat

VARIABLES
  tombstones, \* tombstone_log: entries <<n, d>> in the order of their commits
  replays,    \* tombstone_replays: pairs <<n, b>>
  snapshots,  \* cold snapshots, each a copy of a collection
  restored,   \* restored[b]: length of the log when b was restored, then when the restore
              \* listed it; None if b is no restore
  returned,   \* builds whose restore_from_snapshot returned
  job,        \* job[q]: the call clerk q is in
  cleaned,    \* history: pairs <<d, b>>, a delete of d that returned had removed it from b
  purged      \* history: those of them that a purge swept the snapshots of

deletionVars == <<tombstones, replays, snapshots, restored, returned, job, cleaned, purged>>
history == <<cleaned, purged>>
allVars == <<vars, deletionVars>>

Entry == (1 .. MaxTombstones) \X Docs
Snapshot == [of : Builds, points : SUBSET Point, identity : MaybeIdentity, unreplayed : BOOLEAN]

JobPC == { "idle", "read_record", "delete_live", "delete_n1", "sweep", "report",
           "restore", "mark", "list", "replay", "commit", "clear" }

\* live and n1 are what the clerk read from the record, swept those of the two it
\* has deleted from, sweep the collections whose snapshots it has still to destroy,
\* clear those it has destroyed them of, todo and marks the entries it has still to
\* replay and those it has replayed in the open transaction.
Job ==
  [ pc : JobPC, doc : Docs \cup {None}, purge : BOOLEAN, live : MaybeBuild, n1 : MaybeBuild,
    swept : SUBSET Builds, sweep : SUBSET Builds, clear : SUBSET Builds,
    target : MaybeBuild, todo : SUBSET Entry,
    marks : SUBSET (1 .. MaxTombstones), source : Snapshot \cup {None} ]

NoJob ==
  [ pc |-> "idle", doc |-> None, purge |-> FALSE, live |-> None, n1 |-> None,
    swept |-> {}, sweep |-> {}, clear |-> {}, target |-> None, todo |-> {}, marks |-> {}, source |-> None ]

DeletionTypeOK ==
  /\ tombstones \subseteq Entry
  /\ replays \subseteq (1 .. MaxTombstones) \X Builds
  /\ snapshots \subseteq Snapshot
  /\ restored \in [Builds -> (0 .. MaxTombstones) \cup {None}]
  /\ returned \subseteq Builds
  /\ job \in [Clerks -> Job]
  /\ cleaned \subseteq Docs \X Builds
  /\ purged \subseteq cleaned

DeletionInit ==
  /\ Init
  /\ tombstones = {}
  /\ replays = {}
  /\ snapshots = {}
  /\ restored = [b \in Builds |-> None]
  /\ returned = {}
  /\ job = [q \in Clerks |-> NoJob]
  /\ cleaned = {}
  /\ purged = {}

JobAt(q, pc) == job[q].pc = pc
JobTo(q, pc) == job' = [job EXCEPT ![q].pc = pc]
JobReturn(q) == job' = [job EXCEPT ![q] = NoJob]

\* What a step of a clerk on the vector store leaves alone.
Rest == <<alias, record, result, op, calls, served>>

-----------------------------------------------------------------------------
(* delete_document.                                                        *)

\* The log with a new entry for document d.
Appended(d) == tombstones \cup {<<Cardinality(tombstones) + 1, d>>}

\* Step 1, the durable intent: the tombstone is committed first.
AppendTombstone(q, d, purge) ==
  /\ JobAt(q, "idle")
  /\ Cardinality(tombstones) < MaxTombstones
  /\ tombstones' = Appended(d)
  /\ job' = [job EXCEPT ![q] = [NoJob EXCEPT !.pc = "read_record", !.doc = d, !.purge = purge]]
  /\ UNCHANGED <<vars, replays, snapshots, restored, returned, history>>

\* The live and the N-1 collection are taken from the control-plane record.
ReadRecord(q) ==
  /\ JobAt(q, "read_record")
  /\ job' = [job EXCEPT ![q].pc = "delete_live", ![q].live = record.collection,
                        ![q].n1 = record.previous]
  /\ UNCHANGED <<vars, tombstones, replays, snapshots, restored, returned, history>>

\* Mutant: the request goes to the alias, whatever collection was meant.
DeleteThroughAlias(b, d) ==
  coll' = IF alias # None /\ b # None THEN DocumentDeleted(alias, d) ELSE coll

DeleteIfThere(b, d) ==
  coll' = IF b # None /\ coll[b].exists THEN DocumentDeleted(b, d) ELSE coll

DeleteFromLive(q) ==
  /\ JobAt(q, "delete_live")
  /\ DeleteIfThere(job[q].live, job[q].doc)
  /\ job' = [job EXCEPT ![q].pc = "delete_n1", ![q].swept = {job[q].live} \ {None}]
  /\ UNCHANGED <<Rest, tombstones, replays, snapshots, restored, returned, history>>

\* Live, N-1 and every collection of the knowledge base that is there.
ToSweep == {b \in Builds : coll[b].exists}

\* The N-1 collection; a request that fails is logged and the deletion goes on.
\* A purge then lists the collections to sweep.
DeleteFromN1(q, ok) ==
  /\ JobAt(q, "delete_n1")
  /\ IF ok THEN DeleteIfThere(job[q].n1, job[q].doc) ELSE coll' = coll
  /\ job' = [job EXCEPT ![q].pc = IF job[q].purge THEN "sweep" ELSE "report",
                        ![q].swept = @ \cup (IF ok THEN {job[q].n1} \ {None} ELSE {}),
                        ![q].sweep = IF job[q].purge THEN ToSweep ELSE {}]
  /\ UNCHANGED <<Rest, tombstones, replays, snapshots, restored, returned, history>>

\* Mutant: every round destroys the snapshots of the live collection.
SweepSnapshotsOfLive(q, b) ==
  /\ JobAt(q, "sweep")
  /\ b \in job[q].sweep
  /\ snapshots' = IF coll[b].exists THEN {s \in snapshots : s.of # job[q].live} ELSE snapshots
  /\ job' = [job EXCEPT ![q].sweep = @ \ {b},
                        ![q].clear = IF coll[b].exists THEN @ \cup {b} ELSE @]
  /\ UNCHANGED <<vars, tombstones, replays, restored, returned, history>>

SnapshotsOf(b) == {s \in snapshots : s.of = b}

\* Step 5: the snapshots of one collection; a collection dropped since is skipped.
SweepSnapshots(q, b) ==
  /\ JobAt(q, "sweep")
  /\ b \in job[q].sweep
  /\ snapshots' = IF coll[b].exists THEN snapshots \ SnapshotsOf(b) ELSE snapshots
  /\ job' = [job EXCEPT ![q].sweep = @ \ {b},
                        ![q].clear = IF coll[b].exists THEN @ \cup {b} ELSE @]
  /\ UNCHANGED <<vars, tombstones, replays, restored, returned, history>>

\* The DeletionReport is returned.
ReportDeletion(q) ==
  /\ JobAt(q, "report") \/ (JobAt(q, "sweep") /\ job[q].sweep = {})
  /\ cleaned' = cleaned \cup ({job[q].doc} \X job[q].swept)
  /\ purged' = purged \cup ({job[q].doc} \X (job[q].swept \cap job[q].clear))
  /\ JobReturn(q)
  /\ UNCHANGED <<vars, tombstones, replays, snapshots, restored, returned>>

-----------------------------------------------------------------------------
(* Cold snapshots.                                                         *)

\* snapshot_cold: a snapshot of the collection, and those that are past the
\* retention period destroyed.  The metadata sentinel is a point like any other,
\* so the snapshot carries identity and marker.
SnapshotCold(b, aged) ==
  /\ coll[b].exists
  /\ Cardinality(snapshots) < MaxSnapshots
  /\ aged \subseteq SnapshotsOf(b)
  /\ snapshots' = (snapshots \ aged) \cup
       {[ of |-> b, points |-> coll[b].points, identity |-> coll[b].identity,
          unreplayed |-> coll[b].unreplayed ]}
  /\ UNCHANGED <<vars, tombstones, replays, restored, returned, job, history>>

\* restore_from_snapshot goes into a collection that does not exist.
StartRestore(q, s, b) ==
  /\ JobAt(q, "idle")
  /\ ~coll[b].exists
  /\ Keeps("fresh_builds") => b \notin served /\ Untouched(b) /\ restored[b] = None
  /\ job' = [job EXCEPT ![q] = [NoJob EXCEPT !.pc = "restore", !.source = s, !.target = b]]
  /\ UNCHANGED <<vars, tombstones, replays, snapshots, restored, returned, history>>

\* A snapshot destroyed since the call, or a collection created since, fails it.
RestoreSnapshot(q) ==
  LET s == job[q].source
      b == job[q].target
  IN /\ JobAt(q, "restore")
     /\ s \in snapshots
     /\ ~coll[b].exists
     /\ coll' = [coll EXCEPT ![b] = [ exists |-> TRUE, points |-> s.points,
                                      identity |-> s.identity, unreplayed |-> s.unreplayed ]]
     /\ restored' = [restored EXCEPT ![b] = Cardinality(tombstones)]
     /\ JobTo(q, "mark")
     /\ UNCHANGED <<Rest, tombstones, replays, snapshots, returned, history>>

SetMarker(q) ==
  /\ JobAt(q, "mark")
  /\ coll' = MarkerSet(job[q].target, TRUE)
  /\ JobTo(q, "list")
  /\ UNCHANGED <<Rest, tombstones, replays, snapshots, restored, returned, history>>

\* unreplayed_for: the entries of the log without a replay row for this collection.
ListUnreplayed(q) ==
  LET b == job[q].target
  IN /\ JobAt(q, "list")
     /\ job' = [job EXCEPT ![q].pc = "replay",
                           ![q].todo = {e \in tombstones : <<e[1], b>> \notin replays}]
     /\ restored' = [restored EXCEPT ![b] = Cardinality(tombstones)]
     /\ UNCHANGED <<vars, tombstones, replays, snapshots, returned, history>>

\* Mutant: an entry is marked although its delete failed.
ReplayTombstoneAnyway(q, e) ==
  /\ JobAt(q, "replay")
  /\ e \in job[q].todo
  /\ DeleteIfThere(job[q].target, e[2]) \/ coll' = coll
  /\ job' = [job EXCEPT ![q].todo = @ \ {e}, ![q].marks = @ \cup {e[1]}]
  /\ UNCHANGED <<Rest, tombstones, replays, snapshots, restored, returned, history>>

\* One entry: delete_by_document, then mark_replayed in the open transaction.
ReplayTombstone(q, e) ==
  /\ JobAt(q, "replay")
  /\ e \in job[q].todo
  /\ DeleteIfThere(job[q].target, e[2])
  /\ job' = [job EXCEPT ![q].todo = @ \ {e}, ![q].marks = @ \cup {e[1]}]
  /\ UNCHANGED <<Rest, tombstones, replays, snapshots, restored, returned, history>>

\* The replay rows of the open transaction.
MarkedReplayed(q) == job[q].marks \X {job[q].target}

\* Mutant: the entries that failed do not stop the restore.
CommitReplaysOfSome(q) ==
  /\ JobAt(q, "replay")
  /\ replays' = replays \cup MarkedReplayed(q)
  /\ JobTo(q, "clear")
  /\ UNCHANGED <<vars, tombstones, snapshots, restored, returned, history>>

\* An entry whose delete fails ends the call before the commit (AbortJob).
CommitReplays(q) ==
  /\ JobAt(q, "replay")
  /\ job[q].todo = {}
  /\ replays' = replays \cup MarkedReplayed(q)
  /\ JobTo(q, "clear")
  /\ UNCHANGED <<vars, tombstones, snapshots, restored, returned, history>>

\* A write that fails is logged: the restore returns and the marker stays.
ClearMarker(q, ok) ==
  /\ JobAt(q, "clear")
  /\ coll' = IF ok THEN MarkerSet(job[q].target, FALSE) ELSE coll
  /\ returned' = returned \cup {job[q].target}
  /\ JobReturn(q)
  /\ UNCHANGED <<Rest, tombstones, replays, snapshots, restored, history>>

\* The caller promotes the restored collection, with promote's default of one chunk.
StartRestoredPromotion(p, b) ==
  /\ restored[b] # None
  /\ AwaitRestore => b \in returned
  /\ Keeps("fresh_builds") => Untouched(b)
  /\ Keeps("reconcile_first") => Consistent \/ alias = b
  /\ Start(p, [Idle EXCEPT !.pc = "read_identity", !.b = b, !.total = 1])
  /\ UNCHANGED <<coll, alias, record, result, served, deletionVars>>

AbortJob(q) ==
  /\ ~JobAt(q, "idle")
  /\ JobReturn(q)
  /\ UNCHANGED <<vars, tombstones, replays, snapshots, restored, returned, history>>

-----------------------------------------------------------------------------
\* The runs a step starts; one may not start on an id that a restore has taken.
Started == {p \in Operators : At(p, "idle") /\ op'[p].pc \in {"pin", "ingest"}}

LifecycleStep ==
  /\ Next
  /\ Keeps("fresh_builds") =>
       \A p \in Started :
         restored[op'[p].b] = None /\ \A q \in Clerks : job[q].target # op'[p].b
  /\ UNCHANGED <<tombstones, replays, snapshots, restored, returned, job, cleaned, purged>>

DeletionNext ==
  \/ LifecycleStep
  \/ \E p \in Operators, b \in Builds : StartRestoredPromotion(p, b)
  \/ \E b \in Builds, aged \in SUBSET snapshots : SnapshotCold(b, aged)
  \/ \E q \in Clerks :
       \/ \E d \in Docs, purge \in BOOLEAN : AppendTombstone(q, d, purge)
       \/ ReadRecord(q)
       \/ DeleteFromLive(q)
       \/ \E ok \in BOOLEAN : DeleteFromN1(q, ok)
       \/ \E b \in Builds : SweepSnapshots(q, b)
       \/ ReportDeletion(q)
       \/ \E s \in snapshots, b \in Builds : StartRestore(q, s, b)
       \/ RestoreSnapshot(q)
       \/ SetMarker(q)
       \/ ListUnreplayed(q)
       \/ \E e \in tombstones : ReplayTombstone(q, e)
       \/ CommitReplays(q)
       \/ \E ok \in BOOLEAN : ClearMarker(q, ok)
       \/ AbortJob(q)

DeletionSpec == DeletionInit /\ [][DeletionNext]_allVars
-----------------------------------------------------------------------------
(* Safety.                                                                 *)

\* Both delete_document and the replay delete by document id and never look again:
\* what a returned deletion removed from a collection stays out of it, through
\* promotions, rollbacks, retirements, restores and builds that come later.
CleanedStaysClean ==
  \A x \in cleaned : x[1] \notin DocsIn(x[2])

\* A purge leaves no copy behind: no snapshot of a collection it deleted from and
\* swept holds the document, whenever snapshots are taken (D-05).
PurgedStaysPurged ==
  \A x \in purged, s \in snapshots :
    s.of = x[2] => x[1] \notin {y[1] : y \in s.points}

\* The replay table tells the truth: a collection has none of the document of an
\* entry recorded as replayed into it, so a replay may skip the entry (17.1).
ReplaysAreTrue ==
  \A n \in 1 .. Cardinality(tombstones), b \in Builds :
    <<n, b>> \in replays => \A e \in tombstones : e[1] = n => e[2] \notin DocsIn(b)

\* The tombstone log is replayed before a restored collection is promoted
\* (invariant 6): one that is served has nothing deleted before it was restored.
RestoredIsReplayed ==
  alias # None /\ restored[alias] # None =>
    \A e \in tombstones : e[1] <= restored[alias] => e[2] \notin DocsIn(alias)

-----------------------------------------------------------------------------
(* What the documents say and the code does not do.                        *)

\* When the restore returns the tombstone log is applied in full (10.4).
RestoreAppliesTheLog ==
  [][\A b \in returned' \ returned : \A e \in tombstones : e[2] \notin DocsIn(b)]_allVars

\* A purge destroys any snapshot of any collection that ever belonged to this
\* knowledge base (pipeline/deletion.py, step 5), those of dropped ones included.
PurgeReachesDropped ==
  \A q \in Clerks :
    JobAt(q, "sweep") /\ job[q].sweep = {} /\ job[q].live # None =>
      \A s \in snapshots : coll[s.of].exists \/ job[q].doc \notin {y[1] : y \in s.points}

\* A restore that crashed is resumed by calling it again with the same build id
\* (tombstone-replay.md).
RestoreCanBeResumed ==
  \A b \in Builds, s \in snapshots :
    /\ coll[b].exists
    /\ restored[b] # None
    /\ coll[b].unreplayed
    /\ \A q \in Clerks : JobAt(q, "idle")
    => ENABLED (\E q \in Clerks : StartRestore(q, s, b))
=============================================================================
