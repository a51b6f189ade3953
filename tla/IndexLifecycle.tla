---------------------------- MODULE IndexLifecycle ----------------------------
(***************************************************************************)
(* The index lifecycle of one knowledge base (index/lifecycle.py with      *)
(* control/metadata.py and the build and promotion path of the pipeline    *)
(* orchestrator): build a shadow collection, promote it with the two-phase *)
(* alias swap, roll back to N-1, reconcile the control-plane record with   *)
(* the vector store, retire the N-1 collection.                            *)
(*                                                                         *)
(* Every call is a process of its own.  A step is one request to the       *)
(* vector store or one database transaction: calls of different operators  *)
(* interleave between steps, and a call may stop after any step (a crash,  *)
(* or an exception the handler lets out).                                  *)
(***************************************************************************)
EXTENDS VectorStore

CONSTANTS Operators,  \* callers of the lifecycle functions: CLI, web console, worker
          MaxCalls,   \* bound on the number of calls
          Discipline  \* which rules the callers keep, a subset of Rules

(***************************************************************************)
(* The code takes no lock and checks none of these rules; the design       *)
(* document states them of the control plane that calls it.                *)
(*   "fresh_builds"     a build id handed to the pipeline was never        *)
(*                      promoted and no other call works on it (2.1)       *)
(*   "reconcile_first"  startup_reconcile repairs a torn swap before any   *)
(*                      call but its own retry (4.3)                       *)
(*   "keep_standby"     retire_previous_collection is not called           *)
(***************************************************************************)
Rules == {"fresh_builds", "reconcile_first", "keep_standby"}

ASSUME LifecycleAssumption == MaxCalls \in Nat /\ Discipline \subseteq Rules
\* A missing result is not a chunk count.
ASSUME ResultAssumption == None \notin Nat

VARIABLES
  record,  \* the row of alias_records of this knowledge base
  result,  \* result[b]: chunk_count of the BuildResult artifact of build b
  op,      \* op[p]: the call operator p is in, with its local variables
  calls,   \* number of calls started
  served   \* history: the collections the alias has ever resolved to

vars == <<coll, alias, record, result, op, calls, served>>

MaybeBuild == Builds \cup {None}
MaybeIdentity == Identities \cup {None}

\* A row of alias_records; `there' is FALSE when the table has no row.
Record ==
  [ there             : BOOLEAN,
    collection        : MaybeBuild,     \* collection_name
    build_id          : MaybeBuild,
    identity          : MaybeIdentity,  \* embedding_provider, _model, _dimensions, config_version
    previous          : MaybeBuild,     \* previous_collection
    previous_identity : MaybeIdentity ] \* previous_embedding_*, previous_config_version

NoRecord ==
  [ there |-> FALSE, collection |-> None, build_id |-> None, identity |-> None,
    previous |-> None, previous_identity |-> None ]
EmptyRecord == [NoRecord EXCEPT !.there = TRUE]

PC == { "idle", "pin", "ingest", "read_identity", "get_record", "validate", "marker",
        "phase1", "phase2", "commit2", "rollback1", "rollback2",
        "reconcile_get", "reconcile_repair", "drop" }

Chunks == 0 .. Cardinality(Docs)

\* The locals of a call: the collection it works on, the embedding identity of
\* its provider, the documents it has still to ingest, the chunk count it
\* expects, the identity it will write to the record, the record as the
\* session read it, and available_model_providers.
Call ==
  [ pc : PC, b : MaybeBuild, model : MaybeIdentity, todo : SUBSET Docs, total : Chunks,
    identity : MaybeIdentity, seen : Record, available : SUBSET Identities ]

Idle ==
  [ pc |-> "idle", b |-> None, model |-> None, todo |-> {}, total |-> 0,
    identity |-> None, seen |-> NoRecord, available |-> {} ]

TypeOK ==
  /\ StoreTypeOK
  /\ record \in Record
  /\ result \in [Builds -> Chunks \cup {None}]
  /\ op \in [Operators -> Call]
  /\ calls \in 0 .. MaxCalls
  /\ served \subseteq Builds

Init ==
  /\ StoreInit
  /\ record = NoRecord
  /\ result = [b \in Builds |-> None]
  /\ op = [p \in Operators |-> Idle]
  /\ calls = 0
  /\ served = {}

-----------------------------------------------------------------------------
At(p, pc) == op[p].pc = pc
Goto(p, pc) == op' = [op EXCEPT ![p].pc = pc]
Return(p) == op' = [op EXCEPT ![p] = Idle]

Start(p, call) ==
  /\ At(p, "idle")
  /\ calls < MaxCalls
  /\ calls' = calls + 1
  /\ op' = [op EXCEPT ![p] = call]

Consistent == record.there => record.collection = alias
Keeps(rule) == rule \in Discipline
Untouched(b) == \A q \in Operators : op[q].b # b

(***************************************************************************)
(* Writing back the ORM object `seen' with the attributes of `new': the    *)
(* UPDATE names only the columns whose value changed since the session     *)
(* loaded the row, the others keep what the table holds now.               *)
(***************************************************************************)
Column(seen, new, now) == IF new = seen THEN now ELSE new
Flush(seen, new) ==
  [ there             |-> TRUE,
    collection        |-> Column(seen.collection, new.collection, record.collection),
    build_id          |-> Column(seen.build_id, new.build_id, record.build_id),
    identity          |-> Column(seen.identity, new.identity, record.identity),
    previous          |-> Column(seen.previous, new.previous, record.previous),
    previous_identity |-> Column(seen.previous_identity, new.previous_identity,
                                 record.previous_identity) ]

\* AliasRepository.promote, and reconcile_from_qdrant which assigns the same columns.
Promoted(r, b, identity) ==
  [ there |-> TRUE, collection |-> b, build_id |-> b, identity |-> identity,
    previous |-> r.collection, previous_identity |-> r.identity ]

\* Mutant: the collections are exchanged and the identities stay.
RolledBackCollectionsOnly(r) ==
  [r EXCEPT !.collection = r.previous, !.previous = r.collection]
\* Mutant: the collection rolled back from is not kept as the standby.
RolledBackStandbyKept(r) ==
  [r EXCEPT !.collection = r.previous, !.identity = r.previous_identity]

\* AliasRepository.rollback_to_previous; build_id is not assigned.
RolledBack(r) ==
  [ there |-> TRUE, collection |-> r.previous, build_id |-> r.build_id,
    identity |-> r.previous_identity,
    previous |-> r.collection, previous_identity |-> r.identity ]

\* Retargeting the alias, with its trace in the history variable.
Retarget(b) ==
  /\ alias' = b
  /\ served' = served \cup {b}

-----------------------------------------------------------------------------
(* The build stage, then _do_promote of the orchestrator.                  *)

\* BuildStage creates the shadow collection, or resumes into the one that is there.
StartBuild(p, b, m, batch) ==
  /\ Keeps("fresh_builds") => b \notin served /\ Untouched(b)
  /\ Keeps("reconcile_first") => Consistent
  /\ Start(p, [Idle EXCEPT !.pc = IF coll[b].exists THEN "ingest" ELSE "pin",
                           !.b = b, !.model = m, !.todo = batch,
                           !.total = Cardinality(batch)])
  /\ coll' = IF coll[b].exists THEN coll ELSE Created(b)
  /\ UNCHANGED <<alias, record, result, served>>

\* create_collection stores the model identity in the metadata sentinel.
PinIdentity(p) ==
  /\ At(p, "pin")
  /\ coll[op[p].b].exists
  /\ coll' = IdentitySet(op[p].b, op[p].model)
  /\ Goto(p, "ingest")
  /\ UNCHANGED <<alias, record, result, calls, served>>

\* One document of the batch: chunk, embed, upsert.
IngestDocument(p, d) ==
  /\ At(p, "ingest")
  /\ d \in op[p].todo
  /\ coll[op[p].b].exists
  /\ coll' = Upserted(op[p].b, d, op[p].model)
  /\ op' = [op EXCEPT ![p].todo = @ \ {d}]
  /\ UNCHANGED <<alias, record, result, calls, served>>

\* The BuildResult artifact is saved; the run ends here unless it promotes.
FinishBuild(p, promote) ==
  /\ At(p, "ingest")
  /\ op[p].todo = {}
  /\ result' = [result EXCEPT ![op[p].b] = op[p].total]
  /\ IF promote THEN Goto(p, "read_identity") ELSE Return(p)
  /\ UNCHANGED <<coll, alias, record, calls, served>>

\* Promoting a finished build: the retry of a promotion that failed.
StartPromotion(p, b) ==
  /\ result[b] # None
  /\ Keeps("fresh_builds") => Untouched(b)
  /\ Keeps("reconcile_first") => Consistent \/ alias = b
  /\ Start(p, [Idle EXCEPT !.pc = "read_identity", !.b = b, !.total = result[b]])
  /\ UNCHANGED <<coll, alias, record, result, served>>

\* The identity is rebuilt from the collection's metadata, empty when there is none.
ReadIdentity(p) ==
  /\ At(p, "read_identity")
  /\ op' = [op EXCEPT ![p].pc = "get_record", ![p].identity = coll[op[p].b].identity]
  /\ UNCHANGED <<coll, alias, record, result, calls, served>>

\* The row is loaded into the session, or created and committed; a row created
\* here is read again in phase 2 because the commit expires it.
EnsureRecord(p) ==
  /\ At(p, "get_record")
  /\ record' = IF record.there THEN record ELSE EmptyRecord
  /\ op' = [op EXCEPT ![p].pc = "validate", ![p].seen = record]
  /\ UNCHANGED <<coll, alias, result, calls, served>>

\* The gates of validate_shadow as promote calls it: the collection exists, it
\* is not empty and holds at least the expected number of chunks.
Valid(b, total) ==
  /\ coll[b].exists
  /\ total > 0 => CountPoints(b) >= total

Validate(p) ==
  /\ At(p, "validate")
  /\ IF Valid(op[p].b, op[p].total) THEN Goto(p, "marker") ELSE Return(p)
  /\ UNCHANGED <<coll, alias, record, result, calls, served>>

\* Mutant: the record is updated first.
CheckMarkerRecordFirst(p) ==
  /\ At(p, "marker")
  /\ Goto(p, "phase2")
  /\ UNCHANGED <<coll, alias, record, result, calls, served>>

\* A restored collection whose tombstones were not replayed is refused.
CheckMarker(p) ==
  /\ At(p, "marker")
  /\ IF coll[op[p].b].unreplayed THEN Return(p) ELSE Goto(p, "phase1")
  /\ UNCHANGED <<coll, alias, record, result, calls, served>>

-----------------------------------------------------------------------------
(* The two-phase alias swap.                                               *)

\* Mutant: phase 1 creates the alias and never moves it.
PromotePhase1CreateOnly(p) ==
  /\ At(p, "phase1")
  /\ Goto(p, "phase2")
  /\ IF alias = None THEN Retarget(op[p].b) ELSE UNCHANGED <<alias, served>>
  /\ UNCHANGED <<coll, record, result, calls>>

\* Mutant: the alias goes to a collection without asking whether it is there.
PromotePhase1Unchecked(p) ==
  /\ At(p, "phase1")
  /\ Goto(p, "phase2")
  /\ Retarget(op[p].b)
  /\ UNCHANGED <<coll, record, result, calls>>

\* Phase 1: nothing to do when the alias is there already; retarget_alias and
\* create_alias refuse a collection that does not exist.
PromotePhase1(p) ==
  /\ At(p, "phase1")
  /\ IF alias = op[p].b \/ coll[op[p].b].exists
       THEN Goto(p, "phase2") /\ Retarget(op[p].b)
       ELSE Return(p) /\ UNCHANGED <<alias, served>>
  /\ UNCHANGED <<coll, record, result, calls>>

\* Mutant: phase 2 does not ask whether the record names the collection already.
PromotePhase2Again(p) ==
  /\ At(p, "phase2")
  /\ op' = [op EXCEPT ![p].pc = "commit2",
                      ![p].seen = IF op[p].seen.there THEN op[p].seen ELSE record]
  /\ UNCHANGED <<coll, alias, record, result, calls, served>>

\* Phase 2 reads the row.  A row the session holds already keeps the attributes
\* it was loaded with; a record that names the collection ends the call.
PromotePhase2(p) ==
  LET existing == IF op[p].seen.there THEN op[p].seen ELSE record
  IN /\ At(p, "phase2")
     /\ IF existing.there /\ existing.collection = op[p].b
          THEN Return(p)
          ELSE op' = [op EXCEPT ![p].pc = "commit2", ![p].seen = existing]
     /\ UNCHANGED <<coll, alias, record, result, calls, served>>

PromoteCommit(p) ==
  /\ At(p, "commit2")
  /\ record' = Flush(op[p].seen, Promoted(op[p].seen, op[p].b, op[p].identity))
  /\ Return(p)
  /\ UNCHANGED <<coll, alias, result, calls, served>>

\* rollback() reads the record and checks the provider it finds in
\* embedding_provider against the configured ones.
StartRollback(p, available) ==
  /\ record.there
  /\ record.previous # None
  /\ record.identity # None => record.identity \in available
  /\ Keeps("reconcile_first") => Consistent
  /\ Start(p, [Idle EXCEPT !.pc = "rollback1", !.seen = record, !.available = available])
  /\ UNCHANGED <<coll, alias, record, result, served>>

RollbackPhase1(p) ==
  /\ At(p, "rollback1")
  /\ IF coll[op[p].seen.previous].exists
       THEN Goto(p, "rollback2") /\ Retarget(op[p].seen.previous)
       ELSE Return(p) /\ UNCHANGED <<alias, served>>
  /\ UNCHANGED <<coll, record, result, calls>>

RollbackCommit(p) ==
  /\ At(p, "rollback2")
  /\ record' = Flush(op[p].seen, RolledBack(op[p].seen))
  /\ Return(p)
  /\ UNCHANGED <<coll, alias, result, calls, served>>

-----------------------------------------------------------------------------
(* startup_reconcile: the alias leads, the record follows.                 *)

StartReconcile(p) ==
  /\ alias # None
  /\ Start(p, [Idle EXCEPT !.pc = "reconcile_get", !.b = alias])
  /\ UNCHANGED <<coll, alias, record, result, served>>

ReconcileGet(p) ==
  /\ At(p, "reconcile_get")
  /\ IF record.there /\ record.collection # op[p].b
       THEN op' = [op EXCEPT ![p].pc = "reconcile_repair", ![p].seen = record]
       ELSE Return(p)
  /\ UNCHANGED <<coll, alias, record, result, calls, served>>

\* reconcile_from_qdrant: N-1 is what the record named, also when that was never live.
Reconciled(seen, b) == Promoted(seen, b, coll[b].identity)

\* The identity comes from the metadata of the collection, the build id from its name.
ReconcileRepair(p) ==
  /\ At(p, "reconcile_repair")
  /\ record' = Flush(op[p].seen, Reconciled(op[p].seen, op[p].b))
  /\ Return(p)
  /\ UNCHANGED <<coll, alias, result, calls, served>>

-----------------------------------------------------------------------------
(* retire_previous_collection drops what the record calls N-1; the record  *)
(* keeps naming it.                                                        *)

StartRetire(p) ==
  /\ ~Keeps("keep_standby")
  /\ record.there
  /\ record.previous # None
  /\ coll[record.previous].exists
  /\ Keeps("reconcile_first") => Consistent
  /\ Start(p, [Idle EXCEPT !.pc = "drop", !.b = record.previous])
  /\ UNCHANGED <<coll, alias, record, result, served>>

Drop(p) ==
  /\ At(p, "drop")
  /\ coll' = Dropped(op[p].b)
  /\ alias' = AliasAfterDrop(op[p].b)
  /\ Return(p)
  /\ UNCHANGED <<record, result, calls, served>>

\* The process dies, or the next request of the call fails: the session is
\* rolled back, what the store has done stays done.
Abort(p) ==
  /\ ~At(p, "idle")
  /\ Return(p)
  /\ UNCHANGED <<coll, alias, record, result, calls, served>>

-----------------------------------------------------------------------------
Build(p) ==
  \/ \E b \in Builds, m \in Identities, batch \in SUBSET Docs : StartBuild(p, b, m, batch)
  \/ PinIdentity(p)
  \/ \E d \in Docs : IngestDocument(p, d)
  \/ \E promote \in BOOLEAN : FinishBuild(p, promote)

Promote(p) ==
  \/ \E b \in Builds : StartPromotion(p, b)
  \/ ReadIdentity(p)
  \/ EnsureRecord(p)
  \/ Validate(p)
  \/ CheckMarker(p)
  \/ PromotePhase1(p)
  \/ PromotePhase2(p)
  \/ PromoteCommit(p)

Rollback(p) ==
  \/ \E available \in SUBSET Identities : StartRollback(p, available)
  \/ RollbackPhase1(p)
  \/ RollbackCommit(p)

Reconcile(p) == StartReconcile(p) \/ ReconcileGet(p) \/ ReconcileRepair(p)

Retire(p) == StartRetire(p) \/ Drop(p)

Next ==
  \E p \in Operators : Build(p) \/ Promote(p) \/ Rollback(p) \/ Reconcile(p) \/ Retire(p) \/ Abort(p)

Spec == Init /\ [][Next]_vars
-----------------------------------------------------------------------------
(* Safety.                                                                 *)

\* The control-plane record lags the vector store and never leads it: what it
\* names as current or as N-1 has been the target of the alias (phase 1 before
\* phase 2 in promote, rollback and startup_reconcile).
RecordLagsAlias ==
  /\ record.collection \in served \cup {None}
  /\ record.previous \in served \cup {None}

\* The standby is another collection than the current one, whatever mixture of
\* stale sessions wrote the row: a rollback always changes what is served.
StandbyIsAnother ==
  record.previous # None => record.previous # record.collection

Writing(p, b) == op[p].pc \in {"pin", "ingest"} /\ op[p].b = b

\* The build path writes only to shadow collections (C-4): no run is creating
\* or filling the collection the alias resolves to.
LiveIsReadOnly ==
  alias # None => \A p \in Operators : ~Writing(p, alias)

\* The alias resolves to a collection that is there and finished: it holds at
\* least the chunks its BuildResult counted (invariants 3 and 4).
ServedIsFinished ==
  alias # None =>
    /\ coll[alias].exists
    /\ result[alias] # None
    /\ CountPoints(alias) >= result[alias]

\* The denormalised identities of the record are those pinned on the
\* collections it names, current and N-1.
RecordIdentityAgrees ==
  /\ record.collection # None => record.identity = coll[record.collection].identity
  /\ record.previous # None => record.previous_identity = coll[record.previous].identity

\* A call that commits the second phase leaves the record naming what the alias
\* resolves to, also when it repairs or retries after a call that stopped half way.
CompletedSwapAgrees ==
  [][\A p \in Operators :
       /\ op[p].pc \in {"commit2", "rollback2", "reconcile_repair"}
       /\ record' # record
       => record'.collection = alias']_vars

\* The swap is atomic for the clients: the alias and the standby behind it move
\* as AtomicAlias says.  Between the phases the standby is what the record still
\* calls current.
Atomic ==
  INSTANCE AtomicAlias WITH
    live    <- alias,
    standby <- IF alias = record.collection THEN record.previous ELSE record.collection
SwapIsAtomic == Atomic!Spec

-----------------------------------------------------------------------------
(* What the documents say and the code does not do: one run refutes each.  *)

\* Once a first build is promoted there is no window where the alias points at a
\* collection whose model identity is not the one in the record
\* (provider-abstraction.md 3.4).
NoIdentityWindow ==
  alias # None /\ record.collection # None => record.identity = coll[alias].identity

\* The pinned identity is the one every vector of the served collection was
\* embedded with (provider-abstraction.md 3.1: immutable for its life).
PinnedIdentityIsEmbedded ==
  alias # None => \A x \in coll[alias].points : x[2] = coll[alias].identity

\* Build removes the previous version of a document when it writes the next one
\* (index-lifecycle.md 9.1).
OneVersionPerDocument ==
  alias # None => \A d \in Docs : Cardinality(PointsOf(alias, d)) <= 1

\* rollback refuses an N-1 whose provider is not configured (OQ-L-7).
RollbackProviderConfigured ==
  \A p \in Operators :
    At(p, "rollback2") =>
      coll[op[p].seen.previous].identity \in op[p].available \cup {None}

\* build_id is the build of the current collection (AliasRecord).
BuildIdIsCurrent == record.build_id = record.collection

\* N-1 stays in the vector store until a later promotion (invariant 5).
StandbyIsHot == record.previous # None => coll[record.previous].exists
=============================================================================
