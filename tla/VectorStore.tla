----------------------------- MODULE VectorStore -----------------------------
(***************************************************************************)
(* The vector database as the platform uses it: the IndexAdapter interface *)
(* of index/adapter.py with the behaviour of its Qdrant backend, for one   *)
(* knowledge base.  A collection is named by its build id (the name        *)
(* rtfc_{kb}_{build_id} is injective in it), so collections are indexed by *)
(* Builds; the knowledge base has one alias.                               *)
(*                                                                         *)
(* A point is a pair <<document, identity>>: the chunks of one document    *)
(* embedded under one model identity.  Chunk ids are derived from the      *)
(* content hash and the config version, so re-ingesting under the same     *)
(* identity overwrites and under another identity adds.                    *)
(*                                                                         *)
(* Each adapter call is one atomic request to the server.  The operators   *)
(* below give the successor of `coll' or `alias'; the handlers of the      *)
(* lifecycle modules put them into actions.                                *)
(***************************************************************************)
EXTENDS Naturals, FiniteSets

CONSTANTS Builds,     \* build ids, hence collection names
          Docs,       \* source documents
          Identities, \* model identities: provider, model, dimensions, config version
          None        \* "no value": Python's None or a missing metadata key

ASSUME BuildsAssumption == IsFiniteSet(Builds) /\ None \notin Builds
ASSUME DocsAssumption == IsFiniteSet(Docs)
ASSUME IdentitiesAssumption == IsFiniteSet(Identities) /\ None \notin Identities

VARIABLES coll,  \* coll[b]: the collection of build b
          alias  \* the collection the alias resolves to, None before the first swap

storeVars == <<coll, alias>>

Point == Docs \X Identities

Collection ==
  [ exists     : BOOLEAN,
    points     : SUBSET Point,
    identity   : Identities \cup {None},  \* provider/model/... in the metadata sentinel
    unreplayed : BOOLEAN ]                \* the restored-but-unreplayed marker is "true"

Absent == [exists |-> FALSE, points |-> {}, identity |-> None, unreplayed |-> FALSE]

StoreTypeOK ==
  /\ coll \in [Builds -> Collection]
  /\ alias \in Builds \cup {None}

StoreInit ==
  /\ coll = [b \in Builds |-> Absent]
  /\ alias = None

-----------------------------------------------------------------------------
\* create_collection without the metadata write that follows it.
Created(b) == [coll EXCEPT ![b] = [Absent EXCEPT !.exists = TRUE]]

\* Mutant: the build is pinned in place of the model identity.
IdentitySetToBuild(b, i) == [coll EXCEPT ![b].identity = b]

\* set_collection_metadata merges into the sentinel: the model identity ...
IdentitySet(b, i) == [coll EXCEPT ![b].identity = i]
\* ... or the restored-but-unreplayed marker.
MarkerSet(b, m) == [coll EXCEPT ![b].unreplayed = m]

\* upsert_points of the chunks of one document; nothing is deleted first.
Upserted(b, d, i) == [coll EXCEPT ![b].points = @ \cup {<<d, i>>}]

\* The points of document d, whatever configuration they were built under.
PointsOf(b, d) == {x \in coll[b].points : x[1] = d}

DocsIn(b) == {x[1] : x \in coll[b].points}

\* delete_by_document filters on provenance.source_document_id.
DocumentDeleted(b, d) == [coll EXCEPT ![b].points = @ \ PointsOf(b, d)]

\* count_points leaves the metadata sentinel out.
CountPoints(b) == Cardinality(coll[b].points)

\* drop_collection; the server drops the aliases of the collection with it.
Dropped(b) == [coll EXCEPT ![b] = Absent]
AliasAfterDrop(b) == IF alias = b THEN None ELSE alias
=============================================================================
