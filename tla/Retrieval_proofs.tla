--------------------------- MODULE Retrieval_proofs ---------------------------
(***************************************************************************)
(* Theorems about Retrieval: types, and that no query fails while the      *)
(* index under it is rebuilt, promoted, rolled back, reconciled or left    *)
(* half way, for any number of operators, queries, builds and documents.   *)
(***************************************************************************)
EXTENDS Retrieval, IndexLifecycle_proofs

\* The provers of a step that names none, in the order they are tried.
USE Z3T(60), ZenonT(20), SMTT(40)

(***************************************************************************)
(* RetrievalTypeOK is not inductive: a query that goes on to embed has a   *)
(* model, and only the space of a model enters the cache.                  *)
(***************************************************************************)
QueryTypeInv ==
  /\ RetrievalTypeOK
  /\ \A r \in Readers : query[r].pc # "idle" => query[r].model \in Identities

\* What a query does leaves the lifecycle alone, and the other way round.
LEMMA LifecycleOrQuery ==
  RetrievalNext => [Next]_vars /\ (UNCHANGED vars \/ UNCHANGED retrievalVars)
  BY DEF RetrievalNext, ReadAliasRecord, EmbedQuery, Search, Evict

\* An answer ends the query.
LEMMA AnswerType ==
  ASSUME QueryTypeInv, NEW r \in Readers, NEW m \in Identities, NEW status \in Status,
         Answer(r, m, status)
  PROVE  /\ query' \in [Readers -> Query]
         /\ \A q \in Readers : query'[q].pc # "idle" => query'[q].model \in Identities
  <1>1. [pc |-> "idle", model |-> m, status |-> status] \in Query
    BY DEF Query, MaybeIdentity
  <1> QED BY <1>1 DEF QueryTypeInv, RetrievalTypeOK, Answer

\* The steps of a query leave it and the cache well typed.
LEMMA QueryTypeStep == QueryTypeInv /\ [RetrievalNext]_everything => QueryTypeInv'
  <1> SUFFICES ASSUME QueryTypeInv, [RetrievalNext]_everything PROVE QueryTypeInv'
    OBVIOUS
  <1> USE DEF RetrievalTypeOK
  <1>0. query \in [Readers -> Query] /\ cached \subseteq Spaces /\ queries \in 0 .. MaxQueries
    BY DEF QueryTypeInv
  <1>1. CASE UNCHANGED retrievalVars
    BY <1>1 DEF retrievalVars, QueryTypeInv
  <1>2. ASSUME NEW r \in Readers, NEW m \in Identities, ReadAliasRecord(r, m)
        PROVE  QueryTypeInv'
    <2>1. queries' \in 0 .. MaxQueries /\ cached' = cached
      BY <1>0, <1>2, RetrievalAssumption DEF ReadAliasRecord
    <2>2. CASE Answer(r, m, "KB_NOT_READY") \/ Answer(r, m, "EMBEDDING_MODEL_MISMATCH")
      BY <1>0, <2>1, <2>2, AnswerType DEF QueryTypeInv, Status, Errors
    <2>3. CASE query' = [query EXCEPT ![r] = [NoQuery EXCEPT !.pc = "embed", !.model = m]]
      <3>1. [NoQuery EXCEPT !.pc = "embed", !.model = m] \in Query
        BY DEF NoQuery, Query, MaybeIdentity, Status
      <3>2. \A q \in Readers : query'[q].pc # "idle" => query'[q].model \in Identities
        BY <1>0, <2>3 DEF QueryTypeInv, NoQuery
      <3> QED BY <1>0, <2>1, <2>3, <3>1, <3>2 DEF QueryTypeInv
    <2> QED BY <1>2, <2>2, <2>3 DEF ReadAliasRecord
  <1>3. ASSUME NEW r \in Readers, NEW up \in BOOLEAN, EmbedQuery(r, up)
        PROVE  QueryTypeInv'
    <2>1. query[r].pc = "embed" /\ query[r].model \in Identities /\ queries' = queries
      BY <1>3 DEF EmbedQuery, QueryTypeInv
    <2>2. cached' \subseteq Spaces
      BY <1>0, <1>3, <2>1 DEF EmbedQuery, VectorKey, Spaces
    <2>3. CASE Answer(r, query[r].model, "PROVIDER_UNAVAILABLE")
      BY <1>0, <2>1, <2>2, <2>3, AnswerType DEF QueryTypeInv, Status, Errors
    <2>4. CASE query' = [query EXCEPT ![r].pc = "search"]
      BY <1>0, <2>1, <2>2, <2>4 DEF QueryTypeInv, Query
    <2> QED BY <1>3, <2>3, <2>4 DEF EmbedQuery
  <1>4. ASSUME NEW r \in Readers, Search(r)
        PROVE  QueryTypeInv'
    <2>1. query[r].model \in Identities /\ UNCHANGED <<cached, queries>>
      BY <1>4 DEF Search, QueryTypeInv
    <2>2. PICK status \in Status : Answer(r, query[r].model, status)
      BY <1>4 DEF Search, Status, Errors
    <2> QED BY <1>0, <2>1, <2>2, AnswerType DEF QueryTypeInv
  <1>5. ASSUME NEW s \in cached, Evict(s)
        PROVE  QueryTypeInv'
    BY <1>0, <1>5 DEF Evict, QueryTypeInv
  <1>6. CASE UNCHANGED everything
    BY <1>1, <1>6 DEF everything
  <1> QED BY <1>1, <1>2, <1>3, <1>4, <1>5, <1>6 DEF RetrievalNext

\* No query has started.
LEMMA QueryTypeInit == RetrievalInit => QueryTypeInv
  BY RetrievalAssumption
  DEF RetrievalInit, QueryTypeInv, RetrievalTypeOK, NoQuery, Query, MaybeIdentity, Status

\* Type correctness of the queries and of the embedding cache.
THEOREM QueriesTypeCorrect == RetrievalSpec => []RetrievalTypeOK
  <1>1. QueryTypeInv => RetrievalTypeOK
    BY DEF QueryTypeInv
  <1> QED BY <1>1, QueryTypeInit, QueryTypeStep, PTL DEF RetrievalSpec

-----------------------------------------------------------------------------
(***************************************************************************)
(* No downtime.  A query reads the record in one step and searches through *)
(* the alias in another.  RecordNeverLeads is what makes that safe: a      *)
(* record that names a collection has a served one behind it, and once a   *)
(* collection is served the alias resolves for good unless one is retired. *)
(***************************************************************************)
OneVectorSize == \A i, k \in Identities : Space[i].dims = Space[k].dims

UpInv ==
  /\ served # {} => alias # None
  /\ \A p \in Operators : op[p].pc # "drop"
  /\ \A r \in Readers : query[r].pc # "idle" => served # {}
  /\ NoDowntime

\* The store accepts every vector when the models have one vector size.
LEMMA AnySizeFits ==
  ASSUME OneVectorSize, TypeInv, alias # None, NEW m \in Identities
  PROVE  Sizes(coll[alias]) \subseteq {Space[m].dims}
  <1>1. coll[alias] \in Collection
    BY DEF TypeInv, TypeOK, StoreTypeOK
  <1>2. \A x \in coll[alias].points : x[2] \in Identities
    BY <1>1 DEF Collection, Point
  <1>3. coll[alias].identity \in Identities \cup {None}
    BY <1>1 DEF Collection
  <1> QED BY <1>2, <1>3 DEF Sizes, OneVectorSize

\* Only a retirement takes the alias away.
LEMMA AliasStays ==
  ASSUME Keeps("keep_standby"), TypeInv, NEW p \in Operators,
         Build(p) \/ Promote(p) \/ Rollback(p) \/ Reconcile(p) \/ Retire(p) \/ Abort(p),
         op[p].pc # "drop", served # {} => alias # None
  PROVE  /\ served \subseteq served' /\ (served' # {} => alias' # None)
         /\ \A q \in Operators \ {p} : op'[q] = op[q]
         /\ op'[p].pc # "drop"
  <1>0. /\ op \in [Operators -> Call] /\ op[p] \in Call /\ Equipped(p) /\ None \notin Builds
    BY BuildsAssumption DEF TypeInv, TypeOK
  <1>i. Idle.pc = "idle"
    BY DEF Idle
  <1>s. ASSUME NEW call, Start(p, call), call.pc # "drop"
        PROVE  op'[p].pc # "drop" /\ \A q \in Operators \ {p} : op'[q] = op[q]
    BY <1>0, <1>s DEF Start
  <1>g. ASSUME NEW pc \in PC \ {"drop"}, Goto(p, pc)
        PROVE  op'[p].pc # "drop" /\ \A q \in Operators \ {p} : op'[q] = op[q]
    BY <1>0, <1>g DEF Goto, Call
  <1>r. ASSUME Return(p)
        PROVE  op'[p].pc # "drop" /\ \A q \in Operators \ {p} : op'[q] = op[q]
    BY <1>0, <1>i, <1>r DEF Return
  <1>1. CASE Build(p)
    <2>1. ASSUME NEW b \in Builds, NEW m \in Identities, NEW batch \in SUBSET Docs,
                 StartBuild(p, b, m, batch)
          PROVE  op'[p].pc # "drop" /\ \A q \in Operators \ {p} : op'[q] = op[q]
      BY <1>s, <2>1 DEF StartBuild, Idle
    <2>2. CASE PinIdentity(p)
      BY <1>g, <2>2 DEF PinIdentity, PC
    <2>3. ASSUME NEW d \in Docs, IngestDocument(p, d)
          PROVE  op'[p].pc # "drop" /\ \A q \in Operators \ {p} : op'[q] = op[q]
      BY <1>0, <2>3 DEF IngestDocument, At, Call
    <2>4. ASSUME NEW go \in BOOLEAN, FinishBuild(p, go)
          PROVE  op'[p].pc # "drop" /\ \A q \in Operators \ {p} : op'[q] = op[q]
      BY <1>g, <1>r, <2>4 DEF FinishBuild, PC
    <2>5. UNCHANGED <<alias, served>>
      BY <1>1 DEF Build, StartBuild, PinIdentity, IngestDocument, FinishBuild
    <2> QED BY <1>1, <2>1, <2>2, <2>3, <2>4, <2>5 DEF Build
  <1>2. CASE Promote(p)
    <2>1. CASE PromotePhase1(p)
      <3>1. op[p].b \in Builds BY <1>0, <2>1 DEF PromotePhase1, At, Equipped
      <3> QED BY <1>0, <1>g, <1>r, <2>1, <3>1 DEF PromotePhase1, Retarget, PC
    <2>2. CASE ~PromotePhase1(p)
      <3>1. UNCHANGED <<alias, served>>
        BY <1>2, <2>2 DEF Promote, StartPromotion, ReadIdentity, EnsureRecord, Validate,
                          CheckMarker, PromotePhase2, PromoteCommit
      <3>2. CASE \E b \in Builds : StartPromotion(p, b)
        BY <1>s, <3>1, <3>2 DEF StartPromotion, Idle
      <3>3. CASE ReadIdentity(p) \/ EnsureRecord(p)
        BY <1>0, <3>1, <3>3 DEF ReadIdentity, EnsureRecord, Call
      <3>4. CASE Validate(p) \/ CheckMarker(p) \/ PromoteCommit(p)
        BY <1>g, <1>r, <3>1, <3>4 DEF Validate, CheckMarker, PromoteCommit, PC
      <3>5. CASE PromotePhase2(p) /\ ~Return(p)
        BY <1>0, <3>1, <3>5 DEF PromotePhase2, Call
      <3> QED BY <1>2, <1>r, <2>2, <3>1, <3>2, <3>3, <3>4, <3>5 DEF Promote
    <2> QED BY <2>1, <2>2
  <1>3. CASE Rollback(p)
    <2>1. CASE RollbackPhase1(p)
      <3>1. op[p].seen.previous \in Builds BY <1>0, <2>1 DEF RollbackPhase1, At, Equipped
      <3> QED BY <1>0, <1>g, <1>r, <2>1, <3>1 DEF RollbackPhase1, Retarget, PC
    <2>2. ASSUME NEW available \in SUBSET Identities, StartRollback(p, available)
          PROVE  op'[p].pc # "drop" /\ \A q \in Operators \ {p} : op'[q] = op[q]
      BY <1>s, <2>2 DEF StartRollback, Idle
    <2>3. CASE ~RollbackPhase1(p)
      <3>1. UNCHANGED <<alias, served>>
        BY <1>3, <2>3 DEF Rollback, StartRollback, RollbackCommit
      <3> QED BY <1>3, <1>r, <2>2, <2>3, <3>1 DEF Rollback, RollbackCommit
    <2> QED BY <2>1, <2>3
  <1>4. CASE Reconcile(p)
    <2>1. UNCHANGED <<alias, served>>
      BY <1>4 DEF Reconcile, StartReconcile, ReconcileGet, ReconcileRepair
    <2>2. CASE StartReconcile(p)
      BY <1>s, <2>1, <2>2 DEF StartReconcile, Idle
    <2>3. CASE ReconcileGet(p) /\ ~Return(p)
      BY <1>0, <2>1, <2>3 DEF ReconcileGet, Call
    <2> QED BY <1>4, <1>r, <2>1, <2>2, <2>3 DEF Reconcile, ReconcileRepair
  <1>5. CASE Retire(p)
    BY <1>5 DEF Retire, StartRetire, Drop, At
  <1>6. CASE Abort(p)
    BY <1>6, <1>r DEF Abort
  <1> QED BY <1>1, <1>2, <1>3, <1>4, <1>5, <1>6

\* A step of the lifecycle, or of a query, keeps the service up.
LEMMA UpStep ==
  /\ Keeps("keep_standby") /\ OneVectorSize
  /\ TypeInv /\ LagInv /\ QueryTypeInv /\ UpInv
  /\ [RetrievalNext]_everything
  => UpInv'
  <1> SUFFICES ASSUME Keeps("keep_standby"), OneVectorSize, TypeInv, LagInv, QueryTypeInv, UpInv,
                      [RetrievalNext]_everything
               PROVE  UpInv'
    OBVIOUS
  <1>0. query \in [Readers -> Query]
    BY DEF QueryTypeInv, RetrievalTypeOK
  <1>1. CASE UNCHANGED everything
    BY <1>1 DEF everything, vars, retrievalVars, UpInv, NoDowntime
  <1>2. CASE Next /\ UNCHANGED retrievalVars
    <2> PICK p \in Operators :
          Build(p) \/ Promote(p) \/ Rollback(p) \/ Reconcile(p) \/ Retire(p) \/ Abort(p)
      BY <1>2 DEF Next
    <2>1. /\ served \subseteq served' /\ (served' # {} => alias' # None)
          /\ \A q \in Operators \ {p} : op'[q] = op[q]
          /\ op'[p].pc # "drop"
      BY AliasStays DEF UpInv
    <2> QED BY <1>2, <2>1 DEF retrievalVars, UpInv, NoDowntime
  <1>3. ASSUME NEW r \in Readers, NEW m \in Identities, ReadAliasRecord(r, m)
        PROVE  UpInv'
    <2>1. Ready => served # {}
      BY DEF Ready, LagInv, RecordLagsAlias
    <2>2. /\ query'[r].pc # "idle" => Ready
          /\ query'[r].status # "VECTOR_DB_UNAVAILABLE"
          /\ \A q \in Readers \ {r} : query'[q] = query[q]
      <3>1. ASSUME NEW status \in Errors \ {"VECTOR_DB_UNAVAILABLE"}, Answer(r, m, status)
            PROVE  /\ query'[r].pc = "idle" /\ query'[r].status # "VECTOR_DB_UNAVAILABLE"
                   /\ \A q \in Readers \ {r} : query'[q] = query[q]
        BY <1>0, <3>1 DEF Answer
      <3>2. CASE ~Ready
        BY <1>3, <3>1, <3>2 DEF ReadAliasRecord, Errors
      <3>3. CASE Ready /\ ~Matches(m)
        BY <1>3, <3>1, <3>3 DEF ReadAliasRecord, Errors
      <3>4. CASE Ready /\ Matches(m)
        BY <1>0, <1>3, <3>4 DEF ReadAliasRecord, NoQuery
      <3> QED BY <3>2, <3>3, <3>4
    <2>3. UNCHANGED vars
      BY <1>3 DEF ReadAliasRecord
    <2>4. /\ served' # {} => alias' # None
          /\ \A p \in Operators : op'[p].pc # "drop"
      BY <2>3 DEF vars, UpInv
    <2>5. ASSUME NEW q \in Readers
          PROVE  /\ query'[q].pc # "idle" => served' # {}
                 /\ query'[q].status # "VECTOR_DB_UNAVAILABLE"
      <3>1. CASE q = r
        BY <2>1, <2>2, <2>3, <3>1 DEF vars
      <3>2. CASE q # r
        BY <2>2, <2>3, <3>2 DEF vars, UpInv, NoDowntime
      <3> QED BY <3>1, <3>2
    <2> QED BY <2>4, <2>5 DEF UpInv, NoDowntime
  <1>4. ASSUME NEW r \in Readers, NEW up \in BOOLEAN, EmbedQuery(r, up)
        PROVE  UpInv'
    <2>1. /\ query[r].pc = "embed"
          /\ query'[r].status \in {query[r].status, "PROVIDER_UNAVAILABLE"}
          /\ \A q \in Readers \ {r} : query'[q] = query[q]
      BY <1>0, <1>4 DEF EmbedQuery, Answer, Query
    <2> QED BY <1>4, <2>1 DEF EmbedQuery, vars, UpInv, NoDowntime
  <1>5. ASSUME NEW r \in Readers, Search(r)
        PROVE  UpInv'
    <2>1. query[r].model \in Identities /\ alias # None
      BY <1>5 DEF Search, QueryTypeInv, UpInv
    <2>2. Sizes(coll[alias]) \subseteq {Space[query[r].model].dims}
      BY <2>1, AnySizeFits
    <2>3. /\ query'[r].pc = "idle" /\ query'[r].status # "VECTOR_DB_UNAVAILABLE"
          /\ \A q \in Readers \ {r} : query'[q] = query[q]
      BY <1>0, <1>5, <2>1, <2>2 DEF Search, Answer
    <2> QED BY <1>5, <2>3 DEF Search, vars, UpInv, NoDowntime
  <1>6. ASSUME NEW s \in cached, Evict(s)
        PROVE  UpInv'
    BY <1>6 DEF Evict, vars, UpInv, NoDowntime
  <1> QED BY <1>1, <1>2, <1>3, <1>4, <1>5, <1>6 DEF RetrievalNext

\* Queries see zero errors of the store, while any number of operators promote and roll back
\* under them, retry, reconcile and die anywhere, as long as no standby is retired and the
\* models have one vector size.  Callers that reuse build ids are included.
THEOREM QueriesNeverFail ==
  ASSUME Keeps("keep_standby"), OneVectorSize
  PROVE  RetrievalSpec => []NoDowntime
  <1> DEFINE Inv == TypeInv /\ LagInv /\ QueryTypeInv /\ UpInv
  <1>1. RetrievalInit => Inv
    <2>1. RetrievalInit => UpInv
      BY DEF RetrievalInit, Init, StoreInit, Idle, NoQuery, UpInv, NoDowntime
    <2> QED BY <2>1, TypeInit, LagInit, QueryTypeInit DEF RetrievalInit
  <1>2. [RetrievalNext]_everything => [Next]_vars
    BY LifecycleOrQuery DEF everything
  <1>3. Inv /\ [RetrievalNext]_everything => Inv'
    BY <1>2, TypeStep, LagStep, QueryTypeStep, UpStep
  <1>4. Inv => NoDowntime
    BY DEF UpInv
  <1> HIDE DEF Inv
  <1> QED BY <1>1, <1>3, <1>4, PTL DEF RetrievalSpec
=============================================================================
