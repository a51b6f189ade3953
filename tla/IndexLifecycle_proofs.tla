------------------------ MODULE IndexLifecycle_proofs ------------------------
(***************************************************************************)
(* Theorems about IndexLifecycle, for any number of calls, builds and      *)
(* documents, crashes included.  Whatever rules the callers keep: types,   *)
(* and the control-plane record never leads the vector store.  For one     *)
(* caller at a time: the row of the record stays consistent, and the swap  *)
(* implements AtomicAlias.  For any number of callers that build under     *)
(* fresh ids: what is served is finished.                                  *)
(***************************************************************************)
EXTENDS IndexLifecycle, FiniteSetTheorems, TLAPS

\* The provers of a step that names none, in the order they are tried.
USE Z3T(60), ZenonT(20), SMTT(40)

(***************************************************************************)
(* RecordLagsAlias is not inductive: what a commit writes was read or      *)
(* served earlier.  LagInv adds what the calls under way remember.         *)
(***************************************************************************)
Past == served \cup {None}
Remembered(p) ==
  /\ op[p].seen.collection \in Past
  /\ op[p].seen.previous \in Past
  /\ op[p].pc \in {"phase2", "commit2", "reconcile_get", "reconcile_repair"} => op[p].b \in served
  /\ op[p].pc \in {"rollback1", "rollback2"} => op[p].seen.previous \in served

LagInv ==
  /\ RecordLagsAlias
  /\ alias \in Past
  /\ \A p \in Operators : Remembered(p)

-----------------------------------------------------------------------------
(* The operators that build a row.                                         *)

\* Flush writes each column from one of two rows.
LEMMA FlushColumns ==
  ASSUME NEW seen \in Record, NEW new \in Record, record \in Record
  PROVE  /\ Flush(seen, new) \in Record
         /\ Flush(seen, new).collection \in {new.collection, record.collection}
         /\ Flush(seen, new).previous \in {new.previous, record.previous}
  BY DEF Record, Flush, Column, MaybeBuild, MaybeIdentity

\* A promotion keeps what was current as N-1; the row is well typed.
LEMMA PromotedType ==
  ASSUME NEW r \in Record, NEW b \in Builds, NEW i \in MaybeIdentity
  PROVE  /\ Promoted(r, b, i) \in Record
         /\ Promoted(r, b, i).collection = b
         /\ Promoted(r, b, i).previous = r.collection
  BY DEF Record, Promoted, MaybeBuild, MaybeIdentity

\* A rollback exchanges the two collections; the row is well typed.
LEMMA RolledBackType ==
  ASSUME NEW r \in Record
  PROVE  /\ RolledBack(r) \in Record
         /\ RolledBack(r).collection = r.previous
         /\ RolledBack(r).previous = r.collection
  BY DEF Record, RolledBack, MaybeBuild, MaybeIdentity

\* The rows before the first promotion are well typed.
LEMMA EmptyRows ==
  NoRecord \in Record /\ EmptyRecord \in Record
  BY DEF Record, NoRecord, EmptyRecord, MaybeBuild, MaybeIdentity

\* The locals of a caller that is in no call are well typed.
LEMMA IdleType == Idle \in Call
  <1>1. 0 \in Chunks
    BY DocsAssumption, FS_CardinalityType DEF Chunks
  <1>. QED BY <1>1, EmptyRows DEF Idle, Call, PC, MaybeBuild, MaybeIdentity

\* The number of documents of a batch is a number of chunks.
LEMMA BatchSize ==
  ASSUME NEW batch \in SUBSET Docs
  PROVE  Cardinality(batch) \in Chunks
  BY DocsAssumption, FS_Subset, FS_CardinalityType DEF Chunks

\* Every request to the vector store leaves well typed collections.
LEMMA StoreRequests ==
  ASSUME coll \in [Builds -> Collection], NEW b \in Builds
  PROVE  /\ Created(b) \in [Builds -> Collection]
         /\ Dropped(b) \in [Builds -> Collection]
         /\ \A i \in Identities : IdentitySet(b, i) \in [Builds -> Collection]
         /\ \A d \in Docs, i \in Identities : Upserted(b, d, i) \in [Builds -> Collection]
  <1>1. Absent \in Collection
    BY DEF Absent, Collection, Point
  <1>2. [Absent EXCEPT !.exists = TRUE] \in Collection
    BY <1>1 DEF Collection
  <1>3. Created(b) \in [Builds -> Collection]
    BY <1>2 DEF Created
  <1>4. Dropped(b) \in [Builds -> Collection]
    BY <1>1 DEF Dropped
  <1>5. ASSUME NEW i \in Identities PROVE IdentitySet(b, i) \in [Builds -> Collection]
    BY DEF IdentitySet, Collection
  <1>6. ASSUME NEW d \in Docs, NEW i \in Identities
        PROVE Upserted(b, d, i) \in [Builds -> Collection]
    BY DEF Upserted, Collection, Point
  <1>. QED BY <1>3, <1>4, <1>5, <1>6

-----------------------------------------------------------------------------
(* Type correctness.                                                       *)

(***************************************************************************)
(* TypeOK is not inductive: a call that writes to a collection or moves    *)
(* the alias needs a build, and a run that ingests needs an identity.      *)
(***************************************************************************)
Equipped(p) ==
  /\ op[p].pc \in {"pin", "ingest"} => op[p].model \in Identities
  /\ op[p].pc \notin {"idle", "rollback1", "rollback2"} => op[p].b \in Builds
  /\ op[p].pc \in {"rollback1", "rollback2"} => op[p].seen.previous \in Builds

TypeInv ==
  /\ TypeOK
  /\ \A p \in Operators : Equipped(p)

\* The initial state is well typed.
LEMMA TypeInit == Init => TypeInv
  <1>. SUFFICES ASSUME Init PROVE TypeInv
    OBVIOUS
  <1>1. StoreTypeOK
    BY DEF Init, StoreInit, StoreTypeOK, Absent, Collection
  <1>2. 0 \in 0 .. MaxCalls
    BY LifecycleAssumption
  <1>3. TypeOK
    BY <1>1, <1>2, EmptyRows, IdleType DEF Init, TypeOK
  <1>4. \A p \in Operators : Equipped(p)
    BY DEF Init, Equipped, Idle
  <1>. QED BY <1>3, <1>4 DEF TypeInv

\* A call that returns leaves the locals of every caller well typed.
LEMMA ReturnType ==
  ASSUME TypeInv, NEW p \in Operators, Return(p)
  PROVE  /\ op' \in [Operators -> Call]
         /\ \A q \in Operators : Equipped(q)'
  <1>1. op' \in [Operators -> Call]
    BY IdleType DEF TypeInv, TypeOK, Return
  <1>2. \A q \in Operators : Equipped(q)'
    BY DEF TypeInv, TypeOK, Return, Equipped, Idle
  <1>. QED BY <1>1, <1>2

\* So does a call that goes on, with a collection to work on.
LEMMA GotoType ==
  ASSUME TypeInv, NEW p \in Operators, NEW pc \in PC \ {"pin", "ingest"}, Goto(p, pc),
         IF pc \in {"rollback1", "rollback2"} THEN op[p].seen.previous \in Builds ELSE op[p].b \in Builds
  PROVE  /\ op' \in [Operators -> Call]
         /\ \A q \in Operators : Equipped(q)'
  <1>. DEFINE call == [op[p] EXCEPT !.pc = pc]
  <1>1. op \in [Operators -> Call] /\ \A q \in Operators : Equipped(q)
    BY DEF TypeInv, TypeOK
  <1>2. op' = [op EXCEPT ![p] = call]
    BY DEF Goto
  <1>3. call \in Call
    BY ZenonT(60), <1>1 DEF Call
  <1>4. call.pc = pc /\ call.b = op[p].b /\ call.seen = op[p].seen
    BY <1>1 DEF Call
  <1>. HIDE DEF call
  <1>5. op' \in [Operators -> Call] /\ op'[p] = call /\ \A q \in Operators \ {p} : op'[q] = op[q]
    BY <1>1, <1>2, <1>3
  <1>6. Equipped(p)'
    BY <1>4, <1>5 DEF Equipped
  <1>7. \A q \in Operators \ {p} : Equipped(q)'
    BY <1>1, <1>5 DEF Equipped
  <1>. QED BY <1>5, <1>6, <1>7

\* The steps of a build leave the state well typed.
LEMMA TypeBuild ==
  ASSUME TypeInv, NEW p \in Operators, Build(p)
  PROVE  TypeInv'
  <1>. USE DEF TypeInv, TypeOK, StoreTypeOK
  <1>1. ASSUME NEW b \in Builds, NEW m \in Identities, NEW batch \in SUBSET Docs,
               StartBuild(p, b, m, batch)
        PROVE TypeInv'
    <2>1. coll' \in [Builds -> Collection]
      BY <1>1, StoreRequests DEF StartBuild
    <2>2. op' \in [Operators -> Call]
      BY <1>1, IdleType, BatchSize DEF StartBuild, Start, Call, PC, MaybeBuild, MaybeIdentity
    <2>3. calls' \in 0 .. MaxCalls
      BY <1>1, LifecycleAssumption DEF StartBuild, Start
    <2>4. \A q \in Operators : Equipped(q)'
      BY <1>1 DEF StartBuild, Start, Idle, Equipped
    <2>. QED BY <1>1, <2>1, <2>2, <2>3, <2>4 DEF StartBuild
  <1>2. CASE PinIdentity(p)
    <2>1. op[p].b \in Builds /\ op[p].model \in Identities
      BY <1>2 DEF PinIdentity, At, Equipped
    <2>2. coll' \in [Builds -> Collection]
      BY <1>2, <2>1, StoreRequests DEF PinIdentity
    <2>3. op' \in [Operators -> Call] /\ \A q \in Operators : Equipped(q)'
      BY <1>2, <2>1 DEF PinIdentity, Goto, Call, PC, Equipped
    <2>. QED BY <1>2, <2>2, <2>3 DEF PinIdentity
  <1>3. ASSUME NEW d \in Docs, IngestDocument(p, d)
        PROVE TypeInv'
    <2>1. op[p].b \in Builds /\ op[p].model \in Identities
      BY <1>3 DEF IngestDocument, At, Equipped
    <2>2. coll' \in [Builds -> Collection]
      BY <1>3, <2>1, StoreRequests DEF IngestDocument
    <2>3. op' \in [Operators -> Call] /\ \A q \in Operators : Equipped(q)'
      BY <1>3, <2>1 DEF IngestDocument, Call, Equipped
    <2>. QED BY <1>3, <2>2, <2>3 DEF IngestDocument
  <1>4. ASSUME NEW go \in BOOLEAN, FinishBuild(p, go)
        PROVE TypeInv'
    <2>1. op' \in [Operators -> Call] /\ \A q \in Operators : Equipped(q)'
      <3>1. CASE go
        BY <1>4, <3>1 DEF FinishBuild, Goto, At, Call, PC, Equipped
      <3>2. CASE ~go
        BY <1>4, <3>2, ReturnType DEF FinishBuild
      <3>. QED BY <3>1, <3>2
    <2>2. op[p].total \in Chunks
      BY DEF Call
    <2>3. result' \in [Builds -> Chunks \cup {None}]
      BY <1>4, <2>2 DEF FinishBuild
    <2>. QED BY <1>4, <2>1, <2>3 DEF FinishBuild
  <1>. QED BY <1>1, <1>2, <1>3, <1>4 DEF Build

\* The steps of a promotion leave the state well typed.
LEMMA TypePromote ==
  ASSUME TypeInv, NEW p \in Operators, Promote(p)
  PROVE  TypeInv'
  <1>. USE DEF TypeInv, TypeOK, StoreTypeOK
  <1>. DEFINE CallsOK == op' \in [Operators -> Call] /\ \A q \in Operators : Equipped(q)'
  <1>1. ASSUME NEW b \in Builds, StartPromotion(p, b)
        PROVE TypeInv'
    <2>1. result[b] \in Chunks
      BY <1>1 DEF StartPromotion
    <2>2. CallsOK
      BY ZenonT(60), <1>1, <2>1, IdleType
      DEF StartPromotion, Start, Idle, Call, PC, MaybeBuild, Equipped
    <2>3. calls' \in 0 .. MaxCalls
      BY <1>1, LifecycleAssumption DEF StartPromotion, Start
    <2>. QED BY <1>1, <2>2, <2>3 DEF StartPromotion
  <1>2. CASE ReadIdentity(p)
    <2>1. op[p].b \in Builds
      BY <1>2 DEF ReadIdentity, At, Equipped
    <2>2. coll[op[p].b].identity \in MaybeIdentity
      BY <2>1 DEF Collection, MaybeIdentity
    <2>3. op' \in [Operators -> Call]
      <3>. DEFINE call == [op[p] EXCEPT !.pc = "get_record", !.identity = coll[op[p].b].identity]
      <3>1. call \in Call
        BY ZenonT(60), <2>2 DEF Call, PC
      <3>2. op' = [op EXCEPT ![p] = call]
        BY <1>2 DEF ReadIdentity
      <3>. QED BY <3>1, <3>2
    <2>4. \A q \in Operators : Equipped(q)'
      BY <1>2, <2>1 DEF ReadIdentity, Call, Equipped
    <2>. QED BY <1>2, <2>3, <2>4 DEF ReadIdentity
  <1>3. CASE EnsureRecord(p)
    <2>1. op' \in [Operators -> Call]
      <3>. DEFINE call == [op[p] EXCEPT !.pc = "validate", !.seen = record]
      <3>1. call \in Call
        BY ZenonT(60) DEF Call, PC
      <3>2. op' = [op EXCEPT ![p] = call]
        BY <1>3 DEF EnsureRecord
      <3>. QED BY <3>1, <3>2
    <2>2. \A q \in Operators : Equipped(q)'
      BY <1>3 DEF EnsureRecord, At, Call, Equipped
    <2>. QED BY <1>3, <2>1, <2>2, EmptyRows DEF EnsureRecord
  <1>4. CASE Validate(p)
    <2>1. CallsOK
      <3>1. CASE Goto(p, "marker")
        <4>1. op[p].b \in Builds
          BY <1>4 DEF Validate, At, Equipped
        <4>. QED BY <3>1, <4>1, GotoType DEF PC
      <3>. QED BY <1>4, <3>1, ReturnType DEF Validate
    <2>. QED BY <1>4, <2>1 DEF Validate
  <1>5. CASE CheckMarker(p)
    <2>1. CallsOK
      <3>1. CASE Goto(p, "phase1")
        <4>1. op[p].b \in Builds
          BY <1>5 DEF CheckMarker, At, Equipped
        <4>. QED BY <3>1, <4>1, GotoType DEF PC
      <3>. QED BY <1>5, <3>1, ReturnType DEF CheckMarker
    <2>. QED BY <1>5, <2>1 DEF CheckMarker
  <1>6. CASE PromotePhase1(p)
    <2>1. op[p].b \in Builds
      BY <1>6 DEF PromotePhase1, At, Equipped
    <2>2. CASE Goto(p, "phase2") /\ Retarget(op[p].b)
      <3>1. op' \in [Operators -> Call] /\ \A q \in Operators : Equipped(q)'
        BY <2>1, <2>2, GotoType DEF PC
      <3>. QED BY <1>6, <2>1, <2>2, <3>1 DEF PromotePhase1, Retarget
    <2>3. CASE Return(p) /\ UNCHANGED <<alias, served>>
      BY <1>6, <2>3, ReturnType DEF PromotePhase1
    <2>. QED BY <1>6, <2>2, <2>3 DEF PromotePhase1
  <1>7. CASE PromotePhase2(p)
    <2>1. CallsOK
      <3>1. CASE Return(p)
        BY <3>1, ReturnType
      <3>2. CASE ~Return(p)
        BY <1>7, <3>2 DEF PromotePhase2, At, Call, PC, Equipped
      <3>. QED BY <3>1, <3>2
    <2>. QED BY <1>7, <2>1 DEF PromotePhase2
  <1>8. CASE PromoteCommit(p)
    <2>1. op[p].b \in Builds /\ op[p].seen \in Record /\ op[p].identity \in MaybeIdentity
      BY <1>8 DEF PromoteCommit, At, Equipped, Call
    <2>2. record' \in Record
      BY <1>8, <2>1, PromotedType, FlushColumns DEF PromoteCommit
    <2>. QED BY <1>8, <2>2, ReturnType DEF PromoteCommit
  <1>. QED BY <1>1, <1>2, <1>3, <1>4, <1>5, <1>6, <1>7, <1>8 DEF Promote

\* The steps of a rollback leave the state well typed.
LEMMA TypeRollback ==
  ASSUME TypeInv, NEW p \in Operators, Rollback(p)
  PROVE  TypeInv'
  <1>. USE DEF TypeInv, TypeOK, StoreTypeOK
  <1>1. ASSUME NEW available \in SUBSET Identities, StartRollback(p, available)
        PROVE TypeInv'
    <2>1. record.previous \in Builds
      BY <1>1 DEF StartRollback, Record, MaybeBuild
    <2>2. op' \in [Operators -> Call]
      BY <1>1, IdleType DEF StartRollback, Start, Call, PC
    <2>3. \A q \in Operators : Equipped(q)'
      BY <1>1, <2>1 DEF StartRollback, Start, Idle, Equipped
    <2>4. calls' \in 0 .. MaxCalls
      BY <1>1, LifecycleAssumption DEF StartRollback, Start
    <2>. QED BY <1>1, <2>2, <2>3, <2>4 DEF StartRollback
  <1>2. CASE RollbackPhase1(p)
    <2>1. op[p].seen.previous \in Builds
      BY <1>2 DEF RollbackPhase1, At, Equipped
    <2>2. CASE Goto(p, "rollback2") /\ Retarget(op[p].seen.previous)
      <3>1. op' \in [Operators -> Call] /\ \A q \in Operators : Equipped(q)'
        BY <2>1, <2>2, GotoType DEF PC
      <3>. QED BY <1>2, <2>1, <2>2, <3>1 DEF RollbackPhase1, Retarget
    <2>3. CASE Return(p) /\ UNCHANGED <<alias, served>>
      BY <1>2, <2>3, ReturnType DEF RollbackPhase1
    <2>. QED BY <1>2, <2>2, <2>3 DEF RollbackPhase1
  <1>3. CASE RollbackCommit(p)
    <2>1. op[p].seen \in Record
      BY DEF Call
    <2>2. record' \in Record
      BY <1>3, <2>1, RolledBackType, FlushColumns DEF RollbackCommit
    <2>. QED BY <1>3, <2>2, ReturnType DEF RollbackCommit
  <1>. QED BY <1>1, <1>2, <1>3 DEF Rollback

\* The steps of startup_reconcile leave the state well typed.
LEMMA TypeReconcile ==
  ASSUME TypeInv, NEW p \in Operators, Reconcile(p)
  PROVE  TypeInv'
  <1>. USE DEF TypeInv, TypeOK, StoreTypeOK
  <1>1. CASE StartReconcile(p)
    <2>1. alias \in Builds
      BY <1>1 DEF StartReconcile
    <2>2. op' \in [Operators -> Call]
      BY <1>1, <2>1, IdleType DEF StartReconcile, Start, Call, PC, MaybeBuild
    <2>3. \A q \in Operators : Equipped(q)'
      BY <1>1, <2>1 DEF StartReconcile, Start, Idle, Equipped
    <2>4. calls' \in 0 .. MaxCalls
      BY <1>1, LifecycleAssumption DEF StartReconcile, Start
    <2>. QED BY <1>1, <2>2, <2>3, <2>4 DEF StartReconcile
  <1>2. CASE ReconcileGet(p)
    <2>1. CASE Return(p)
      BY <1>2, <2>1, ReturnType DEF ReconcileGet
    <2>2. CASE op' = [op EXCEPT ![p].pc = "reconcile_repair", ![p].seen = record]
      <3>. DEFINE call == [op[p] EXCEPT !.pc = "reconcile_repair", !.seen = record]
      <3>1. call \in Call
        BY ZenonT(60) DEF Call, PC
      <3>2. op' = [op EXCEPT ![p] = call]
        BY <2>2
      <3>3. op' \in [Operators -> Call]
        BY <3>1, <3>2
      <3>4. \A q \in Operators : Equipped(q)'
        BY <1>2, <2>2 DEF ReconcileGet, At, Call, Equipped
      <3>. QED BY <1>2, <3>3, <3>4 DEF ReconcileGet
    <2>. QED BY <1>2, <2>1, <2>2 DEF ReconcileGet
  <1>3. CASE ReconcileRepair(p)
    <2>1. op[p].b \in Builds /\ op[p].seen \in Record
      BY <1>3 DEF ReconcileRepair, At, Equipped, Call
    <2>2. coll[op[p].b].identity \in MaybeIdentity
      BY <2>1 DEF Collection, MaybeIdentity
    <2>3. record' \in Record
      BY <1>3, <2>1, <2>2, PromotedType, FlushColumns DEF ReconcileRepair, Reconciled
    <2>. QED BY <1>3, <2>3, ReturnType DEF ReconcileRepair
  <1>. QED BY <1>1, <1>2, <1>3 DEF Reconcile

\* The steps of a retirement leave the state well typed.
LEMMA TypeRetire ==
  ASSUME TypeInv, NEW p \in Operators, Retire(p)
  PROVE  TypeInv'
  <1>. USE DEF TypeInv, TypeOK, StoreTypeOK
  <1>1. CASE StartRetire(p)
    <2>1. record.previous \in Builds
      BY <1>1 DEF StartRetire, Record, MaybeBuild
    <2>2. op' \in [Operators -> Call]
      BY <1>1, <2>1, IdleType DEF StartRetire, Start, Call, PC, MaybeBuild
    <2>3. \A q \in Operators : Equipped(q)'
      BY <1>1, <2>1 DEF StartRetire, Start, Idle, Equipped
    <2>4. calls' \in 0 .. MaxCalls
      BY <1>1, LifecycleAssumption DEF StartRetire, Start
    <2>. QED BY <1>1, <2>2, <2>3, <2>4 DEF StartRetire
  <1>2. CASE Drop(p)
    <2>1. op[p].b \in Builds
      BY <1>2 DEF Drop, At, Equipped
    <2>2. coll' \in [Builds -> Collection]
      BY <1>2, <2>1, StoreRequests DEF Drop
    <2>. QED BY <1>2, <2>2, ReturnType DEF Drop, AliasAfterDrop
  <1>. QED BY <1>1, <1>2 DEF Retire

\* Every step leaves the state well typed.
LEMMA TypeStep == TypeInv /\ [Next]_vars => TypeInv'
  <1>. SUFFICES ASSUME TypeInv, [Next]_vars PROVE TypeInv'
    OBVIOUS
  <1>1. CASE Next
    <2>. PICK p \in Operators :
           Build(p) \/ Promote(p) \/ Rollback(p) \/ Reconcile(p) \/ Retire(p) \/ Abort(p)
      BY <1>1 DEF Next
    <2>1. CASE Abort(p)
      BY <2>1, ReturnType DEF Abort, TypeInv, TypeOK, StoreTypeOK
    <2>. QED BY <2>1, TypeBuild, TypePromote, TypeRollback, TypeReconcile, TypeRetire
  <1>2. CASE UNCHANGED vars
    BY <1>2 DEF vars, TypeInv, TypeOK, StoreTypeOK, Equipped
  <1>. QED BY <1>1, <1>2

\* Type correctness: the collections, the record and the locals of every caller
\* keep their types through any interleaving of lifecycle calls and crashes.
THEOREM TypeCorrect == Spec => []TypeOK
  <1>1. TypeInv => TypeOK
    BY DEF TypeInv
  <1>. QED BY <1>1, TypeInit, TypeStep, PTL DEF Spec

-----------------------------------------------------------------------------
(* The record lags the alias.                                              *)

\* What the other callers remember stays in the past while the past grows.
LEMMA OthersRemember ==
  ASSUME TypeOK, LagInv, NEW p \in Operators, NEW call, op' = [op EXCEPT ![p] = call],
         served \subseteq served'
  PROVE  \A q \in Operators \ {p} : Remembered(q)'
  BY DEF TypeOK, LagInv, Remembered, Past

\* A call that returns remembers nothing.
LEMMA ReturnRemembers ==
  ASSUME TypeOK, LagInv, NEW p \in Operators, Return(p), served \subseteq served'
  PROVE  \A q \in Operators : Remembered(q)'
  <1>1. \A q \in Operators \ {p} : Remembered(q)'
    BY OthersRemember DEF Return
  <1>2. Remembered(p)'
    BY DEF TypeOK, Return, Remembered, Idle, NoRecord, Past
  <1>. QED BY <1>1, <1>2

\* A caller that moves on with the record it has remembers what it did, if the
\* build it is to record has been served.
LEMMA GotoRemembers ==
  ASSUME TypeOK, LagInv, NEW p \in Operators, NEW pc, Goto(p, pc), served \subseteq served',
         pc \in {"phase2"} => op[p].b \in served',
         pc \notin {"commit2", "reconcile_get", "reconcile_repair", "rollback1", "rollback2"}
  PROVE  \A q \in Operators : Remembered(q)'
  <1>1. \A q \in Operators \ {p} : Remembered(q)'
    BY OthersRemember DEF Goto
  <1>2. Remembered(p)'
    BY DEF TypeOK, LagInv, Goto, Remembered, Past, Call
  <1>. QED BY <1>1, <1>2

\* A build touches neither the alias nor the record.
LEMMA LagBuild ==
  ASSUME TypeInv, LagInv, NEW p \in Operators, Build(p)
  PROVE  LagInv'
  <1>. USE DEF TypeInv
  <1>1. ASSUME NEW b \in Builds, NEW m \in Identities, NEW batch \in SUBSET Docs,
               StartBuild(p, b, m, batch)
        PROVE LagInv'
    <2>1. \A q \in Operators \ {p} : Remembered(q)'
      BY <1>1, OthersRemember DEF StartBuild, Start
    <2>2. Remembered(p)'
      BY <1>1 DEF StartBuild, Start, TypeOK, Remembered, Idle, NoRecord, Past
    <2>. QED BY <1>1, <2>1, <2>2 DEF StartBuild, LagInv, RecordLagsAlias, Past
  <1>2. CASE PinIdentity(p)
    BY <1>2, GotoRemembers DEF PinIdentity, LagInv, RecordLagsAlias, Past
  <1>3. ASSUME NEW d \in Docs, IngestDocument(p, d)
        PROVE LagInv'
    <2>1. \A q \in Operators : Remembered(q)'
      BY <1>3 DEF IngestDocument, TypeOK, Call, LagInv, Remembered, Past
    <2>. QED BY <1>3, <2>1 DEF IngestDocument, LagInv, RecordLagsAlias, Past
  <1>4. ASSUME NEW go \in BOOLEAN, FinishBuild(p, go)
        PROVE LagInv'
    BY <1>4, GotoRemembers, ReturnRemembers DEF FinishBuild, LagInv, RecordLagsAlias, Past
  <1>. QED BY <1>1, <1>2, <1>3, <1>4 DEF Build

\* Phase 1 moves the alias before phase 2 writes the record.
LEMMA LagPromote ==
  ASSUME TypeInv, LagInv, NEW p \in Operators, Promote(p)
  PROVE  LagInv'
  <1>. USE DEF TypeInv
  <1>1. ASSUME NEW b \in Builds, StartPromotion(p, b)
        PROVE LagInv'
    <2>1. \A q \in Operators \ {p} : Remembered(q)'
      BY <1>1, OthersRemember DEF StartPromotion, Start
    <2>2. Remembered(p)'
      BY <1>1 DEF StartPromotion, Start, TypeOK, Remembered, Idle, NoRecord, Past
    <2>. QED BY <1>1, <2>1, <2>2 DEF StartPromotion, LagInv, RecordLagsAlias, Past
  <1>2. CASE ReadIdentity(p)
    <2>1. \A q \in Operators : Remembered(q)'
      BY <1>2 DEF ReadIdentity, TypeOK, Call, LagInv, Remembered, Past
    <2>. QED BY <1>2, <2>1 DEF ReadIdentity, LagInv, RecordLagsAlias, Past
  <1>3. CASE EnsureRecord(p)
    <2>1. \A q \in Operators : Remembered(q)'
      BY <1>3 DEF EnsureRecord, TypeOK, Call, LagInv, RecordLagsAlias, Remembered, Past
    <2>2. RecordLagsAlias'
      BY <1>3 DEF EnsureRecord, LagInv, RecordLagsAlias, EmptyRecord, NoRecord
    <2>. QED BY <1>3, <2>1, <2>2 DEF EnsureRecord, LagInv, Past
  <1>4. CASE Validate(p)
    BY <1>4, GotoRemembers, ReturnRemembers DEF Validate, LagInv, RecordLagsAlias, Past
  <1>5. CASE CheckMarker(p)
    BY <1>5, GotoRemembers, ReturnRemembers DEF CheckMarker, LagInv, RecordLagsAlias, Past
  <1>6. CASE PromotePhase1(p)
    <2>1. CASE Goto(p, "phase2") /\ Retarget(op[p].b)
      <3>1. served' = served \cup {op[p].b} /\ alias' = op[p].b
        BY <2>1 DEF Retarget
      <3>2. \A q \in Operators : Remembered(q)'
        BY <2>1, <3>1, GotoRemembers
      <3>. QED BY <1>6, <3>1, <3>2 DEF PromotePhase1, LagInv, RecordLagsAlias, Past
    <2>2. CASE Return(p) /\ UNCHANGED <<alias, served>>
      BY <1>6, <2>2, ReturnRemembers DEF PromotePhase1, LagInv, RecordLagsAlias, Past
    <2>. QED BY <1>6, <2>1, <2>2 DEF PromotePhase1
  <1>7. CASE PromotePhase2(p)
    <2>1. \A q \in Operators : Remembered(q)'
      <3>1. CASE Return(p)
        BY <1>7, <3>1, ReturnRemembers DEF PromotePhase2
      <3>2. CASE ~Return(p)
        BY <1>7, <3>2
        DEF PromotePhase2, At, TypeOK, Call, LagInv, RecordLagsAlias, Remembered, Past
      <3>. QED BY <3>1, <3>2
    <2>. QED BY <1>7, <2>1 DEF PromotePhase2, LagInv, RecordLagsAlias, Past
  <1>8. CASE PromoteCommit(p)
    <2>1. op[p].b \in served /\ op[p].seen.collection \in Past
      BY <1>8 DEF PromoteCommit, At, LagInv, Remembered
    <2>2. op[p].b \in Builds /\ op[p].seen \in Record /\ op[p].identity \in MaybeIdentity
      BY <1>8 DEF PromoteCommit, At, Equipped, TypeOK, Call
    <2>3. record \in Record
      BY DEF TypeOK
    <2>4. RecordLagsAlias'
      BY <1>8, <2>1, <2>2, <2>3, PromotedType, FlushColumns
      DEF PromoteCommit, LagInv, RecordLagsAlias, Past
    <2>. QED BY <1>8, <2>4, ReturnRemembers DEF PromoteCommit, LagInv, Past
  <1>. QED BY <1>1, <1>2, <1>3, <1>4, <1>5, <1>6, <1>7, <1>8 DEF Promote

\* A rollback retargets the alias to the N-1 it read before it swaps the columns.
LEMMA LagRollback ==
  ASSUME TypeInv, LagInv, NEW p \in Operators, Rollback(p)
  PROVE  LagInv'
  <1>. USE DEF TypeInv
  <1>1. ASSUME NEW available \in SUBSET Identities, StartRollback(p, available)
        PROVE LagInv'
    <2>1. \A q \in Operators \ {p} : Remembered(q)'
      BY <1>1, OthersRemember DEF StartRollback, Start
    <2>2. Remembered(p)'
      BY <1>1 DEF StartRollback, Start, TypeOK, LagInv, RecordLagsAlias, Remembered, Idle, Past
    <2>. QED BY <1>1, <2>1, <2>2 DEF StartRollback, LagInv, RecordLagsAlias, Past
  <1>2. CASE RollbackPhase1(p)
    <2>1. CASE Goto(p, "rollback2") /\ Retarget(op[p].seen.previous)
      <3>1. served' = served \cup {op[p].seen.previous} /\ alias' = op[p].seen.previous
        BY <2>1 DEF Retarget
      <3>2. \A q \in Operators \ {p} : Remembered(q)'
        BY <2>1, <3>1, OthersRemember DEF Goto
      <3>3. Remembered(p)'
        BY <2>1, <3>1 DEF Goto, TypeOK, Call, LagInv, Remembered, Past
      <3>. QED BY <1>2, <3>1, <3>2, <3>3 DEF RollbackPhase1, LagInv, RecordLagsAlias, Past
    <2>2. CASE Return(p) /\ UNCHANGED <<alias, served>>
      BY <1>2, <2>2, ReturnRemembers DEF RollbackPhase1, LagInv, RecordLagsAlias, Past
    <2>. QED BY <1>2, <2>1, <2>2 DEF RollbackPhase1
  <1>3. CASE RollbackCommit(p)
    <2>1. op[p].seen.collection \in Past /\ op[p].seen.previous \in Past
      BY DEF LagInv, Remembered
    <2>2. op[p].seen \in Record /\ record \in Record
      BY DEF TypeOK, Call
    <2>3. RecordLagsAlias'
      BY <1>3, <2>1, <2>2, RolledBackType, FlushColumns
      DEF RollbackCommit, LagInv, RecordLagsAlias, Past
    <2>. QED BY <1>3, <2>3, ReturnRemembers DEF RollbackCommit, LagInv, Past
  <1>. QED BY <1>1, <1>2, <1>3 DEF Rollback

\* startup_reconcile copies what the alias resolved to into the record.
LEMMA LagReconcile ==
  ASSUME TypeInv, LagInv, NEW p \in Operators, Reconcile(p)
  PROVE  LagInv'
  <1>. USE DEF TypeInv
  <1>1. CASE StartReconcile(p)
    <2>1. \A q \in Operators \ {p} : Remembered(q)'
      BY <1>1, OthersRemember DEF StartReconcile, Start
    <2>2. Remembered(p)'
      BY <1>1 DEF StartReconcile, Start, TypeOK, LagInv, Remembered, Idle, NoRecord, Past
    <2>. QED BY <1>1, <2>1, <2>2 DEF StartReconcile, LagInv, RecordLagsAlias, Past
  <1>2. CASE ReconcileGet(p)
    <2>1. \A q \in Operators : Remembered(q)'
      <3>1. CASE Return(p)
        BY <1>2, <3>1, ReturnRemembers DEF ReconcileGet
      <3>2. CASE ~Return(p)
        BY <1>2, <3>2
        DEF ReconcileGet, At, TypeOK, Call, LagInv, RecordLagsAlias, Remembered, Past
      <3>. QED BY <3>1, <3>2
    <2>. QED BY <1>2, <2>1 DEF ReconcileGet, LagInv, RecordLagsAlias, Past
  <1>3. CASE ReconcileRepair(p)
    <2>1. op[p].b \in served /\ op[p].seen.collection \in Past
      BY <1>3 DEF ReconcileRepair, At, LagInv, Remembered
    <2>2. op[p].b \in Builds /\ op[p].seen \in Record /\ record \in Record
      BY <1>3 DEF ReconcileRepair, At, Equipped, TypeOK, Call
    <2>3. coll[op[p].b].identity \in MaybeIdentity
      BY <2>2 DEF TypeOK, StoreTypeOK, Collection, MaybeIdentity
    <2>4. RecordLagsAlias'
      BY <1>3, <2>1, <2>2, <2>3, PromotedType, FlushColumns
      DEF ReconcileRepair, Reconciled, LagInv, RecordLagsAlias, Past
    <2>. QED BY <1>3, <2>4, ReturnRemembers DEF ReconcileRepair, LagInv, Past
  <1>. QED BY <1>1, <1>2, <1>3 DEF Reconcile

\* Dropping a collection leaves the record and may only reset the alias.
LEMMA LagRetire ==
  ASSUME TypeInv, LagInv, NEW p \in Operators, Retire(p)
  PROVE  LagInv'
  <1>. USE DEF TypeInv
  <1>1. CASE StartRetire(p)
    <2>1. \A q \in Operators \ {p} : Remembered(q)'
      BY <1>1, OthersRemember DEF StartRetire, Start
    <2>2. Remembered(p)'
      BY <1>1 DEF StartRetire, Start, TypeOK, Remembered, Idle, NoRecord, Past
    <2>. QED BY <1>1, <2>1, <2>2 DEF StartRetire, LagInv, RecordLagsAlias, Past
  <1>2. CASE Drop(p)
    BY <1>2, ReturnRemembers DEF Drop, AliasAfterDrop, LagInv, RecordLagsAlias, Past
  <1>. QED BY <1>1, <1>2 DEF Retire

\* LagInv is inductive relative to type correctness.
LEMMA LagStep == TypeInv /\ LagInv /\ [Next]_vars => LagInv'
  <1>. SUFFICES ASSUME TypeInv, LagInv, [Next]_vars PROVE LagInv'
    OBVIOUS
  <1>1. CASE Next
    <2>. PICK p \in Operators :
           Build(p) \/ Promote(p) \/ Rollback(p) \/ Reconcile(p) \/ Retire(p) \/ Abort(p)
      BY <1>1 DEF Next
    <2>1. CASE Abort(p)
      BY <2>1, ReturnRemembers DEF Abort, TypeInv, LagInv, RecordLagsAlias, Past
    <2>. QED BY <2>1, LagBuild, LagPromote, LagRollback, LagReconcile, LagRetire
  <1>2. CASE UNCHANGED vars
    BY <1>2 DEF vars, LagInv, RecordLagsAlias, Past, Remembered
  <1>. QED BY <1>1, <1>2

\* Nothing is remembered before the first call.
LEMMA LagInit == Init => LagInv
  BY DEF Init, StoreInit, NoRecord, Idle, LagInv, RecordLagsAlias, Past, Remembered

\* The record never leads the vector store: whatever it names as current or as N-1
\* has been live, for any number of concurrent operators and of crashes between the
\* two phases.
THEOREM RecordNeverLeads == Spec => []RecordLagsAlias
  <1>1. LagInv => RecordLagsAlias
    BY DEF LagInv
  <1>. QED BY <1>1, LagInit, TypeInit, TypeStep, LagStep, PTL DEF Spec

-----------------------------------------------------------------------------
(***************************************************************************)
(* One caller at a time.  The code takes no lock, and with two callers the *)
(* columns of the row may be mixed (RecordIdentityAgrees fails); but for   *)
(* one caller that dies anywhere, retries, rolls back and reconciles in    *)
(* any order, the row stays consistent and the swap is atomic.             *)
(***************************************************************************)
OneCaller == \A p, q \in Operators : p = q

\* What holds between the steps of the call: the row is as the session read it,
\* the alias is where phase 1 put it.
InStep(p) ==
  /\ op[p].pc \in {"validate", "marker", "phase1", "phase2"} =>
       /\ record.there
       /\ op[p].seen = record \/ (~op[p].seen.there /\ record = EmptyRecord)
  /\ op[p].pc \in {"commit2", "rollback1", "rollback2", "reconcile_repair"} =>
       record.there /\ op[p].seen = record
  /\ op[p].pc \in {"phase2", "commit2", "reconcile_get", "reconcile_repair"} => alias = op[p].b
  /\ op[p].pc \in {"commit2", "reconcile_repair"} => record.collection # op[p].b
  /\ op[p].pc = "rollback2" => alias = record.previous
  /\ op[p].pc \in {"rollback1", "rollback2"} => record.previous # None

RowInv ==
  /\ ~record.there => record = NoRecord
  /\ alias # None => record.there
  /\ StandbyIsAnother

AloneInv == RowInv /\ \A p \in Operators : InStep(p)

\* A row written from the row the session read is the new row in every column.
LEMMA FlushAlone ==
  ASSUME record \in Record, NEW new \in Record, new.there
  PROVE  Flush(record, new) = new
  BY DEF Record, Flush, Column

\* One caller: the row stays consistent and follows the alias, whatever the caller
\* does next and wherever it dies.
LEMMA AloneStep == OneCaller /\ TypeInv /\ AloneInv /\ [Next]_vars => AloneInv'
  <1> SUFFICES ASSUME OneCaller, TypeInv, AloneInv, [Next]_vars PROVE AloneInv'
    OBVIOUS
  <1>1. CASE UNCHANGED vars
    BY <1>1 DEF vars, AloneInv, RowInv, StandbyIsAnother, InStep
  <1>2. CASE Next
    <2> PICK p \in Operators :
          Build(p) \/ Promote(p) \/ Rollback(p) \/ Reconcile(p) \/ Retire(p) \/ Abort(p)
      BY <1>2 DEF Next
    <2>0. /\ op \in [Operators -> Call] /\ op[p] \in Call /\ record \in Record
          /\ coll \in [Builds -> Collection] /\ alias \in MaybeBuild
          /\ Equipped(p) /\ InStep(p) /\ RowInv
      BY DEF TypeInv, TypeOK, StoreTypeOK, AloneInv, MaybeBuild
    <2> SUFFICES RowInv' /\ InStep(p)'
      BY DEF OneCaller, AloneInv
    <2>r. ASSUME Return(p) PROVE InStep(p)'
      BY <2>0, <2>r DEF Return, Idle, InStep
    <2>1. CASE Build(p)
      <3>1. record' = record /\ alias' = alias
        BY <2>1 DEF Build, StartBuild, PinIdentity, IngestDocument, FinishBuild
      <3>2. op'[p].pc \in {"idle", "pin", "ingest", "read_identity"}
        <4>1. ASSUME NEW b \in Builds, NEW m \in Identities, NEW batch \in SUBSET Docs,
                     StartBuild(p, b, m, batch)
              PROVE  op'[p].pc \in {"pin", "ingest"}
          BY <2>0, <4>1 DEF StartBuild, Start, Idle
        <4>2. CASE PinIdentity(p) BY <2>0, <4>2 DEF PinIdentity, Goto, Call
        <4>3. ASSUME NEW d \in Docs, IngestDocument(p, d) PROVE op'[p].pc = "ingest"
          BY <2>0, <4>3 DEF IngestDocument, At, Call
        <4>4. ASSUME NEW go \in BOOLEAN, FinishBuild(p, go)
              PROVE  op'[p].pc \in {"read_identity", "idle"}
          BY <2>0, <4>4 DEF FinishBuild, Goto, Return, Idle, Call
        <4> QED BY <2>1, <4>1, <4>2, <4>3, <4>4 DEF Build
      <3> QED BY <2>0, <3>1, <3>2 DEF RowInv, StandbyIsAnother, InStep
    <2>2. CASE Promote(p)
      <3>1. ASSUME NEW b \in Builds, StartPromotion(p, b) PROVE RowInv' /\ InStep(p)'
        <4>1. record' = record /\ alias' = alias BY <3>1 DEF StartPromotion
        <4>2. op'[p].pc = "read_identity" BY <2>0, <3>1 DEF StartPromotion, Start, Idle
        <4> QED BY <2>0, <4>1, <4>2 DEF RowInv, StandbyIsAnother, InStep
      <3>2. CASE ReadIdentity(p)
        <4>1. record' = record /\ alias' = alias BY <3>2 DEF ReadIdentity
        <4>2. op'[p].pc = "get_record" BY <2>0, <3>2 DEF ReadIdentity, Call
        <4> QED BY <2>0, <4>1, <4>2 DEF RowInv, StandbyIsAnother, InStep
      <3>3. CASE EnsureRecord(p)
        <4>1. record' = (IF record.there THEN record ELSE EmptyRecord) /\ alias' = alias
          BY <3>3 DEF EnsureRecord
        <4>2. op'[p].pc = "validate" /\ op'[p].seen = record BY <2>0, <3>3 DEF EnsureRecord, Call
        <4>3. EmptyRecord.there /\ EmptyRecord.previous = None BY DEF EmptyRecord, NoRecord
        <4> QED BY <2>0, <4>1, <4>2, <4>3 DEF RowInv, StandbyIsAnother, InStep
      <3>4. CASE Validate(p) \/ CheckMarker(p)
        <4>1. record' = record /\ alias' = alias BY <3>4 DEF Validate, CheckMarker
        <4>2. CASE Return(p) BY <2>0, <2>r, <4>1, <4>2 DEF RowInv, StandbyIsAnother
        <4>3. CASE ~Return(p)
          <5>1. /\ op'[p].pc \in {"marker", "phase1"} /\ op'[p].seen = op[p].seen
                /\ op[p].pc \in {"validate", "marker"}
            BY <2>0, <3>4, <4>3 DEF Validate, CheckMarker, At, Goto, Call
          <5> QED BY <2>0, <4>1, <5>1 DEF RowInv, StandbyIsAnother, InStep
        <4> QED BY <4>2, <4>3
      <3>5. CASE PromotePhase1(p)
        <4>1. record' = record /\ op[p].pc = "phase1" BY <3>5 DEF PromotePhase1, At
        <4>2. CASE Return(p) /\ UNCHANGED <<alias, served>>
          BY <2>0, <2>r, <4>1, <4>2 DEF RowInv, StandbyIsAnother
        <4>3. CASE Goto(p, "phase2") /\ Retarget(op[p].b)
          <5>1. op'[p].pc = "phase2" /\ op'[p].seen = op[p].seen /\ op'[p].b = op[p].b
            BY <2>0, <4>3 DEF Goto, Call
          <5>2. alias' = op[p].b BY <4>3 DEF Retarget
          <5> QED BY <2>0, <4>1, <5>1, <5>2 DEF RowInv, StandbyIsAnother, InStep
        <4> QED BY <3>5, <4>2, <4>3 DEF PromotePhase1
      <3>6. CASE PromotePhase2(p)
        <4>1. record' = record /\ alias' = alias /\ op[p].pc = "phase2"
          BY <3>6 DEF PromotePhase2, At
        <4>2. CASE Return(p) BY <2>0, <2>r, <4>1, <4>2 DEF RowInv, StandbyIsAnother
        <4>3. CASE ~Return(p)
          <5> DEFINE existing == IF op[p].seen.there THEN op[p].seen ELSE record
          <5>1. existing = record BY <2>0, <4>1 DEF InStep
          <5>2. /\ op'[p].pc = "commit2" /\ op'[p].seen = existing /\ op'[p].b = op[p].b
                /\ ~(existing.there /\ existing.collection = op[p].b)
            BY <2>0, <3>6, <4>3 DEF PromotePhase2, Call
          <5> QED BY <2>0, <4>1, <5>1, <5>2 DEF RowInv, StandbyIsAnother, InStep
        <4> QED BY <4>2, <4>3
      <3>7. CASE PromoteCommit(p)
        <4>1. /\ alias' = alias /\ op[p].seen = record /\ record.collection # op[p].b
              /\ op[p].b \in Builds /\ op[p].identity \in MaybeIdentity
          BY <2>0, <3>7 DEF PromoteCommit, At, InStep, Equipped, Call
        <4>2. record' = Promoted(record, op[p].b, op[p].identity)
          BY <2>0, <3>7, <4>1, PromotedType, FlushAlone DEF PromoteCommit, Promoted
        <4>3. RowInv'
          BY <2>0, <4>1, <4>2 DEF RowInv, StandbyIsAnother, Promoted
        <4> QED BY <2>r, <3>7, <4>3 DEF PromoteCommit
      <3> QED BY <2>2, <3>1, <3>2, <3>3, <3>4, <3>5, <3>6, <3>7 DEF Promote
    <2>3. CASE Rollback(p)
      <3>1. ASSUME NEW available \in SUBSET Identities, StartRollback(p, available)
            PROVE  RowInv' /\ InStep(p)'
        <4>1. record' = record /\ alias' = alias /\ record.there /\ record.previous # None
          BY <3>1 DEF StartRollback
        <4>2. op'[p].pc = "rollback1" /\ op'[p].seen = record
          BY <2>0, <3>1 DEF StartRollback, Start, Idle
        <4> QED BY <2>0, <4>1, <4>2 DEF RowInv, StandbyIsAnother, InStep
      <3>2. CASE RollbackPhase1(p)
        <4>1. record' = record /\ op[p].pc = "rollback1" BY <3>2 DEF RollbackPhase1, At
        <4>2. CASE Return(p) /\ UNCHANGED <<alias, served>>
          BY <2>0, <2>r, <4>1, <4>2 DEF RowInv, StandbyIsAnother
        <4>3. CASE Goto(p, "rollback2") /\ Retarget(op[p].seen.previous)
          <5>1. op'[p].pc = "rollback2" /\ op'[p].seen = op[p].seen
            BY <2>0, <4>3 DEF Goto, Call
          <5>2. alias' = op[p].seen.previous BY <4>3 DEF Retarget
          <5> QED BY <2>0, <4>1, <5>1, <5>2 DEF RowInv, StandbyIsAnother, InStep
        <4> QED BY <3>2, <4>2, <4>3 DEF RollbackPhase1
      <3>3. CASE RollbackCommit(p)
        <4>1. alias' = alias /\ op[p].seen = record
          BY <2>0, <3>3 DEF RollbackCommit, At, InStep
        <4>2. record' = RolledBack(record)
          BY <2>0, <3>3, <4>1, RolledBackType, FlushAlone DEF RollbackCommit, RolledBack
        <4>3. RowInv' BY <2>0, <4>1, <4>2 DEF RowInv, StandbyIsAnother, RolledBack
        <4> QED BY <2>r, <3>3, <4>3 DEF RollbackCommit
      <3> QED BY <2>3, <3>1, <3>2, <3>3 DEF Rollback
    <2>4. CASE Reconcile(p)
      <3>1. CASE StartReconcile(p)
        <4>1. record' = record /\ alias' = alias BY <3>1 DEF StartReconcile
        <4>2. op'[p].pc = "reconcile_get" /\ op'[p].b = alias
          BY <2>0, <3>1 DEF StartReconcile, Start, Idle
        <4> QED BY <2>0, <4>1, <4>2 DEF RowInv, StandbyIsAnother, InStep
      <3>2. CASE ReconcileGet(p)
        <4>1. record' = record /\ alias' = alias /\ op[p].pc = "reconcile_get"
          BY <3>2 DEF ReconcileGet, At
        <4>2. CASE Return(p) BY <2>0, <2>r, <4>1, <4>2 DEF RowInv, StandbyIsAnother
        <4>3. CASE ~Return(p)
          <5>1. /\ op'[p].pc = "reconcile_repair" /\ op'[p].seen = record /\ op'[p].b = op[p].b
                /\ record.there /\ record.collection # op[p].b
            BY <2>0, <3>2, <4>3 DEF ReconcileGet, Call
          <5> QED BY <2>0, <4>1, <5>1 DEF RowInv, StandbyIsAnother, InStep
        <4> QED BY <4>2, <4>3
      <3>3. CASE ReconcileRepair(p)
        <4>1. /\ alias' = alias /\ op[p].seen = record /\ record.collection # op[p].b
              /\ op[p].b \in Builds
          BY <2>0, <3>3 DEF ReconcileRepair, At, InStep, Equipped
        <4>2. coll[op[p].b].identity \in MaybeIdentity
          BY <2>0, <4>1 DEF Collection, MaybeIdentity
        <4>3. record' = Promoted(record, op[p].b, coll[op[p].b].identity)
          BY <2>0, <3>3, <4>1, <4>2, PromotedType, FlushAlone
          DEF ReconcileRepair, Reconciled, Promoted
        <4>4. RowInv' BY <2>0, <4>1, <4>3 DEF RowInv, StandbyIsAnother, Promoted
        <4> QED BY <2>r, <3>3, <4>4 DEF ReconcileRepair
      <3> QED BY <2>4, <3>1, <3>2, <3>3 DEF Reconcile
    <2>5. CASE Retire(p)
      <3>1. CASE StartRetire(p)
        <4>1. record' = record /\ alias' = alias BY <3>1 DEF StartRetire
        <4>2. op'[p].pc = "drop" BY <2>0, <3>1 DEF StartRetire, Start, Idle
        <4> QED BY <2>0, <4>1, <4>2 DEF RowInv, StandbyIsAnother, InStep
      <3>2. CASE Drop(p)
        BY <2>0, <2>r, <3>2 DEF Drop, AliasAfterDrop, RowInv, StandbyIsAnother
      <3> QED BY <2>5, <3>1, <3>2 DEF Retire
    <2>6. CASE Abort(p)
      BY <2>0, <2>r, <2>6 DEF Abort, RowInv, StandbyIsAnother
    <2> QED BY <2>1, <2>2, <2>3, <2>4, <2>5, <2>6
  <1> QED BY <1>1, <1>2

\* It holds before the first call.
LEMMA AloneInit == Init => AloneInv
  BY DEF Init, StoreInit, Idle, NoRecord, AloneInv, RowInv, StandbyIsAnother, InStep

\* With one caller the standby is always another collection than the current one, so
\* a rollback changes what is served, whatever swaps were torn before it.
THEOREM StandbyDiffers ==
  ASSUME OneCaller
  PROVE  Spec => []StandbyIsAnother
  <1>1. AloneInv => StandbyIsAnother BY DEF AloneInv, RowInv
  <1> QED BY <1>1, TypeInit, TypeStep, AloneInit, AloneStep, PTL DEF Spec

\* With one caller every commit of a second phase leaves the row naming what the alias
\* resolves to, also when it repairs or retries after one that stopped half way.
THEOREM SwapsComplete ==
  ASSUME OneCaller
  PROVE  Spec => CompletedSwapAgrees
  <1> DEFINE Agrees == \A p \in Operators :
               /\ op[p].pc \in {"commit2", "rollback2", "reconcile_repair"}
               /\ record' # record
               => record'.collection = alias'
  <1>1. TypeInv /\ AloneInv /\ [Next]_vars => [Agrees]_vars
    <2> SUFFICES ASSUME TypeInv, AloneInv, Next, NEW q \in Operators,
                        op[q].pc \in {"commit2", "rollback2", "reconcile_repair"},
                        record' # record
                 PROVE  record'.collection = alias'
      OBVIOUS
    <2> PICK p \in Operators :
          Build(p) \/ Promote(p) \/ Rollback(p) \/ Reconcile(p) \/ Retire(p) \/ Abort(p)
      BY DEF Next
    <2>0. /\ q = p /\ record \in Record /\ op[p] \in Call /\ InStep(p) /\ Equipped(p)
          /\ coll \in [Builds -> Collection]
      BY DEF OneCaller, TypeInv, TypeOK, StoreTypeOK, AloneInv
    <2>1. CASE PromoteCommit(p)
      <3>1. /\ alias' = alias /\ op[p].seen = record /\ op[p].b \in Builds /\ alias = op[p].b
            /\ op[p].identity \in MaybeIdentity
        BY <2>0, <2>1 DEF PromoteCommit, At, InStep, Equipped, Call
      <3> QED BY <2>0, <2>1, <3>1, PromotedType, FlushAlone DEF PromoteCommit, Promoted
    <2>2. CASE RollbackCommit(p)
      <3>1. alias' = alias /\ op[p].seen = record /\ alias = record.previous
        BY <2>0, <2>2 DEF RollbackCommit, At, InStep
      <3> QED BY <2>0, <2>2, <3>1, RolledBackType, FlushAlone DEF RollbackCommit, RolledBack
    <2>3. CASE ReconcileRepair(p)
      <3>1. alias' = alias /\ op[p].seen = record /\ op[p].b \in Builds /\ alias = op[p].b
        BY <2>0, <2>3 DEF ReconcileRepair, At, InStep, Equipped
      <3>2. coll[op[p].b].identity \in MaybeIdentity
        BY <2>0, <3>1 DEF Collection, MaybeIdentity
      <3> QED BY <2>0, <2>3, <3>1, <3>2, PromotedType, FlushAlone
          DEF ReconcileRepair, Reconciled, Promoted
    <2>4. ~EnsureRecord(p) BY <2>0 DEF EnsureRecord, At
    <2> QED BY ZenonT(60), <2>1, <2>2, <2>3, <2>4
        DEF Build, StartBuild, PinIdentity, IngestDocument, FinishBuild, Promote, StartPromotion,
            ReadIdentity, Validate, CheckMarker, PromotePhase1, PromotePhase2, Rollback,
            StartRollback, RollbackPhase1, Reconcile, StartReconcile, ReconcileGet, Retire,
            StartRetire, Drop, Abort
  <1>2. Spec => [](TypeInv /\ AloneInv)
    BY TypeInit, TypeStep, AloneInit, AloneStep, PTL DEF Spec
  <1>3. Spec => [][Agrees]_vars BY <1>1, <1>2, PTL DEF Spec
  <1> QED BY <1>3 DEF CompletedSwapAgrees

\* The identities the row keeps are pinned on collections that were served; a run pins
\* only collections that were not, and no served collection is dropped.
IdentityInv ==
  /\ RecordIdentityAgrees
  /\ \A p \in Operators :
       /\ op[p].pc = "pin" => op[p].b \notin served
       /\ op[p].pc # "drop"
       /\ op[p].pc \in {"get_record", "validate", "marker", "phase1", "phase2", "commit2"} =>
            op[p].identity = coll[op[p].b].identity

\* What a step that keeps the row and the identities of served collections leaves true.
LEMMA IdentitiesStay ==
  ASSUME OneCaller, TypeInv, LagInv, IdentityInv, NEW p \in Operators,
         op' \in [Operators -> Call], UNCHANGED record, served \subseteq served',
         \A b \in served : coll'[b].identity = coll[b].identity,
         op'[p].pc = "pin" => op'[p].b \notin served',
         op'[p].pc # "drop",
         op'[p].pc \in {"get_record", "validate", "marker", "phase1", "phase2", "commit2"} =>
           op'[p].identity = coll'[op'[p].b].identity
  PROVE  IdentityInv'
  <1>1. record.collection \in served \cup {None} /\ record.previous \in served \cup {None}
    BY DEF LagInv, RecordLagsAlias
  <1>2. RecordIdentityAgrees' BY <1>1 DEF IdentityInv, RecordIdentityAgrees
  <1> QED BY <1>2 DEF IdentityInv, OneCaller

\* With one caller that keeps the rules the identities agree through every step.
LEMMA IdentityStep ==
  ASSUME OneCaller, Keeps("fresh_builds"), Keeps("keep_standby"),
         TypeInv, LagInv, AloneInv, IdentityInv, [Next]_vars, TypeInv'
  PROVE  IdentityInv'
  <1>1. CASE UNCHANGED vars
    BY <1>1 DEF vars, IdentityInv, RecordIdentityAgrees
  <1>2. CASE Next
    <2> PICK p \in Operators :
          Build(p) \/ Promote(p) \/ Rollback(p) \/ Reconcile(p) \/ Retire(p) \/ Abort(p)
      BY <1>2 DEF Next
    <2>0. /\ op \in [Operators -> Call] /\ op[p] \in Call /\ record \in Record
          /\ coll \in [Builds -> Collection] /\ alias \in MaybeBuild /\ served \subseteq Builds
          /\ op' \in [Operators -> Call]
          /\ Equipped(p) /\ InStep(p) /\ RowInv
          /\ op[p].pc = "pin" => op[p].b \notin served
          /\ op[p].pc \in {"get_record", "validate", "marker", "phase1", "phase2", "commit2"} =>
               op[p].identity = coll[op[p].b].identity
      BY DEF TypeInv, TypeOK, StoreTypeOK, AloneInv, MaybeBuild, IdentityInv
    <2>r. ASSUME Return(p), UNCHANGED <<coll, record>>, served \subseteq served'
          PROVE  IdentityInv'
      <3>1. op'[p].pc = "idle" BY <2>0, <2>r DEF Return, Idle
      <3> QED BY <2>0, <2>r, <3>1, IdentitiesStay
    <2>c. ASSUME Return(p), UNCHANGED <<coll, served>>, RecordIdentityAgrees' PROVE IdentityInv'
      <3>1. op'[p].pc = "idle" BY <2>0, <2>c DEF Return, Idle
      <3> QED BY <2>0, <2>c, <3>1 DEF OneCaller, IdentityInv
    <2>g. ASSUME op'[p].identity = op[p].identity, op'[p].b = op[p].b,
                 UNCHANGED <<coll, record>>, served \subseteq served',
                 op[p].pc \in {"get_record", "validate", "marker", "phase1", "phase2"},
                 op'[p].pc \in {"validate", "marker", "phase1", "phase2", "commit2"}
          PROVE  IdentityInv'
      BY <2>0, <2>g, IdentitiesStay
    <2>1. CASE Build(p)
      <3>1. ASSUME NEW b \in Builds, NEW m \in Identities, NEW batch \in SUBSET Docs,
                   StartBuild(p, b, m, batch)
            PROVE  IdentityInv'
        <4>1. op'[p].pc \in {"pin", "ingest"} /\ op'[p].b = b
          BY <2>0, <3>1 DEF StartBuild, Start, Idle
        <4>2. b \notin served /\ record' = record /\ served' = served BY <3>1 DEF StartBuild
        <4>3. \A c \in served : coll'[c].identity = coll[c].identity
          BY <2>0, <3>1, <4>2 DEF StartBuild, Created
        <4> QED BY <2>0, <4>1, <4>2, <4>3, IdentitiesStay
      <3>2. CASE PinIdentity(p)
        <4>1. op'[p].pc = "ingest" BY <2>0, <3>2 DEF PinIdentity, Goto, Call
        <4>2. record' = record /\ served' = served /\ op[p].b \notin served
          BY <2>0, <3>2 DEF PinIdentity, At
        <4>3. \A c \in served : coll'[c].identity = coll[c].identity
          BY <2>0, <3>2, <4>2 DEF PinIdentity, IdentitySet
        <4> QED BY <2>0, <4>1, <4>2, <4>3, IdentitiesStay
      <3>3. ASSUME NEW d \in Docs, IngestDocument(p, d) PROVE IdentityInv'
        <4>1. op'[p].pc = "ingest" BY <2>0, <3>3 DEF IngestDocument, At, Call
        <4>2. record' = record /\ served' = served BY <3>3 DEF IngestDocument
        <4>3. \A c \in served : coll'[c].identity = coll[c].identity
          BY <2>0, <3>3 DEF IngestDocument, Upserted, Collection
        <4> QED BY <2>0, <4>1, <4>2, <4>3, IdentitiesStay
      <3>4. ASSUME NEW go \in BOOLEAN, FinishBuild(p, go) PROVE IdentityInv'
        <4>1. op'[p].pc \in {"read_identity", "idle"}
          BY <2>0, <3>4 DEF FinishBuild, Goto, Return, Idle, Call
        <4>2. record' = record /\ served' = served /\ coll' = coll BY <3>4 DEF FinishBuild
        <4> QED BY <2>0, <4>1, <4>2, IdentitiesStay
      <3> QED BY <2>1, <3>1, <3>2, <3>3, <3>4 DEF Build
    <2>2. CASE Promote(p)
      <3>1. ASSUME NEW b \in Builds, StartPromotion(p, b) PROVE IdentityInv'
        <4>1. op'[p].pc = "read_identity" BY <2>0, <3>1 DEF StartPromotion, Start, Idle
        <4>2. record' = record /\ served' = served /\ coll' = coll BY <3>1 DEF StartPromotion
        <4> QED BY <2>0, <4>1, <4>2, IdentitiesStay
      <3>2. CASE ReadIdentity(p)
        <4>1. /\ op'[p].pc = "get_record" /\ op'[p].b = op[p].b
              /\ op'[p].identity = coll[op[p].b].identity
          BY <2>0, <3>2 DEF ReadIdentity, Call
        <4>2. record' = record /\ served' = served /\ coll' = coll BY <3>2 DEF ReadIdentity
        <4> QED BY <2>0, <4>1, <4>2, IdentitiesStay
      <3>3. CASE EnsureRecord(p)
        <4>1. /\ op'[p].pc = "validate" /\ op'[p].b = op[p].b /\ op'[p].identity = op[p].identity
              /\ op[p].pc = "get_record"
          BY <2>0, <3>3 DEF EnsureRecord, At, Call
        <4>2. served' = served /\ coll' = coll BY <3>3 DEF EnsureRecord
        <4>3. RecordIdentityAgrees'
          BY <3>3 DEF EnsureRecord, EmptyRecord, NoRecord, IdentityInv, RecordIdentityAgrees
        <4> QED BY <2>0, <4>1, <4>2, <4>3 DEF OneCaller, IdentityInv
      <3>4. CASE Validate(p) \/ CheckMarker(p)
        <4>1. /\ record' = record /\ served' = served /\ coll' = coll
              /\ op[p].pc \in {"validate", "marker"}
          BY <3>4 DEF Validate, CheckMarker, At
        <4>2. CASE Return(p) BY <2>r, <4>1, <4>2
        <4>3. CASE ~Return(p)
          <5>1. /\ op'[p].pc \in {"marker", "phase1"} /\ op'[p].b = op[p].b
                /\ op'[p].identity = op[p].identity
            BY <2>0, <3>4, <4>3 DEF Validate, CheckMarker, Goto, Call
          <5> QED BY <2>g, <4>1, <5>1
        <4> QED BY <4>2, <4>3
      <3>5. CASE PromotePhase1(p)
        <4>1. record' = record /\ coll' = coll /\ op[p].pc = "phase1"
          BY <3>5 DEF PromotePhase1, At
        <4>2. CASE Return(p) /\ UNCHANGED <<alias, served>> BY <2>r, <4>1, <4>2
        <4>3. CASE Goto(p, "phase2") /\ Retarget(op[p].b)
          <5>1. op'[p].pc = "phase2" /\ op'[p].b = op[p].b /\ op'[p].identity = op[p].identity
            BY <2>0, <4>3 DEF Goto, Call
          <5>2. served \subseteq served' BY <4>3 DEF Retarget
          <5> QED BY <2>g, <4>1, <5>1, <5>2
        <4> QED BY <3>5, <4>2, <4>3 DEF PromotePhase1
      <3>6. CASE PromotePhase2(p)
        <4>1. record' = record /\ coll' = coll /\ served' = served /\ op[p].pc = "phase2"
          BY <3>6 DEF PromotePhase2, At
        <4>2. CASE Return(p) BY <2>r, <4>1, <4>2
        <4>3. CASE ~Return(p)
          <5>1. op'[p].pc = "commit2" /\ op'[p].b = op[p].b /\ op'[p].identity = op[p].identity
            BY <2>0, <3>6, <4>3 DEF PromotePhase2, Call
          <5> QED BY <2>g, <4>1, <5>1
        <4> QED BY <4>2, <4>3
      <3>7. CASE PromoteCommit(p)
        <4>1. /\ coll' = coll /\ served' = served /\ op[p].seen = record
              /\ op[p].b \in Builds /\ op[p].identity \in MaybeIdentity
              /\ op[p].identity = coll[op[p].b].identity
          BY <2>0, <3>7 DEF PromoteCommit, At, InStep, Equipped, Call
        <4>2. record' = Promoted(record, op[p].b, op[p].identity)
          BY <2>0, <3>7, <4>1, PromotedType, FlushAlone DEF PromoteCommit, Promoted
        <4>3. RecordIdentityAgrees'
          BY <4>1, <4>2 DEF Promoted, IdentityInv, RecordIdentityAgrees
        <4> QED BY <2>c, <3>7, <4>1, <4>3 DEF PromoteCommit
      <3> QED BY <2>2, <3>1, <3>2, <3>3, <3>4, <3>5, <3>6, <3>7 DEF Promote
    <2>3. CASE Rollback(p)
      <3>1. ASSUME NEW available \in SUBSET Identities, StartRollback(p, available)
            PROVE  IdentityInv'
        <4>1. op'[p].pc = "rollback1" BY <2>0, <3>1 DEF StartRollback, Start, Idle
        <4>2. record' = record /\ served' = served /\ coll' = coll BY <3>1 DEF StartRollback
        <4> QED BY <2>0, <4>1, <4>2, IdentitiesStay
      <3>2. CASE RollbackPhase1(p)
        <4>1. record' = record /\ coll' = coll BY <3>2 DEF RollbackPhase1
        <4>2. CASE Return(p) /\ UNCHANGED <<alias, served>> BY <2>r, <4>1, <4>2
        <4>3. CASE Goto(p, "rollback2") /\ Retarget(op[p].seen.previous)
          <5>1. op'[p].pc = "rollback2" BY <2>0, <4>3 DEF Goto, Call
          <5>2. served \subseteq served' BY <4>3 DEF Retarget
          <5> QED BY <2>0, <4>1, <5>1, <5>2, IdentitiesStay
        <4> QED BY <3>2, <4>2, <4>3 DEF RollbackPhase1
      <3>3. CASE RollbackCommit(p)
        <4>1. coll' = coll /\ served' = served /\ op[p].seen = record /\ record.previous # None
          BY <2>0, <3>3 DEF RollbackCommit, At, InStep
        <4>2. record' = RolledBack(record)
          BY <2>0, <3>3, <4>1, RolledBackType, FlushAlone DEF RollbackCommit, RolledBack
        <4>3. RecordIdentityAgrees'
          BY <4>1, <4>2 DEF RolledBack, IdentityInv, RecordIdentityAgrees
        <4> QED BY <2>c, <3>3, <4>1, <4>3 DEF RollbackCommit
      <3> QED BY <2>3, <3>1, <3>2, <3>3 DEF Rollback
    <2>4. CASE Reconcile(p)
      <3>1. CASE StartReconcile(p)
        <4>1. op'[p].pc = "reconcile_get" BY <2>0, <3>1 DEF StartReconcile, Start, Idle
        <4>2. record' = record /\ served' = served /\ coll' = coll BY <3>1 DEF StartReconcile
        <4> QED BY <2>0, <4>1, <4>2, IdentitiesStay
      <3>2. CASE ReconcileGet(p)
        <4>1. record' = record /\ coll' = coll /\ served' = served BY <3>2 DEF ReconcileGet
        <4>2. CASE Return(p) BY <2>r, <4>1, <4>2
        <4>3. CASE ~Return(p)
          <5>1. op'[p].pc = "reconcile_repair" BY <2>0, <3>2, <4>3 DEF ReconcileGet, Call
          <5> QED BY <2>0, <4>1, <5>1, IdentitiesStay
        <4> QED BY <4>2, <4>3
      <3>3. CASE ReconcileRepair(p)
        <4>1. coll' = coll /\ served' = served /\ op[p].seen = record /\ op[p].b \in Builds
          BY <2>0, <3>3 DEF ReconcileRepair, At, InStep, Equipped
        <4>2. coll[op[p].b].identity \in MaybeIdentity
          BY <2>0, <4>1 DEF Collection, MaybeIdentity
        <4>3. record' = Promoted(record, op[p].b, coll[op[p].b].identity)
          BY <2>0, <3>3, <4>1, <4>2, PromotedType, FlushAlone
          DEF ReconcileRepair, Reconciled, Promoted
        <4>4. RecordIdentityAgrees'
          BY <4>1, <4>3 DEF Promoted, IdentityInv, RecordIdentityAgrees
        <4> QED BY <2>c, <3>3, <4>1, <4>4 DEF ReconcileRepair
      <3> QED BY <2>4, <3>1, <3>2, <3>3 DEF Reconcile
    <2>5. ~Retire(p) BY DEF Retire, StartRetire, Drop, At, IdentityInv
    <2>6. CASE Abort(p) BY <2>r, <2>6 DEF Abort
    <2> QED BY <2>1, <2>2, <2>3, <2>4, <2>5, <2>6
  <1> QED BY <1>1, <1>2

\* The identities in the row, current and N-1, are those pinned on the collections it
\* names: for one caller that builds under fresh ids and keeps the standby.
THEOREM IdentitiesAgree ==
  ASSUME OneCaller, Keeps("fresh_builds"), Keeps("keep_standby")
  PROVE  Spec => []RecordIdentityAgrees
  <1> DEFINE Inv == TypeInv /\ LagInv /\ AloneInv /\ IdentityInv
  <1>1. Init => Inv
    <2>1. Init => IdentityInv
      BY DEF Init, StoreInit, Idle, NoRecord, IdentityInv, RecordIdentityAgrees
    <2> QED BY <2>1, TypeInit, LagInit, AloneInit
  <1>2. Inv /\ [Next]_vars => Inv'
    BY TypeStep, LagStep, AloneStep, IdentityStep
  <1>3. Inv => RecordIdentityAgrees BY DEF IdentityInv
  <1> HIDE DEF Inv
  <1> QED BY <1>1, <1>2, <1>3, PTL DEF Spec

-----------------------------------------------------------------------------
(***************************************************************************)
(* The two-phase swap implements the atomic one (AtomicAlias), if a torn   *)
(* swap is repaired or retried before another call starts.                 *)
(***************************************************************************)
\* The standby behind the alias, as the refinement mapping of Atomic has it.
Standby == IF alias = record.collection THEN record.previous ELSE record.collection

\* A call that will move the alias started while the row agreed with it, or
\* promotes what the alias resolves to already.
Repaired(p) ==
  /\ op[p].pc \in {"pin", "ingest", "read_identity", "get_record", "validate", "marker",
                   "phase1"} => Consistent \/ alias = op[p].b
  /\ op[p].pc = "rollback1" => Consistent
  /\ op[p].pc = "drop" => Consistent /\ op[p].b = record.previous /\ op[p].b # None

RepairedInv == \A p \in Operators : Repaired(p)

\* A step that is no swap and no commit leaves alias and standby alone; the new call
\* was repaired if the old one was, or if it starts repaired.
LEMMA StillRepaired ==
  ASSUME OneCaller, RepairedInv, NEW p \in Operators, UNCHANGED <<alias, record>>,
         op'[p].pc \in {"pin", "ingest", "read_identity", "get_record", "validate", "marker",
                        "phase1"} => (Consistent \/ alias = op'[p].b),
         op'[p].pc = "rollback1" => Consistent,
         op'[p].pc # "drop"
  PROVE  RepairedInv' /\ UNCHANGED <<alias, Standby>>
  BY DEF OneCaller, RepairedInv, Repaired, Consistent, Standby

\* A call that ends leaves nothing to repair of its own.
LEMMA EndsRepaired ==
  ASSUME OneCaller, TypeInv, NEW p \in Operators, Return(p)
  PROVE  RepairedInv'
  BY DEF TypeInv, TypeOK, Return, Idle, OneCaller, RepairedInv, Repaired

\* Every step of one caller that reconciles first is a step of the atomic swap, or
\* leaves alias and standby as they are.
LEMMA SwapStep ==
  ASSUME OneCaller, Keeps("reconcile_first"), TypeInv, AloneInv, RepairedInv, [Next]_vars
  PROVE  RepairedInv' /\ [Atomic!Next]_<<alias, Standby>>
  <1>1. CASE UNCHANGED vars
    BY <1>1 DEF vars, RepairedInv, Repaired, Consistent, Standby
  <1>2. CASE Next
    <2> PICK p \in Operators :
          Build(p) \/ Promote(p) \/ Rollback(p) \/ Reconcile(p) \/ Retire(p) \/ Abort(p)
      BY <1>2 DEF Next
    <2>0. /\ op \in [Operators -> Call] /\ op[p] \in Call /\ record \in Record
          /\ coll \in [Builds -> Collection] /\ alias \in MaybeBuild
          /\ Equipped(p) /\ InStep(p) /\ RowInv /\ Repaired(p)
      BY DEF TypeInv, TypeOK, StoreTypeOK, AloneInv, MaybeBuild, RepairedInv
    <2>n. ~record.there => record.collection = None /\ alias = None
      BY <2>0 DEF RowInv, NoRecord
    <2>e. ASSUME Return(p), UNCHANGED <<alias, record>>
          PROVE  RepairedInv' /\ UNCHANGED <<alias, Standby>>
      BY <2>e, EndsRepaired DEF Standby
    <2>1. CASE Build(p)
      <3>1. ASSUME NEW b \in Builds, NEW m \in Identities, NEW batch \in SUBSET Docs,
                   StartBuild(p, b, m, batch)
            PROVE  RepairedInv' /\ UNCHANGED <<alias, Standby>>
        <4>1. op'[p].pc \in {"pin", "ingest"} BY <2>0, <3>1 DEF StartBuild, Start, Idle
        <4>2. alias' = alias /\ record' = record /\ Consistent BY <3>1 DEF StartBuild
        <4> QED BY <4>1, <4>2, StillRepaired
      <3>2. CASE PinIdentity(p)
        <4>1. /\ op'[p].pc = "ingest" /\ op'[p].b = op[p].b /\ op[p].pc = "pin"
              /\ alias' = alias /\ record' = record
          BY <2>0, <3>2 DEF PinIdentity, At, Goto, Call
        <4> QED BY <2>0, <4>1, StillRepaired DEF Repaired
      <3>3. ASSUME NEW d \in Docs, IngestDocument(p, d)
            PROVE  RepairedInv' /\ UNCHANGED <<alias, Standby>>
        <4>1. /\ op'[p].pc = "ingest" /\ op'[p].b = op[p].b /\ op[p].pc = "ingest"
              /\ alias' = alias /\ record' = record
          BY <2>0, <3>3 DEF IngestDocument, At, Call
        <4> QED BY <2>0, <4>1, StillRepaired DEF Repaired
      <3>4. ASSUME NEW go \in BOOLEAN, FinishBuild(p, go)
            PROVE  RepairedInv' /\ UNCHANGED <<alias, Standby>>
        <4>1. alias' = alias /\ record' = record /\ op[p].pc = "ingest"
          BY <3>4 DEF FinishBuild, At
        <4>2. CASE Return(p) BY <2>e, <4>1, <4>2
        <4>3. CASE Goto(p, "read_identity")
          <5>1. op'[p].pc = "read_identity" /\ op'[p].b = op[p].b BY <2>0, <4>3 DEF Goto, Call
          <5> QED BY <2>0, <4>1, <5>1, StillRepaired DEF Repaired
        <4> QED BY <3>4, <4>2, <4>3 DEF FinishBuild
      <3> QED BY <2>1, <3>1, <3>2, <3>3, <3>4 DEF Build
    <2>2. CASE Promote(p)
      <3>1. ASSUME NEW b \in Builds, StartPromotion(p, b)
            PROVE  RepairedInv' /\ UNCHANGED <<alias, Standby>>
        <4>1. op'[p].pc = "read_identity" /\ op'[p].b = b
          BY <2>0, <3>1 DEF StartPromotion, Start, Idle
        <4>2. alias' = alias /\ record' = record /\ (Consistent \/ alias = b)
          BY <3>1 DEF StartPromotion
        <4> QED BY <4>1, <4>2, StillRepaired
      <3>2. CASE ReadIdentity(p)
        <4>1. /\ op'[p].pc = "get_record" /\ op'[p].b = op[p].b /\ op[p].pc = "read_identity"
              /\ alias' = alias /\ record' = record
          BY <2>0, <3>2 DEF ReadIdentity, At, Call
        <4> QED BY <2>0, <4>1, StillRepaired DEF Repaired
      <3>3. CASE EnsureRecord(p)
        <4>1. /\ op'[p].pc = "validate" /\ op'[p].b = op[p].b /\ op[p].pc = "get_record"
              /\ alias' = alias /\ record' = IF record.there THEN record ELSE EmptyRecord
          BY <2>0, <3>3 DEF EnsureRecord, At, Call
        <4>2. Standby' = Standby /\ (Consistent' <=> Consistent)
          BY <2>0, <2>n, <4>1 DEF RowInv, EmptyRecord, NoRecord, Standby, Consistent
        <4> QED BY <2>0, <4>1, <4>2 DEF OneCaller, RepairedInv, Repaired
      <3>4. CASE Validate(p) \/ CheckMarker(p)
        <4>1. /\ alias' = alias /\ record' = record /\ op[p].pc \in {"validate", "marker"}
          BY <3>4 DEF Validate, CheckMarker, At
        <4>2. CASE Return(p) BY <2>e, <4>1, <4>2
        <4>3. CASE ~Return(p)
          <5>1. op'[p].pc \in {"marker", "phase1"} /\ op'[p].b = op[p].b
            BY <2>0, <3>4, <4>3 DEF Validate, CheckMarker, Goto, Call
          <5> QED BY <2>0, <4>1, <5>1, StillRepaired DEF Repaired
        <4> QED BY <4>2, <4>3
      <3>5. CASE PromotePhase1(p)
        <4>1. record' = record /\ op[p].pc = "phase1" /\ op[p].b \in Builds
          BY <2>0, <3>5 DEF PromotePhase1, At, Equipped
        <4>2. CASE Return(p) /\ UNCHANGED <<alias, served>> BY <2>e, <4>1, <4>2
        <4>3. CASE Goto(p, "phase2") /\ Retarget(op[p].b)
          <5>1. op'[p].pc = "phase2" BY <2>0, <4>3 DEF Goto, Call
          <5>2. RepairedInv' BY <5>1 DEF OneCaller, RepairedInv, Repaired
          <5>3. alias' = op[p].b BY <4>3 DEF Retarget
          <5>4. CASE alias = op[p].b BY <4>1, <5>2, <5>3, <5>4 DEF Standby
          <5>5. CASE alias # op[p].b
            <6>1. alias = record.collection
              BY <2>0, <2>n, <4>1, <5>5 DEF Repaired, Consistent
            <6>2. Standby' = alias BY <4>1, <5>3, <5>5, <6>1 DEF Standby
            <6> QED BY <4>1, <5>2, <5>3, <5>5, <6>2 DEF Standby, Atomic!Next, Atomic!Promote
          <5> QED BY <5>4, <5>5
        <4> QED BY <3>5, <4>2, <4>3 DEF PromotePhase1
      <3>6. CASE PromotePhase2(p)
        <4>1. alias' = alias /\ record' = record BY <3>6 DEF PromotePhase2
        <4>2. CASE Return(p) BY <2>e, <4>1, <4>2
        <4>3. CASE ~Return(p)
          <5>1. op'[p].pc = "commit2" BY <2>0, <3>6, <4>3 DEF PromotePhase2, Call
          <5> QED BY <4>1, <5>1, StillRepaired
        <4> QED BY <4>2, <4>3
      <3>7. CASE PromoteCommit(p)
        <4>1. /\ alias' = alias /\ op[p].seen = record /\ record.collection # op[p].b
              /\ alias = op[p].b /\ op[p].b \in Builds /\ op[p].identity \in MaybeIdentity
          BY <2>0, <3>7 DEF PromoteCommit, At, InStep, Equipped, Call
        <4>2. record' = Promoted(record, op[p].b, op[p].identity)
          BY <2>0, <3>7, <4>1, PromotedType, FlushAlone DEF PromoteCommit, Promoted
        <4>3. Standby' = Standby BY <4>1, <4>2 DEF Promoted, Standby
        <4> QED BY <3>7, <4>1, <4>3, EndsRepaired DEF PromoteCommit
      <3> QED BY <2>2, <3>1, <3>2, <3>3, <3>4, <3>5, <3>6, <3>7 DEF Promote
    <2>3. CASE Rollback(p)
      <3>1. ASSUME NEW available \in SUBSET Identities, StartRollback(p, available)
            PROVE  RepairedInv' /\ UNCHANGED <<alias, Standby>>
        <4>1. op'[p].pc = "rollback1" BY <2>0, <3>1 DEF StartRollback, Start, Idle
        <4>2. alias' = alias /\ record' = record /\ Consistent BY <3>1 DEF StartRollback
        <4> QED BY <4>1, <4>2, StillRepaired
      <3>2. CASE RollbackPhase1(p)
        <4>1. record' = record /\ op[p].pc = "rollback1" BY <3>2 DEF RollbackPhase1, At
        <4>2. CASE Return(p) /\ UNCHANGED <<alias, served>> BY <2>e, <4>1, <4>2
        <4>3. CASE Goto(p, "rollback2") /\ Retarget(op[p].seen.previous)
          <5>1. op'[p].pc = "rollback2" BY <2>0, <4>3 DEF Goto, Call
          <5>2. RepairedInv' BY <5>1 DEF OneCaller, RepairedInv, Repaired
          <5>3. /\ record.there /\ op[p].seen = record /\ record.previous # None
                /\ record.collection = alias /\ record.previous # record.collection
            BY <2>0, <4>1 DEF InStep, Repaired, Consistent, RowInv, StandbyIsAnother
          <5>4. alias' = record.previous BY <4>3, <5>3 DEF Retarget
          <5>5. Standby = record.previous /\ Standby' = alias
            BY <4>1, <5>3, <5>4 DEF Standby
          <5> QED BY <5>2, <5>3, <5>4, <5>5 DEF Standby, Atomic!Next, Atomic!Rollback
        <4> QED BY <3>2, <4>2, <4>3 DEF RollbackPhase1
      <3>3. CASE RollbackCommit(p)
        <4>1. /\ alias' = alias /\ op[p].seen = record /\ alias = record.previous
              /\ record.previous # None
          BY <2>0, <3>3 DEF RollbackCommit, At, InStep
        <4>2. record' = RolledBack(record)
          BY <2>0, <3>3, <4>1, RolledBackType, FlushAlone DEF RollbackCommit, RolledBack
        <4>3. Standby' = Standby
          BY <2>0, <4>1, <4>2 DEF RolledBack, Standby, RowInv, StandbyIsAnother
        <4> QED BY <3>3, <4>1, <4>3, EndsRepaired DEF RollbackCommit
      <3> QED BY <2>3, <3>1, <3>2, <3>3 DEF Rollback
    <2>4. CASE Reconcile(p)
      <3>1. CASE StartReconcile(p)
        <4>1. op'[p].pc = "reconcile_get" BY <2>0, <3>1 DEF StartReconcile, Start, Idle
        <4>2. alias' = alias /\ record' = record BY <3>1 DEF StartReconcile
        <4> QED BY <4>1, <4>2, StillRepaired
      <3>2. CASE ReconcileGet(p)
        <4>1. alias' = alias /\ record' = record BY <3>2 DEF ReconcileGet
        <4>2. CASE Return(p) BY <2>e, <4>1, <4>2
        <4>3. CASE ~Return(p)
          <5>1. op'[p].pc = "reconcile_repair" BY <2>0, <3>2, <4>3 DEF ReconcileGet, Call
          <5> QED BY <4>1, <5>1, StillRepaired
        <4> QED BY <4>2, <4>3
      <3>3. CASE ReconcileRepair(p)
        <4>1. /\ alias' = alias /\ op[p].seen = record /\ record.collection # op[p].b
              /\ alias = op[p].b /\ op[p].b \in Builds
          BY <2>0, <3>3 DEF ReconcileRepair, At, InStep, Equipped
        <4>2. coll[op[p].b].identity \in MaybeIdentity
          BY <2>0, <4>1 DEF Collection, MaybeIdentity
        <4>3. record' = Promoted(record, op[p].b, coll[op[p].b].identity)
          BY <2>0, <3>3, <4>1, <4>2, PromotedType, FlushAlone
          DEF ReconcileRepair, Reconciled, Promoted
        <4>4. Standby' = Standby BY <4>1, <4>3 DEF Promoted, Standby
        <4> QED BY <3>3, <4>1, <4>4, EndsRepaired DEF ReconcileRepair
      <3> QED BY <2>4, <3>1, <3>2, <3>3 DEF Reconcile
    <2>5. CASE Retire(p)
      <3>1. CASE StartRetire(p)
        <4>1. op'[p].pc = "drop" /\ op'[p].b = record.previous /\ record.previous # None
          BY <2>0, <3>1 DEF StartRetire, Start, Idle
        <4>2. alias' = alias /\ record' = record /\ Consistent BY <3>1 DEF StartRetire
        <4> QED BY <4>1, <4>2 DEF OneCaller, RepairedInv, Repaired, Consistent, Standby
      <3>2. CASE Drop(p)
        <4>1. record' = record /\ op[p].pc = "drop" BY <3>2 DEF Drop, At
        <4>2. alias # op[p].b
          BY <2>0, <2>n, <4>1 DEF Repaired, Consistent, RowInv, StandbyIsAnother
        <4>3. alias' = alias BY <3>2, <4>2 DEF Drop, AliasAfterDrop
        <4> QED BY <2>e, <3>2, <4>1, <4>3 DEF Drop
      <3> QED BY <2>5, <3>1, <3>2 DEF Retire
    <2>6. CASE Abort(p) BY <2>e, <2>6 DEF Abort
    <2> QED BY <2>1, <2>2, <2>3, <2>4, <2>5, <2>6
  <1> QED BY <1>1, <1>2

\* The swap is atomic for the clients: one caller that reconciles a torn swap before its
\* next call, or retries it, implements the abstract swap of (live, standby).
THEOREM SwapImplementsAtomic ==
  ASSUME OneCaller, Keeps("reconcile_first")
  PROVE  Spec => SwapIsAtomic
  <1> DEFINE Inv == TypeInv /\ AloneInv /\ RepairedInv
  <1>1. Init => Inv /\ Atomic!Init
    <2>1. Init => RepairedInv BY DEF Init, Idle, RepairedInv, Repaired
    <2>2. Init => Atomic!Init BY DEF Init, StoreInit, NoRecord, Atomic!Init
    <2> QED BY <2>1, <2>2, TypeInit, AloneInit
  <1>2. Inv /\ [Next]_vars => Inv' /\ [Atomic!Next]_<<alias, Standby>>
    BY TypeStep, AloneStep, SwapStep
  <1>3. Inv /\ [Next]_vars =>
          [Atomic!Next]_<<alias, IF alias = record.collection THEN record.previous
                                 ELSE record.collection>>
    BY <1>2 DEF Standby
  <1> HIDE DEF Inv
  <1> QED BY <1>1, <1>2, <1>3, PTL DEF Spec, SwapIsAtomic, Atomic!Spec
-----------------------------------------------------------------------------
(***************************************************************************)
(* What is served is finished, for any number of callers that hand the     *)
(* pipeline fresh build ids, and with the retirement of N-1 allowed.  The  *)
(* invariant follows a build from its first chunk to the alias: the run    *)
(* that fills a collection is alone with it, what it has taken off its     *)
(* list is in the collection, and a collection with a result stays whole   *)
(* until somebody retires it.                                              *)
(***************************************************************************)

\* The documents of the batch that are off the list are in the collection.
Written(p) ==
  \E batch \in SUBSET Docs :
    /\ op[p].total = Cardinality(batch)
    /\ op[p].todo \subseteq batch
    /\ \A d \in batch \ op[p].todo : <<d, op[p].model>> \in coll[op[p].b].points

Undisturbed(p) ==
  /\ op[p].pc \in {"pin", "ingest"} =>
       /\ coll[op[p].b].exists
       /\ op[p].b \notin served
       /\ \A q \in Operators : op[q].b = op[p].b => q = p
       /\ Written(p)
  /\ op[p].pc \in {"read_identity", "get_record", "validate", "marker", "phase1"} =>
       result[op[p].b] # None
  /\ op[p].pc = "drop" => op[p].b \in served

Counted(b) ==
  result[b] # None =>
    /\ coll[b].exists => CountPoints(b) >= result[b]
    /\ b \notin served => coll[b].exists

FinishedInv ==
  /\ \A b \in Builds : Counted(b)
  /\ \A b \in served : result[b] # None
  /\ alias # None => coll[alias].exists
  /\ \A p \in Operators : Undisturbed(p)

\* A collection that holds every document of a batch under one identity has at least
\* as many points as the batch has documents.
LEMMA BatchCounted ==
  ASSUME NEW batch \in SUBSET Docs, NEW m \in Identities, NEW points \in SUBSET Point,
         \A d \in batch : <<d, m>> \in points
  PROVE  Cardinality(points) >= Cardinality(batch)
  <1>0. IsFiniteSet(Point)
    BY DocsAssumption, IdentitiesAssumption, FS_Product DEF Point
  <1>1. IsFiniteSet(points) /\ IsFiniteSet(batch)
    BY <1>0, DocsAssumption, FS_Subset
  <1> DEFINE f == [d \in batch |-> <<d, m>>]
  <1>2. f \in [batch -> points] /\ \A x, y \in batch : f[x] = f[y] => x = y
    OBVIOUS
  <1>3. Cardinality(batch) <= Cardinality(points)
    <2> HIDE DEF f
    <2>1. f \in Injection(batch, points)
      BY <1>2 DEF Injection, IsInjective
    <2> QED BY <1>1, <2>1, FS_Injection
  <1> QED BY <1>1, <1>3, FS_CardinalityType

\* A collection has finitely many points.
LEMMA PointsCounted ==
  ASSUME NEW c \in [Builds -> Collection]
  PROVE  \A b \in Builds : IsFiniteSet(c[b].points) /\ Cardinality(c[b].points) \in Nat
  <1>1. IsFiniteSet(Point)
    BY DocsAssumption, IdentitiesAssumption, FS_Product DEF Point
  <1>2. \A b \in Builds : c[b].points \in SUBSET Point
    BY DEF Collection
  <1>3. \A b \in Builds : IsFiniteSet(c[b].points)
    BY <1>1, <1>2, FS_Subset
  <1> QED BY <1>3, FS_CardinalityType

\* Writing one more point does not lower the count of a collection.
LEMMA UpsertCounted ==
  ASSUME coll \in [Builds -> Collection], NEW b \in Builds, NEW d \in Docs, NEW i \in Identities,
         coll' = Upserted(b, d, i)
  PROVE  \A c \in Builds : CountPoints(c) \in Nat /\ CountPoints(c)' >= CountPoints(c)
  <1> SUFFICES ASSUME NEW c \in Builds
               PROVE  CountPoints(c) \in Nat /\ CountPoints(c)' >= CountPoints(c)
    OBVIOUS
  <1>1. coll' \in [Builds -> Collection]
    BY StoreRequests
  <1>3. coll[c].points \subseteq coll'[c].points
    BY DEF Upserted, Collection
  <1>2. IsFiniteSet(coll'[c].points)
    BY <1>1, PointsCounted
  <1> QED BY <1>2, <1>3, PointsCounted, FS_Subset DEF CountPoints

\* What the other callers rely on survives a step of p that leaves their collections
\* and takes up none of them.
LEMMA OthersUndisturbed ==
  ASSUME TypeInv, FinishedInv, NEW p \in Operators,
         \A q \in Operators \ {p} : op'[q] = op[q],
         served \subseteq served',
         \A b \in Builds : result[b] # None => result'[b] # None,
         \A q \in Operators \ {p} : op[q].pc \in {"pin", "ingest"} =>
           /\ op'[p].b # op[q].b
           /\ coll'[op[q].b] = coll[op[q].b]
           /\ op[q].b \notin served'
  PROVE  \A q \in Operators \ {p} : Undisturbed(q)'
  <1> SUFFICES ASSUME NEW q \in Operators \ {p} PROVE Undisturbed(q)'
    OBVIOUS
  <1>1. op'[q] = op[q] /\ Undisturbed(q) /\ Equipped(q)
    BY DEF TypeInv, FinishedInv
  <1>2. CASE op[q].pc \in {"pin", "ingest"}
    <2>1. Written(q)' BY <1>1, <1>2 DEF Undisturbed, Written
    <2> QED BY <1>1, <1>2, <2>1 DEF Undisturbed
  <1>3. CASE op[q].pc \notin {"pin", "ingest"}
    <2>1. op[q].pc \in {"read_identity", "get_record", "validate", "marker", "phase1"} =>
            op[q].b \in Builds
      BY <1>1 DEF Equipped
    <2> QED BY <1>1, <1>3, <2>1 DEF Undisturbed
  <1> QED BY <1>2, <1>3

\* A call that ends, or moves on without the store, disturbs nobody.
LEMMA StoreLeftAlone ==
  ASSUME TypeInv, FinishedInv, NEW p \in Operators,
         \A q \in Operators \ {p} : op'[q] = op[q],
         op'[p].b \in {None, op[p].b} \cup served,
         UNCHANGED <<coll, alias, result, served>>,
         Undisturbed(p)'
  PROVE  FinishedInv'
  <1>1. \A q \in Operators \ {p} : op[q].pc \in {"pin", "ingest"} =>
          op'[p].b # op[q].b /\ op[q].b \notin served'
    BY BuildsAssumption DEF FinishedInv, Undisturbed, TypeInv, Equipped
  <1>2. \A q \in Operators \ {p} : Undisturbed(q)'
    BY <1>1, OthersUndisturbed
  <1>3. \A b \in Builds : Counted(b)'
    BY DEF FinishedInv, Counted, CountPoints
  <1> QED BY <1>2, <1>3 DEF FinishedInv

\* A call that returns disturbs nobody.
LEMMA ReturnUndisturbed ==
  ASSUME TypeInv, FinishedInv, NEW p \in Operators, Return(p),
         UNCHANGED <<coll, alias, result, served>>
  PROVE  FinishedInv'
  <1>1. op'[p] = Idle /\ Idle.b = None /\ \A q \in Operators \ {p} : op'[q] = op[q]
    BY DEF TypeInv, TypeOK, Return, Idle
  <1>2. Undisturbed(p)'
    BY <1>1 DEF Idle, Undisturbed
  <1> QED BY <1>1, <1>2, StoreLeftAlone

\* A run fills its collection alone; when it saves its result the collection holds the
\* whole batch.
LEMMA FinishedBuild ==
  ASSUME Keeps("fresh_builds"), TypeInv, LagInv, FinishedInv, NEW p \in Operators, Build(p)
  PROVE  FinishedInv'
  <1>0. /\ op \in [Operators -> Call] /\ op[p] \in Call /\ coll \in [Builds -> Collection]
        /\ result \in [Builds -> Chunks \cup {None}] /\ alias \in Past /\ served \subseteq Builds
        /\ Equipped(p) /\ Undisturbed(p)
    BY DEF TypeInv, TypeOK, StoreTypeOK, LagInv, FinishedInv
  <1>n. Chunks \subseteq Nat /\ None \notin Builds
    BY BuildsAssumption DEF Chunks
  <1>1. ASSUME NEW b \in Builds, NEW m \in Identities, NEW batch \in SUBSET Docs,
               StartBuild(p, b, m, batch)
        PROVE FinishedInv'
    <2> DEFINE call == [Idle EXCEPT !.pc = IF coll[b].exists THEN "ingest" ELSE "pin",
                                    !.b = b, !.model = m, !.todo = batch,
                                    !.total = Cardinality(batch)]
    <2>1. /\ b \notin served /\ Untouched(b) /\ op' = [op EXCEPT ![p] = call]
          /\ coll' = IF coll[b].exists THEN coll ELSE Created(b)
          /\ UNCHANGED <<alias, result, served>>
      BY <1>1 DEF StartBuild, Start
    <2>2. /\ call.pc \in {"pin", "ingest"} /\ call.b = b /\ call.todo = batch
          /\ call.total = Cardinality(batch)
      BY DEF Idle
    <2> HIDE DEF call
    <2>3. /\ \A c \in Builds \ {b} : coll'[c] = coll[c]
          /\ coll'[b].exists
          /\ coll[b].exists => coll' = coll
      BY <1>0, <2>1 DEF Created, Absent
    <2>4. \A q \in Operators \ {p} : Undisturbed(q)'
      <3>1. \A q \in Operators \ {p} : op[q].pc \in {"pin", "ingest"} =>
              op[q].b \in Builds /\ op[q].b \notin served /\ op[q].b # b
        BY <2>1 DEF TypeInv, Equipped, FinishedInv, Undisturbed, Untouched
      <3>2. op'[p].b = b /\ \A q \in Operators \ {p} : op'[q] = op[q]
        BY <1>0, <2>1, <2>2
      <3> QED BY <2>1, <2>3, <3>1, <3>2, OthersUndisturbed
    <2>5. Undisturbed(p)'
      <3>1. op'[p] = call /\ \A q \in Operators \ {p} : op'[q].b # b
        BY <1>0, <2>1 DEF Untouched
      <3>2. Written(p)'
        BY <2>2, <3>1 DEF Written
      <3> QED BY <2>1, <2>2, <2>3, <3>1, <3>2 DEF Undisturbed
    <2>6. \A c \in Builds : Counted(c)'
      BY <2>1, <2>3 DEF FinishedInv, Counted, CountPoints
    <2>7. alias' # None => coll'[alias'].exists
      BY <1>0, <2>1, <2>3 DEF FinishedInv, Past
    <2> QED BY <2>1, <2>4, <2>5, <2>6, <2>7 DEF FinishedInv
  <1>2. CASE PinIdentity(p)
    <2>1. /\ op' = [op EXCEPT ![p] = [op[p] EXCEPT !.pc = "ingest"]] /\ op[p].pc = "pin"
          /\ op[p].b \in Builds /\ coll' = IdentitySet(op[p].b, op[p].model)
          /\ UNCHANGED <<alias, result, served>>
      BY <1>0, <1>2 DEF PinIdentity, At, Goto, Equipped
    <2>2. /\ \A c \in Builds : coll'[c].exists = coll[c].exists /\ coll'[c].points = coll[c].points
          /\ \A c \in Builds \ {op[p].b} : coll'[c] = coll[c]
      BY <1>0, <2>1 DEF IdentitySet, Collection
    <2>3. /\ op'[p].pc = "ingest" /\ op'[p].b = op[p].b /\ op'[p].todo = op[p].todo
          /\ op'[p].total = op[p].total /\ op'[p].model = op[p].model
          /\ \A q \in Operators : op'[q].b = op[q].b
      BY <1>0, <2>1 DEF Call
    <2>4. \A q \in Operators \ {p} : Undisturbed(q)'
      <3>1. \A q \in Operators \ {p} : op[q].pc \in {"pin", "ingest"} =>
              op[q].b \in Builds /\ op[q].b \notin served /\ op[q].b # op[p].b
        BY DEF TypeInv, Equipped, FinishedInv, Undisturbed
      <3>2. \A q \in Operators \ {p} : op[q].pc \in {"pin", "ingest"} =>
              op'[p].b # op[q].b /\ coll'[op[q].b] = coll[op[q].b] /\ op[q].b \notin served'
        BY <2>1, <2>2, <2>3, <3>1
      <3> QED BY <1>0, <2>1, <3>2, OthersUndisturbed
    <2>5. Undisturbed(p)'
      <3>1. Written(p)' BY <1>0, <2>1, <2>2, <2>3 DEF Undisturbed, Written
      <3> QED BY <1>0, <2>1, <2>2, <2>3, <3>1 DEF Undisturbed
    <2>6. \A c \in Builds : Counted(c)'
      BY <2>1, <2>2 DEF FinishedInv, Counted, CountPoints
    <2>7. alias' # None => coll'[alias'].exists
      BY <1>0, <2>1, <2>2 DEF FinishedInv, Past
    <2> QED BY <2>1, <2>4, <2>5, <2>6, <2>7 DEF FinishedInv
  <1>3. ASSUME NEW d \in Docs, IngestDocument(p, d)
        PROVE FinishedInv'
    <2>1. /\ op' = [op EXCEPT ![p] = [op[p] EXCEPT !.todo = @ \ {d}]] /\ op[p].pc = "ingest"
          /\ op[p].b \in Builds /\ op[p].model \in Identities
          /\ coll' = Upserted(op[p].b, d, op[p].model) /\ UNCHANGED <<alias, result, served>>
      BY <1>0, <1>3 DEF IngestDocument, At, Equipped
    <2>2. /\ \A c \in Builds : coll'[c].exists = coll[c].exists
          /\ coll'[op[p].b].points = coll[op[p].b].points \cup {<<d, op[p].model>>}
          /\ \A c \in Builds \ {op[p].b} : coll'[c] = coll[c]
      BY <1>0, <2>1 DEF Upserted, Collection
    <2>3. /\ op'[p].pc = "ingest" /\ op'[p].b = op[p].b /\ op'[p].todo = op[p].todo \ {d}
          /\ op'[p].total = op[p].total /\ op'[p].model = op[p].model
          /\ \A q \in Operators : op'[q].b = op[q].b
      BY <1>0, <2>1 DEF Call
    <2>4. \A q \in Operators \ {p} : Undisturbed(q)'
      <3>1. \A q \in Operators \ {p} : op[q].pc \in {"pin", "ingest"} =>
              op[q].b \in Builds /\ op[q].b \notin served /\ op[q].b # op[p].b
        BY DEF TypeInv, Equipped, FinishedInv, Undisturbed
      <3>2. \A q \in Operators \ {p} : op[q].pc \in {"pin", "ingest"} =>
              op'[p].b # op[q].b /\ coll'[op[q].b] = coll[op[q].b] /\ op[q].b \notin served'
        BY <2>1, <2>2, <2>3, <3>1
      <3> QED BY <1>0, <2>1, <3>2, OthersUndisturbed
    <2>5. Undisturbed(p)'
      <3>1. Written(p)' BY <1>0, <2>1, <2>2, <2>3 DEF Undisturbed, Written
      <3> QED BY <1>0, <2>1, <2>2, <2>3, <3>1 DEF Undisturbed
    <2>6. \A c \in Builds : Counted(c)'
      <3>1. \A c \in Builds : CountPoints(c) \in Nat /\ CountPoints(c)' >= CountPoints(c)
        BY <1>0, <2>1, UpsertCounted
      <3>2. \A c \in Builds : CountPoints(c)' \in Nat
        <4>1. coll' \in [Builds -> Collection]
          BY <1>0, <2>1, StoreRequests
        <4> QED BY <4>1, PointsCounted DEF CountPoints
      <3> QED BY <1>0, <1>n, <2>1, <2>2, <3>1, <3>2 DEF FinishedInv, Counted
    <2>7. alias' # None => coll'[alias'].exists
      BY <1>0, <2>1, <2>2 DEF FinishedInv, Past
    <2> QED BY <2>1, <2>4, <2>5, <2>6, <2>7 DEF FinishedInv
  <1>4. ASSUME NEW go \in BOOLEAN, FinishBuild(p, go)
        PROVE FinishedInv'
    <2> DEFINE call == IF go THEN [op[p] EXCEPT !.pc = "read_identity"] ELSE Idle
    <2>1. /\ op' = [op EXCEPT ![p] = call] /\ op[p].pc = "ingest" /\ op[p].todo = {}
          /\ op[p].b \in Builds /\ op[p].model \in Identities
          /\ result' = [result EXCEPT ![op[p].b] = op[p].total]
          /\ UNCHANGED <<coll, alias, served>>
      BY <1>0, <1>4 DEF FinishBuild, At, Goto, Return, Equipped
    <2>2. /\ call.pc \in {"read_identity", "idle"} /\ call.b \in {op[p].b, None}
          /\ call.pc = "read_identity" => call.b = op[p].b
      BY <1>0 DEF Call, Idle
    <2> HIDE DEF call
    <2>3. /\ op[p].total \in Nat /\ op[p].total # None
      BY <1>0, <1>n, ResultAssumption DEF Call
    <2>4. /\ \A c \in Builds : result[c] # None => result'[c] # None
          /\ result'[op[p].b] = op[p].total
          /\ \A c \in Builds \ {op[p].b} : result'[c] = result[c]
      BY <1>0, <2>1, <2>3
    <2>5. \A q \in Operators \ {p} : Undisturbed(q)'
      <3>1. \A q \in Operators \ {p} : op[q].pc \in {"pin", "ingest"} =>
              op[q].b \in Builds /\ op[q].b \notin served /\ op[q].b # op[p].b
        BY DEF TypeInv, Equipped, FinishedInv, Undisturbed
      <3>2. \A q \in Operators \ {p} : op[q].pc \in {"pin", "ingest"} =>
              op'[p].b # op[q].b /\ coll'[op[q].b] = coll[op[q].b] /\ op[q].b \notin served'
        BY <1>0, <1>n, <2>1, <2>2, <3>1
      <3> QED BY <1>0, <2>1, <2>4, <3>2, OthersUndisturbed
    <2>6. Undisturbed(p)'
      BY <1>0, <2>1, <2>2, <2>3, <2>4 DEF Undisturbed
    <2>7. CountPoints(op[p].b) >= op[p].total
      <3>1. PICK batch \in SUBSET Docs :
              /\ op[p].total = Cardinality(batch)
              /\ \A d \in batch : <<d, op[p].model>> \in coll[op[p].b].points
        BY <1>0, <2>1 DEF Undisturbed, Written
      <3>2. coll[op[p].b].points \in SUBSET Point
        BY <1>0, <2>1 DEF Collection
      <3> QED BY <2>1, <3>1, <3>2, BatchCounted DEF CountPoints
    <2>8. \A c \in Builds : Counted(c)'
      BY <1>0, <2>1, <2>4, <2>7 DEF FinishedInv, Undisturbed, Counted, CountPoints
    <2> QED BY <1>0, <2>1, <2>4, <2>5, <2>6, <2>8 DEF FinishedInv
  <1> QED BY <1>1, <1>2, <1>3, <1>4 DEF Build

\* A promotion moves the alias only to a collection that is there and has a result.
LEMMA FinishedPromote ==
  ASSUME Keeps("fresh_builds"), TypeInv, LagInv, FinishedInv, NEW p \in Operators, Promote(p)
  PROVE  FinishedInv'
  <1>0. /\ op \in [Operators -> Call] /\ op[p] \in Call /\ served \subseteq Builds
        /\ Equipped(p) /\ Undisturbed(p)
    BY DEF TypeInv, TypeOK, FinishedInv
  <1>1. ASSUME NEW b \in Builds, StartPromotion(p, b)
        PROVE FinishedInv'
    <2>1. /\ Untouched(b) /\ result[b] # None /\ op'[p].b = b /\ op'[p].pc = "read_identity"
          /\ \A q \in Operators \ {p} : op'[q] = op[q]
          /\ UNCHANGED <<coll, alias, result, served>>
      BY <1>0, <1>1 DEF StartPromotion, Start, Idle
    <2>2. Undisturbed(p)'
      BY <2>1 DEF Undisturbed
    <2>3. \A q \in Operators \ {p} : Undisturbed(q)'
      <3>1. \A q \in Operators \ {p} : op[q].pc \in {"pin", "ingest"} =>
              op'[p].b # op[q].b /\ op[q].b \notin served
        BY <2>1 DEF Untouched, FinishedInv, Undisturbed
      <3> QED BY <2>1, <3>1, OthersUndisturbed
    <2> QED BY <2>1, <2>2, <2>3 DEF FinishedInv, Counted, CountPoints
  <1>2. CASE ReadIdentity(p) \/ EnsureRecord(p)
    <2>1. /\ op'[p].b = op[p].b /\ op[p].pc \in {"read_identity", "get_record"}
          /\ op'[p].pc \in {"get_record", "validate"} /\ op[p].b \in Builds
          /\ \A q \in Operators \ {p} : op'[q] = op[q]
          /\ UNCHANGED <<coll, alias, result, served>>
      BY <1>0, <1>2 DEF ReadIdentity, EnsureRecord, At, Call, Equipped
    <2>2. Undisturbed(p)'
      BY <1>0, <2>1 DEF Undisturbed
    <2> QED BY <2>1, <2>2, StoreLeftAlone
  <1>3. CASE Validate(p) \/ CheckMarker(p)
    <2>1. op[p].pc \in {"validate", "marker"} /\ UNCHANGED <<coll, alias, result, served>>
      BY <1>3 DEF Validate, CheckMarker, At
    <2>2. CASE Return(p)
      BY <2>1, <2>2, ReturnUndisturbed
    <2>3. CASE ~Return(p)
      <3>1. /\ op'[p].b = op[p].b /\ op'[p].pc \in {"marker", "phase1"}
            /\ \A q \in Operators \ {p} : op'[q] = op[q]
        BY <1>0, <1>3, <2>3 DEF Validate, CheckMarker, Goto, Call
      <3>2. Undisturbed(p)'
        BY <1>0, <2>1, <3>1 DEF Undisturbed
      <3> QED BY <2>1, <3>1, <3>2, StoreLeftAlone
    <2> QED BY <2>2, <2>3
  <1>4. CASE PromotePhase1(p)
    <2>1. CASE Return(p) /\ UNCHANGED <<alias, served>>
      BY <1>4, <2>1, ReturnUndisturbed DEF PromotePhase1
    <2>2. CASE /\ Goto(p, "phase2") /\ Retarget(op[p].b)
               /\ alias = op[p].b \/ coll[op[p].b].exists
      <3>1. /\ op[p].pc = "phase1" /\ op[p].b \in Builds /\ result[op[p].b] # None
            /\ op'[p].b = op[p].b /\ op'[p].pc = "phase2"
            /\ \A q \in Operators \ {p} : op'[q] = op[q]
            /\ alias' = op[p].b /\ served' = served \cup {op[p].b} /\ UNCHANGED <<coll, result>>
        BY <1>0, <1>4, <2>2 DEF PromotePhase1, At, Goto, Retarget, Call, Equipped, Undisturbed
      <3>2. coll[op[p].b].exists
        BY <2>2, <3>1, BuildsAssumption DEF FinishedInv
      <3>3. \A q \in Operators \ {p} : Undisturbed(q)'
        <4>1. \A q \in Operators \ {p} : op[q].pc \in {"pin", "ingest"} =>
                op'[p].b # op[q].b /\ op[q].b \notin served'
          BY <3>1 DEF FinishedInv, Undisturbed
        <4> QED BY <3>1, <4>1, OthersUndisturbed
      <3>4. Undisturbed(p)'
        BY <3>1 DEF Undisturbed
      <3> QED BY <3>1, <3>2, <3>3, <3>4 DEF FinishedInv, Counted, CountPoints
    <2> QED BY <1>4, <2>1, <2>2 DEF PromotePhase1
  <1>5. CASE PromotePhase2(p)
    <2>1. UNCHANGED <<coll, alias, result, served>>
      BY <1>5 DEF PromotePhase2
    <2>2. CASE Return(p)
      BY <2>1, <2>2, ReturnUndisturbed
    <2>3. CASE ~Return(p)
      <3>1. /\ op'[p].b = op[p].b /\ op'[p].pc = "commit2"
            /\ \A q \in Operators \ {p} : op'[q] = op[q]
        BY <1>0, <1>5, <2>3 DEF PromotePhase2, Call
      <3>2. Undisturbed(p)'
        BY <3>1 DEF Undisturbed
      <3> QED BY <2>1, <3>1, <3>2, StoreLeftAlone
    <2> QED BY <2>2, <2>3
  <1>6. CASE PromoteCommit(p)
    BY <1>6, ReturnUndisturbed DEF PromoteCommit
  <1> QED BY <1>1, <1>2, <1>3, <1>4, <1>5, <1>6 DEF Promote

\* A rollback moves the alias only to a collection that is there and was served.
LEMMA FinishedRollback ==
  ASSUME TypeInv, LagInv, FinishedInv, NEW p \in Operators, Rollback(p)
  PROVE  FinishedInv'
  <1>0. /\ op \in [Operators -> Call] /\ op[p] \in Call /\ Equipped(p) /\ Remembered(p)
    BY DEF TypeInv, TypeOK, LagInv
  <1>1. ASSUME NEW available \in SUBSET Identities, StartRollback(p, available)
        PROVE FinishedInv'
    <2>1. /\ op'[p].b = None /\ op'[p].pc = "rollback1"
          /\ \A q \in Operators \ {p} : op'[q] = op[q]
          /\ UNCHANGED <<coll, alias, result, served>>
      BY <1>0, <1>1 DEF StartRollback, Start, Idle
    <2>2. Undisturbed(p)'
      BY <2>1 DEF Undisturbed
    <2> QED BY <2>1, <2>2, StoreLeftAlone
  <1>2. CASE RollbackPhase1(p)
    <2>1. CASE Return(p) /\ UNCHANGED <<alias, served>>
      BY <1>2, <2>1, ReturnUndisturbed DEF RollbackPhase1
    <2>2. CASE /\ Goto(p, "rollback2") /\ Retarget(op[p].seen.previous)
               /\ coll[op[p].seen.previous].exists
      <3>1. /\ op[p].pc = "rollback1" /\ op[p].seen.previous \in served
            /\ op'[p].b = op[p].b /\ op'[p].pc = "rollback2"
            /\ \A q \in Operators \ {p} : op'[q] = op[q]
            /\ alias' = op[p].seen.previous /\ served' = served /\ UNCHANGED <<coll, result>>
        BY <1>0, <1>2, <2>2 DEF RollbackPhase1, At, Goto, Retarget, Call, Remembered
      <3>2. \A q \in Operators \ {p} : Undisturbed(q)'
        <4>1. \A q \in Operators \ {p} : op[q].pc \in {"pin", "ingest"} =>
                op'[p].b # op[q].b /\ op[q].b \notin served'
          BY <3>1 DEF FinishedInv, Undisturbed
        <4> QED BY <3>1, <4>1, OthersUndisturbed
      <3>3. Undisturbed(p)'
        BY <3>1 DEF Undisturbed
      <3> QED BY <2>2, <3>1, <3>2, <3>3 DEF FinishedInv, Counted, CountPoints
    <2> QED BY <1>2, <2>1, <2>2 DEF RollbackPhase1
  <1>3. CASE RollbackCommit(p)
    BY <1>3, ReturnUndisturbed DEF RollbackCommit
  <1> QED BY <1>1, <1>2, <1>3 DEF Rollback

\* startup_reconcile works on a served collection and leaves the store.
LEMMA FinishedReconcile ==
  ASSUME TypeInv, LagInv, FinishedInv, NEW p \in Operators, Reconcile(p)
  PROVE  FinishedInv'
  <1>0. op \in [Operators -> Call] /\ op[p] \in Call
    BY DEF TypeInv, TypeOK
  <1>1. CASE StartReconcile(p)
    <2>1. /\ op'[p].b = alias /\ alias \in served /\ op'[p].pc = "reconcile_get"
          /\ \A q \in Operators \ {p} : op'[q] = op[q]
          /\ UNCHANGED <<coll, alias, result, served>>
      BY <1>0, <1>1 DEF StartReconcile, Start, Idle, LagInv, Past
    <2>2. Undisturbed(p)'
      BY <2>1 DEF Undisturbed
    <2> QED BY <2>1, <2>2, StoreLeftAlone
  <1>2. CASE ReconcileGet(p)
    <2>1. CASE Return(p)
      BY <1>2, <2>1, ReturnUndisturbed DEF ReconcileGet
    <2>2. CASE ~Return(p)
      <3>1. /\ op'[p].b = op[p].b /\ op'[p].pc = "reconcile_repair"
            /\ \A q \in Operators \ {p} : op'[q] = op[q]
            /\ UNCHANGED <<coll, alias, result, served>>
        BY <1>0, <1>2, <2>2 DEF ReconcileGet, Call
      <3>2. Undisturbed(p)'
        BY <3>1 DEF Undisturbed
      <3> QED BY <3>1, <3>2, StoreLeftAlone
    <2> QED BY <2>1, <2>2
  <1>3. CASE ReconcileRepair(p)
    BY <1>3, ReturnUndisturbed DEF ReconcileRepair
  <1> QED BY <1>1, <1>2, <1>3 DEF Reconcile

\* A retirement drops a collection that was served, and the alias with it.
LEMMA FinishedRetire ==
  ASSUME TypeInv, LagInv, FinishedInv, NEW p \in Operators, Retire(p)
  PROVE  FinishedInv'
  <1>0. /\ op \in [Operators -> Call] /\ coll \in [Builds -> Collection]
        /\ Equipped(p) /\ Undisturbed(p)
    BY DEF TypeInv, TypeOK, StoreTypeOK, FinishedInv
  <1>1. CASE StartRetire(p)
    <2>1. /\ op'[p].b = record.previous /\ record.previous \in served /\ op'[p].pc = "drop"
          /\ \A q \in Operators \ {p} : op'[q] = op[q]
          /\ UNCHANGED <<coll, alias, result, served>>
      BY <1>0, <1>1 DEF StartRetire, Start, Idle, LagInv, RecordLagsAlias
    <2>2. Undisturbed(p)'
      BY <2>1 DEF Undisturbed
    <2> QED BY <2>1, <2>2, StoreLeftAlone
  <1>2. CASE Drop(p)
    <2>1. /\ op[p].b \in Builds /\ op[p].b \in served /\ coll' = Dropped(op[p].b)
          /\ alias' = AliasAfterDrop(op[p].b) /\ UNCHANGED <<result, served>>
          /\ op'[p] = Idle /\ \A q \in Operators \ {p} : op'[q] = op[q]
      BY <1>0, <1>2 DEF Drop, At, Return, Equipped, Undisturbed
    <2>2. /\ \A c \in Builds \ {op[p].b} : coll'[c] = coll[c]
          /\ ~coll'[op[p].b].exists
          /\ alias' # op[p].b
      BY <1>0, <2>1, BuildsAssumption DEF Dropped, Absent, AliasAfterDrop
    <2>3. \A q \in Operators \ {p} : Undisturbed(q)'
      <3>1. \A q \in Operators \ {p} : op[q].pc \in {"pin", "ingest"} =>
              op[q].b \in Builds /\ op[q].b \notin served /\ op[q].b # op[p].b
        BY <2>1 DEF TypeInv, Equipped, FinishedInv, Undisturbed
      <3>2. Idle.b \notin Builds
        BY BuildsAssumption DEF Idle
      <3>3. \A q \in Operators \ {p} : op[q].pc \in {"pin", "ingest"} =>
              op'[p].b # op[q].b /\ coll'[op[q].b] = coll[op[q].b] /\ op[q].b \notin served'
        BY <2>1, <2>2, <3>1, <3>2
      <3> QED BY <2>1, <3>3, OthersUndisturbed
    <2>4. Undisturbed(p)'
      BY <2>1 DEF Undisturbed, Idle
    <2>5. \A c \in Builds : Counted(c)'
      BY <2>1, <2>2 DEF FinishedInv, Counted, CountPoints
    <2>6. alias' # None => coll'[alias'].exists
      BY <2>1, <2>2 DEF AliasAfterDrop, FinishedInv, TypeInv, TypeOK, StoreTypeOK
    <2> QED BY <2>1, <2>3, <2>4, <2>5, <2>6 DEF FinishedInv
  <1> QED BY <1>1, <1>2 DEF Retire

\* FinishedInv is inductive relative to type correctness and the lag of the record.
LEMMA FinishedStep ==
  Keeps("fresh_builds") /\ TypeInv /\ LagInv /\ FinishedInv /\ [Next]_vars => FinishedInv'
  <1> SUFFICES ASSUME Keeps("fresh_builds"), TypeInv, LagInv, FinishedInv, [Next]_vars
               PROVE  FinishedInv'
    OBVIOUS
  <1>1. CASE Next
    <2> PICK p \in Operators :
          Build(p) \/ Promote(p) \/ Rollback(p) \/ Reconcile(p) \/ Retire(p) \/ Abort(p)
      BY <1>1 DEF Next
    <2>1. CASE Abort(p)
      BY <2>1, ReturnUndisturbed DEF Abort
    <2> QED BY <2>1, FinishedBuild, FinishedPromote, FinishedRollback, FinishedReconcile,
               FinishedRetire
  <1>2. CASE UNCHANGED vars
    BY <1>2 DEF vars, FinishedInv, Counted, CountPoints, Undisturbed, Written
  <1> QED BY <1>1, <1>2

\* The alias never resolves to a collection that is missing or half built: callers that
\* hand the pipeline fresh build ids may build, promote, roll back, reconcile and retire
\* in any order, concurrently, and die anywhere.
THEOREM ServedStaysFinished ==
  ASSUME Keeps("fresh_builds")
  PROVE  Spec => []ServedIsFinished
  <1> DEFINE Inv == TypeInv /\ LagInv /\ FinishedInv
  <1>1. Init => Inv
    <2>1. Init => FinishedInv
      BY DEF Init, StoreInit, Idle, FinishedInv, Counted, Undisturbed
    <2> QED BY <2>1, TypeInit, LagInit
  <1>2. Inv /\ [Next]_vars => Inv'
    BY TypeStep, LagStep, FinishedStep
  <1>3. Inv => ServedIsFinished
    BY DEF TypeInv, TypeOK, StoreTypeOK, LagInv, Past, FinishedInv, Counted, ServedIsFinished
  <1> HIDE DEF Inv
  <1> QED BY <1>1, <1>2, <1>3, PTL DEF Spec
=============================================================================
