---------------------------- MODULE PgVector_proofs ----------------------------
(***************************************************************************)
(* The pgvector backend, for any number of sessions, collections, ids and  *)
(* scrolls: its types, the registry row that every table has while names   *)
(* are used once, and the pages of a scroll that together miss nothing     *)
(* which stayed in place.                                                  *)
(***************************************************************************)
EXTENDS PgVector, Integers, FiniteSets, Sequences, SequenceTheorems, TLAPS

\* The provers of a step that names none, in the order they are tried.
USE Z3T(60), ZenonT(20), SMTT(40)

-----------------------------------------------------------------------------
(* PgVector: the shapes of the local variables, by statement.              *)

Snap == [of : Names, m : Metadata_, rows : SUBSET Row]
AtMeta == [pc : {"register", "metadata", "copy"}, c : Names, m : Metadata_]
AtDrop == [pc : {"drop"}, c : Names, at : {1, 2}]
AtUpsert == [pc : {"upsert"}, c : Names, write : SUBSET Row]
AtDelete == [pc : {"delete"}, c : Names, write : Payloads]
AtAlias == [pc : {"create_alias", "retarget_alias"}, c : Names]
AtSave == [pc : {"save"}, snapshot : Snap]
AtRestore == [pc : {"restore_table", "restore_row", "restore_rows"}, c : Names, snapshot : Snap]
At == {Resting} \cup AtMeta \cup AtDrop \cup AtUpsert \cup AtDelete \cup AtAlias \cup AtSave \cup AtRestore

OnScroll == [pc : {"on", "ended", "failed"}, c : Names, filter : Payloads, last : Int, out : Seq(Ids),
             must : SUBSET Ids]

PgTypeOK ==
  /\ tables \in [Names -> [there : BOOLEAN, rows : SUBSET Row]]
  /\ registry \in [Names -> Metadata_ \cup {Unset}]
  /\ snapshots \in SUBSET Snap
  /\ proc \in [Procs -> At]
  /\ spent \in [ops : Nat, names : SUBSET Names]

\* What the variables say of one process and of one collection.
LEMMA Shapes ==
  ASSUME PgTypeOK, NEW p \in Procs
  PROVE  /\ proc[p].pc \in {"register", "metadata", "copy"} => proc[p] \in AtMeta
         /\ proc[p].pc = "drop" => proc[p] \in AtDrop
         /\ proc[p].pc = "upsert" => proc[p] \in AtUpsert
         /\ proc[p].pc = "delete" => proc[p] \in AtDelete
         /\ proc[p].pc \in {"create_alias", "retarget_alias"} => proc[p] \in AtAlias
         /\ proc[p].pc = "save" => proc[p] \in AtSave
         /\ proc[p].pc \in {"restore_table", "restore_row", "restore_rows"} => proc[p] \in AtRestore
<1> proc[p] \in At
  BY DEF PgTypeOK
<1> QED
  BY DEF At, Resting, AtMeta, AtDrop, AtUpsert, AtDelete, AtAlias, AtSave, AtRestore

LEMMA PgTypes == PgSpec => []PgTypeOK
<1>1. PgInit => PgTypeOK
  BY PgAssumption DEF PgInit, PgTypeOK, NoRows, At
<1>2. ASSUME PgTypeOK, [PgNext]_pgVars
      PROVE  PgTypeOK'
  <2> USE <1>2 DEF PgTypeOK
  <2>g. ASSUME NEW p \in Procs, NEW r \in At, Goes(p, r)
        PROVE  proc' \in [Procs -> At]
    BY <2>g DEF Goes
  <2>i. Resting \in At
    BY DEF At
  <2>c. ASSUME NEW C \in SUBSET Names, Counted_(C)
        PROVE  spent' \in [ops : Nat, names : SUBSET Names]
    BY <2>c DEF Counted_
  <2>r. ASSUME NEW c \in Names, NEW there \in BOOLEAN, NEW rs \in SUBSET Row, RowsBecome(c, there, rs)
        PROVE  tables' \in [Names -> [there : BOOLEAN, rows : SUBSET Row]]
    BY <2>r DEF RowsBecome
  <2>e. ASSUME NEW c \in Names, NEW there \in BOOLEAN, RowsBecome(c, there, {})
        PROVE  tables' \in [Names -> [there : BOOLEAN, rows : SUBSET Row]]
    <3>1. {} \in SUBSET Row
      OBVIOUS
    <3> QED
      BY <2>e, <3>1, <2>r
  <2>1. ASSUME NEW p \in Procs, NEW c \in Names, NEW m \in Metadata_, CreateTable(p, c, m)
        PROVE  PgTypeOK'
    <3>1. [pc |-> "register", c |-> c, m |-> m] \in At
      BY DEF At, AtMeta
    <3> QED
      BY <2>1, <3>1, <2>g, <2>c, <2>r DEF CreateTable
  <2>2. ASSUME NEW p \in Procs, Register(p)
        PROVE  PgTypeOK'
    <3>1. proc[p] \in AtMeta
      BY <2>2, Shapes DEF Register
    <3> QED
      BY <2>2, <3>1, <2>g, <2>i DEF Register, Rests, AtMeta
  <2>3. ASSUME NEW p \in Procs, NEW c \in Names, StartDrop(p, c)
        PROVE  PgTypeOK'
    <3>1. [pc |-> "drop", c |-> c, at |-> 1] \in At
      BY DEF At, AtDrop
    <3> QED
      BY <2>3, <3>1, <2>g, <2>c DEF StartDrop
  <2>4. ASSUME NEW p \in Procs, DropStatement(p)
        PROVE  PgTypeOK'
    <3>1. proc[p] \in AtDrop
      BY <2>4, Shapes DEF DropStatement
    <3>2. proc[p].c \in Names
      BY <3>1 DEF AtDrop
    <3>3. [proc[p] EXCEPT !.at = 2] \in At
      BY <3>1 DEF At, AtDrop
    <3>4. proc' \in [Procs -> At]
      BY <2>4, <3>3, <2>g, <2>i DEF DropStatement
    <3>5. tables' \in [Names -> [there : BOOLEAN, rows : SUBSET Row]]
      <4>1. tables' = tables \/ RowsBecome(proc[p].c, FALSE, {})
        BY <2>4 DEF DropStatement
      <4> QED
        BY <4>1, <3>2, <2>e
    <3> QED
      BY <2>4, <3>2, <3>4, <3>5 DEF DropStatement
  <2>5. ASSUME NEW p \in Procs, NEW c \in Names, NEW m \in Metadata_, StartSetMetadata(p, c, m)
        PROVE  PgTypeOK'
    <3>1. [pc |-> "metadata", c |-> c, m |-> m] \in At
      BY DEF At, AtMeta
    <3> QED
      BY <2>5, <3>1, <2>g, <2>c DEF StartSetMetadata
  <2>6. ASSUME NEW p \in Procs, SetMetadata(p)
        PROVE  PgTypeOK'
    <3>1. proc[p] \in AtMeta
      BY <2>6, Shapes DEF SetMetadata
    <3> QED
      BY <2>6, <3>1, <2>g, <2>i DEF SetMetadata, Rests, AtMeta
  <2>7. ASSUME NEW p \in Procs, NEW c \in Names, NEW b \in SUBSET Row, StartWrite(p, c, "upsert", b)
        PROVE  PgTypeOK'
    <3>1. [pc |-> "upsert", c |-> c, write |-> b] \in At
      BY DEF At, AtUpsert
    <3> QED
      BY <2>7, <3>1, <2>g, <2>c DEF StartWrite
  <2>8. ASSUME NEW p \in Procs, NEW c \in Names, NEW x \in Payloads, StartWrite(p, c, "delete", x)
        PROVE  PgTypeOK'
    <3>1. [pc |-> "delete", c |-> c, write |-> x] \in At
      BY DEF At, AtDelete
    <3> QED
      BY <2>8, <3>1, <2>g, <2>c DEF StartWrite
  <2>9. ASSUME NEW p \in Procs, Upsert(p)
        PROVE  PgTypeOK'
    <3>1. proc[p] \in AtUpsert
      BY <2>9, Shapes DEF Upsert
    <3>2. proc[p].c \in Names /\ proc[p].write \in SUBSET Row
      BY <3>1 DEF AtUpsert
    <3>3. tables' \in [Names -> [there : BOOLEAN, rows : SUBSET Row]]
      <4>1. \/ tables' = tables
            \/ \E part \in SUBSET proc[p].write :
                 RowsBecome(proc[p].c, TRUE, Merged(tables[proc[p].c].rows, part))
        BY <2>9 DEF Upsert
      <4>2. \A part \in SUBSET proc[p].write : Merged(tables[proc[p].c].rows, part) \in SUBSET Row
        BY <3>2 DEF Merged
      <4> QED
        BY <4>1, <4>2, <3>2, <2>r
    <3> QED
      BY <2>9, <3>3, <2>g, <2>i DEF Upsert, Rests
  <2>10. ASSUME NEW p \in Procs, DeleteRows(p)
         PROVE  PgTypeOK'
    <3>1. proc[p] \in AtDelete
      BY <2>10, Shapes DEF DeleteRows
    <3>2. tables' \in [Names -> [there : BOOLEAN, rows : SUBSET Row]]
      <4>1. \/ tables' = tables
            \/ RowsBecome(proc[p].c, TRUE, {x \in tables[proc[p].c].rows : x[2] # proc[p].write})
        BY <2>10 DEF DeleteRows
      <4>2. proc[p].c \in Names /\ {x \in tables[proc[p].c].rows : x[2] # proc[p].write} \in SUBSET Row
        BY <3>1 DEF AtDelete
      <4> QED
        BY <4>1, <4>2, <2>r
    <3> QED
      BY <2>10, <3>2, <2>g, <2>i DEF DeleteRows, Rests
  <2>11. ASSUME NEW p \in Procs, NEW c \in Names, NEW pc \in {"create_alias", "retarget_alias"}, StartAlias(p, c, pc)
         PROVE  PgTypeOK'
    <3>1. [pc |-> pc, c |-> c] \in At
      BY DEF At, AtAlias
    <3> QED
      BY <2>11, <3>1, <2>g, <2>c DEF StartAlias
  <2>12. ASSUME NEW p \in Procs, WriteAlias(p) \/ DeleteAlias(p) \/ Dies(p)
         PROVE  PgTypeOK'
    BY <2>12, <2>g, <2>i, <2>c DEF WriteAlias, DeleteAlias, Dies, Rests
  <2>13. ASSUME NEW p \in Procs, NEW c \in Names, StartSnapshot(p, c)
         PROVE  PgTypeOK'
    <3>1. [pc |-> "copy", c |-> c, m |-> registry[c]] \in At
      BY <2>13 DEF StartSnapshot, Registered_, At, AtMeta
    <3> QED
      BY <2>13, <3>1, <2>g, <2>c DEF StartSnapshot
  <2>14. ASSUME NEW p \in Procs, CopyRows(p)
         PROVE  PgTypeOK'
    <3>1. proc[p] \in AtMeta
      BY <2>14, Shapes DEF CopyRows
    <3>2. [pc |-> "save", snapshot |-> [of |-> proc[p].c, m |-> proc[p].m, rows |-> tables[proc[p].c].rows]] \in At
      BY <3>1 DEF At, AtSave, Snap, AtMeta
    <3> QED
      BY <2>14, <3>2, <2>g, <2>i DEF CopyRows, Rests
  <2>15. ASSUME NEW p \in Procs, SaveSnapshot(p)
         PROVE  PgTypeOK'
    <3>1. proc[p] \in AtSave
      BY <2>15, Shapes DEF SaveSnapshot
    <3> QED
      BY <2>15, <3>1, <2>g, <2>i DEF SaveSnapshot, Rests, AtSave
  <2>16. ASSUME NEW p \in Procs, NEW x \in snapshots, DeleteSnapshot(p, x)
         PROVE  PgTypeOK'
    BY <2>16, <2>c DEF DeleteSnapshot
  <2>17. ASSUME NEW p \in Procs, NEW c \in Names, NEW x \in snapshots, StartRestore(p, c, x)
         PROVE  PgTypeOK'
    <3>1. [pc |-> "restore_table", c |-> c, snapshot |-> x] \in At
      BY DEF At, AtRestore
    <3> QED
      BY <2>17, <3>1, <2>g, <2>c DEF StartRestore
  <2>f. ASSUME NEW p \in Procs, proc[p] \in AtRestore, Failed(p)
        PROVE  proc' \in [Procs -> At]
    <3>1. [pc |-> "drop", c |-> proc[p].c, at |-> 1] \in At
      BY <2>f DEF At, AtDrop, AtRestore
    <3> QED
      BY <2>f, <3>1, <2>g DEF Failed
  <2>18. ASSUME NEW p \in Procs, RestoreTable(p)
         PROVE  PgTypeOK'
    <3>1. proc[p] \in AtRestore
      BY <2>18, Shapes DEF RestoreTable
    <3>2. proc[p].c \in Names /\ [proc[p] EXCEPT !.pc = "restore_row"] \in At
      BY <3>1 DEF At, AtRestore
    <3>3. tables' = tables \/ RowsBecome(proc[p].c, TRUE, {})
      BY <2>18 DEF RestoreTable
    <3>4. tables' \in [Names -> [there : BOOLEAN, rows : SUBSET Row]]
      BY <3>2, <3>3, <2>e
    <3>5. proc' \in [Procs -> At]
      BY <2>18, <3>1, <3>2, <2>g, <2>f DEF RestoreTable
    <3> QED
      BY <2>18, <3>4, <3>5 DEF RestoreTable
  <2>19. ASSUME NEW p \in Procs, RestoreRow(p)
         PROVE  PgTypeOK'
    <3>1. proc[p] \in AtRestore
      BY <2>19, Shapes DEF RestoreRow
    <3>2. /\ proc[p].c \in Names /\ proc[p].snapshot.m \in Metadata_
          /\ [proc[p] EXCEPT !.pc = "restore_rows"] \in At
      BY <3>1 DEF At, AtRestore, Snap
    <3> QED
      BY <2>19, <3>1, <3>2, <2>g, <2>f DEF RestoreRow
  <2>20. ASSUME NEW p \in Procs, RestoreRows(p)
         PROVE  PgTypeOK'
    <3>1. proc[p] \in AtRestore
      BY <2>20, Shapes DEF RestoreRows
    <3>2. proc[p].c \in Names /\ proc[p].snapshot.rows \in SUBSET Row
      BY <3>1 DEF AtRestore, Snap
    <3>3. tables' \in [Names -> [there : BOOLEAN, rows : SUBSET Row]]
      <4> DEFINE t == tables[proc[p].c]
      <4>1. \/ tables' = tables
            \/ RowsBecome(proc[p].c, TRUE, t.rows \cup proc[p].snapshot.rows)
            \/ \E part \in SUBSET proc[p].snapshot.rows :
                 RowsBecome(proc[p].c, TRUE, Merged(part, t.rows))
        BY <2>20 DEF RestoreRows
      <4>2. /\ t.rows \cup proc[p].snapshot.rows \in SUBSET Row
            /\ \A part \in SUBSET proc[p].snapshot.rows : Merged(part, t.rows) \in SUBSET Row
        BY <3>2 DEF Merged
      <4> HIDE DEF t
      <4> QED
        BY <4>1, <4>2, <3>2, <2>r
    <3>4. proc' \in [Procs -> At]
      BY <2>20, <3>1, <2>f, <2>g, <2>i DEF RestoreRows, Rests
    <3> QED
      BY <2>20, <3>3, <3>4 DEF RestoreRows
  <2>21. ASSUME NEW s \in Scrolls, (\E c \in Names, x \in Payloads : StartScroll(s, c, x)) \/ NextPage(s)
         PROVE  PgTypeOK'
    <3>1. UNCHANGED <<tables, registry, snapshots, proc, spent>>
      BY <2>21 DEF StartScroll, NextPage
    <3> QED
      BY <3>1
  <2>22. CASE UNCHANGED pgVars
    BY <2>22 DEF pgVars
  <2> QED
    BY <2>1, <2>2, <2>3, <2>4, <2>5, <2>6, <2>7, <2>8, <2>9, <2>10, <2>11, <2>12, <2>13, <2>14, <2>15, <2>16,
       <2>17, <2>18, <2>19, <2>20, <2>21, <2>22 DEF PgNext, Operation, Statement, Batches_
<1> QED
  BY <1>1, <1>2, PTL DEF PgSpec

-----------------------------------------------------------------------------
(* PgVector: rows without an entry of the registry.  A process works on a  *)
(* name from its statement that looks the name up to its last; the first   *)
(* statements of a creation and a restore begin the name.                  *)

Begins(p, c) == proc[p].pc \in {"register", "restore_table", "restore_row"} /\ proc[p].c = c
Continues(p, c) ==
  proc[p].pc \in {"drop", "metadata", "upsert", "delete", "copy", "restore_rows"} /\ proc[p].c = c
Works(p, c) == Begins(p, c) \/ Continues(p, c)

Undone(p, c) == proc[p].pc = "drop" /\ proc[p].at = 2 /\ proc[p].c = c

NameOK(c) ==
  /\ tables[c].rows # {} => tables[c].there /\ Registered_(c)
  /\ tables[c].there \/ Registered_(c) => c \in spent.names
  /\ \A p \in Procs : Works(p, c) => c \in spent.names
  /\ \A p \in Procs : Begins(p, c) =>
       /\ ~Registered_(c) /\ tables[c].rows = {}
       /\ proc[p].pc = "restore_table" => ~tables[c].there
       /\ \A q \in Procs : Works(q, c) => q = p
  /\ \A p \in Procs : Continues(p, c) /\ tables[c].there => Registered_(c)
  /\ \A p \in Procs : Undone(p, c) => ~tables[c].there

RegInv == \A c \in Names : NameOK(c)

\* What a statement of p leaves of the other processes, and of the other names.
LEMMA GoesApart ==
  ASSUME PgTypeOK, NEW p \in Procs, NEW r, Goes(p, r)
  PROVE  proc'[p] = r /\ \A q \in Procs : q # p => proc'[q] = proc[q]
BY DEF Goes, PgTypeOK

LEMMA EmptyApart ==
  ASSUME PgTypeOK, NEW c \in Names, NEW there, RowsBecome(c, there, {})
  PROVE  /\ tables'[c].there = there /\ tables'[c].rows = {}
         /\ \A d \in Names : d # c => tables'[d] = tables[d]
BY DEF RowsBecome, PgTypeOK

LEMMA RegBegins == PgInit => RegInv
BY DEF PgInit, RegInv, NameOK, Undone, NoRows, Resting, Works, Begins, Continues, Registered_

\* A step of p is about one name; of the others it keeps what holds of them.
LEMMA Elsewhere ==
  ASSUME RegInv, NEW p \in Procs, NEW c \in Names,
         \A q \in Procs : q # p => proc'[q] = proc[q],
         proc'[p].c = c \/ proc'[p].pc \in {"idle", "save", "create_alias", "retarget_alias"},
         \A d \in Names : d # c => tables'[d] = tables[d] /\ (Registered_(d)' <=> Registered_(d)),
         spent.names \subseteq spent'.names,
         NameOK(c)'
  PROVE  RegInv'
<1> SUFFICES ASSUME NEW d \in Names, d # c
             PROVE  NameOK(d)'
  BY DEF RegInv
<1>1. NameOK(d)
  BY DEF RegInv
<1>2. /\ tables'[d] = tables[d] /\ (Registered_(d)' <=> Registered_(d))
      /\ \A q \in Procs : Begins(q, d)' => Begins(q, d) /\ proc'[q].pc = proc[q].pc
      /\ \A q \in Procs : Continues(q, d)' => Continues(q, d)
      /\ \A q \in Procs : Undone(q, d)' => Undone(q, d)
  BY DEF Begins, Continues, Undone
<1> QED
  BY <1>1, <1>2 DEF NameOK, Works

\* A step after which p does nothing more, on the name c that keeps its table and its entry.
LEMMA RegRests ==
  ASSUME PgTypeOK, RegInv, NEW p \in Procs, NEW r, Goes(p, r), UNCHANGED tables,
         \A d \in Names : Registered_(d)' <=> Registered_(d), spent.names \subseteq spent'.names,
         r.pc \in {"idle", "save", "create_alias", "retarget_alias"}
  PROVE  RegInv'
<1> SUFFICES ASSUME NEW d \in Names
             PROVE  NameOK(d)'
  BY DEF RegInv
<1>1. NameOK(d)
  BY DEF RegInv
<1>2. /\ \A q \in Procs : Begins(q, d)' => Begins(q, d) /\ proc'[q].pc = proc[q].pc
      /\ \A q \in Procs : Continues(q, d)' => Continues(q, d)
      /\ \A q \in Procs : Undone(q, d)' => Undone(q, d)
  BY GoesApart DEF Begins, Continues, Undone
<1> QED
  BY <1>1, <1>2 DEF NameOK, Works

\* A step that begins an operation on a name with an entry.
LEMMA RegContinues ==
  ASSUME PgTypeOK, RegInv, NEW p \in Procs, NEW c \in Names, NEW r, Goes(p, r), Registered_(c),
         UNCHANGED <<tables, registry>>, spent'.names = spent.names,
         r.pc \in {"drop", "metadata", "upsert", "delete", "copy"}, r.c = c, r.pc = "drop" => r.at = 1
  PROVE  RegInv'
<1>1. NameOK(c) /\ proc'[p] = r /\ \A q \in Procs : q # p => proc'[q] = proc[q]
  BY GoesApart DEF RegInv
<1>2. NameOK(c)'
  BY <1>1 DEF NameOK, Undone, Works, Begins, Continues, Registered_
<1> QED
  BY <1>1, <1>2, Elsewhere DEF Registered_

\* A statement that changes the rows of a table that is there, by a process that has begun.
LEMMA RegWrites ==
  ASSUME PgTypeOK, RegInv, NEW p \in Procs, NEW c \in Names, NEW r, Goes(p, r), Continues(p, c),
         tables[c].there, tables'[c].there, \A d \in Names : d # c => tables'[d] = tables[d],
         UNCHANGED <<registry, spent>>,
         r.pc = "idle" \/ (r.pc = "drop" /\ r.at = 1 /\ r.c = c)
  PROVE  RegInv'
<1>1. NameOK(c) /\ proc'[p] = r /\ \A q \in Procs : q # p => proc'[q] = proc[q]
  BY GoesApart DEF RegInv
<1>2. Registered_(c) /\ (\A q \in Procs : ~Begins(q, c)) /\ \A q \in Procs : ~Undone(q, c)
  BY <1>1 DEF NameOK
<1>4. NameOK(c)'
  BY <1>1, <1>2 DEF NameOK, Undone, Works, Begins, Continues, Registered_
<1> QED
  BY <1>1, <1>4, Elsewhere DEF Registered_

\* Every step, when no name is created or restored into twice.
LEMMA RegStep ==
  ASSUME NamesReused = FALSE, PgTypeOK, RegInv, [PgNext]_pgVars
  PROVE  RegInv'
<1>0. ASSUME NEW p \in Procs, NEW c \in Names, Begins(p, c)
      PROVE  NameOK(c) /\ ~Registered_(c) /\ c \in spent.names /\ \A q \in Procs : q # p => ~Works(q, c)
  BY <1>0 DEF RegInv, NameOK, Works
<1>1. ASSUME NEW p \in Procs, NEW c \in Names, NEW m \in Metadata_, CreateTable(p, c, m)
      PROVE  RegInv'
  <2>1. /\ c \notin spent.names /\ ~tables[c].there /\ ~Registered_(c) /\ \A q \in Procs : ~Works(q, c)
        /\ spent'.names = spent.names \cup {c}
    BY <1>1 DEF CreateTable, MayCreate, Counted_, RegInv, NameOK
  <2>2. /\ RowsBecome(c, TRUE, {}) /\ UNCHANGED registry
        /\ Goes(p, [pc |-> "register", c |-> c, m |-> m])
    BY <1>1, <2>1 DEF CreateTable
  <2>3. /\ tables'[c].rows = {} /\ \A d \in Names : d # c => tables'[d] = tables[d]
    BY <2>2, EmptyApart
  <2>4. /\ proc'[p].pc = "register" /\ proc'[p].c = c
        /\ \A q \in Procs : q # p => proc'[q] = proc[q]
    BY <2>2, GoesApart
  <2>5. NameOK(c)'
    BY <2>1, <2>2, <2>3, <2>4 DEF NameOK, Undone, Works, Begins, Continues, Registered_
  <2> QED
    BY <2>1, <2>2, <2>3, <2>4, <2>5, Elsewhere DEF Registered_
<1>2. ASSUME NEW p \in Procs, Register(p)
      PROVE  RegInv'
  <2>1. PICK c \in Names : c = proc[p].c /\ proc[p].m # Unset
    BY <1>2, Shapes, PgAssumption DEF Register, AtMeta
  <2>2. Begins(p, c)
    BY <1>2, <2>1 DEF Register, Begins
  <2>3. UNCHANGED <<tables, spent>> /\ registry' = [registry EXCEPT ![c] = proc[p].m] /\ Goes(p, Resting)
    BY <1>0, <1>2, <2>1, <2>2 DEF Register, Rests
  <2>4. Registered_(c)' /\ \A d \in Names : d # c => registry'[d] = registry[d]
    BY <2>1, <2>3 DEF Registered_, PgTypeOK
  <2>5. proc'[p].pc = "idle" /\ \A q \in Procs : q # p => proc'[q] = proc[q]
    BY <2>3, GoesApart DEF Resting
  <2>6. NameOK(c)'
    BY <1>0, <2>2, <2>3, <2>4, <2>5 DEF NameOK, Undone, Works, Begins, Continues
  <2> QED
    BY <2>3, <2>4, <2>5, <2>6, Elsewhere DEF Registered_
<1>3. ASSUME NEW p \in Procs, NEW c \in Names, StartDrop(p, c)
      PROVE  RegInv'
  BY <1>3, RegContinues DEF StartDrop, Counted_
<1>4. ASSUME NEW p \in Procs, DropStatement(p)
      PROVE  RegInv'
  <2>1. PICK c \in Names : c = proc[p].c /\ proc[p].at \in {1, 2} /\ [proc[p] EXCEPT !.at = 2] = [pc |-> "drop", c |-> c, at |-> 2]
    BY <1>4, Shapes DEF DropStatement, AtDrop
  <2>2. NameOK(c) /\ Continues(p, c) /\ \A q \in Procs : ~Begins(q, c)
    BY <1>4, <2>1 DEF DropStatement, RegInv, NameOK, Works, Begins, Continues
  <2>3. CASE proc[p].at = 1
    <3>1. RowsBecome(c, FALSE, {}) /\ UNCHANGED <<registry, spent>> /\ Goes(p, [pc |-> "drop", c |-> c, at |-> 2])
      <4>1. DropSteps[1] = "table" /\ proc[p].at # 2
        BY <2>3 DEF DropSteps
      <4>2. RowsBecome(c, FALSE, {}) /\ UNCHANGED registry
        BY <1>4, <2>1, <2>3, <4>1 DEF DropStatement
      <4> QED
        BY <1>4, <2>1, <2>3, <4>1, <4>2 DEF DropStatement
    <3>2. ~tables'[c].there /\ tables'[c].rows = {} /\ \A d \in Names : d # c => tables'[d] = tables[d]
      <4>1. tables' = [tables EXCEPT ![c] = [there |-> FALSE, rows |-> {}]]
        BY <3>1 DEF RowsBecome
      <4> QED
        BY <4>1 DEF PgTypeOK
    <3>3. /\ proc'[p] = [pc |-> "drop", c |-> c, at |-> 2]
          /\ \A q \in Procs : q # p => proc'[q] = proc[q]
      BY <3>1, GoesApart
    <3>4. NameOK(c)'
      BY <2>2, <3>1, <3>2, <3>3 DEF NameOK, Undone, Works, Begins, Continues, Registered_
    <3> QED
      BY <3>1, <3>2, <3>3, <3>4, Elsewhere DEF Registered_
  <2>4. CASE proc[p].at = 2
    <3>1. UNCHANGED <<tables, spent>> /\ registry' = [registry EXCEPT ![c] = Unset] /\ Goes(p, Resting)
      BY <1>4, <2>1, <2>4 DEF DropStatement, DropSteps, Rests
    <3>2. ~Registered_(c)' /\ \A d \in Names : d # c => registry'[d] = registry[d]
      BY <3>1 DEF Registered_, PgTypeOK
    <3>3. proc'[p].pc = "idle" /\ \A q \in Procs : q # p => proc'[q] = proc[q]
      BY <3>1, GoesApart DEF Resting
    <3>4. ~tables[c].there
      BY <1>4, <2>1, <2>2, <2>4 DEF DropStatement, NameOK, Undone
    <3>5. NameOK(c)'
      BY <2>2, <3>1, <3>2, <3>3, <3>4 DEF NameOK, Undone, Works, Begins, Continues
    <3> QED
      BY <3>1, <3>2, <3>3, <3>5, Elsewhere DEF Registered_
  <2> QED
    BY <2>1, <2>3, <2>4
<1>5. ASSUME NEW p \in Procs, NEW c \in Names, NEW m \in Metadata_, StartSetMetadata(p, c, m)
      PROVE  RegInv'
  BY <1>5, RegContinues DEF StartSetMetadata, Counted_
<1>6. ASSUME NEW p \in Procs, SetMetadata(p)
      PROVE  RegInv'
  <2>1. proc[p].c \in Names /\ proc[p].m # Unset
    BY <1>6, Shapes, PgAssumption DEF SetMetadata, AtMeta
  <2>2. \A d \in Names : Registered_(d)' <=> Registered_(d)
    BY <1>6, <2>1 DEF SetMetadata, Registered_, PgTypeOK
  <2> QED
    BY <1>6, <2>2, RegRests DEF SetMetadata, Rests, Resting
<1>7. ASSUME NEW p \in Procs, NEW c \in Names, NEW pc \in {"upsert", "delete"}, NEW w, StartWrite(p, c, pc, w)
      PROVE  RegInv'
  BY <1>7, RegContinues DEF StartWrite, Counted_
<1>8. ASSUME NEW p \in Procs, Upsert(p) \/ DeleteRows(p)
      PROVE  RegInv'
  <2>1. proc[p].c \in Names /\ Continues(p, proc[p].c)
    BY <1>8, Shapes DEF Upsert, DeleteRows, AtUpsert, AtDelete, Continues
  <2>2. \/ UNCHANGED tables
        \/ tables[proc[p].c].there /\ \E rs : RowsBecome(proc[p].c, TRUE, rs)
    BY <1>8 DEF Upsert, DeleteRows
  <2>3. Goes(p, Resting) /\ UNCHANGED <<registry, spent>> /\ Resting.pc = "idle"
    BY <1>8 DEF Upsert, DeleteRows, Rests, Resting
  <2>4. CASE UNCHANGED tables
    BY <2>3, <2>4, RegRests DEF Registered_
  <2>5. ASSUME NEW rs, tables[proc[p].c].there, RowsBecome(proc[p].c, TRUE, rs)
        PROVE  RegInv'
    <3>1. tables'[proc[p].c].there /\ \A d \in Names : d # proc[p].c => tables'[d] = tables[d]
      <4>1. tables' = [tables EXCEPT ![proc[p].c] = [there |-> TRUE, rows |-> rs]]
        BY <2>5 DEF RowsBecome
      <4> QED
        BY <2>1, <4>1 DEF PgTypeOK
    <3> QED
      BY <2>1, <2>3, <2>5, <3>1, RegWrites
  <2> QED
    BY <2>2, <2>4, <2>5
<1>9. ASSUME NEW p \in Procs, NEW c \in Names, NEW pc \in {"create_alias", "retarget_alias"}, StartAlias(p, c, pc)
      PROVE  RegInv'
  BY <1>9, RegRests DEF StartAlias, Counted_, PgTypeOK, Registered_
<1>10. ASSUME NEW p \in Procs, WriteAlias(p) \/ SaveSnapshot(p) \/ Dies(p)
       PROVE  RegInv'
  BY <1>10, RegRests DEF WriteAlias, SaveSnapshot, Dies, Rests, Resting, Registered_
<1>11. ASSUME NEW p \in Procs, CopyRows(p)
       PROVE  RegInv'
  BY <1>11, RegRests DEF CopyRows, Rests, Resting, Registered_
<1>12. ASSUME NEW p \in Procs, NEW c \in Names, StartSnapshot(p, c)
       PROVE  RegInv'
  BY <1>12, RegContinues DEF StartSnapshot, Counted_
<1>13. ASSUME NEW p \in Procs, NEW c \in Names, NEW x \in snapshots, StartRestore(p, c, x)
       PROVE  RegInv'
  <2>1. /\ c \notin spent.names /\ ~tables[c].there /\ ~Registered_(c) /\ \A q \in Procs : ~Works(q, c)
        /\ spent'.names = spent.names \cup {c}
    BY <1>13 DEF StartRestore, MayCreate, Counted_, RegInv, NameOK
  <2>2. /\ UNCHANGED <<tables, registry>>
        /\ Goes(p, [pc |-> "restore_table", c |-> c, snapshot |-> x])
    BY <1>13 DEF StartRestore
  <2>3. /\ proc'[p].pc = "restore_table" /\ proc'[p].c = c
        /\ \A q \in Procs : q # p => proc'[q] = proc[q]
    BY <2>2, GoesApart
  <2>4. tables[c].rows = {}
    BY <2>1 DEF RegInv, NameOK
  <2>5. NameOK(c)'
    BY <2>1, <2>2, <2>3, <2>4 DEF NameOK, Undone, Works, Begins, Continues, Registered_
  <2> QED
    BY <2>1, <2>2, <2>3, <2>5, Elsewhere DEF Registered_
<1>14. ASSUME NEW p \in Procs, RestoreTable(p)
       PROVE  RegInv'
  <2>1. PICK c \in Names : /\ c = proc[p].c /\ [proc[p] EXCEPT !.pc = "restore_row"].c = c
                           /\ [proc[p] EXCEPT !.pc = "restore_row"].pc = "restore_row"
    BY <1>14, Shapes DEF RestoreTable, AtRestore
  <2>2. Begins(p, c)
    BY <1>14, <2>1 DEF RestoreTable, Begins
  <2>3. ~tables[c].there
    BY <1>0, <1>14, <2>2 DEF RestoreTable, NameOK
  <2>4. /\ UNCHANGED <<registry, spent>> /\ RowsBecome(c, TRUE, {})
        /\ Goes(p, [proc[p] EXCEPT !.pc = "restore_row"])
    BY <1>14, <2>1, <2>3 DEF RestoreTable
  <2>5. tables'[c].rows = {} /\ \A d \in Names : d # c => tables'[d] = tables[d]
    BY <2>4, EmptyApart
  <2>6. /\ proc'[p].pc = "restore_row" /\ proc'[p].c = c
        /\ \A q \in Procs : q # p => proc'[q] = proc[q]
    BY <2>1, <2>4, GoesApart
  <2>7. NameOK(c)'
    BY <1>0, <2>2, <2>4, <2>5, <2>6 DEF NameOK, Undone, Works, Begins, Continues, Registered_
  <2> QED
    BY <2>4, <2>5, <2>6, <2>7, Elsewhere DEF Registered_
<1>15. ASSUME NEW p \in Procs, RestoreRow(p)
       PROVE  RegInv'
  <2>1. PICK c \in Names : /\ c = proc[p].c /\ proc[p].snapshot.m # Unset
                           /\ [proc[p] EXCEPT !.pc = "restore_rows"].c = c
                           /\ [proc[p] EXCEPT !.pc = "restore_rows"].pc = "restore_rows"
    BY <1>15, Shapes, PgAssumption DEF RestoreRow, AtRestore, Snap
  <2>2. Begins(p, c)
    BY <1>15, <2>1 DEF RestoreRow, Begins
  <2>3. /\ UNCHANGED <<tables, spent>> /\ registry' = [registry EXCEPT ![c] = proc[p].snapshot.m]
        /\ Goes(p, [proc[p] EXCEPT !.pc = "restore_rows"])
    BY <1>0, <1>15, <2>1, <2>2 DEF RestoreRow
  <2>4. Registered_(c)' /\ \A d \in Names : d # c => registry'[d] = registry[d]
    BY <2>1, <2>3 DEF Registered_, PgTypeOK
  <2>5. /\ proc'[p].pc = "restore_rows" /\ proc'[p].c = c
        /\ \A q \in Procs : q # p => proc'[q] = proc[q]
    BY <2>1, <2>3, GoesApart
  <2>6. NameOK(c)'
    BY <1>0, <2>2, <2>3, <2>4, <2>5 DEF NameOK, Undone, Works, Begins, Continues
  <2> QED
    BY <2>3, <2>4, <2>5, <2>6, Elsewhere DEF Registered_
<1>16. ASSUME NEW p \in Procs, RestoreRows(p)
       PROVE  RegInv'
  <2>1. PICK c \in Names : c = proc[p].c /\ Continues(p, c)
    BY <1>16, Shapes DEF RestoreRows, AtRestore, Continues
  <2>2. UNCHANGED <<registry, spent>>
    BY <1>16 DEF RestoreRows
  <2>3. \/ /\ tables[c].there /\ \E rs : RowsBecome(c, TRUE, rs)
           /\ Goes(p, Resting) \/ Goes(p, [pc |-> "drop", c |-> c, at |-> 1])
        \/ UNCHANGED tables /\ Goes(p, [pc |-> "drop", c |-> c, at |-> 1]) /\ ~tables[c].there
    BY <1>16, <2>1 DEF RestoreRows, Rests, Failed
  <2>4. ASSUME UNCHANGED tables, Goes(p, [pc |-> "drop", c |-> c, at |-> 1]), ~tables[c].there
        PROVE  RegInv'
    <3>1. /\ proc'[p] = [pc |-> "drop", c |-> c, at |-> 1]
          /\ \A q \in Procs : q # p => proc'[q] = proc[q]
      BY <2>4, GoesApart
    <3>2. NameOK(c)
      BY DEF RegInv
    <3>3. NameOK(c)'
      BY <2>1, <2>2, <2>4, <3>1, <3>2 DEF NameOK, Undone, Works, Begins, Continues, Registered_
    <3> QED
      BY <2>2, <2>4, <3>1, <3>3, Elsewhere DEF Registered_
  <2>5. ASSUME NEW rs, tables[c].there, RowsBecome(c, TRUE, rs), NEW r, Goes(p, r),
               r = Resting \/ r = [pc |-> "drop", c |-> c, at |-> 1]
        PROVE  RegInv'
    <3>1. r.pc = "idle" \/ (r.pc = "drop" /\ r.at = 1 /\ r.c = c)
      BY <2>5 DEF Resting
    <3>2. tables'[c].there /\ \A d \in Names : d # c => tables'[d] = tables[d]
      <4>1. tables' = [tables EXCEPT ![c] = [there |-> TRUE, rows |-> rs]]
        BY <2>5 DEF RowsBecome
      <4> QED
        BY <4>1 DEF PgTypeOK
    <3> QED
      BY <2>1, <2>2, <2>5, <3>1, <3>2, RegWrites
  <2> QED
    BY <2>3, <2>4, <2>5
<1>17. ASSUME UNCHANGED <<tables, registry, proc>>, spent'.names = spent.names
       PROVE  RegInv'
  BY <1>17 DEF RegInv, NameOK, Undone, Works, Begins, Continues, Registered_
<1>18. ASSUME NEW p \in Procs, DeleteAlias(p) \/ \E x \in snapshots : DeleteSnapshot(p, x)
       PROVE  RegInv'
  BY <1>17, <1>18 DEF DeleteAlias, DeleteSnapshot, Counted_
<1>19. ASSUME NEW s \in Scrolls, (\E c \in Names, x \in Payloads : StartScroll(s, c, x)) \/ NextPage(s)
       PROVE  RegInv'
  <2>1. UNCHANGED <<tables, registry, proc, spent>>
    BY <1>19 DEF StartScroll, NextPage
  <2> QED
    BY <1>17, <2>1
<1>20. CASE UNCHANGED pgVars
  BY <1>17, <1>20 DEF pgVars
<1> QED
  BY <1>1, <1>2, <1>3, <1>4, <1>5, <1>6, <1>7, <1>8, <1>9, <1>10, <1>11, <1>12, <1>13, <1>14, <1>15, <1>16, <1>18,
     <1>19, <1>20 DEF PgNext, Operation, Statement

\* RowsAreRegistered, for every number of names, ids and processes: no death and no failed
\* statement leaves rows that a deletion does not find (create_collection, drop_collection and
\* restore_snapshot of index/pgvector/backend.py), as long as no name is created twice.
THEOREM RowsStayRegistered ==
  ASSUME NamesReused = FALSE
  PROVE  PgSpec => []RowsAreRegistered
<1>1. RegInv => RowsAreRegistered
  BY DEF RegInv, NameOK, RowsAreRegistered
<1>2. RegInv /\ PgTypeOK /\ [PgNext]_pgVars => RegInv'
  BY RegStep
<1> QED
  BY <1>1, <1>2, RegBegins, PgTypes, PTL DEF PgSpec


-----------------------------------------------------------------------------
(* PgVector: what an iteration has yielded.                                *)

Increasing(out) == \A j, k \in DOMAIN out : j < k => out[j] < out[k]
Has(out, i) == \E k \in DOMAIN out : out[k] = i

LastOf(last, page, n) == IF n = 0 THEN last ELSE page[n]

ScrollOK(r) ==
  /\ r \in OnScroll
  /\ Increasing(r.out) /\ \A k \in DOMAIN r.out : r.out[k] <= r.last
  /\ r.pc = "on" => \A i \in r.must : Has(r.out, i) \/ i \in AfterLast(r)
  /\ r.pc = "ended" => \A i \in r.must : Has(r.out, i)

ScrollInv ==
  /\ scroll = [s \in Scrolls |-> scroll[s]]
  /\ \A s \in Scrolls : scroll[s] = [pc |-> "idle"] \/ scroll[s].pc = "failed" \/ ScrollOK(scroll[s])

\* A page of what lies after `last` continues an increasing sequence, and what it leaves out lies
\* after its own last id.
LEMMA PageExtends ==
  ASSUME NEW out \in Seq(Ids), NEW last \in Int, Increasing(out), \A k \in DOMAIN out : out[k] <= last,
         NEW n \in 0 .. PageSize, NEW page \in [1 .. n -> Ids], NEW of \in SUBSET Ids, \A i \in of : i > last,
         IsPage(page, of)
  PROVE  /\ out \o page \in Seq(Ids) /\ LastOf(last, page, n) \in Int
         /\ Increasing(out \o page) /\ \A k \in DOMAIN (out \o page) : (out \o page)[k] <= LastOf(last, page, n)
         /\ \A i \in of : Has(out \o page, i) \/ (n = PageSize /\ i > LastOf(last, page, n))
         /\ \A i \in Ids : Has(out, i) => Has(out \o page, i)
<1> USE PgAssumption
<1>1. page \in Seq(Ids) /\ Len(page) = n /\ DOMAIN page = 1 .. n
  OBVIOUS
<1> DEFINE all == out \o page
           new == LastOf(last, page, n)
<1>2. /\ all \in Seq(Ids) /\ Len(all) = Len(out) + n /\ DOMAIN all = 1 .. Len(out) + n
      /\ DOMAIN out = 1 .. Len(out) /\ Len(out) \in Nat
      /\ \A k \in 1 .. Len(out) : all[k] = out[k]
      /\ \A k \in 1 .. n : all[Len(out) + k] = page[k]
  BY <1>1
<1>3. \A k \in DOMAIN all : k \in 1 .. Len(out) \/ (k - Len(out) \in 1 .. n /\ all[k] = page[k - Len(out)])
  <2> SUFFICES ASSUME NEW k \in DOMAIN all, k \notin 1 .. Len(out)
               PROVE  k - Len(out) \in 1 .. n /\ all[k] = page[k - Len(out)]
    OBVIOUS
  <2>1. k - Len(out) \in 1 .. n /\ Len(out) + (k - Len(out)) = k
    BY <1>2
  <2> QED
    BY <1>2, <2>1
<1>4. /\ \A i \in 1 .. n : page[i] \in of /\ \A j \in 1 .. i - 1 : page[j] < page[i]
      /\ \A k \in of : (\E i \in 1 .. n : page[i] = k) \/ (n = PageSize /\ page[PageSize] < k)
  BY <1>1 DEF IsPage
<1>t. (\A k \in DOMAIN out : out[k] \in Int) /\ (\A i \in 1 .. n : page[i] \in Int)
  <2>1. \A k \in 1 .. Len(out) : out[k] \in Ids
    OBVIOUS
  <2>2. \A i \in 1 .. n : page[i] \in Ids
    OBVIOUS
  <2>3. DOMAIN out = 1 .. Len(out)
    OBVIOUS
  <2>4. \A i \in Ids : i \in Int
    OBVIOUS
  <2> QED
    BY ONLY <2>1, <2>2, <2>3, <2>4
<1>5. new \in Int /\ last <= new /\ \A i \in 1 .. n : page[i] <= new
  <2>1. CASE n = 0
    BY <2>1 DEF LastOf
  <2>2. CASE n # 0
    <3>1. n \in 1 .. n /\ new = page[n] /\ page[n] \in of
      BY <2>2, <1>4 DEF LastOf
    <3>2. \A i \in 1 .. n : i = n \/ i \in 1 .. n - 1
      OBVIOUS
    <3>3. \A i \in 1 .. n : page[i] <= page[n]
      BY <3>1, <3>2, <1>4, <1>t
    <3>4. page[n] > last
      BY <3>1
    <3> QED
      BY <3>1, <3>3, <3>4, <1>t
  <2> QED
    BY <2>1, <2>2
<1> HIDE DEF all, new
<1>6. Increasing(all)
  <2> SUFFICES ASSUME NEW j \in DOMAIN all, NEW k \in DOMAIN all, j < k
               PROVE  all[j] < all[k]
    BY DEF Increasing
  <2>1. CASE k \in 1 .. Len(out)
    <3>1. j \in 1 .. Len(out)
      BY <2>1, <1>2
    <3> QED
      BY <2>1, <3>1, <1>2 DEF Increasing
  <2>2. CASE j \in 1 .. Len(out) /\ k \notin 1 .. Len(out)
    <3>1. all[k] = page[k - Len(out)] /\ k - Len(out) \in 1 .. n
      BY <2>2, <1>3
    <3>2. all[k] > last /\ all[k] \in Int
      BY <3>1, <1>4, <1>t
    <3>3. all[j] <= last /\ all[j] \in Int
      BY <2>2, <1>2, <1>t
    <3> QED
      BY <3>2, <3>3
  <2>3. CASE j \notin 1 .. Len(out) /\ k \notin 1 .. Len(out)
    <3>1. /\ all[k] = page[k - Len(out)] /\ k - Len(out) \in 1 .. n
          /\ all[j] = page[j - Len(out)] /\ j - Len(out) \in 1 .. n
      BY <2>3, <1>3
    <3>2. j - Len(out) \in 1 .. (k - Len(out)) - 1
      BY <3>1, <1>2
    <3> QED
      BY <3>1, <3>2, <1>4
  <2> QED
    BY <2>1, <2>2, <2>3
<1>7. \A k \in DOMAIN all : all[k] <= new
  <2> SUFFICES ASSUME NEW k \in DOMAIN all
               PROVE  all[k] <= new
    OBVIOUS
  <2>1. CASE k \in 1 .. Len(out)
    BY <2>1, <1>2, <1>5, <1>t
  <2>2. CASE k \notin 1 .. Len(out)
    BY <2>2, <1>3, <1>5
  <2> QED
    BY <2>1, <2>2
<1>8. ASSUME NEW i \in of
      PROVE  Has(all, i) \/ (n = PageSize /\ i > new)
  <2>1. CASE \E k \in 1 .. n : page[k] = i
    <3>1. PICK k \in 1 .. n : page[k] = i
      BY <2>1
    <3>2. Len(out) + k \in DOMAIN all
      BY <1>2
    <3> QED
      BY <1>2, <3>1, <3>2 DEF Has
  <2>2. CASE n = PageSize /\ page[PageSize] < i
    BY <2>2 DEF new, LastOf
  <2> QED
    BY <2>1, <2>2, <1>4
<1>9. ASSUME NEW i \in Ids, Has(out, i)
      PROVE  Has(all, i)
  <2>1. PICK k \in DOMAIN out : out[k] = i
    BY <1>9 DEF Has
  <2>2. k \in DOMAIN all /\ all[k] = i
    BY <1>2, <2>1
  <2> QED
    BY <2>2 DEF Has
<1> QED
  BY <1>2, <1>5, <1>6, <1>7, <1>8, <1>9 DEF all, new

\* Every step writes rows in one way, or begins or continues an iteration, or leaves both alone.
LEMMA StoreSteps ==
  ASSUME [PgNext]_pgVars
  PROVE  \/ UNCHANGED <<tables, scroll>>
         \/ \E c, there, rs : RowsBecome(c, there, rs)
         \/ \E s \in Scrolls, c \in Names, x \in Payloads : StartScroll(s, c, x)
         \/ \E s \in Scrolls : NextPage(s)
<1>1. ASSUME NEW p \in Procs, Operation(p)
      PROVE  \/ UNCHANGED <<tables, scroll>>
             \/ \E c, there, rs : RowsBecome(c, there, rs)
  BY <1>1 DEF Operation, CreateTable, StartSetMetadata, StartDrop, StartSnapshot, StartWrite, StartAlias, StartRestore,
       DeleteSnapshot, DeleteAlias
<1>2. ASSUME NEW p \in Procs, Statement(p)
      PROVE  \/ UNCHANGED <<tables, scroll>>
             \/ \E c, there, rs : RowsBecome(c, there, rs)
  BY <1>2 DEF Statement, Register, DropStatement, SetMetadata, Upsert, DeleteRows, WriteAlias, CopyRows, SaveSnapshot,
       RestoreTable, RestoreRow, RestoreRows
<1> QED
  BY <1>1, <1>2 DEF PgNext, pgVars, Dies

LEMMA ScrollStep ==
  ASSUME PgTypeOK, ScrollInv, [PgNext]_pgVars
  PROVE  ScrollInv'
<1>1. CASE UNCHANGED <<tables, scroll>>
  BY <1>1 DEF ScrollInv, ScrollOK, AfterLast
<1>2. ASSUME NEW c, NEW there, NEW rs, RowsBecome(c, there, rs)
      PROVE  ScrollInv'
  <2>1. /\ tables' = [tables EXCEPT ![c] = [there |-> there, rows |-> rs]]
        /\ scroll' = [s \in Scrolls |->
             IF scroll[s].pc = "on" /\ scroll[s].c = c
             THEN [scroll[s] EXCEPT !.must = @ \cap Matching(rs, scroll[s].filter)] ELSE scroll[s]]
    BY <1>2 DEF RowsBecome
  <2>2. scroll' = [s \in Scrolls |-> scroll'[s]]
    BY <2>1
  <2> SUFFICES ASSUME NEW s \in Scrolls
               PROVE  scroll'[s] = [pc |-> "idle"] \/ scroll'[s].pc = "failed" \/ ScrollOK(scroll[s])'
    BY <2>2 DEF ScrollInv
  <2> DEFINE r == scroll[s]
  <2>3. CASE r.pc # "on"
    <3>1. scroll'[s] = r
      BY <2>1, <2>3
    <3> QED
      BY <2>3, <3>1 DEF ScrollInv, ScrollOK
  <2>4. CASE r.pc = "on" /\ r.c # c
    <3>1. scroll'[s] = r /\ ScrollOK(r)
      BY <2>1, <2>4 DEF ScrollInv
    <3>2. r.c \in Names
      BY <3>1 DEF ScrollOK, OnScroll
    <3>3. tables'[r.c] = tables[r.c]
      BY <2>1, <2>4, <3>2 DEF PgTypeOK
    <3> QED
      BY <3>1, <3>3 DEF ScrollOK, AfterLast
  <2>5. CASE r.pc = "on" /\ r.c = c
    <3>1. scroll'[s] = [r EXCEPT !.must = r.must \cap Matching(rs, r.filter)] /\ ScrollOK(r)
      BY <2>1, <2>5 DEF ScrollInv
    <3>2. r \in OnScroll
      BY <3>1 DEF ScrollOK
    <3>3. /\ scroll'[s] \in OnScroll /\ scroll'[s].pc = "on" /\ scroll'[s].c = c /\ scroll'[s].out = r.out
          /\ scroll'[s].last = r.last /\ scroll'[s].filter = r.filter
          /\ scroll'[s].must = r.must \cap Matching(rs, r.filter)
      BY <2>5, <3>1, <3>2 DEF OnScroll
    <3>4. tables'[c].rows = rs
      BY <2>1, <2>5, <3>2 DEF OnScroll, PgTypeOK
    <3>5. \A i \in scroll'[s].must : Has(r.out, i) \/ i \in AfterLast(scroll[s])'
      BY <2>5, <3>1, <3>3, <3>4 DEF ScrollOK, AfterLast
    <3> HIDE DEF r
    <3> QED
      BY <3>1, <3>3, <3>5 DEF ScrollOK
  <2> QED
    BY <2>3, <2>4, <2>5
<1>3. ASSUME NEW s \in Scrolls, NEW c \in Names, NEW x \in Payloads, StartScroll(s, c, x)
      PROVE  ScrollInv'
  <2> DEFINE r == [pc |-> "on", c |-> c, filter |-> x, last |-> -1, out |-> <<>>, must |-> Matching(tables[c].rows, x)]
  <2>1. scroll' = [scroll EXCEPT ![s] = r] /\ UNCHANGED tables
    BY <1>3 DEF StartScroll
  <2>2. r \in OnScroll /\ Increasing(r.out) /\ DOMAIN r.out = {}
    BY DEF OnScroll, Matching, Increasing
  <2>3. \A i \in r.must : i \in AfterLast(r)
    BY PgAssumption DEF AfterLast, Matching
  <2>4. ScrollOK(r) /\ ScrollOK(r)'
    BY <2>1, <2>2, <2>3 DEF ScrollOK, AfterLast
  <2> HIDE DEF r
  <2> QED
    BY <2>1, <2>4 DEF ScrollInv, ScrollOK, AfterLast
<1>4. ASSUME NEW s \in Scrolls, NextPage(s)
      PROVE  ScrollInv'
  <2> DEFINE r == scroll[s]
  <2>1. r.pc = "on" /\ UNCHANGED tables /\ ScrollOK(r)
    <3>1. r.pc = "on" /\ UNCHANGED tables
      BY <1>4, Zenon DEF NextPage
    <3> QED
      BY <3>1 DEF ScrollInv
  <2>2. CASE scroll' = [scroll EXCEPT ![s].pc = "failed"]
    <3>1. scroll'[s].pc = "failed" /\ \A t \in Scrolls : t # s => scroll'[t] = scroll[t]
      BY <2>1, <2>2 DEF ScrollInv, ScrollOK, OnScroll
    <3> QED
      BY <2>1, <2>2, <3>1 DEF ScrollInv, ScrollOK, AfterLast
  <2>3. ASSUME NEW n \in 0 .. PageSize, NEW page \in [1 .. n -> Ids], IsPage(page, AfterLast(r)),
               scroll' = [scroll EXCEPT ![s] =
                 [r EXCEPT !.pc = IF n < PageSize THEN "ended" ELSE "on", !.out = r.out \o page,
                           !.last = IF n = 0 THEN r.last ELSE page[n]]]
        PROVE  ScrollInv'
    <3> DEFINE new == LastOf(r.last, page, n)
               out == r.out \o page
               pc == IF n < PageSize THEN "ended" ELSE "on"
    <3>1. r \in OnScroll /\ Increasing(r.out) /\ \A k \in DOMAIN r.out : r.out[k] <= r.last
      BY <2>1 DEF ScrollOK
    <3>2. r.out \in Seq(Ids) /\ r.last \in Int /\ r.must \in SUBSET Ids
      BY <3>1 DEF OnScroll
    <3>3. AfterLast(r) \in SUBSET Ids /\ \A i \in AfterLast(r) : i > r.last
      BY DEF AfterLast, Matching
    <3>4. /\ out \in Seq(Ids) /\ new \in Int /\ Increasing(out) /\ \A k \in DOMAIN out : out[k] <= new
          /\ \A i \in AfterLast(r) : Has(out, i) \/ (n = PageSize /\ i > new)
          /\ \A i \in Ids : Has(r.out, i) => Has(out, i)
      BY ZenonT(60), <2>3, <3>1, <3>2, <3>3, PageExtends
    <3>5. /\ scroll'[s] = [r EXCEPT !.pc = pc, !.out = out, !.last = new]
          /\ \A t \in Scrolls : t # s => scroll'[t] = scroll[t]
          /\ scroll' = [t \in Scrolls |-> scroll'[t]]
      BY <2>3 DEF ScrollInv, LastOf
    <3> HIDE DEF new, out
    <3>6. /\ scroll'[s] \in OnScroll /\ scroll'[s].pc = pc /\ scroll'[s].out = out /\ scroll'[s].last = new
          /\ scroll'[s].must = r.must /\ scroll'[s].c = r.c /\ scroll'[s].filter = r.filter
      BY ZenonT(60), <3>1, <3>4, <3>5 DEF OnScroll
    <3>7. \A i \in r.must : Has(out, i) \/ (n = PageSize /\ i > new /\ i \in AfterLast(r))
      BY <2>1, <3>2, <3>4 DEF ScrollOK
    <3>8. n < PageSize \/ n = PageSize
      BY PgAssumption
    <3>9. \A i \in r.must : Has(out, i) \/ (pc = "on" /\ i \in AfterLast(scroll[s])')
      BY <2>1, <3>6, <3>7, PgAssumption DEF AfterLast
    <3>10. ScrollOK(scroll[s])'
      BY <3>4, <3>6, <3>9 DEF ScrollOK
    <3> QED
      BY ZenonT(60), <2>1, <3>5, <3>10 DEF ScrollInv, ScrollOK, AfterLast
  <2> QED
    BY <1>4, <2>1, <2>2, <2>3 DEF NextPage
<1> QED
  BY StoreSteps, <1>1, <1>2, <1>3, <1>4

\* ScrollIsComplete, for every page size and every number of rows, iterations and processes: the
\* keyset pages of scroll_all (index/pgvector/backend.py) yield every row that is there throughout,
\* once and in the order of ids.
THEOREM ScrollsAreComplete == PgSpec => []ScrollIsComplete
<1>1. PgInit => ScrollInv
  BY DEF PgInit, ScrollInv
<1>2. PgTypeOK /\ ScrollInv /\ [PgNext]_pgVars => ScrollInv'
  BY ScrollStep
<1>3. ScrollInv => ScrollIsComplete
  BY DEF ScrollInv, ScrollIsComplete, ScrollOK, Increasing, Has
<1> QED
  BY <1>1, <1>2, <1>3, PgTypes, PTL DEF PgSpec
=============================================================================
