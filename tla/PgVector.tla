-------------------------------- MODULE PgVector --------------------------------
(***************************************************************************)
(* The second backend of the IndexAdapter interface                        *)
(* (index/pgvector/backend.py).  A collection is a table of its own and a  *)
(* row of the registry, the alias a row of another table, a snapshot a     *)
(* copy of the rows in a third.  The connection is in autocommit: every    *)
(* statement is a transaction, so that an operation of several statements  *)
(* meets the others, and the death of its process, between any two.        *)
(*                                                                         *)
(* A row is a point id and the payload a filter selects on.  Indexes,      *)
(* vectors and scores are left out, and reads that change nothing.         *)
(***************************************************************************)
LOCAL INSTANCE Integers
LOCAL INSTANCE Sequences
LOCAL INSTANCE FiniteSets

CONSTANTS
  Names,      \* names of collections
  Ids,        \* point ids, ordered
  Payloads,   \* what a filter tells apart
  Metadata_,  \* what a collection may be pinned to; its keys are written together
  Procs,      \* connections: workers, the retrieval service, the command line
  Scrolls,    \* iterations over a collection
  PageSize,   \* batch_size of scroll_all
  NamesReused, \* whether a name is created or restored into more than once
  MaxOps      \* bound on operations

Unset == "unset"

ASSUME PgAssumption ==
  /\ Ids \subseteq Nat /\ IsFiniteSet(Ids) /\ PageSize \in Nat \ {0} /\ MaxOps \in Nat
  /\ NamesReused \in BOOLEAN /\ Unset \notin Names \cup Metadata_

VARIABLES
  tables,    \* tables[c]: whether the table of c is there, and its rows
  registry,  \* registry[c]: the metadata of the row of c, Unset without a row
  named,     \* the collection in the row of the alias, Unset without a row
  snapshots, \* rows of the snapshot table
  proc,      \* proc[p]: the statement p comes to next, with its local variables
  scroll,    \* scroll[s]: an iteration; must: the rows that matched since it began
  spent      \* operations so far, and the names created or restored into

pgVars == <<tables, registry, named, snapshots, proc, scroll, spent>>

Row == Ids \X Payloads
NoRows == [there |-> FALSE, rows |-> {}]
Resting == [pc |-> "idle"]

PgInit ==
  /\ tables = [c \in Names |-> NoRows]
  /\ registry = [c \in Names |-> Unset]
  /\ named = Unset /\ snapshots = {}
  /\ proc = [p \in Procs |-> Resting]
  /\ scroll = [s \in Scrolls |-> [pc |-> "idle"]]
  /\ spent = [ops |-> 0, names |-> {}]

-----------------------------------------------------------------------------
Registered_(c) == registry[c] # Unset

Calls(p) == proc[p] = Resting /\ spent.ops < MaxOps
Counted_(c) == spent' = [ops |-> spent.ops + 1, names |-> spent.names \cup c]
Goes(p, r) == proc' = [proc EXCEPT ![p] = r]
Rests(p) == Goes(p, Resting)

\* A name is rtfc_<kb>_<build id>, hence new with every build and restore, unless one is reused.
MayCreate(c) == NamesReused \/ c \notin spent.names

\* The rows of c become rs; a row that is changed or deleted is not owed to an iteration any more.
Matching(rs, x) == {i \in Ids : <<i, x>> \in rs}

RowsBecome(c, there, rs) ==
  /\ tables' = [tables EXCEPT ![c] = [there |-> there, rows |-> rs]]
  /\ scroll' = [s \in Scrolls |->
       IF scroll[s].pc = "on" /\ scroll[s].c = c
       THEN [scroll[s] EXCEPT !.must = @ \cap Matching(rs, scroll[s].filter)] ELSE scroll[s]]

-----------------------------------------------------------------------------
(* Collections.                                                            *)

\* create_collection: the table, then the row; nothing undoes the first when the second fails.
CreateTable(p, c, m) ==
  /\ Calls(p) /\ MayCreate(c) /\ Counted_({c})
  /\ IF tables[c].there THEN UNCHANGED <<tables, proc, scroll>>
     ELSE /\ RowsBecome(c, TRUE, {})
          /\ Goes(p, [pc |-> "register", c |-> c, m |-> m])
  /\ UNCHANGED <<registry, named, snapshots>>

Register(p) ==
  /\ proc[p].pc = "register"
  /\ registry' = IF Registered_(proc[p].c) THEN registry ELSE [registry EXCEPT ![proc[p].c] = proc[p].m]
  /\ Rests(p)
  /\ UNCHANGED <<tables, named, snapshots, scroll, spent>>

\* Mutant: the row first.
RowFirst == <<"row", "table">>

\* drop_collection, and what restore_snapshot does when it failed.  The alias stays.
DropSteps == <<"table", "row">>

StartDrop(p, c) ==
  /\ Calls(p) /\ Registered_(c) /\ Counted_({})
  /\ Goes(p, [pc |-> "drop", c |-> c, at |-> 1])
  /\ UNCHANGED <<tables, registry, named, snapshots, scroll>>

DropStatement(p) ==
  LET r == proc[p]
  IN  /\ r.pc = "drop"
      /\ IF DropSteps[r.at] = "table" THEN RowsBecome(r.c, FALSE, {}) /\ UNCHANGED registry
         ELSE registry' = [registry EXCEPT ![r.c] = Unset] /\ UNCHANGED <<tables, scroll>>
      /\ Goes(p, IF r.at = 2 THEN Resting ELSE [r EXCEPT !.at = 2])
      /\ UNCHANGED <<named, snapshots, spent>>

\* set_collection_metadata merges into the row; without one the UPDATE finds nothing.
StartSetMetadata(p, c, m) ==
  /\ Calls(p) /\ Registered_(c) /\ Counted_({})
  /\ Goes(p, [pc |-> "metadata", c |-> c, m |-> m])
  /\ UNCHANGED <<tables, registry, named, snapshots, scroll>>

SetMetadata(p) ==
  /\ proc[p].pc = "metadata"
  /\ registry' = IF Registered_(proc[p].c) THEN [registry EXCEPT ![proc[p].c] = proc[p].m] ELSE registry
  /\ Rests(p)
  /\ UNCHANGED <<tables, named, snapshots, scroll, spent>>

-----------------------------------------------------------------------------
(* Points.                                                                 *)

StartWrite(p, c, pc, write) ==
  /\ Calls(p) /\ Registered_(c) /\ Counted_({})
  /\ Goes(p, [pc |-> pc, c |-> c, write |-> write])
  /\ UNCHANGED <<tables, registry, named, snapshots, scroll>>

\* INSERT ... ON CONFLICT DO UPDATE
Merged(rs, new) == {x \in rs : \A y \in new : y[1] # x[1]} \cup new

\* executemany: the batch, or the rows before the one that failed (none, if the driver rolls back).
Upsert(p) ==
  LET r == proc[p]
      t == tables[r.c]
  IN  /\ r.pc = "upsert"
      /\ IF t.there
         THEN \E part \in SUBSET r.write : RowsBecome(r.c, TRUE, Merged(t.rows, part))
         ELSE UNCHANGED <<tables, scroll>>
      /\ Rests(p)
      /\ UNCHANGED <<registry, named, snapshots, spent>>

\* delete_by_document, by the payload.
DeleteRows(p) ==
  LET r == proc[p]
      t == tables[r.c]
  IN  /\ r.pc = "delete"
      /\ IF t.there THEN RowsBecome(r.c, TRUE, {x \in t.rows : x[2] # r.write})
         ELSE UNCHANGED <<tables, scroll>>
      /\ Rests(p)
      /\ UNCHANGED <<registry, named, snapshots, spent>>

-----------------------------------------------------------------------------
(* The alias.                                                              *)

\* create_alias looks for the row, retarget_alias for the collection.
StartAlias(p, c, pc) ==
  /\ Calls(p) /\ Counted_({})
  /\ IF pc = "create_alias" THEN named = Unset ELSE Registered_(c)
  /\ Goes(p, [pc |-> pc, c |-> c])
  /\ UNCHANGED <<tables, registry, named, snapshots, scroll>>

\* A plain INSERT fails on a row that came in between; the upsert does not.
WriteAlias(p) ==
  /\ proc[p].pc \in {"create_alias", "retarget_alias"}
  /\ named' = IF proc[p].pc = "create_alias" /\ named # Unset THEN named ELSE proc[p].c
  /\ Rests(p)
  /\ UNCHANGED <<tables, registry, snapshots, scroll, spent>>

DeleteAlias(p) ==
  /\ Calls(p) /\ named # Unset /\ Counted_({})
  /\ named' = Unset
  /\ UNCHANGED <<tables, registry, snapshots, proc, scroll>>

-----------------------------------------------------------------------------
(* Snapshots.                                                              *)

\* The metadata, the rows and the INSERT are three statements.
StartSnapshot(p, c) ==
  /\ Calls(p) /\ Registered_(c) /\ Counted_({})
  /\ Goes(p, [pc |-> "copy", c |-> c, m |-> registry[c]])
  /\ UNCHANGED <<tables, registry, named, snapshots, scroll>>

CopyRows(p) ==
  LET r == proc[p]
  IN  /\ r.pc = "copy"
      /\ IF tables[r.c].there
         THEN Goes(p, [pc |-> "save", snapshot |-> [of |-> r.c, m |-> r.m, rows |-> tables[r.c].rows]])
         ELSE Rests(p)
      /\ UNCHANGED <<tables, registry, named, snapshots, scroll, spent>>

SaveSnapshot(p) ==
  /\ proc[p].pc = "save"
  /\ snapshots' = snapshots \cup {proc[p].snapshot}
  /\ Rests(p)
  /\ UNCHANGED <<tables, registry, named, scroll, spent>>

DeleteSnapshot(p, x) ==
  /\ Calls(p) /\ Counted_({})
  /\ snapshots' = snapshots \ {x}
  /\ UNCHANGED <<tables, registry, named, proc, scroll>>

\* restore_snapshot: the target is looked up and the snapshot read, then the table, its row
\* and the rows of the snapshot are written.
StartRestore(p, c, x) ==
  /\ Calls(p) /\ MayCreate(c) /\ Counted_({c}) /\ ~Registered_(c)
  /\ Goes(p, [pc |-> "restore_table", c |-> c, snapshot |-> x])
  /\ UNCHANGED <<tables, registry, named, snapshots, scroll>>

\* Whatever fails, the target is dropped, whoever created it.
Failed(p) == Goes(p, [pc |-> "drop", c |-> proc[p].c, at |-> 1])

RestoreTable(p) ==
  LET c == proc[p].c
  IN  /\ proc[p].pc = "restore_table"
      /\ IF tables[c].there THEN Failed(p) /\ UNCHANGED <<tables, scroll>>
         ELSE RowsBecome(c, TRUE, {}) /\ Goes(p, [proc[p] EXCEPT !.pc = "restore_row"])
      /\ UNCHANGED <<registry, named, snapshots, spent>>

RestoreRow(p) ==
  LET r == proc[p]
  IN  /\ r.pc = "restore_row"
      /\ IF Registered_(r.c) THEN Failed(p) /\ UNCHANGED registry
         ELSE /\ registry' = [registry EXCEPT ![r.c] = r.snapshot.m]
              /\ Goes(p, [r EXCEPT !.pc = "restore_rows"])
      /\ UNCHANGED <<tables, named, snapshots, scroll, spent>>

RestoreRows(p) ==
  LET r == proc[p]
      t == tables[r.c]
      conflict == \E x \in t.rows, y \in r.snapshot.rows : x[1] = y[1]
  IN  /\ r.pc = "restore_rows"
      /\ \/ /\ t.there /\ ~conflict
            /\ RowsBecome(r.c, TRUE, t.rows \cup r.snapshot.rows)
            /\ Rests(p)
         \/ /\ t.there
            /\ \E part \in SUBSET r.snapshot.rows : RowsBecome(r.c, TRUE, Merged(part, t.rows))
            /\ Failed(p)
         \/ ~t.there /\ Failed(p) /\ UNCHANGED <<tables, scroll>>
      /\ UNCHANGED <<registry, named, snapshots, spent>>

\* The process dies, or its connection, before the next statement.
Dies(p) ==
  /\ proc[p] # Resting
  /\ Rests(p)
  /\ UNCHANGED <<tables, registry, named, snapshots, scroll, spent>>

-----------------------------------------------------------------------------
(* scroll_all: pages of the rows that match, after the last id of the page before.             *)

StartScroll(s, c, x) ==
  /\ scroll[s].pc = "idle" /\ Registered_(c)
  /\ scroll' = [scroll EXCEPT ![s] = [pc |-> "on", c |-> c, filter |-> x, last |-> -1, out |-> <<>>,
                                      must |-> Matching(tables[c].rows, x)]]
  /\ UNCHANGED <<tables, registry, named, snapshots, proc, spent>>

\* Mutant: pages by offset.
AfterOffset(r) ==
  LET matching == Matching(tables[r.c].rows, r.filter)
  IN {i \in matching : Cardinality({j \in matching : j < i}) >= Len(r.out)}

AfterLast(r) == {i \in Matching(tables[r.c].rows, r.filter) : i > r.last}

\* ORDER BY point_id LIMIT batch_size
IsPage(page, of) ==
  /\ \A i \in DOMAIN page : page[i] \in of /\ \A j \in 1 .. i - 1 : page[j] < page[i]
  /\ \A k \in of : (\E i \in DOMAIN page : page[i] = k) \/ (Len(page) = PageSize /\ page[PageSize] < k)

NextPage(s) ==
  LET r == scroll[s]
  IN  /\ r.pc = "on"
      /\ IF tables[r.c].there
         THEN \E n \in 0 .. PageSize : \E page \in [1 .. n -> Ids] :
                /\ IsPage(page, AfterLast(r))
                /\ scroll' = [scroll EXCEPT ![s] =
                     [r EXCEPT !.pc = IF n < PageSize THEN "ended" ELSE "on", !.out = @ \o page,
                               !.last = IF n = 0 THEN @ ELSE page[n]]]
         ELSE scroll' = [scroll EXCEPT ![s].pc = "failed"]
      /\ UNCHANGED <<tables, registry, named, snapshots, proc, spent>>

-----------------------------------------------------------------------------
Batches_ == {{x} : x \in Row} \cup {{x, y} : x \in Row, y \in Row}

Operation(p) ==
  \/ \E c \in Names, m \in Metadata_ : CreateTable(p, c, m) \/ StartSetMetadata(p, c, m)
  \/ \E c \in Names : StartDrop(p, c) \/ StartSnapshot(p, c)
  \/ \E c \in Names, b \in Batches_ :
       (\A x, y \in b : x[1] = y[1] => x = y) /\ StartWrite(p, c, "upsert", b)
  \/ \E c \in Names, x \in Payloads : StartWrite(p, c, "delete", x)
  \/ \E c \in Names, pc \in {"create_alias", "retarget_alias"} : StartAlias(p, c, pc)
  \/ \E c \in Names, x \in snapshots : StartRestore(p, c, x)
  \/ \E x \in snapshots : DeleteSnapshot(p, x)
  \/ DeleteAlias(p)

Statement(p) ==
  \/ Register(p) \/ DropStatement(p) \/ SetMetadata(p) \/ Upsert(p) \/ DeleteRows(p) \/ WriteAlias(p)
  \/ CopyRows(p) \/ SaveSnapshot(p) \/ RestoreTable(p) \/ RestoreRow(p) \/ RestoreRows(p)

PgNext ==
  \/ \E p \in Procs : Operation(p) \/ Statement(p) \/ Dies(p)
  \/ \E s \in Scrolls, c \in Names, x \in Payloads : StartScroll(s, c, x)
  \/ \E s \in Scrolls : NextPage(s)

PgSpec == PgInit /\ [][PgNext]_pgVars

-----------------------------------------------------------------------------
\* Every operation that could delete them looks for the registry first, so rows without an
\* entry there are rows of documents that no deletion reaches: no failure and no death leaves
\* them behind, as long as no name is used twice.
RowsAreRegistered == \A c \in Names : tables[c].rows # {} => Registered_(c)

\* An iteration that ended has yielded every row that matched from its first statement to its
\* last, and none twice, whatever was inserted, replaced and deleted between its pages.
ScrollIsComplete ==
  \A s \in Scrolls : scroll[s].pc = "ended" =>
    /\ \A i \in scroll[s].must : \E k \in DOMAIN scroll[s].out : scroll[s].out[k] = i
    /\ \A j, k \in DOMAIN scroll[s].out : j < k => scroll[s].out[j] < scroll[s].out[k]
=============================================================================
