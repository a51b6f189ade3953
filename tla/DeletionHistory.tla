--------------------------- MODULE DeletionHistory ---------------------------
(***************************************************************************)
(* Deletion with a history variable: the documents that the caller of      *)
(* delete_document was told are deleted.  It guards nothing.               *)
(***************************************************************************)
EXTENDS Deletion

VARIABLE gone  \* documents whose delete returned and that no run took in since

\* The documents whose deletion is reported in this step.
Reported == {job[q].doc : q \in {c \in Clerks : ReportDeletion(c)}}

GoneInit == DeletionInit /\ gone = {}
GoneNext ==
  /\ DeletionNext
  /\ gone' = (gone \cup Reported) \ UNION {op'[p].todo : p \in Started}

GoneSpec == GoneInit /\ [][GoneNext]_<<allVars, gone>>

-----------------------------------------------------------------------------
(* What the documents say and the code does not do.                        *)

\* The chunks are removed from the live collection when the deletion is reported
\* (index-lifecycle.md 12.1).
ReportedIsNotServed ==
  [][\A d \in gone' \ gone : alias # None => d \notin DocsIn(alias)]_<<allVars, gone>>

\* Deleted content is absent from live: no later swap brings it back (18.3 test 8).
SwapHonoursTombstones ==
  [][alias' \notin {alias, None} => gone \cap DocsIn(alias') = {}]_<<allVars, gone>>
=============================================================================
