------------------------------ MODULE Evaluation ------------------------------
(***************************************************************************)
(* Evaluation of one knowledge base: eval sets and their questions         *)
(* (control/eval_store.py, `corpus eval'), scoring through retrieval       *)
(* (services/eval_scoring.py), the drift check (services/eval_drift.py),   *)
(* the sweep over candidate configurations (services/eval_sweep.py) and    *)
(* the promotion behind eval gates (services/promotion.py).                *)
(*                                                                         *)
(* A step is one query of a scoring or one commit.  Recall is counted in   *)
(* parts of Scale; the questions a collection answers are its content.     *)
(***************************************************************************)
EXTENDS Integers, Sequences, FiniteSets, FiniteSetsExt

CONSTANTS
  Collections_,    \* the collections the alias may point at
  Questions,       \* questions that may be generated or imported
  Reviews,         \* the review statuses a question may have
  SetOf, IdsOf,    \* SetOf[q], IdsOf[q]: its eval set, the ids it names as its source
  FoundIds,        \* FoundIds[d]: the chunk ids and segment paths of the points of document d
  Answers,         \* Answers[b]: the questions whose expected segment b returns
  Chunks, ChunkClasses, \* Chunks[b][class]: how many chunks of a class b was built with
  Tolerance,       \* chunk_count_tolerance_pct
  Variants,        \* candidates of a sweep, 0 .. n; 0 is the reference
  VariantAnswers,  \* VariantAnswers[v]: as Answers, for the sample under candidate v
  Callers,         \* processes: workers, `corpus eval sweep', promotions
  Deleters,        \* those of them that delete documents
  Prints,          \* fingerprints of the reference configuration
  PrintOf,         \* PrintOf[c]: the one of the configuration caller c was given
  Scale,           \* a multiple of every number of questions
  Threshold,       \* assessment.eval_regression_threshold
  Margin,          \* noise_margin of run_sweep
  MaxEvals,        \* bound on calls
  MaxRows          \* bound on baselines

ASSUME EvaluationAssumption ==
  /\ Deleters \subseteq Callers /\ PrintOf \in [Callers -> Prints]
  /\ IsFiniteSet(Questions) /\ "unreviewed" \in Reviews /\ {Scale, Threshold, Tolerance, Margin, MaxEvals, MaxRows} \subseteq Nat
  /\ \A n \in 1 .. Cardinality(Questions) : Scale % n = 0
  /\ Variants = 0 .. Cardinality(Variants) - 1

VARIABLES
  store,     \* store[q]: review_status of question q, or "absent"
  sets_,     \* eval sets that exist
  rows_,     \* eval_baselines, oldest first
  sweeps,    \* sweep_runs with their ranking, oldest first
  live_,     \* the collection the alias points at
  standby_,  \* the N-1 collection, live_ as long as there is none
  scratch,   \* candidates whose scratch collection holds the sample
  at,        \* at[c]: where caller c is, with its local variables
  verdicts,  \* history: the results of drift checks
  indexed,   \* pairs <<b, d>>: collection b has the points of document d
  removed,   \* history: documents whose deletion was reported
  production \* PostgreSQL checks foreign keys and an upsert needs its collection, or
             \* SQLite does not and the fake adapter creates it

evalVars == <<store, sets_, rows_, sweeps, live_, standby_, scratch, at, verdicts, indexed, removed, production>>

Sets_ == {SetOf[q] : q \in Questions}
EvalDocs == DOMAIN FoundIds
Usable_ == Reviews \cap {"reviewed_kept", "reviewed_edited"}

Baseline == [print : Prints, set : Sets_ \cup {"sweep"}, recall : Nat, current : BOOLEAN,
             marked : BOOLEAN, by : Nat]   \* by: the sweep that wrote it, 0: none
Free == [pc |-> "free"]

EvalInit ==
  /\ store = [q \in Questions |-> "absent"] /\ sets_ = {}
  /\ rows_ = <<>> /\ sweeps = <<>> /\ verdicts = {}
  /\ indexed = Collections_ \X EvalDocs /\ removed = {}
  /\ live_ \in Collections_ /\ standby_ = live_ /\ scratch = {}
  /\ at = [c \in Callers |-> Free]
  /\ production \in BOOLEAN

Begun == Len(sweeps) + Cardinality(verdicts) + Cardinality(removed)
FreeAt(c) == at[c].pc = "free" /\ Begun < MaxEvals
Move(c, r) == at' = [at EXCEPT ![c] = r]
Done(c) == Move(c, Free)

-----------------------------------------------------------------------------
(* Eval sets.                                                              *)

Present == {q \in Questions : store[q] # "absent"}
OfSet(s) == {q \in Present : SetOf[q] = s}

\* `corpus eval generate': every question starts unreviewed.
Generate(s) ==
  /\ s \notin sets_
  /\ \E qs \in SUBSET {q \in Questions : SetOf[q] = s} :
       store' = [q \in Questions |-> IF q \in qs THEN "unreviewed" ELSE store[q]]
  /\ sets_' = sets_ \cup {s}
  /\ UNCHANGED <<rows_, sweeps, live_, standby_, scratch, at, verdicts, indexed, removed, production>>

\* `corpus eval import': statuses as in the file.
Import(s) ==
  /\ s \notin sets_
  /\ \E qs \in SUBSET {q \in Questions : SetOf[q] = s}, r \in Reviews :
       store' = [q \in Questions |-> IF q \in qs THEN r ELSE store[q]]
  /\ sets_' = sets_ \cup {s}
  /\ UNCHANGED <<rows_, sweeps, live_, standby_, scratch, at, verdicts, indexed, removed, production>>

\* `corpus eval review': any status after any other.
Review(q, r) ==
  /\ store[q] \notin {"absent", r}
  /\ store' = [store EXCEPT ![q] = r]
  /\ UNCHANGED <<sets_, rows_, sweeps, live_, standby_, scratch, at, verdicts, indexed, removed, production>>

\* The ids of document d that a search of its points finds.
Found(b, d) == IF <<b, d>> \in indexed THEN FoundIds[d] ELSE {}
Holds(b, q) == \E d \in EvalDocs : IdsOf[q] \cap Found(b, d) # {}
Answered(b) == {q \in Answers[b] : Holds(b, q)}

\* delete_document looks for the ids of the document in the live and the N-1 collection,
\* then deletes its points there.
StartDelete(c, d) ==
  /\ FreeAt(c) /\ d \notin removed
  /\ Move(c, [pc |-> "delete", doc |-> d, ids |-> Found(live_, d) \cup Found(standby_, d)])
  /\ indexed' = indexed \ ({live_, standby_} \X {d})
  /\ UNCHANGED <<store, sets_, rows_, sweeps, live_, standby_, scratch, verdicts, removed, production>>

\* Each question that names one of the ids goes: of an imported set, since a generated question
\* names the id of a segment; of another document, where that has the path too.
Unasked(ids) == {q \in Present : IdsOf[q] \cap ids # {}}

\* remove_questions_for_segments in one commit with the audit row: where that fails the
\* questions stay, and the deletion is reported as before.
RemoveQuestions(c, audited) ==
  LET gone == IF audited THEN Unasked(at[c].ids) ELSE {}
  IN  /\ at[c].pc = "delete"
      /\ store' = [q \in Questions |-> IF q \in gone THEN "absent" ELSE store[q]]
      /\ removed' = removed \cup {at[c].doc}
      /\ Done(c)
      /\ UNCHANGED <<sets_, rows_, sweeps, live_, standby_, scratch, verdicts, indexed, production>>

\* The process dies between the points and the questions; whoever asked for it asks again.
DeleteDies(c) ==
  /\ at[c].pc = "delete"
  /\ Done(c)
  /\ UNCHANGED <<store, sets_, rows_, sweeps, live_, standby_, scratch, verdicts, indexed, removed, production>>

-----------------------------------------------------------------------------
(* Scoring: usable questions, one query each; all are scorable here.  A    *)
(* query that fails is answered with an empty list, hence counts as a miss.*)

Scored(qs) == {q \in qs : store[q] \in Usable_}
Score(r) == IF r.n = 0 THEN 0 ELSE (r.hits * Scale) \div r.n

\* What the collection a caller scores returns: its scratch collection or the alias.
Returned(r) ==
  IF r.job = "sweep" THEN (IF r.own.v \in scratch THEN VariantAnswers[r.own.v] ELSE {})
  ELSE Answered(live_)

\* own: the local variables of the one that asked for the scores.
Scoring(job, qs, own) == [pc |-> "score", job |-> job, todo |-> qs, n |-> 0, hits |-> 0,
                          outage |-> FALSE, own |-> own]

\* The questions are asked in the order they were loaded in.
Ask(c) ==
  LET r == at[c]
      q == CHOOSE x \in r.todo : TRUE
  IN  /\ r.pc = "score" /\ r.todo # {}
      /\ \E up \in BOOLEAN :
           Move(c, [r EXCEPT !.todo = @ \ {q}, !.n = @ + 1, !.outage = @ \/ (~up /\ r.job = "drift"),
                             !.hits = IF up /\ q \in Returned(r) THEN @ + 1 ELSE @])
      /\ UNCHANGED <<store, sets_, rows_, sweeps, live_, standby_, scratch, verdicts, indexed, removed, production>>

ScoredAll(c, job) == at[c].pc = "score" /\ at[c].job = job /\ at[c].todo = {}

-----------------------------------------------------------------------------
(* Baselines.                                                              *)

CurrentRows == {i \in DOMAIN rows_ : rows_[i].current}
HasBaseline == CurrentRows # {}
CurrentRow == IF HasBaseline THEN CHOOSE i \in CurrentRows : TRUE ELSE 0

\* The row an upsert loaded is demoted and, under another reference, marked (M-049).
Superseded(rs, i, print) ==
  [rs EXCEPT ![i].current = FALSE, ![i].marked = @ \/ rs[i].print # print]

\* The rows after an upsert that loaded row i (0: none) as the current one.
Upserted(i, new) == Append(IF i = 0 THEN rows_ ELSE Superseded(rows_, i, new.print), new)

\* Mutant: without the partial unique index.
KeysOnly(rs) == production => \A i \in DOMAIN rs : rs[i].set \in Sets_

\* The partial unique index on is_current, and the key of the eval set.
Legal(rs) ==
  /\ Cardinality({i \in DOMAIN rs : rs[i].current}) <= 1
  /\ production => \A i \in DOMAIN rs : rs[i].set \in Sets_

-----------------------------------------------------------------------------
(* The drift check, of the schedule or of an eval_drift job.               *)

Verdict(status, delta, outage) ==
  [status |-> status, delta |-> delta, outage |-> outage]

StartDrift(c) ==
  /\ FreeAt(c) /\ HasBaseline
  /\ LET b == rows_[CurrentRow]
         qs == IF b.set \in Sets_ THEN OfSet(b.set) ELSE {}
     IN  IF qs = {}
         THEN verdicts' = verdicts \cup {Verdict("no_eval_set", 0, FALSE)} /\ UNCHANGED at
         ELSE /\ Move(c, Scoring("drift", Scored(qs), [base |-> b.recall]))
              /\ UNCHANGED verdicts
  /\ UNCHANGED <<store, sets_, rows_, sweeps, live_, standby_, scratch, indexed, removed, production>>

FinishDrift(c) ==
  LET r == at[c]
      status == IF r.own.base - Score(r) > Threshold THEN "regressed" ELSE "ok"
  IN  /\ ScoredAll(c, "drift")
      /\ verdicts' = verdicts \cup {Verdict(status, r.own.base - Score(r), r.outage)}
      /\ Done(c)
      /\ UNCHANGED <<store, sets_, rows_, sweeps, live_, standby_, scratch, indexed, removed, production>>

\* A caller of EvalBaselineRepository that scored set s on the live collection: the tests
\* of the drift check do so, no code of the package does.
RecordBaseline(s, print) ==
  /\ s \in sets_ /\ Len(rows_) < MaxRows
  /\ rows_' = Upserted(CurrentRow,
       [print |-> print, set |-> s, current |-> TRUE, marked |-> FALSE, by |-> 0,
        recall |-> LET qs == Scored(OfSet(s))
                   IN  Score([n |-> Cardinality(qs), hits |-> Cardinality(qs \cap Answered(live_))])])
  /\ UNCHANGED <<store, sets_, sweeps, live_, standby_, scratch, at, verdicts, indexed, removed, production>>

-----------------------------------------------------------------------------
(* The sweep.  Its questions are the ones its caller loaded.               *)

SweepRow(status) == [status |-> status, ranking |-> <<>>, near |-> FALSE]

\* M-050, M-048: too few documents leave a declined row, too high an estimate none.
StartSweep(c) ==
  /\ FreeAt(c) /\ Len(rows_) < MaxRows
  /\ \/ /\ sweeps' = Append(sweeps, SweepRow("declined")) /\ UNCHANGED at
     \/ /\ sweeps' = Append(sweeps, SweepRow("running"))
        /\ \E s \in sets_ :
             Move(c, [pc |-> "ingest", v |-> 0, id |-> Len(sweeps) + 1,
                      qs |-> Scored(OfSet(s)), recalls |-> <<>>])
  /\ UNCHANGED <<store, sets_, rows_, live_, standby_, scratch, verdicts, indexed, removed, production>>

\* _ingest_sample_to_scratch: nothing creates the collection before the upserts.
IngestSample(c) ==
  LET r == at[c]
  IN  /\ r.pc = "ingest"
      /\ scratch' = IF production THEN scratch ELSE scratch \cup {r.v}
      /\ Move(c, Scoring("sweep", r.qs, r))
      /\ UNCHANGED <<store, sets_, rows_, sweeps, live_, standby_, verdicts, indexed, removed, production>>

\* The score of a candidate, the drop of its scratch collection, the next candidate.
NextCandidate(c) ==
  LET r == at[c].own
      next == [pc |-> IF r.v + 1 \in Variants THEN "ingest" ELSE "rank", v |-> r.v + 1, id |-> r.id,
               qs |-> r.qs, recalls |-> Append(r.recalls, Score(at[c]))]
  IN  /\ ScoredAll(c, "sweep")
      /\ scratch' = scratch \ {r.v}
      /\ Move(c, next)
      /\ UNCHANGED <<store, sets_, rows_, sweeps, live_, standby_, verdicts, indexed, removed, production>>

\* sorted() is stable: equal recalls keep the order of the candidates.
Ahead(recalls, v, w) ==
  recalls[v + 1] > recalls[w + 1] \/ (recalls[v + 1] = recalls[w + 1] /\ v < w)
Ranked(recalls) ==
  [i \in 1 .. Len(recalls) |->
     CHOOSE v \in Variants : Cardinality({w \in Variants : Ahead(recalls, w, v)}) = i - 1]

NearOptimal(recalls) == \A v \in Variants \ {0} : recalls[v + 1] - recalls[1] <= Margin

\* get_current, after the ranking rows are flushed.
ReadBaseline(c) ==
  LET r == at[c]
  IN  /\ r.pc = "rank"
      /\ Move(c, [pc |-> "commit", id |-> r.id, recalls |-> r.recalls, loaded |-> CurrentRow])
      /\ UNCHANGED <<store, sets_, rows_, sweeps, live_, standby_, scratch, verdicts, indexed, removed, production>>

CompletedSweep(r) == [status |-> "completed", ranking |-> Ranked(r.recalls), near |-> NearOptimal(r.recalls)]
SweepBaseline(c, r) == [print |-> PrintOf[c], set |-> "sweep", recall |-> r.recalls[1], current |-> TRUE,
                        marked |-> FALSE, by |-> r.id]

\* Mutant: the ranking is committed before the baseline is written.
CommittedApart(c, r) ==
  LET rs == Upserted(r.loaded, SweepBaseline(c, r))
  IN  [sweeps |-> [sweeps EXCEPT ![r.id] = CompletedSweep(r)],
       rows |-> IF Legal(rs) THEN rs ELSE rows_]

\* Ranking, status and baseline in one commit: all of them or, on a conflict, none.
Committed(c, r) ==
  LET rs == Upserted(r.loaded, SweepBaseline(c, r))
  IN  IF Legal(rs)
      THEN [sweeps |-> [sweeps EXCEPT ![r.id] = CompletedSweep(r)], rows |-> rs]
      ELSE [sweeps |-> sweeps, rows |-> rows_]

FinishSweep(c) ==
  LET r == at[c]
  IN  /\ r.pc = "commit" /\ Len(rows_) < MaxRows
      /\ rows_' = Committed(c, r).rows /\ sweeps' = Committed(c, r).sweeps
      /\ Done(c)
      /\ UNCHANGED <<store, sets_, live_, standby_, scratch, verdicts, indexed, removed, production>>

-----------------------------------------------------------------------------
(* score_and_validate_shadow: the shadow b of a build is scored as the     *)
(* knowledge base is, through its alias.                                   *)

StartGate(c, b, s) ==
  /\ FreeAt(c) /\ b # live_ /\ s \in sets_
  /\ Move(c, Scoring("gate", Scored(OfSet(s)), [b |-> b, before |-> live_]))
  /\ UNCHANGED <<store, sets_, rows_, sweeps, live_, standby_, scratch, verdicts, indexed, removed, production>>

\* Gate 1: the number of chunks against that of the collection the build was to replace.
ChunksTolerated(b, before) ==
  LET Total(x) == MapThenSumSet(LAMBDA class : Chunks[x][class], ChunkClasses)
      difference == Total(b) - Total(before)
  IN  Total(before) > 0 => 100 * Max({difference, -difference}) <= Tolerance * Total(before)

\* Gate 2: no class that had chunks has none.
ClassesKept(b, before) == \A class \in ChunkClasses : Chunks[before][class] > 0 => Chunks[b][class] > 0

\* Gate 3 wants a score; gate 4, skipped without a baseline, blocks on more than the threshold.
Passes(r, scored) ==
  /\ ChunksTolerated(r.own.b, r.own.before) /\ ClassesKept(r.own.b, r.own.before)
  /\ scored
  /\ HasBaseline => rows_[CurrentRow].recall - Score(r) <= Threshold

FinishGate(c, scored) ==
  LET r == at[c]
  IN  /\ ScoredAll(c, "gate")
      /\ IF Passes(r, scored) /\ r.own.b # live_ THEN live_' = r.own.b /\ standby_' = live_
         ELSE UNCHANGED <<live_, standby_>>
      /\ Done(c)
      /\ UNCHANGED <<store, sets_, rows_, sweeps, scratch, verdicts, indexed, removed, production>>

-----------------------------------------------------------------------------
EvalNext ==
  \/ \E s \in Sets_ : Generate(s) \/ Import(s)
  \/ \E q \in Questions, r \in Reviews : Review(q, r)
  \/ \E c \in Deleters, d \in EvalDocs : StartDelete(c, d)
  \/ \E c \in Deleters, audited \in BOOLEAN : RemoveQuestions(c, audited)
  \/ \E c \in Deleters : DeleteDies(c)
  \/ \E s \in Sets_, p \in Prints : RecordBaseline(s, p)
  \/ \E c \in Callers : Ask(c)
  \/ \E c \in Callers : StartDrift(c) \/ FinishDrift(c)
  \/ \E c \in Callers : StartSweep(c)
  \/ \E c \in Callers : IngestSample(c) \/ NextCandidate(c) \/ ReadBaseline(c) \/ FinishSweep(c)
  \/ \E c \in Callers, b \in Collections_, s \in Sets_ : StartGate(c, b, s)
  \/ \E c \in Callers, scored \in BOOLEAN : FinishGate(c, scored)

EvalSpec == EvalInit /\ [][EvalNext]_evalVars

-----------------------------------------------------------------------------
\* M-049: the newest baseline is the current one, and a past one is marked exactly when the
\* one that replaced it was measured against another reference, whoever raced to write it.
BaselineHistory ==
  \A i \in DOMAIN rows_ :
    IF i = Len(rows_) THEN rows_[i].current /\ ~rows_[i].marked
    ELSE ~rows_[i].current /\ (rows_[i].marked <=> rows_[i].print # rows_[i + 1].print)

\* A completed sweep left the recall of its reference as a baseline, and a sweep that did not
\* complete left neither a baseline nor a ranking.
RankedWithBaseline ==
  \A i \in DOMAIN sweeps :
    LET written == {j \in DOMAIN rows_ : rows_[j].by = i}
    IN  /\ sweeps[i].status = "completed" <=> sweeps[i].ranking # <<>>
        /\ sweeps[i].status = "completed" <=> Cardinality(written) = 1
        /\ sweeps[i].status # "completed" => written = {}

\* docs/process/must-traceability.md:62: a near-optimal sweep names the reference as winner.
NearOptimalIsReference ==
  \A i \in DOMAIN sweeps : sweeps[i].near /\ sweeps[i].ranking # <<>> => sweeps[i].ranking[1] = 0

\* services/promotion.py: a promoted collection is not worse than the baseline by more than
\* the threshold, on the questions that are there when it is promoted.
GateBlocksRegression ==
  [][live_' # live_ /\ HasBaseline =>
       \E s \in Sets_ :
         LET qs == Scored(OfSet(s))
         IN  rows_[CurrentRow].recall
               - Score([n |-> Cardinality(qs), hits |-> Cardinality(qs \cap Answered(live_'))])
             <= Threshold]_evalVars

\* A regression is reported because of the index, not because queries failed.
OutageIsNotDrift == \A v \in verdicts : v.status = "regressed" => ~v.outage

\* docs/contracts/eval-set.md:68: the questions from a deleted document are removed.
RemovedStayRemoved ==
  \A q \in Questions, d \in removed : IdsOf[q] \cap FoundIds[d] # {} => store[q] = "absent"
=============================================================================
