--------------------------- MODULE Evaluation_proofs ---------------------------
(***************************************************************************)
(* Theorems about Evaluation: the history of the baselines, and that a     *)
(* sweep and its baseline are one, for any number of workers, sweeps,      *)
(* promotions, deletions, questions, candidates and baselines.             *)
(*                                                                         *)
(* What makes both true is one commit: a sweep read the current baseline   *)
(* a step before, and the partial unique index refuses the commit when     *)
(* that is not the current one any more.                                   *)
(***************************************************************************)
EXTENDS Evaluation, FiniteSetTheorems, SequenceTheorems, TLAPS

\* The provers of a step that names none, in the order they are tried.
USE Z3T(60), ZenonT(20), SMTT(40)

-----------------------------------------------------------------------------
(***************************************************************************)
(* Types.  The local variables of a caller, by where it is.                *)
(***************************************************************************)
Recalls == Seq(Nat) \ {<<>>}
Sampling == [pc : {"ingest"}, v : Nat, id : Nat, qs : SUBSET Questions, recalls : Seq(Nat)]
Ranking == [pc : {"rank"}, v : Nat, id : Nat, qs : SUBSET Questions, recalls : Recalls]
Committing(count) == [pc : {"commit"}, id : Nat, recalls : Recalls, loaded : 0 .. count]
Asking(job, own) == [pc : {"score"}, job : {job}, todo : SUBSET Questions, n : Nat, hits : Nat,
                     outage : BOOLEAN, own : own]
Deleting == [pc : {"delete"}, doc : EvalDocs, ids : SUBSET UNION {FoundIds[d] : d \in EvalDocs}]
Gating == [b : Collections_, before : Collections_]

Local(count) == {Free} \cup Deleting \cup Sampling \cup Ranking \cup Committing(count)
                \cup Asking("sweep", Sampling) \cup Asking("drift", [base : Nat]) \cup Asking("gate", Gating)

Rankings == {<<>>} \cup {Ranked(recalls) : recalls \in Recalls}
Sweep == [status : {"declined", "running", "completed"}, ranking : Rankings, near : BOOLEAN]

EvalTypeInv ==
  /\ rows_ \in Seq(Baseline)
  /\ sweeps \in Seq(Sweep)
  /\ live_ \in Collections_
  /\ at \in [Callers -> Local(Len(rows_))]

\* The recalls of a sweep with the next one.
LEMMA Recalled ==
  ASSUME NEW s \in Seq(Nat), NEW e \in Nat
  PROVE  Append(s, e) \in Recalls
BY AppendProperties DEF Recalls

\* Sequences with an element more, or another element.
LEMMA OneMore ==
  ASSUME NEW S, NEW s \in Seq(S), NEW e \in S
  PROVE  /\ Append(s, e) \in Seq(S) /\ Len(Append(s, e)) = Len(s) + 1
         /\ Append(s, e)[Len(s) + 1] = e
         /\ \A i \in 1 .. Len(s) : Append(s, e)[i] = s[i]
  OBVIOUS

LEMMA OneOther ==
  ASSUME NEW S, NEW s \in Seq(S), NEW k, NEW e \in S
  PROVE  /\ [s EXCEPT ![k] = e] \in Seq(S) /\ Len([s EXCEPT ![k] = e]) = Len(s)
         /\ \A i \in 1 .. Len(s) : [s EXCEPT ![k] = e][i] = IF i = k THEN e ELSE s[i]
  <1>1. CASE k \in 1 .. Len(s)
    BY <1>1, ExceptSeq
  <1>2. CASE k \notin 1 .. Len(s)
    <2>1. [s EXCEPT ![k] = e] = s
      BY <1>2
    <2> QED BY <1>2, <2>1
  <1> QED BY <1>1, <1>2

\* More baselines do not take a loaded row away.
LEMMA LocalGrows ==
  ASSUME NEW m \in Nat, NEW n \in Nat, m <= n
  PROVE  Local(m) \subseteq Local(n)
  BY DEF Local, Committing

\* The result of a scoring is a natural number.
LEMMA ScoreType ==
  ASSUME NEW r, r.n \in Nat, r.hits \in Nat
  PROVE  Score(r) \in Nat
  <1>1. Scale \in Nat BY EvaluationAssumption
  <1>2. r.hits * Scale \in Nat BY <1>1
  <1>3. CASE r.n = 0 BY <1>3 DEF Score
  <1>4. CASE r.n # 0
    <2>1. r.n \in Nat /\ r.n > 0 BY <1>4
    <2>2. ASSUME NEW x \in Nat, NEW y \in Nat, y > 0 PROVE x \div y \in Nat
      BY <2>2
    <2> QED BY <1>2, <1>4, <2>1, <2>2 DEF Score
  <1> QED BY <1>3, <1>4

LEMMA CurrentRowType == rows_ \in Seq(Baseline) => CurrentRow \in 0 .. Len(rows_)
  <1> SUFFICES ASSUME rows_ \in Seq(Baseline) PROVE CurrentRow \in 0 .. Len(rows_)
    OBVIOUS
  <1>1. CASE HasBaseline
    <2>1. CurrentRow \in CurrentRows BY <1>1 DEF CurrentRow, HasBaseline
    <2> QED BY <2>1 DEF CurrentRows
  <1>2. CASE ~HasBaseline
    BY <1>2 DEF CurrentRow
  <1> QED BY <1>1, <1>2

\* The sequence qs is rs with a row more, and row i of rs (0: none) demoted for it.
Extends(qs, rs, i, new) ==
  /\ qs \in Seq(Baseline) /\ Len(qs) = Len(rs) + 1 /\ qs[Len(rs) + 1] = new
  /\ \A j \in 1 .. Len(rs) : j # i => qs[j] = rs[j]
  /\ \A j \in 1 .. Len(rs) : j = i => /\ qs[j].print = rs[j].print /\ qs[j].by = rs[j].by
                                      /\ ~qs[j].current
                                      /\ qs[j].marked <=> (rs[j].marked \/ rs[j].print # new.print)

\* What an upsert makes of the rows.
LEMMA UpsertExtends ==
  ASSUME rows_ \in Seq(Baseline), NEW i \in 0 .. Len(rows_), NEW new \in Baseline
  PROVE  Extends(Upserted(i, new), rows_, i, new)
  <1>1. CASE i = 0
    <2>1. Upserted(i, new) = Append(rows_, new)
      BY <1>1 DEF Upserted
    <2>2. \A j \in 1 .. Len(rows_) : j # i
      BY <1>1
    <2> QED BY <2>1, <2>2, OneMore DEF Extends
  <1>2. CASE i # 0
    <2> DEFINE row == [rows_[i] EXCEPT !.current = FALSE, !.marked = rows_[i].marked \/ rows_[i].print # new.print]
               rs == [rows_ EXCEPT ![i] = row]
    <2>1. i \in 1 .. Len(rows_) /\ rows_[i] \in Baseline
      BY <1>2
    <2>2. Upserted(i, new) = Append(rs, new)
      BY <1>2, <2>1 DEF Upserted, Superseded, Baseline
    <2>3. /\ row \in Baseline /\ row.print = rows_[i].print /\ row.by = rows_[i].by /\ ~row.current
          /\ row.marked <=> (rows_[i].marked \/ rows_[i].print # new.print)
      BY <2>1 DEF Baseline
    <2> HIDE DEF row
    <2>4. /\ rs \in Seq(Baseline) /\ Len(rs) = Len(rows_)
          /\ \A j \in 1 .. Len(rows_) : rs[j] = IF j = i THEN row ELSE rows_[j]
      <3>1. rows_ \in Seq(Baseline) OBVIOUS
      <3> QED BY <2>1, <2>3, <3>1, ExceptSeq
    <2> HIDE DEF rs
    <2>5. /\ Append(rs, new) \in Seq(Baseline) /\ Len(Append(rs, new)) = Len(rows_) + 1
          /\ Append(rs, new)[Len(rows_) + 1] = new
          /\ \A j \in 1 .. Len(rows_) : Append(rs, new)[j] = rs[j]
      BY <2>4, OneMore
    <2> QED BY <2>2, <2>3, <2>4, <2>5 DEF Extends
  <1> QED BY <1>1, <1>2

\* A caller goes from one place to the next.
LEMMA MoveType ==
  ASSUME EvalTypeInv, NEW c \in Callers, NEW count \in Nat, Len(rows_) <= count,
         NEW r \in Local(count), Move(c, r)
  PROVE  at' \in [Callers -> Local(count)]
  <1>1. Local(Len(rows_)) \subseteq Local(count)
    BY LocalGrows DEF EvalTypeInv
  <1> QED BY <1>1 DEF EvalTypeInv, Move

\* A scoring starts without hits.
LEMMA ScoringType ==
  ASSUME NEW job, NEW qs \in SUBSET Questions, NEW own, NEW set, own \in set
  PROVE  Scoring(job, qs, own) \in Asking(job, set)
  BY DEF Scoring, Asking

LEMMA ScoredType == \A qs : Scored(qs) \subseteq qs /\ \A s : OfSet(s) \subseteq Questions
  BY DEF Scored, OfSet, Present

\* A caller that asks, by what for.
LEMMA AskingIs ==
  ASSUME EvalTypeInv, NEW c \in Callers, at[c].pc = "score"
  PROVE  /\ at[c].job = "sweep" => at[c] \in Asking("sweep", Sampling)
         /\ at[c].job = "drift" => at[c] \in Asking("drift", [base : Nat])
         /\ at[c].job = "gate" => at[c] \in Asking("gate", Gating)
         /\ \E own : at[c] \in Asking(at[c].job, own)
         /\ at[c].n \in Nat /\ at[c].hits \in Nat /\ at[c].job \in {"sweep", "drift", "gate"}
  <1>1. at[c] \in Local(Len(rows_))
    BY DEF EvalTypeInv
  <1>2. at[c] \in Asking("sweep", Sampling) \cup Asking("drift", [base : Nat]) \cup Asking("gate", Gating)
    BY <1>1 DEF Local, Free, Deleting, Sampling, Ranking, Committing
  <1> QED BY <1>2 DEF Asking

\* Where a caller is tells what it has.
LEMMA PlaceIs ==
  ASSUME EvalTypeInv, NEW c \in Callers
  PROVE  /\ at[c].pc = "ingest" => at[c] \in Sampling
         /\ at[c].pc = "rank" => at[c] \in Ranking
         /\ at[c].pc = "commit" => at[c] \in Committing(Len(rows_))
         /\ at[c].pc = "delete" => at[c] \in Deleting
  <1>1. at[c] \in Local(Len(rows_))
    BY DEF EvalTypeInv
  <1> QED BY <1>1 DEF Local, Free, Deleting, Sampling, Ranking, Committing, Asking

LEMMA EvalTypeInit == EvalInit => EvalTypeInv
  BY DEF EvalInit, EvalTypeInv, Local

\* Types are kept by the steps of a caller that write neither a baseline nor a sweep.
LEMMA EvalTypeQuiet ==
  ASSUME EvalTypeInv, NEW c \in Callers, UNCHANGED <<rows_, sweeps>>, live_' \in Collections_,
         NEW r \in Local(Len(rows_)), Move(c, r)
  PROVE  EvalTypeInv'
  <1>1. Len(rows_) \in Nat BY DEF EvalTypeInv
  <1> QED BY <1>1, MoveType DEF EvalTypeInv

-----------------------------------------------------------------------------
(***************************************************************************)
(* The steps that write neither a baseline nor a sweep.  A caller keeps    *)
(* the sweep it is in to the end; no step but StartSweep begins one.       *)
(***************************************************************************)
InSweep(r) == r.pc \in {"ingest", "rank", "commit"} \/ (r.pc = "score" /\ r.job = "sweep")
IdOf(r) == IF r.pc = "score" THEN r.own.id ELSE r.id

Continues(r, s) == InSweep(s) => InSweep(r) /\ IdOf(s) = IdOf(r)

QuietMove(c) ==
  /\ UNCHANGED <<rows_, sweeps>>
  /\ live_' \in Collections_
  /\ \E r \in Local(Len(rows_)) : Move(c, r) /\ Continues(at[c], r)

\* The end of a call.
LEMMA DoneQuiet ==
  ASSUME EvalTypeInv, NEW c \in Callers, Done(c), UNCHANGED <<rows_, sweeps>>, live_' \in Collections_
  PROVE  QuietMove(c)
  <1>1. Free \in Local(Len(rows_)) /\ ~InSweep(Free)
    BY DEF Local, Free, InSweep
  <1> QED BY <1>1 DEF Done, QuietMove, Continues

LEMMA DeletionQuiet ==
  ASSUME EvalTypeInv, NEW c \in Deleters,
         \/ \E d \in EvalDocs : StartDelete(c, d)
         \/ \E audited \in BOOLEAN : RemoveQuestions(c, audited)
         \/ DeleteDies(c)
  PROVE  QuietMove(c)
  <1>0. c \in Callers /\ live_ \in Collections_
    BY EvaluationAssumption DEF EvalTypeInv
  <1>1. ASSUME NEW d \in EvalDocs, StartDelete(c, d) PROVE QuietMove(c)
    <2> DEFINE r == [pc |-> "delete", doc |-> d, ids |-> Found(live_, d) \cup Found(standby_, d)]
    <2>1. \A b : Found(b, d) \subseteq UNION {FoundIds[e] : e \in EvalDocs}
      BY DEF Found
    <2>2. r \in Local(Len(rows_)) /\ ~InSweep(r)
      BY <2>1 DEF Local, Deleting, InSweep
    <2> QED BY <1>0, <1>1, <2>2 DEF StartDelete, QuietMove, Continues
  <1>2. CASE (\E audited \in BOOLEAN : RemoveQuestions(c, audited)) \/ DeleteDies(c)
    BY <1>0, <1>2, DoneQuiet DEF RemoveQuestions, DeleteDies
  <1> QED BY <1>1, <1>2

LEMMA AskQuiet ==
  ASSUME EvalTypeInv, NEW c \in Callers, Ask(c)
  PROVE  QuietMove(c)
  <1> DEFINE r == at[c]
             q == CHOOSE x \in r.todo : TRUE
  <1>1. PICK up \in BOOLEAN :
          Move(c, [r EXCEPT !.todo = @ \ {q}, !.n = @ + 1, !.outage = @ \/ (~up /\ r.job = "drift"),
                            !.hits = IF up /\ q \in Returned(r) THEN @ + 1 ELSE @])
    BY DEF Ask
  <1> DEFINE s == [r EXCEPT !.todo = @ \ {q}, !.n = @ + 1, !.outage = @ \/ (~up /\ r.job = "drift"),
                            !.hits = IF up /\ q \in Returned(r) THEN @ + 1 ELSE @]
  <1>2. r.pc = "score" /\ UNCHANGED <<rows_, sweeps>> /\ live_' \in Collections_
    BY DEF Ask, EvalTypeInv
  <1>3. ASSUME NEW job, NEW own, r \in Asking(job, own)
        PROVE  s \in Asking(job, own) /\ s.pc = r.pc /\ s.job = r.job /\ s.own = r.own
    <2> DEFINE hits == IF up /\ q \in Returned(r) THEN r.hits + 1 ELSE r.hits
               outage == r.outage \/ (~up /\ r.job = "drift")
    <2>1. hits \in Nat /\ r.n + 1 \in Nat
      BY <1>3 DEF Asking
    <2>2. outage \in BOOLEAN
      BY DEF Asking
    <2>3. r.todo \ {q} \in SUBSET Questions
      BY <1>3 DEF Asking
    <2>4. s = [r EXCEPT !.todo = r.todo \ {q}, !.n = r.n + 1, !.outage = outage, !.hits = hits]
      BY <1>3 DEF Asking
    <2> HIDE DEF hits, outage, q
    <2> QED BY ZenonT(60), <1>3, <2>1, <2>2, <2>3, <2>4 DEF Asking
  <1> HIDE DEF s
  <1>4. s \in Local(Len(rows_))
    BY <1>2, <1>3, AskingIs DEF Local
  <1>5. Continues(r, s)
    BY <1>2, <1>3, AskingIs DEF Continues, InSweep, IdOf
  <1> QED BY <1>1, <1>2, <1>4, <1>5 DEF QuietMove, s

LEMMA DriftQuiet ==
  ASSUME EvalTypeInv, NEW c \in Callers, StartDrift(c) \/ FinishDrift(c)
  PROVE  QuietMove(c) \/ UNCHANGED <<rows_, sweeps, live_, at>>
  <1>0. live_ \in Collections_
    BY DEF EvalTypeInv
  <1>1. CASE StartDrift(c)
    <2> DEFINE b == rows_[CurrentRow]
               qs == IF b.set \in Sets_ THEN OfSet(b.set) ELSE {}
               r == Scoring("drift", Scored(qs), [base |-> b.recall])
    <2>1. CASE qs = {}
      BY <1>1, <2>1 DEF StartDrift
    <2>2. CASE qs # {}
      <3>1. CurrentRow \in DOMAIN rows_
        BY <1>1 DEF StartDrift, HasBaseline, CurrentRow, CurrentRows
      <3>2. [base |-> b.recall] \in [base : Nat]
        <4>1. b \in Baseline BY <3>1 DEF EvalTypeInv
        <4>2. b.recall \in Nat BY <4>1 DEF Baseline
        <4> QED BY <4>2
      <3>3. Scored(qs) \in SUBSET Questions
        BY ScoredType
      <3>4. r \in Local(Len(rows_))
        BY <3>2, <3>3, ScoringType DEF Local
      <3>5. ~InSweep(r)
        BY DEF Scoring, InSweep
      <3> QED BY <1>0, <1>1, <2>2, <3>4, <3>5 DEF StartDrift, QuietMove, Continues
    <2> QED BY <2>1, <2>2
  <1>2. CASE FinishDrift(c)
    BY <1>0, <1>2, DoneQuiet DEF FinishDrift
  <1> QED BY <1>1, <1>2

LEMMA SweepQuiet ==
  ASSUME EvalTypeInv, NEW c \in Callers, IngestSample(c) \/ NextCandidate(c) \/ ReadBaseline(c)
  PROVE  QuietMove(c)
  <1>0. live_ \in Collections_ /\ rows_ \in Seq(Baseline)
    BY DEF EvalTypeInv
  <1>1. CASE IngestSample(c)
    <2> DEFINE r == Scoring("sweep", at[c].qs, at[c])
    <2>1. at[c] \in Sampling
      BY <1>1, PlaceIs DEF IngestSample
    <2>2. at[c].qs \in SUBSET Questions
      BY <2>1 DEF Sampling
    <2>3. r \in Local(Len(rows_))
      BY <2>1, <2>2, ScoringType DEF Local
    <2>4. Continues(at[c], r)
      BY <2>1 DEF Continues, InSweep, IdOf, Scoring, Sampling
    <2> QED BY <1>0, <1>1, <2>3, <2>4 DEF IngestSample, QuietMove
  <1>2. CASE NextCandidate(c)
    <2> DEFINE own == at[c].own
               recalls == Append(own.recalls, Score(at[c]))
               r == [pc |-> IF own.v + 1 \in Variants THEN "ingest" ELSE "rank", v |-> own.v + 1,
                     id |-> own.id, qs |-> own.qs, recalls |-> recalls]
    <2>1. at[c] \in Asking("sweep", Sampling) /\ Score(at[c]) \in Nat
      BY <1>2, AskingIs, ScoreType DEF NextCandidate, ScoredAll
    <2>2. own \in Sampling
      BY <2>1 DEF Asking
    <2>3. own.recalls \in Seq(Nat) /\ own.v + 1 \in Nat /\ own.id \in Nat /\ own.qs \in SUBSET Questions
      BY <2>2 DEF Sampling
    <2>4. recalls \in Recalls
      BY ZenonT(60), <2>1, <2>3, Recalled
    <2>5. r \in Sampling \cup Ranking
      <3> HIDE DEF recalls, own
      <3> QED BY <2>3, <2>4 DEF Sampling, Ranking, Recalls
    <2>6. r \in Local(Len(rows_))
      BY <2>5 DEF Local
    <2>7. Continues(at[c], r)
      <3>1. r.pc \in {"ingest", "rank"} /\ r.id = own.id /\ at[c].pc = "score" /\ at[c].job = "sweep"
        BY <2>1 DEF Asking
      <3> QED BY <3>1 DEF Continues, InSweep, IdOf
    <2> QED BY <1>0, <1>2, <2>6, <2>7 DEF NextCandidate, QuietMove
  <1>3. CASE ReadBaseline(c)
    <2> DEFINE r == [pc |-> "commit", id |-> at[c].id, recalls |-> at[c].recalls, loaded |-> CurrentRow]
    <2>1. at[c] \in Ranking
      BY <1>3, PlaceIs DEF ReadBaseline
    <2>2. at[c].id \in Nat /\ at[c].recalls \in Recalls
      BY <2>1 DEF Ranking
    <2>3. r \in Local(Len(rows_))
      BY <1>0, <2>2, CurrentRowType DEF Local, Committing
    <2>4. Continues(at[c], r)
      BY <1>3 DEF ReadBaseline, Continues, InSweep, IdOf
    <2> QED BY <1>0, <1>3, <2>3, <2>4 DEF ReadBaseline, QuietMove
  <1> QED BY <1>1, <1>2, <1>3

LEMMA GateQuiet ==
  ASSUME EvalTypeInv, NEW c \in Callers,
         \/ \E b \in Collections_, s \in Sets_ : StartGate(c, b, s)
         \/ \E scored \in BOOLEAN : FinishGate(c, scored)
  PROVE  QuietMove(c)
  <1>0. live_ \in Collections_
    BY DEF EvalTypeInv
  <1>1. ASSUME NEW b \in Collections_, NEW s \in Sets_, StartGate(c, b, s) PROVE QuietMove(c)
    <2> DEFINE r == Scoring("gate", Scored(OfSet(s)), [b |-> b, before |-> live_])
    <2>1. [b |-> b, before |-> live_] \in Gating
      BY <1>0 DEF Gating
    <2>2. Scored(OfSet(s)) \in SUBSET Questions
      BY ScoredType
    <2>3. r \in Local(Len(rows_)) /\ ~InSweep(r)
      <3>1. r \in Asking("gate", Gating) BY <2>1, <2>2, ScoringType
      <3> QED BY <3>1 DEF Local, InSweep, Asking
    <2> QED BY <1>0, <1>1, <2>3 DEF StartGate, QuietMove, Continues
  <1>2. ASSUME NEW scored \in BOOLEAN, FinishGate(c, scored) PROVE QuietMove(c)
    <2>1. at[c] \in Asking("gate", Gating)
      BY <1>2, AskingIs DEF FinishGate, ScoredAll
    <2>2. at[c].own.b \in Collections_
      BY <2>1 DEF Asking, Gating
    <2>3. live_' \in Collections_
      BY <1>0, <1>2, <2>2 DEF FinishGate
    <2> QED BY <1>2, <2>3, DoneQuiet DEF FinishGate
  <1> QED BY <1>1, <1>2

\* Every step is one of a caller that writes neither, or one of the three that write.
LEMMA QuietOrWrites ==
  ASSUME EvalTypeInv, [EvalNext]_evalVars
  PROVE  \/ \E c \in Callers : QuietMove(c)
         \/ UNCHANGED <<rows_, sweeps, live_, at>>
         \/ \E s \in Sets_, p \in Prints : RecordBaseline(s, p)
         \/ \E c \in Callers : StartSweep(c) \/ FinishSweep(c)
  <1>1. CASE UNCHANGED evalVars
    BY <1>1 DEF evalVars
  <1>2. CASE \/ \E s \in Sets_ : Generate(s) \/ Import(s)
             \/ \E q \in Questions, r \in Reviews : Review(q, r)
    BY <1>2 DEF Generate, Import, Review
  <1>3. CASE \/ \E c \in Deleters, d \in EvalDocs : StartDelete(c, d)
             \/ \E c \in Deleters, audited \in BOOLEAN : RemoveQuestions(c, audited)
             \/ \E c \in Deleters : DeleteDies(c)
    <2>1. Deleters \subseteq Callers BY EvaluationAssumption
    <2> QED BY <1>3, <2>1, DeletionQuiet
  <1>4. CASE \E c \in Callers : Ask(c)
    BY <1>4, AskQuiet
  <1>5. CASE \E c \in Callers : StartDrift(c) \/ FinishDrift(c)
    BY <1>5, DriftQuiet
  <1>6. CASE \E c \in Callers : IngestSample(c) \/ NextCandidate(c) \/ ReadBaseline(c)
    BY <1>6, SweepQuiet
  <1>7. CASE \E c \in Callers, b \in Collections_, s \in Sets_ : StartGate(c, b, s)
    BY <1>7, GateQuiet
  <1>8. CASE \E c \in Callers, scored \in BOOLEAN : FinishGate(c, scored)
    BY <1>8, GateQuiet
  <1> QED BY <1>1, <1>2, <1>3, <1>4, <1>5, <1>6, <1>7, <1>8 DEF EvalNext

-----------------------------------------------------------------------------
(***************************************************************************)
(* The steps that write: what each leaves behind.                          *)
(***************************************************************************)
\* RecordBaseline adds a current row of no sweep, after the current one.
LEMMA RecordWrites ==
  ASSUME EvalTypeInv, NEW s \in Sets_, NEW p \in Prints, RecordBaseline(s, p)
  PROVE  /\ UNCHANGED <<sweeps, live_, at>>
         /\ \E new \in Baseline : /\ new.by = 0 /\ new.current /\ ~new.marked
                                  /\ rows_' = Upserted(CurrentRow, new)
  <1> DEFINE qs == Scored(OfSet(s))
             counted == [n |-> Cardinality(qs), hits |-> Cardinality(qs \cap Answered(live_))]
             new == [print |-> p, set |-> s, current |-> TRUE, marked |-> FALSE, by |-> 0,
                     recall |-> Score(counted)]
  <1>1. qs \subseteq Questions
    BY ScoredType
  <1>2. IsFiniteSet(qs) /\ IsFiniteSet(qs \cap Answered(live_))
    BY <1>1, FS_Subset, EvaluationAssumption
  <1>3. counted.n \in Nat /\ counted.hits \in Nat
    BY <1>2, FS_CardinalityType
  <1>4. Score(counted) \in Nat
    BY <1>3, ScoreType
  <1> HIDE DEF counted
  <1>5. new \in Baseline /\ new.by = 0 /\ new.current /\ ~new.marked
    BY <1>4 DEF Baseline
  <1>6. rows_' = Upserted(CurrentRow, new)
    BY DEF RecordBaseline, counted
  <1>7. UNCHANGED <<sweeps, live_, at>>
    BY DEF RecordBaseline
  <1> HIDE DEF new
  <1> QED BY <1>5, <1>6, <1>7

\* StartSweep adds a sweep without a ranking; when it runs, its caller has its id.
LEMMA StartWrites ==
  ASSUME EvalTypeInv, NEW c \in Callers, StartSweep(c)
  PROVE  /\ UNCHANGED <<rows_, live_>> /\ ~InSweep(at[c])
         /\ \/ sweeps' = Append(sweeps, SweepRow("declined")) /\ UNCHANGED at
            \/ /\ sweeps' = Append(sweeps, SweepRow("running"))
               /\ \E r \in Sampling : Move(c, r) /\ r.id = Len(sweeps) + 1
  <1>1. UNCHANGED <<rows_, live_>> /\ ~InSweep(at[c])
    BY DEF StartSweep, FreeAt, InSweep
  <1>2. ASSUME NEW s \in sets_
        PROVE  [pc |-> "ingest", v |-> 0, id |-> Len(sweeps) + 1, qs |-> Scored(OfSet(s)), recalls |-> <<>>]
                 \in Sampling
    <2>1. Len(sweeps) + 1 \in Nat BY DEF EvalTypeInv
    <2>2. Scored(OfSet(s)) \in SUBSET Questions BY ScoredType
    <2>3. <<>> \in Seq(Nat) OBVIOUS
    <2> QED BY <2>1, <2>2, <2>3 DEF Sampling
  <1> QED BY <1>1, <1>2 DEF StartSweep

\* FinishSweep writes a legal baseline and completes its sweep, or it writes nothing.
LEMMA FinishWrites ==
  ASSUME EvalTypeInv, NEW c \in Callers, FinishSweep(c)
  PROVE  LET id == at[c].id
             ranking == Ranked(at[c].recalls)
         IN  /\ at[c] \in Committing(Len(rows_)) /\ InSweep(at[c]) /\ IdOf(at[c]) = id
             /\ UNCHANGED live_ /\ Done(c)
             /\ \/ UNCHANGED <<rows_, sweeps>>
                \/ /\ \E near \in BOOLEAN :
                        sweeps' = [sweeps EXCEPT ![id] = [status |-> "completed", ranking |-> ranking, near |-> near]]
                   /\ ranking # <<>> /\ ranking \in Rankings
                   /\ \E new \in Baseline, i \in 0 .. Len(rows_) :
                        /\ new.by = id /\ new.current /\ ~new.marked
                        /\ rows_' = Upserted(i, new)
                        /\ Legal(rows_')
  <1> DEFINE r == at[c]
             new == SweepBaseline(c, r)
  <1>1. r \in Committing(Len(rows_)) /\ r.pc = "commit"
    BY PlaceIs DEF FinishSweep
  <1>2. r.id \in Nat /\ r.recalls \in Recalls /\ r.loaded \in 0 .. Len(rows_)
    BY <1>1 DEF Committing
  <1>3. r.recalls[1] \in Nat /\ Len(r.recalls) \in Nat \ {0}
    BY <1>2 DEF Recalls
  <1>4. new \in Baseline /\ new.by = r.id /\ new.current /\ ~new.marked
    BY <1>2, <1>3, EvaluationAssumption DEF SweepBaseline, Baseline
  <1>5. Ranked(r.recalls) # <<>> /\ Ranked(r.recalls) \in Rankings
    <2>1. DOMAIN Ranked(r.recalls) = 1 .. Len(r.recalls) BY DEF Ranked
    <2>2. 1 \in DOMAIN Ranked(r.recalls) BY <1>3, <2>1
    <2>3. 1 \notin DOMAIN <<>> OBVIOUS
    <2> QED BY <1>2, <2>2, <2>3 DEF Rankings
  <1>6. UNCHANGED live_ /\ Done(c)
    BY DEF FinishSweep
  <1>7. InSweep(r) /\ IdOf(r) = r.id
    BY <1>1 DEF InSweep, IdOf
  <1>8. NearOptimal(r.recalls) \in BOOLEAN
    BY DEF NearOptimal
  <1> DEFINE rs == Upserted(r.loaded, new)
  <1>9. CASE Legal(rs)
    <2>1. rows_' = rs /\ sweeps' = [sweeps EXCEPT ![r.id] = CompletedSweep(r)]
      BY <1>9 DEF FinishSweep, Committed
    <2> HIDE DEF new
    <2> QED BY <1>1, <1>2, <1>4, <1>5, <1>6, <1>7, <1>8, <1>9, <2>1 DEF CompletedSweep
  <1>10. CASE ~Legal(rs)
    <2>1. UNCHANGED <<rows_, sweeps>>
      BY <1>10 DEF FinishSweep, Committed
    <2> QED BY <1>1, <1>6, <1>7, <2>1
  <1> QED BY <1>9, <1>10

-----------------------------------------------------------------------------
(***************************************************************************)
(* Types are kept.                                                         *)
(***************************************************************************)
LEMMA EvalTypeStep == EvalTypeInv /\ [EvalNext]_evalVars => EvalTypeInv'
  <1> SUFFICES ASSUME EvalTypeInv, [EvalNext]_evalVars PROVE EvalTypeInv'
    OBVIOUS
  <1>0. rows_ \in Seq(Baseline) /\ sweeps \in Seq(Sweep) /\ live_ \in Collections_
        /\ Len(rows_) \in Nat /\ at \in [Callers -> Local(Len(rows_))]
    BY DEF EvalTypeInv
  <1>1. ASSUME NEW c \in Callers, QuietMove(c) PROVE EvalTypeInv'
    BY <1>1, EvalTypeQuiet DEF QuietMove
  <1>2. CASE UNCHANGED <<rows_, sweeps, live_, at>>
    BY <1>2 DEF EvalTypeInv
  <1>3. ASSUME NEW s \in Sets_, NEW p \in Prints, RecordBaseline(s, p) PROVE EvalTypeInv'
    <2>1. PICK new \in Baseline : rows_' = Upserted(CurrentRow, new)
      BY <1>3, RecordWrites
    <2>2. UNCHANGED <<sweeps, live_, at>>
      BY <1>3, RecordWrites
    <2>3. rows_' \in Seq(Baseline) /\ Len(rows_') = Len(rows_) + 1
      BY <1>0, <2>1, CurrentRowType, UpsertExtends DEF Extends
    <2>4. Local(Len(rows_)) \subseteq Local(Len(rows_'))
      BY <1>0, <2>3, LocalGrows
    <2> QED BY <1>0, <2>2, <2>3, <2>4 DEF EvalTypeInv
  <1>4. ASSUME NEW c \in Callers, StartSweep(c) PROVE EvalTypeInv'
    <2>1. \A status \in {"declined", "running"} : SweepRow(status) \in Sweep
      BY DEF SweepRow, Sweep, Rankings
    <2>2. sweeps' \in Seq(Sweep)
      <3>1. \E status \in {"declined", "running"} : sweeps' = Append(sweeps, SweepRow(status))
        BY <1>4, StartWrites
      <3>2. \A status \in {"declined", "running"} : Append(sweeps, SweepRow(status)) \in Seq(Sweep)
        BY ZenonT(60), <1>0, <2>1, OneMore
      <3> QED BY ZenonT(60), <3>1, <3>2
    <2>3. at' \in [Callers -> Local(Len(rows_))]
      <3>1. Sampling \subseteq Local(Len(rows_)) BY DEF Local
      <3> QED BY <1>0, <1>4, <3>1, StartWrites, MoveType
    <2> QED BY <1>0, <1>4, <2>2, <2>3, StartWrites DEF EvalTypeInv
  <1>5. ASSUME NEW c \in Callers, FinishSweep(c) PROVE EvalTypeInv'
    <2>1. UNCHANGED live_ /\ Done(c)
      BY <1>5, FinishWrites
    <2>2. Free \in Local(Len(rows_))
      BY DEF Local
    <2>3. CASE UNCHANGED <<rows_, sweeps>>
      BY <1>0, <2>1, <2>2, <2>3, EvalTypeQuiet DEF Done
    <2>4. CASE ~UNCHANGED <<rows_, sweeps>>
      <3>1. PICK near \in BOOLEAN : sweeps' = [sweeps EXCEPT ![at[c].id] =
                   [status |-> "completed", ranking |-> Ranked(at[c].recalls), near |-> near]]
        BY <1>5, <2>4, FinishWrites
      <3>2. [status |-> "completed", ranking |-> Ranked(at[c].recalls), near |-> near] \in Sweep
        BY <1>5, <2>4, FinishWrites DEF Sweep
      <3>3. sweeps' \in Seq(Sweep)
        <4> DEFINE e == [status |-> "completed", ranking |-> Ranked(at[c].recalls), near |-> near]
        <4>1. e \in Sweep BY <3>2
        <4>2. sweeps' = [sweeps EXCEPT ![at[c].id] = e] BY <3>1
        <4> HIDE DEF e
        <4>3. [sweeps EXCEPT ![at[c].id] = e] \in Seq(Sweep)
          BY ZenonT(60), <1>0, <4>1, OneOther
        <4> QED BY ZenonT(60), <4>2, <4>3
      <3>4. PICK new \in Baseline, i \in 0 .. Len(rows_) : rows_' = Upserted(i, new)
        BY <1>5, <2>4, FinishWrites
      <3>5. rows_' \in Seq(Baseline) /\ Len(rows_') = Len(rows_) + 1
        <4>1. Extends(Upserted(i, new), rows_, i, new)
          BY ZenonT(60), <1>0, <3>4, UpsertExtends
        <4> QED BY <1>0, <3>4, <4>1 DEF Extends
      <3>6. at' \in [Callers -> Local(Len(rows_'))]
        <4>1. Free \in Local(Len(rows_')) BY DEF Local
        <4> QED BY <1>0, <2>1, <3>5, <4>1, MoveType DEF Done
      <3> QED BY <1>0, <2>1, <3>3, <3>5, <3>6 DEF EvalTypeInv
    <2> QED BY <2>3, <2>4
  <1> QED BY <1>1, <1>2, <1>3, <1>4, <1>5, QuietOrWrites

\* Types hold throughout.
LEMMA EvalTypes == EvalSpec => []EvalTypeInv
  BY EvalTypeInit, EvalTypeStep, PTL DEF EvalSpec

-----------------------------------------------------------------------------
(***************************************************************************)
(* The history of the baselines.  A sweep may write on a baseline that was *)
(* not the current one any more when it commits: the row loaded before is  *)
(* then not the last one, the last one stays current, and the index        *)
(* refuses a second current row.                                           *)
(***************************************************************************)
\* The index: two different rows are not current together.
LEMMA OneCurrent ==
  ASSUME NEW rs \in Seq(Baseline), Legal(rs), NEW j \in 1 .. Len(rs), NEW k \in 1 .. Len(rs),
         rs[j].current, rs[k].current
  PROVE  j = k
  <1> DEFINE C == {i \in DOMAIN rs : rs[i].current}
  <1>1. DOMAIN rs = 1 .. Len(rs) /\ Len(rs) \in Nat
    OBVIOUS
  <1>2. IsFiniteSet(C)
    <2>1. IsFiniteSet(1 .. Len(rs)) BY <1>1, FS_Interval
    <2>2. C \in SUBSET (1 .. Len(rs)) BY <1>1
    <2> QED BY <2>1, <2>2, FS_Subset
  <1>3. Cardinality(C) <= 1 /\ Cardinality(C) \in Nat
    BY <1>2, FS_CardinalityType DEF Legal
  <1>4. j \in C /\ k \in C
    BY <1>1
  <1> HIDE DEF C
  <1>5. IsFiniteSet(C \ {j}) /\ Cardinality(C \ {j}) = 0
    <2>1. IsFiniteSet(C \ {j}) /\ Cardinality(C \ {j}) = Cardinality(C) - 1
      BY <1>2, <1>4, FS_RemoveElement
    <2>2. Cardinality(C \ {j}) \in Nat
      BY <2>1, FS_CardinalityType
    <2> QED BY <1>3, <2>1, <2>2
  <1>6. C \ {j} = {}
    BY <1>5, FS_EmptySet
  <1> QED BY <1>4, <1>6

\* BaselineHistory, of any rows.
InOrder(rs) ==
  \A i \in 1 .. Len(rs) :
    IF i = Len(rs) THEN rs[i].current /\ ~rs[i].marked
    ELSE ~rs[i].current /\ (rs[i].marked <=> rs[i].print # rs[i + 1].print)

LEMMA HistoryIsOrder == rows_ \in Seq(Baseline) => (BaselineHistory <=> InOrder(rows_))
  BY DEF BaselineHistory, InOrder

\* The row that is current is the last one, when the rows are in order.
LEMMA CurrentIsLast ==
  ASSUME rows_ \in Seq(Baseline), InOrder(rows_)
  PROVE  CurrentRow = Len(rows_)
  <1>0. Len(rows_) \in Nat /\ DOMAIN rows_ = 1 .. Len(rows_)
    OBVIOUS
  <1>1. CASE Len(rows_) = 0
    <2>1. CurrentRows = {}
      BY <1>0, <1>1 DEF CurrentRows
    <2> QED BY <1>1, <2>1 DEF CurrentRow, HasBaseline
  <1>2. CASE Len(rows_) # 0
    <2>1. CurrentRows = {Len(rows_)}
      <3>1. Len(rows_) \in CurrentRows
        <4>1. Len(rows_) \in 1 .. Len(rows_)
          BY <1>0, <1>2
        <4>2. rows_[Len(rows_)].current
          BY <4>1 DEF InOrder
        <4> QED BY <1>0, <4>1, <4>2 DEF CurrentRows
      <3>2. \A i \in CurrentRows : i = Len(rows_)
        BY <1>0 DEF CurrentRows, InOrder
      <3> QED BY <3>1, <3>2
    <2> QED BY <2>1 DEF CurrentRow, HasBaseline
  <1> QED BY <1>1, <1>2

\* A row more, over the last one, continues the order.
LEMMA OrderContinues ==
  ASSUME NEW rs \in Seq(Baseline), InOrder(rs), NEW new \in Baseline, new.current, ~new.marked,
         NEW qs, Extends(qs, rs, Len(rs), new)
  PROVE  InOrder(qs)
  <1>0. Len(rs) \in Nat /\ Len(qs) = Len(rs) + 1
    BY DEF Extends
  <1> SUFFICES ASSUME NEW i \in 1 .. Len(rs) + 1
               PROVE  IF i = Len(rs) + 1 THEN qs[i].current /\ ~qs[i].marked
                      ELSE ~qs[i].current /\ (qs[i].marked <=> qs[i].print # qs[i + 1].print)
    BY <1>0 DEF InOrder
  <1>1. CASE i = Len(rs) + 1
    BY <1>1 DEF Extends
  <1>2. CASE i = Len(rs)
    <2>1. i \in 1 .. Len(rs) /\ i # Len(rs) + 1
      BY <1>0, <1>2
    <2>2. ~rs[i].marked
      BY <1>2, <2>1 DEF InOrder
    <2>3. qs[i + 1].print = new.print
      BY <1>2 DEF Extends
    <2> QED BY <1>2, <2>1, <2>2, <2>3 DEF Extends
  <1>3. CASE i < Len(rs)
    <2>1. i \in 1 .. Len(rs) /\ i + 1 \in 1 .. Len(rs) /\ i # Len(rs) /\ i # Len(rs) + 1
      BY <1>0, <1>3
    <2>2. ~rs[i].current /\ (rs[i].marked <=> rs[i].print # rs[i + 1].print)
      BY <2>1 DEF InOrder
    <2>3. qs[i] = rs[i] /\ qs[i + 1].print = rs[i + 1].print
      BY <2>1 DEF Extends
    <2> QED BY <2>1, <2>2, <2>3
  <1> QED BY <1>0, <1>1, <1>2, <1>3

\* A legal row more is over the last one: the last one would be current beside it.
LEMMA LegalIsOverLast ==
  ASSUME NEW rs \in Seq(Baseline), InOrder(rs), NEW i \in 0 .. Len(rs), NEW new \in Baseline, new.current,
         NEW qs, Extends(qs, rs, i, new), Legal(qs)
  PROVE  i = Len(rs)
  <1> SUFFICES ASSUME i # Len(rs) PROVE FALSE
    OBVIOUS
  <1>0. Len(rs) \in Nat /\ i < Len(rs)
    OBVIOUS
  <1>1. Len(rs) \in 1 .. Len(rs) /\ Len(rs) # Len(rs) + 1
    BY <1>0
  <1>2. rs[Len(rs)].current
    BY <1>1 DEF InOrder
  <1>3. qs[Len(rs)].current /\ qs[Len(rs) + 1].current
    BY <1>1, <1>2 DEF Extends
  <1>4. qs \in Seq(Baseline) /\ Len(rs) \in 1 .. Len(qs) /\ Len(rs) + 1 \in 1 .. Len(qs)
    BY <1>0, <1>1 DEF Extends
  <1> QED BY <1>1, <1>3, <1>4, OneCurrent

LEMMA HistoryStep ==
  EvalTypeInv /\ BaselineHistory /\ [EvalNext]_evalVars => BaselineHistory'
  <1> SUFFICES ASSUME EvalTypeInv, BaselineHistory, [EvalNext]_evalVars PROVE BaselineHistory'
    OBVIOUS
  <1>0. rows_ \in Seq(Baseline) /\ InOrder(rows_) /\ Len(rows_) \in 0 .. Len(rows_)
    BY HistoryIsOrder DEF EvalTypeInv
  <1>t. rows_' \in Seq(Baseline)
    BY EvalTypeStep DEF EvalTypeInv
  <1>1. CASE UNCHANGED rows_
    BY <1>1 DEF BaselineHistory
  <1>2. ASSUME NEW s \in Sets_, NEW p \in Prints, RecordBaseline(s, p) PROVE InOrder(rows_')
    <2>1. PICK new \in Baseline : /\ new.by = 0 /\ new.current /\ ~new.marked
                                  /\ rows_' = Upserted(CurrentRow, new)
      BY <1>2, RecordWrites
    <2>2. Extends(rows_', rows_, Len(rows_), new)
      BY <1>0, <2>1, CurrentIsLast, UpsertExtends
    <2> QED BY <1>0, <2>1, <2>2, OrderContinues
  <1>3. ASSUME NEW c \in Callers, FinishSweep(c), rows_' # rows_ PROVE InOrder(rows_')
    <2>1. PICK new \in Baseline, i \in 0 .. Len(rows_) :
            /\ new.current /\ ~new.marked
            /\ rows_' = Upserted(i, new)
            /\ Legal(rows_')
      BY <1>3, FinishWrites
    <2>2. Extends(rows_', rows_, i, new)
      BY <1>0, <2>1, UpsertExtends
    <2>3. i = Len(rows_)
      BY <1>0, <2>1, <2>2, LegalIsOverLast
    <2> QED BY <1>0, <2>1, <2>2, <2>3, OrderContinues
  <1>4. ASSUME NEW c \in Callers, StartSweep(c) PROVE BaselineHistory'
    BY <1>1, <1>4, StartWrites
  <1>5. InOrder(rows_') => BaselineHistory'
    BY <1>t DEF BaselineHistory, InOrder
  <1> QED BY <1>1, <1>2, <1>3, <1>4, <1>5, QuietOrWrites DEF QuietMove

\* M-049: the newest baseline is the current one, and a past one is marked exactly when the one
\* that replaced it was measured against another reference, however many sweeps raced to
\* write it.
THEOREM BaselinesInOrder == EvalSpec => []BaselineHistory
  <1>1. EvalInit => BaselineHistory
    BY DEF EvalInit, BaselineHistory
  <1> QED BY <1>1, EvalTypes, HistoryStep, PTL DEF EvalSpec

-----------------------------------------------------------------------------
(***************************************************************************)
(* A sweep and its baseline.  RankedWithBaseline is not inductive: a       *)
(* caller that is in a sweep is alone in it, and the sweep runs until that *)
(* caller commits; a baseline names a sweep that has begun.                *)
(***************************************************************************)
WroteOnce(i, rs) == \E j \in 1 .. Len(rs) : \A k \in 1 .. Len(rs) : rs[k].by = i <=> k = j
WroteNone(i, rs) == \A k \in 1 .. Len(rs) : rs[k].by # i

SweepOK(s, i, rs) ==
  /\ s.status = "completed" => s.ranking # <<>> /\ WroteOnce(i, rs)
  /\ s.status # "completed" => s.ranking = <<>> /\ WroteNone(i, rs)

SweepInv ==
  /\ \A c \in Callers : InSweep(at[c]) => /\ IdOf(at[c]) \in 1 .. Len(sweeps)
                                          /\ sweeps[IdOf(at[c])].status = "running"
  /\ \A c, e \in Callers : c # e /\ InSweep(at[c]) /\ InSweep(at[e]) => IdOf(at[c]) # IdOf(at[e])
  /\ \A i \in 1 .. Len(sweeps) : SweepOK(sweeps[i], i, rows_)
  /\ \A k \in 1 .. Len(rows_) : rows_[k].by \in 0 .. Len(sweeps)

\* What a sweep wrote, counted.
LEMMA SweepInvRanks ==
  ASSUME EvalTypeInv, SweepInv
  PROVE  RankedWithBaseline
  <1>0. DOMAIN rows_ = 1 .. Len(rows_) /\ DOMAIN sweeps = 1 .. Len(sweeps)
    BY DEF EvalTypeInv
  <1> SUFFICES ASSUME NEW i \in 1 .. Len(sweeps)
               PROVE  LET written == {j \in DOMAIN rows_ : rows_[j].by = i}
                      IN  /\ sweeps[i].status = "completed" <=> sweeps[i].ranking # <<>>
                          /\ sweeps[i].status = "completed" <=> Cardinality(written) = 1
                          /\ sweeps[i].status # "completed" => written = {}
    BY <1>0 DEF RankedWithBaseline
  <1> DEFINE written == {j \in 1 .. Len(rows_) : rows_[j].by = i}
  <1>1. SweepOK(sweeps[i], i, rows_)
    BY DEF SweepInv
  <1>2. CASE sweeps[i].status = "completed"
    <2>1. sweeps[i].ranking # <<>>
      BY <1>1, <1>2 DEF SweepOK
    <2>2. PICK j \in 1 .. Len(rows_) : \A k \in 1 .. Len(rows_) : rows_[k].by = i <=> k = j
      BY <1>1, <1>2 DEF SweepOK, WroteOnce
    <2>3. written = {j}
      BY <2>2
    <2>4. Cardinality(written) = 1
      BY <2>3, FS_Singleton
    <2> QED BY <1>0, <1>2, <2>1, <2>4
  <1>3. CASE sweeps[i].status # "completed"
    <2>1. sweeps[i].ranking = <<>>
      BY <1>1, <1>3 DEF SweepOK
    <2>2. written = {}
      BY <1>1, <1>3 DEF SweepOK, WroteNone
    <2>a. Cardinality({}) = 0
      BY FS_EmptySet
    <2>3. Cardinality(written) # 1
      <3> HIDE DEF written
      <3>1. Cardinality(written) = 0
        BY ZenonT(60), <2>2, <2>a
      <3> QED BY <3>1
    <2> QED BY <1>0, <1>3, <2>1, <2>2, <2>3
  <1> QED BY <1>2, <1>3

\* A row of sweep w leaves the account of every other sweep as it was.
LEMMA OthersKept ==
  ASSUME NEW rs \in Seq(Baseline), NEW i \in 0 .. Len(rs), NEW new \in Baseline,
         NEW qs, Extends(qs, rs, i, new), NEW w, w # new.by
  PROVE  (WroteOnce(w, rs) => WroteOnce(w, qs)) /\ (WroteNone(w, rs) => WroteNone(w, qs))
  <1>1. Len(rs) \in Nat /\ Len(qs) = Len(rs) + 1 /\ qs[Len(rs) + 1].by # w
    BY DEF Extends
  <1>2. \A k \in 1 .. Len(rs) : qs[k].by = rs[k].by
    BY DEF Extends
  <1>3. WroteOnce(w, rs) => WroteOnce(w, qs)
    <2> SUFFICES ASSUME NEW j \in 1 .. Len(rs), \A k \in 1 .. Len(rs) : rs[k].by = w <=> k = j
                 PROVE  WroteOnce(w, qs)
      BY DEF WroteOnce
    <2>1. j \in 1 .. Len(qs) /\ j # Len(rs) + 1
      BY <1>1
    <2>2. ASSUME NEW k \in 1 .. Len(qs) PROVE qs[k].by = w <=> k = j
      <3>1. CASE k = Len(rs) + 1
        BY <1>1, <2>1, <3>1
      <3>2. CASE k # Len(rs) + 1
        <4>1. k \in 1 .. Len(rs)
          BY <1>1, <3>2
        <4> QED BY <1>2, <4>1
      <3> QED BY <3>1, <3>2
    <2> QED BY <2>1, <2>2 DEF WroteOnce
  <1>4. WroteNone(w, rs) => WroteNone(w, qs)
    BY <1>1, <1>2 DEF WroteNone
  <1> QED BY <1>3, <1>4

\* The first row of a sweep is its only one.
LEMMA FirstIsOnly ==
  ASSUME NEW rs \in Seq(Baseline), NEW i \in 0 .. Len(rs), NEW new \in Baseline,
         NEW qs, Extends(qs, rs, i, new), WroteNone(new.by, rs)
  PROVE  WroteOnce(new.by, qs)
  <1>1. Len(rs) \in Nat /\ Len(qs) = Len(rs) + 1 /\ qs[Len(rs) + 1].by = new.by
    BY DEF Extends
  <1>2. \A k \in 1 .. Len(rs) : qs[k].by # new.by
    BY DEF Extends, WroteNone
  <1>3. ASSUME NEW k \in 1 .. Len(qs) PROVE qs[k].by = new.by <=> k = Len(rs) + 1
    <2>1. CASE k = Len(rs) + 1
      BY <1>1, <2>1
    <2>2. CASE k # Len(rs) + 1
      <3>1. k \in 1 .. Len(rs)
        BY <1>1, <2>2
      <3> QED BY <1>2, <2>2, <3>1
    <2> QED BY <2>1, <2>2
  <1>4. Len(rs) + 1 \in 1 .. Len(qs)
    BY <1>1
  <1> QED BY <1>3, <1>4 DEF WroteOnce

\* A row more names a sweep that has begun, or none.
LEMMA ByKnown ==
  ASSUME SweepInv, rows_ \in Seq(Baseline), Len(sweeps) \in Nat, NEW i \in 0 .. Len(rows_),
         NEW new \in Baseline, new.by \in 0 .. Len(sweeps), NEW qs, Extends(qs, rows_, i, new)
  PROVE  \A k \in 1 .. Len(qs) : qs[k].by \in 0 .. Len(sweeps)
  <1>1. Len(rows_) \in Nat /\ Len(qs) = Len(rows_) + 1 /\ qs[Len(rows_) + 1].by = new.by
    BY DEF Extends
  <1>2. \A k \in 1 .. Len(rows_) : qs[k].by = rows_[k].by
    BY DEF Extends
  <1>3. \A k \in 1 .. Len(rows_) : qs[k].by \in 0 .. Len(sweeps)
    BY <1>2 DEF SweepInv
  <1>4. \A k \in 1 .. Len(qs) : k \in 1 .. Len(rows_) \/ k = Len(rows_) + 1
    BY <1>1
  <1> QED BY <1>1, <1>3, <1>4

\* Steps that write neither keep every account, and who is in which sweep.
LEMMA SweepQuietStep ==
  ASSUME EvalTypeInv, SweepInv, NEW c \in Callers, QuietMove(c)
  PROVE  SweepInv'
  <1>1. PICK r \in Local(Len(rows_)) : Move(c, r) /\ Continues(at[c], r)
    BY DEF QuietMove
  <1>2. UNCHANGED <<rows_, sweeps>>
    BY DEF QuietMove
  <1>3. \A e \in Callers : InSweep(at'[e]) => InSweep(at[e]) /\ IdOf(at'[e]) = IdOf(at[e])
    BY <1>1 DEF EvalTypeInv, Move, Continues
  <1> QED BY <1>2, <1>3 DEF SweepInv

LEMMA SweepStartStep ==
  ASSUME EvalTypeInv, SweepInv, NEW c \in Callers, StartSweep(c)
  PROVE  SweepInv'
  <1> DEFINE n == Len(sweeps)
  <1>0. sweeps \in Seq(Sweep) /\ n \in Nat /\ at \in [Callers -> Local(Len(rows_))]
    BY DEF EvalTypeInv
  <1>1. UNCHANGED rows_ /\ ~InSweep(at[c])
    BY StartWrites
  <1>2. PICK status \in {"declined", "running"} :
          /\ sweeps' = Append(sweeps, SweepRow(status))
          /\ \/ UNCHANGED at
             \/ status = "running" /\ \E r \in Sampling : Move(c, r) /\ r.id = n + 1
    BY StartWrites
  <1>3. SweepRow(status) \in Sweep /\ SweepRow(status).ranking = <<>> /\ SweepRow(status).status = status
    BY DEF SweepRow, Sweep, Rankings
  <1>4. /\ Len(sweeps') = n + 1 /\ sweeps'[n + 1] = SweepRow(status)
        /\ \A i \in 1 .. n : sweeps'[i] = sweeps[i]
    BY <1>0, <1>2, <1>3, OneMore
  <1>5. \A e \in Callers : \/ at'[e] = at[e]
                           \/ e = c /\ status = "running" /\ IdOf(at'[e]) = n + 1
    <2>1. CASE UNCHANGED at
      BY <2>1
    <2>2. ASSUME NEW r \in Sampling, Move(c, r), r.id = n + 1, status = "running"
          PROVE  <1>5
      <3>1. IdOf(r) = n + 1
        BY <2>2 DEF IdOf, Sampling
      <3> QED BY <1>0, <2>2, <3>1 DEF Move
    <2> QED BY <1>2, <2>1, <2>2
  <1>6. \A e \in Callers : InSweep(at'[e]) => \/ IdOf(at'[e]) \in 1 .. n /\ sweeps[IdOf(at'[e])].status = "running"
                                              \/ e = c /\ IdOf(at'[e]) = n + 1 /\ status = "running"
    BY <1>5 DEF SweepInv
  <1>7. \A e \in Callers : InSweep(at'[e]) => /\ IdOf(at'[e]) \in 1 .. Len(sweeps')
                                              /\ sweeps'[IdOf(at'[e])].status = "running"
    <2> SUFFICES ASSUME NEW e \in Callers, InSweep(at'[e])
                 PROVE  IdOf(at'[e]) \in 1 .. Len(sweeps') /\ sweeps'[IdOf(at'[e])].status = "running"
      OBVIOUS
    <2>1. CASE IdOf(at'[e]) \in 1 .. n /\ sweeps[IdOf(at'[e])].status = "running"
      BY <1>0, <1>4, <2>1
    <2>2. CASE IdOf(at'[e]) = n + 1 /\ status = "running"
      BY <1>0, <1>3, <1>4, <2>2
    <2> QED BY <1>6, <2>1, <2>2
  <1>8. \A d, e \in Callers : d # e /\ InSweep(at'[d]) /\ InSweep(at'[e]) => IdOf(at'[d]) # IdOf(at'[e])
    <2> SUFFICES ASSUME NEW d \in Callers, NEW e \in Callers, d # e, InSweep(at'[d]), InSweep(at'[e])
                 PROVE  IdOf(at'[d]) # IdOf(at'[e])
      OBVIOUS
    <2>1. CASE at'[d] = at[d] /\ at'[e] = at[e]
      BY <2>1 DEF SweepInv
    <2>2. CASE at'[d] # at[d]
      <3>1. d = c /\ IdOf(at'[d]) = n + 1 /\ at'[e] = at[e]
        BY <1>5, <2>2
      <3>2. IdOf(at'[e]) \in 1 .. n
        BY <3>1 DEF SweepInv
      <3> QED BY <1>0, <3>1, <3>2
    <2>3. CASE at'[e] # at[e]
      <3>1. e = c /\ IdOf(at'[e]) = n + 1 /\ at'[d] = at[d]
        BY <1>5, <2>3
      <3>2. IdOf(at'[d]) \in 1 .. n
        BY <3>1 DEF SweepInv
      <3> QED BY <1>0, <3>1, <3>2
    <2> QED BY <2>1, <2>2, <2>3
  <1>9. \A i \in 1 .. Len(sweeps') : SweepOK(sweeps'[i], i, rows_)
    <2>1. \A k \in 1 .. Len(rows_) : rows_[k].by # n + 1
      BY <1>0 DEF SweepInv
    <2>2. SweepOK(sweeps'[n + 1], n + 1, rows_)
      BY <1>3, <1>4, <2>1 DEF SweepOK, WroteNone
    <2>3. \A i \in 1 .. n : SweepOK(sweeps'[i], i, rows_)
      BY <1>4 DEF SweepInv
    <2> QED BY <1>0, <1>4, <2>2, <2>3
  <1>10. \A k \in 1 .. Len(rows_) : rows_[k].by \in 0 .. Len(sweeps')
    BY <1>0, <1>4 DEF SweepInv
  <1> QED BY <1>1, <1>7, <1>8, <1>9, <1>10 DEF SweepInv

LEMMA SweepRecordStep ==
  ASSUME EvalTypeInv, SweepInv, NEW s \in Sets_, NEW p \in Prints, RecordBaseline(s, p)
  PROVE  SweepInv'
  <1>0. rows_ \in Seq(Baseline) /\ Len(rows_) \in Nat /\ Len(sweeps) \in Nat /\ CurrentRow \in 0 .. Len(rows_)
    BY CurrentRowType DEF EvalTypeInv
  <1>1. UNCHANGED <<sweeps, at>>
    BY RecordWrites
  <1>2. PICK new \in Baseline : new.by = 0 /\ rows_' = Upserted(CurrentRow, new)
    BY RecordWrites
  <1>3. Extends(rows_', rows_, CurrentRow, new)
    BY <1>0, <1>2, UpsertExtends
  <1>4. \A i \in 1 .. Len(sweeps) : SweepOK(sweeps[i], i, rows_')
    <2> SUFFICES ASSUME NEW i \in 1 .. Len(sweeps) PROVE SweepOK(sweeps[i], i, rows_')
      OBVIOUS
    <2>1. i # new.by
      BY <1>0, <1>2
    <2>2. (WroteOnce(i, rows_) => WroteOnce(i, rows_')) /\ (WroteNone(i, rows_) => WroteNone(i, rows_'))
      BY <1>0, <1>3, <2>1, OthersKept
    <2> QED BY <2>2 DEF SweepInv, SweepOK
  <1>5. \A k \in 1 .. Len(rows_') : rows_'[k].by \in 0 .. Len(sweeps)
    BY <1>0, <1>2, <1>3, ByKnown
  <1> QED BY <1>1, <1>4, <1>5 DEF SweepInv

LEMMA SweepFinishStep ==
  ASSUME EvalTypeInv, SweepInv, NEW c \in Callers, FinishSweep(c)
  PROVE  SweepInv'
  <1> DEFINE id == at[c].id
             ranking == Ranked(at[c].recalls)
  <1>0. /\ rows_ \in Seq(Baseline) /\ Len(rows_) \in Nat /\ sweeps \in Seq(Sweep) /\ Len(sweeps) \in Nat
        /\ at \in [Callers -> Local(Len(rows_))]
    BY DEF EvalTypeInv
  <1>1. InSweep(at[c]) /\ IdOf(at[c]) = id /\ Done(c)
    BY FinishWrites
  <1>2. \A e \in Callers : InSweep(at'[e]) => e # c /\ at'[e] = at[e] /\ IdOf(at[e]) # id
    <2>1. ~InSweep(Free) BY DEF InSweep, Free
    <2>2. \A e \in Callers : InSweep(at'[e]) => e # c /\ at'[e] = at[e]
      BY <1>0, <1>1, <2>1 DEF Done, Move
    <2> QED BY <1>1, <2>2 DEF SweepInv
  <1>3. CASE UNCHANGED <<rows_, sweeps>>
    BY <1>2, <1>3 DEF SweepInv
  <1>4. CASE ~UNCHANGED <<rows_, sweeps>>
    <2>1. PICK near \in BOOLEAN :
            sweeps' = [sweeps EXCEPT ![id] = [status |-> "completed", ranking |-> ranking, near |-> near]]
      BY <1>4, FinishWrites
    <2>2. ranking # <<>> /\ ranking \in Rankings
      BY <1>4, FinishWrites
    <2>3. PICK new \in Baseline, i \in 0 .. Len(rows_) : new.by = id /\ rows_' = Upserted(i, new)
      BY <1>4, FinishWrites
    <2> DEFINE completed == [status |-> "completed", ranking |-> ranking, near |-> near]
    <2> HIDE DEF ranking, id
    <2>4. completed \in Sweep /\ completed.status = "completed" /\ completed.ranking = ranking
      BY <2>2 DEF Sweep
    <2> HIDE DEF completed
    <2>5. /\ Len(sweeps') = Len(sweeps)
          /\ \A k \in 1 .. Len(sweeps) : sweeps'[k] = IF k = id THEN completed ELSE sweeps[k]
      BY <1>0, <2>1, <2>4, OneOther DEF completed
    <2>6. Extends(rows_', rows_, i, new)
      BY <1>0, <2>3, UpsertExtends
    <2>7. id \in 1 .. Len(sweeps) /\ sweeps[id].status = "running"
      BY <1>1 DEF SweepInv
    <2>8. ASSUME NEW k \in 1 .. Len(sweeps') PROVE SweepOK(sweeps'[k], k, rows_')
      <3>1. CASE k = id
        <4>1. SweepOK(sweeps[id], id, rows_)
          BY <2>7 DEF SweepInv
        <4>2. WroteNone(new.by, rows_)
          BY <2>3, <2>7, <4>1 DEF SweepOK
        <4>3. WroteOnce(id, rows_')
          BY <1>0, <2>3, <2>6, <4>2, FirstIsOnly
        <4> QED BY <2>2, <2>4, <2>5, <2>7, <3>1, <4>3 DEF SweepOK
      <3>2. CASE k # id
        <4>1. (WroteOnce(k, rows_) => WroteOnce(k, rows_')) /\ (WroteNone(k, rows_) => WroteNone(k, rows_'))
          BY <1>0, <2>3, <2>6, <3>2, OthersKept
        <4>2. sweeps'[k] = sweeps[k] /\ SweepOK(sweeps[k], k, rows_)
          BY <2>5, <3>2 DEF SweepInv
        <4> QED BY <4>1, <4>2 DEF SweepOK
      <3> QED BY <3>1, <3>2
    <2>9. \A k \in 1 .. Len(rows_') : rows_'[k].by \in 0 .. Len(sweeps')
      BY <1>0, <2>3, <2>5, <2>6, <2>7, ByKnown
    <2>10. \A e \in Callers : InSweep(at'[e]) => /\ IdOf(at'[e]) \in 1 .. Len(sweeps')
                                                 /\ sweeps'[IdOf(at'[e])].status = "running"
      BY <1>2, <2>5 DEF SweepInv
    <2>11. \A d, e \in Callers : d # e /\ InSweep(at'[d]) /\ InSweep(at'[e]) => IdOf(at'[d]) # IdOf(at'[e])
      BY <1>2 DEF SweepInv
    <2> QED BY <2>8, <2>9, <2>10, <2>11 DEF SweepInv
  <1> QED BY <1>3, <1>4

\* A completed sweep left the recall of its reference as one baseline, and a sweep that did not
\* complete left neither a baseline nor a ranking, however the sweeps of other callers and
\* the deletions of documents interleave with it.
THEOREM SweepsLeaveBaselines == EvalSpec => []RankedWithBaseline
  <1>1. EvalInit => SweepInv
    BY DEF EvalInit, SweepInv, InSweep, Free
  <1>2. EvalTypeInv /\ SweepInv /\ [EvalNext]_evalVars => SweepInv'
    <2>1. SweepInv /\ UNCHANGED <<rows_, sweeps, live_, at>> => SweepInv'
      BY DEF SweepInv
    <2> QED BY <2>1, QuietOrWrites, SweepQuietStep, SweepStartStep, SweepRecordStep, SweepFinishStep
  <1>3. EvalTypeInv /\ SweepInv => RankedWithBaseline
    BY SweepInvRanks
  <1> QED BY <1>1, <1>2, <1>3, EvalTypes, PTL DEF EvalSpec
=============================================================================
