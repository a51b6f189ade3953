------------------------------ MODULE Planning ------------------------------
(***************************************************************************)
(* The Plan stage (pipeline/plan): the permission gate, the measurement of *)
(* the segments, the recommendation of one rule per class, the derivation  *)
(* of config_version, and the way of a configuration through a file that   *)
(* somebody may edit.                                                      *)
(***************************************************************************)
EXTENDS Integers, Sequences, FiniteSets, SequencesExt, FiniteSetsExt

CONSTANTS
  Batches,           \* the segment set batches Decompose may hand over
  DescriptionFiles,  \* the class descriptions a user may give
  Declared,          \* languages the embedding model declares, "*" for all
  Audited_           \* whether the stage has a control-plane session

(* A batch is a list of sets, a set holds a list of segments, and a path has a length *)
ASSUME BatchesAssumption ==
  \A batch \in Batches :
    /\ batch \in Seq({batch[i] : i \in DOMAIN batch})
    /\ \A i \in DOMAIN batch :
         LET segments == batch[i].segments
         IN /\ segments \in Seq({segments[j] : j \in DOMAIN segments})
            /\ \A j \in DOMAIN segments : segments[j].depth \in Nat

VARIABLES
  planned,   \* the batch, the descriptions and the acknowledgement of this run
  planning,  \* stage, set measured next, measurements, rules, the configuration
  saved      \* the exported file, what was edited in it, what an import answered

planVars == <<planned, planning, saved>>

(* conf, tokens -1: absent *)
Segment(class) == [class |-> class, tokens |-> 100, depth |-> 1, conf |-> -1, lang |-> "en"]
SegmentSet(doc) == [doc |-> doc, kb |-> "k1", fidelity |-> "authoritative", segments |-> <<>>, exclusions |-> <<>>]

Classes == {"prose", "heading", "table", "list", "code", "scanned_region", "boilerplate", "front_matter",
            "cross_reference", "unknown"}
Alphabetical == <<"boilerplate", "code", "cross_reference", "front_matter", "heading", "list", "prose",
                  "scanned_region", "table", "unknown">>
NoFile_ == [kind |-> "none"]

PlanFrom(batches) ==
  /\ planned \in [batch : batches, file : DescriptionFiles, acknowledged : BOOLEAN]
  /\ planning = [stage |-> "gate", next |-> 1, measured |-> <<>>, rules |-> <<>>, audited |-> 0, config |-> NoFile_]
  /\ saved = [config |-> NoFile_, edited |-> "none", answer |-> "none"]

PlanInit == PlanFrom(Batches)

-----------------------------------------------------------------------------
(* check_permission_gap_gate, and load_class_descriptions right after it *)
Unavailable(batch) == {i \in DOMAIN batch : batch[i].fidelity = "unavailable"}

Readable(entries) ==
  /\ \A i \in DOMAIN entries : entries[i].class \in Classes /\ entries[i].text # "none"
  /\ \A i, j \in DOMAIN entries : entries[i].class = entries[j].class => i = j

PassGate ==
  /\ planning.stage = "gate"
  /\ LET gap == Unavailable(planned.batch) # {}
     IN planning' = [planning EXCEPT
          !.stage = IF (gap /\ ~planned.acknowledged) \/ ~Readable(planned.file) THEN "failed" ELSE "measure",
          !.audited = IF gap /\ planned.acknowledged /\ Audited_ THEN 1 ELSE 0]
  /\ UNCHANGED <<planned, saved>>

(* compute_corpus_stats walks the sets in the order of the batch *)
Measure ==
  /\ planning.stage = "measure" /\ planning.next <= Len(planned.batch)
  /\ planning' = [planning EXCEPT !.next = @ + 1, !.measured = @ \o planned.batch[planning.next].segments]
  /\ UNCHANGED <<planned, saved>>

-----------------------------------------------------------------------------
(* The segments of a class, by their place; what is measured is kept with its place as well *)
Of(measured, class) == {i \in DOMAIN measured : measured[i].class = class}
Tokens(measured, class) ==
  [i \in {j \in Of(measured, class) : measured[j].tokens >= 0} |-> measured[i].tokens]
Confidences(measured, class) ==
  [i \in {j \in Of(measured, class) : measured[j].conf >= 0} |-> measured[i].conf]
Depths(measured, class) == [i \in Of(measured, class) |-> measured[i].depth]

HowMany(values) == Cardinality(DOMAIN values)
Total(values) == Cardinality(UNION {{i} \X (1 .. values[i]) : i \in DOMAIN values})

(* Mutant: the values are not sorted before the quantile is read off *)
InOrderSeen(values, k) == values[CHOOSE i \in DOMAIN values : Cardinality({j \in DOMAIN values : j <= i}) = k]

(* The k-th value in ascending order: the least with k values up to it *)
Ranked_(values, k) ==
  Min({v \in {values[i] : i \in DOMAIN values} : Cardinality({i \in DOMAIN values : values[i] <= v}) >= k})

(* statistics.quantiles(n=100) of the values, times 100: it interpolates, and below ten values *)
(* it extrapolates beyond the largest                                                         *)
Quantile(values, p) ==
  LET n == HowMany(values)
      at == p * (n + 1)
      j == IF at \div 100 < 1 THEN 1 ELSE IF at \div 100 > n - 1 THEN n - 1 ELSE at \div 100
      delta == at - 100 * j
  IN Ranked_(values, j) * (100 - delta) + Ranked_(values, j + 1) * delta

DefaultMaxTokens(class) ==
  CASE class \in {"prose", "code", "scanned_region"} -> 512
    [] class \in {"heading", "cross_reference"} -> 128
    [] class = "table" -> 1024
    [] OTHER -> 256

(* _max_tokens_from_stats: the next multiple of 64, within [64, 2048] *)
MaxTokens(measured, class) ==
  LET tokens == Tokens(measured, class)
      multiple == 64 * ((Quantile(tokens, 90) + 6399) \div 6400)
  IN IF HowMany(tokens) < 5 THEN DefaultMaxTokens(class)
     ELSE IF multiple < 64 THEN 64 ELSE IF multiple > 2048 THEN 2048 ELSE multiple

Shared(max) == IF max \div 8 < 32 THEN 32 ELSE max \div 8

(* A hundredth of a confidence is the unit; below ten values the tenth percentile is the least *)
ConfidenceFloor(measured, class) ==
  LET conf == Confidences(measured, class)
      p10 == IF HowMany(conf) >= 10 THEN Quantile(conf, 10) \div 100 ELSE Ranked_(conf, 1)
  IN IF DOMAIN conf = {} THEN 60
     ELSE IF p10 < 50 THEN 50 ELSE IF p10 > 85 THEN 85 ELSE p10

(* Headings are counted for prose as well; elsewhere the mean depth decides *)
HasHeadings(measured, class) ==
  LET depths == Depths(measured, class)
  IN \/ class \in {"heading", "prose"} /\ Of(measured, "heading") # {}
     \/ DOMAIN depths # {} /\ Total(depths) >= 2 * HowMany(depths)

DescribedIn(file, class) == \E i \in DOMAIN file : file[i].class = class
Breadcrumb(measured, class) == IF HasHeadings(measured, class) THEN {"breadcrumb_augment"} ELSE {}

(* What the recommendations of all classes have in common *)
Plain(measured, file, class) ==
  LET max == MaxTokens(measured, class)
  IN [class |-> class, strategy |-> "recursive_char", max |-> max, overlap |-> Shared(max), headings |-> FALSE,
      tier1 |-> {"whitespace_repair"}, tier2 |-> IF DescribedIn(file, class) THEN {"class_context"} ELSE {},
      floor |-> -1, salience |-> {"primary", "supporting"}]

ProseRule(measured, file) ==
  [Plain(measured, file, "prose") EXCEPT !.headings = TRUE, !.tier2 = @ \cup Breadcrumb(measured, "prose")]
TableRule(measured, file) ==
  [Plain(measured, file, "table") EXCEPT !.strategy = "table_atomic", !.overlap = 0,
     !.tier1 = @ \cup {"table_to_markdown"}, !.tier2 = @ \cup {"table_description"}]
CodeRule(measured, file) ==
  [Plain(measured, file, "code") EXCEPT !.strategy = "code_syntax", !.overlap = 0]
ScannedRule(measured, file) ==
  [Plain(measured, file, "scanned_region") EXCEPT !.tier1 = @ \cup {"ocr_cleanup"},
     !.floor = ConfidenceFloor(measured, "scanned_region")]
FrameRule(measured, file, class) == [Plain(measured, file, class) EXCEPT !.salience = {"boilerplate"}]
CrossReferenceRule(measured, file) == Plain(measured, file, "cross_reference")
GenericRule(measured, file, class) ==
  [Plain(measured, file, class) EXCEPT !.tier2 = @ \cup Breadcrumb(measured, class)]

Rule(measured, file, class) ==
  CASE class = "prose" -> ProseRule(measured, file)
    [] class = "table" -> TableRule(measured, file)
    [] class = "code" -> CodeRule(measured, file)
    [] class = "scanned_region" -> ScannedRule(measured, file)
    [] class \in {"boilerplate", "front_matter"} -> FrameRule(measured, file, class)
    [] class = "cross_reference" -> CrossReferenceRule(measured, file)
    [] OTHER -> GenericRule(measured, file, class)

(* The classes that were observed, in the order of their names *)
ByName(classes) == SelectSeq(Alphabetical, LAMBDA c : c \in classes)
Observed(measured) == ByName({class \in Classes : Of(measured, class) # {}})

Recommend ==
  /\ planning.stage = "measure" /\ planning.next > Len(planned.batch)
  /\ LET classes == Observed(planning.measured)
     IN planning' = [planning EXCEPT !.stage = "assemble",
          !.rules = [i \in DOMAIN classes |-> Rule(planning.measured, planned.file, classes[i])]]
  /\ UNCHANGED <<planned, saved>>

-----------------------------------------------------------------------------
(* _compute_language_support: from two percent of the segments, "und" never *)
Unsupported(measured) ==
  {lang \in {measured[i].lang : i \in DOMAIN measured} \ ({"und"} \cup Declared) :
     "*" \notin Declared /\ 50 * Cardinality({i \in DOMAIN measured : measured[i].lang = lang}) >= Len(measured)}

(* One decision per exclusion id: copies of a document share theirs *)
Exclusions(batch) ==
  LET all == FlattenSeq([i \in DOMAIN batch |->
               [e \in DOMAIN batch[i].exclusions |->
                  [doc |-> batch[i].doc, id |-> batch[i].exclusions[e].id, reason |-> batch[i].exclusions[e].reason]]])
      first == {i \in DOMAIN all : \A j \in 1 .. i - 1 : all[j].id # all[i].id}
  IN [k \in 1 .. Cardinality(first) |-> all[SetToSortSeq(first, <)[k]]]

(* derive_config_version covers what Build reads of the rules, and the descriptions *)
BuildFields(rule) ==
  [class |-> rule.class, strategy |-> rule.strategy, max |-> rule.max, overlap |-> rule.overlap,
   headings |-> rule.headings, tier1 |-> rule.tier1, tier2 |-> rule.tier2]

Derived(config) ==
  [rules |-> [i \in DOMAIN config.rules |-> BuildFields(config.rules[i])],
   described |-> {<<config.file[i].class, config.file[i].text>> : i \in DOMAIN config.file}]

Assembled(batch, file, measured, rules) ==
  LET partial == [kind |-> "config", kb |-> IF batch = <<>> THEN "" ELSE batch[1].kb, file |-> file,
                  rules |-> rules, unsupported |-> Unsupported(measured), excluded |-> Exclusions(batch),
                  version |-> <<>>]
  IN [partial EXCEPT !.version = Derived(partial)]

Assemble ==
  /\ planning.stage = "assemble"
  /\ planning' = [planning EXCEPT !.stage = "done",
       !.config = Assembled(planned.batch, planned.file, planning.measured, planning.rules)]
  /\ UNCHANGED <<planned, saved>>

-----------------------------------------------------------------------------
(* export_config refuses a configuration in which anything looks like a secret *)
Export ==
  /\ planning.stage = "done" /\ saved.config = NoFile_ /\ saved.answer = "none"
  /\ saved' = IF \E i \in DOMAIN planned.file : planned.file[i].text = "secret"
              THEN [saved EXCEPT !.answer = "refused"] ELSE [saved EXCEPT !.config = planning.config]
  /\ UNCHANGED <<planned, planning>>

(* Somebody changes the first rule, or the text of the first description, by hand *)
EditFile(field) ==
  /\ saved.config # NoFile_ /\ saved.edited = "none" /\ saved.answer = "none"
  /\ LET c == saved.config
     IN \/ /\ field = "max" /\ c.rules # <<>>
           /\ saved' = [saved EXCEPT !.edited = field, !.config.rules[1].max = @ + 64]
        \/ /\ field = "floor" /\ c.rules # <<>>
           /\ saved' = [saved EXCEPT !.edited = field, !.config.rules[1].floor = -1]
        \/ /\ field = "salience" /\ c.rules # <<>>
           /\ \E tiers \in SUBSET {"primary", "supporting", "boilerplate"} \ {c.rules[1].salience} :
                saved' = [saved EXCEPT !.edited = field, !.config.rules[1].salience = tiers]
        \/ /\ field = "text" /\ c.file # <<>>
           /\ saved' = [saved EXCEPT !.edited = field, !.config.file[1].text = "another"]
  /\ UNCHANGED <<planned, planning>>

(* import_config derives the version again *)
ImportFile ==
  /\ saved.config # NoFile_ /\ saved.answer = "none"
  /\ saved' = [saved EXCEPT !.answer = IF Derived(saved.config) = saved.config.version THEN "imported" ELSE "rejected"]
  /\ UNCHANGED <<planned, planning>>

(* detect_confidence_floor_lowering *)
Lowered(prev, next) ==
  {class \in Classes :
     \E p \in DOMAIN prev.rules : \E n \in DOMAIN next.rules :
       /\ prev.rules[p].class = class /\ next.rules[n].class = class
       /\ \/ prev.rules[p].floor >= 0 /\ next.rules[n].floor < prev.rules[p].floor
          \/ prev.rules[p].salience \subseteq next.rules[n].salience /\ prev.rules[p].salience # next.rules[n].salience}

PlanNext ==
  \/ PassGate \/ Measure \/ Recommend \/ Assemble \/ Export \/ ImportFile
  \/ \E field \in {"max", "floor", "salience", "text"} : EditFile(field)

PlanSpec == PlanInit /\ [][PlanNext]_planVars

-----------------------------------------------------------------------------
(* The version of a configuration, and with it the identity of every chunk, does not depend on *)
(* the order in which the documents were collected: a renamed file never rebuilds the index.    *)
PlanIsOrderFree ==
  planning.stage = "done" =>
    LET n == Len(planned.batch)
    IN \A order \in {f \in [1 .. n -> 1 .. n] : \A i, j \in 1 .. n : f[i] = f[j] => i = j} :
         LET batch == [i \in 1 .. n |-> planned.batch[order[i]]]
             measured == FlattenSeq([i \in 1 .. n |-> batch[i].segments])
             classes == Observed(measured)
             rules == [i \in DOMAIN classes |-> Rule(measured, planned.file, classes[i])]
         IN Assembled(batch, planned.file, measured, rules).version = planning.config.version

(* Not so in the code: a filter that gains a tier and loses another is not reported.           *)
WideningIsReported ==
  saved.answer = "imported" =>
    \A i \in DOMAIN saved.config.rules :
      saved.config.rules[i].salience \subseteq planning.config.rules[i].salience
        \/ saved.config.rules[i].class \in Lowered(planning.config, saved.config)
=============================================================================
