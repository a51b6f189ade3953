------------------------------- MODULE Corpus -------------------------------
(***************************************************************************)
(* Collect, Assess and Decompose (pipeline/collect, pipeline/assess,       *)
(* pipeline/decompose) of the runs of several knowledge bases over one     *)
(* directory and one artifacts root, while files change and OCR comes and  *)
(* goes.  The stages read one file, parse one item and decompose one       *)
(* result per step; a crash resumes at the stage it hit (pipeline/jobs.py). *)
(***************************************************************************)
EXTENDS Integers, Sequences, FiniteSets, SequencesExt, FiniteSetsExt

CONSTANTS
  PathOrder,    \* the paths of the directory, sorted
  Suffix,       \* Suffix[path]
  Content,      \* Content[c]: the file (see Parsers) whose hash is c
  Fits,         \* Fits[path]: the contents a file of that suffix may have
  HashOrder,    \* all hashes, sorted; that of an unreadable file is its path's
  DatabaseRows, \* see Parsers
  TableRows,    \* see Parsers
  KBs,          \* knowledge bases whose runs share the artifacts root
  MaxRuns,      \* bound on runs
  MaxEdits      \* bound on changes to files, to OCR and to what is frozen

Paths == ToSet(PathOrder)
Hashes == ToSet(HashOrder)

ASSUME OrdersAssumption == PathOrder \in Seq(Paths) /\ HashOrder \in Seq(Hashes)
ASSUME HashAssumption == \A path \in Paths : {path} \cup Fits[path] \subseteq Hashes

LOCAL INSTANCE Parsers

VARIABLES
  files,      \* files[path]: the content (or "none"), its modification time, whether it can be read
  tesseract,  \* OCR is installed
  frozen,     \* frozen[hash]: the frozen segment set on disk, "torn" or "none"
  run,        \* the run: stage, remaining walk, inventory, parse results, blocks, segment sets
  clock       \* runs and edits so far

corpusVars == <<files, tesseract, frozen, run, clock>>

Absent_ == [content |-> "none", mtime |-> 0, readable |-> TRUE]
NoSet == [kind |-> "none"]
Torn == [kind |-> "torn"]
Idle_ == [stage |-> "idle", kb |-> "none", walk |-> <<>>, items |-> <<>>, results |-> <<>>,
          families |-> {}, blocks |-> {}, sets |-> <<>>]

Fitting ==
  {f \in [Paths -> {Absent_} \cup {[content |-> c, mtime |-> 1, readable |-> TRUE] : c \in DOMAIN Content}] :
     \A p \in Paths : f[p].content \in Fits[p] \cup {"none"}}

CorpusFrom(directories) ==
  /\ files \in directories
  /\ tesseract \in BOOLEAN
  /\ frozen = [h \in Hashes |-> NoSet]
  /\ run = Idle_
  /\ clock = [runs |-> 0, edits |-> 0]

CorpusInit == CorpusFrom(Fitting)

ContentAt(path) ==
  IF files[path].content = "none" \/ ~files[path].readable THEN NoFile ELSE Content[files[path].content]

-----------------------------------------------------------------------------
(* The world *)
Edited == clock.edits < MaxEdits /\ clock' = [clock EXCEPT !.edits = @ + 1]

Edit(path) ==
  /\ Edited
  /\ \E c \in Fits[path] \ {files[path].content} :
       files' = [files EXCEPT ![path] = [content |-> c, mtime |-> clock.edits + 2, readable |-> TRUE]]
  /\ UNCHANGED <<tesseract, frozen, run>>

Deny(path) ==
  /\ Edited /\ files[path].content # "none" /\ files[path].readable
  /\ files' = [files EXCEPT ![path].readable = FALSE]
  /\ UNCHANGED <<tesseract, frozen, run>>

Remove_(path) ==
  /\ Edited /\ files[path].content # "none"
  /\ files' = [files EXCEPT ![path] = Absent_]
  /\ UNCHANGED <<tesseract, frozen, run>>

\* delete_document removes the frozen segment set of the document.
RemoveArtifacts(hash) ==
  /\ Edited /\ frozen[hash] # NoSet
  /\ frozen' = [frozen EXCEPT ![hash] = NoSet]
  /\ UNCHANGED <<files, tesseract, run>>

SwitchOcr ==
  /\ Edited /\ tesseract' = ~tesseract
  /\ UNCHANGED <<files, frozen, run>>

-----------------------------------------------------------------------------
(* Collect *)
(* The elements of s at these places, in their order *)
Picked(s, places) == FlattenSeq([i \in DOMAIN s |-> IF i \in places THEN <<s[i]>> ELSE <<>>])

(* The files that are there when the directory is listed *)
Walk == Picked(PathOrder, {i \in DOMAIN PathOrder : files[PathOrder[i]].content # "none"})

StartRun(kb) ==
  /\ run.stage \in {"idle", "done"} /\ clock.runs < MaxRuns
  /\ run' = [Idle_ EXCEPT !.stage = "collect", !.kb = kb, !.walk = Walk]
  /\ clock' = [clock EXCEPT !.runs = @ + 1]
  /\ UNCHANGED <<files, tesseract, frozen>>

(* A file that cannot be read is listed under the hash of its path *)
Item(path) ==
  IF files[path].readable
  THEN [path |-> path, hash |-> files[path].content, mtime |-> files[path].mtime, dup |-> "unique"]
  ELSE [path |-> path, hash |-> path, mtime |-> 0, dup |-> "unique"]

(* is_file drops what has gone since the directory was listed *)
CollectFile ==
  /\ run.stage = "collect" /\ run.walk # <<>>
  /\ LET path == Head(run.walk)
     IN run' = [run EXCEPT !.walk = Tail(@),
                  !.items = IF files[path].content = "none" THEN @ ELSE Append(@, Item(path))]
  /\ UNCHANGED <<files, tesseract, frozen, clock>>

(* Items of one hash follow the first of them; the smallest path is the primary copy *)
Grouped(items) ==
  LET Copies(k) == {j \in DOMAIN items : items[j].hash = items[k].hash}
      First(k) == k = Min(Copies(k))
      marked == [k \in DOMAIN items |->
                   [items[k] EXCEPT !.dup = IF Copies(k) = {k} THEN "unique"
                                            ELSE IF First(k) THEN "primary" ELSE "exact_duplicate"]]
  IN FlattenSeq([k \in DOMAIN items |-> IF First(k) THEN Picked(marked, Copies(k)) ELSE <<>>])

FinishCollect ==
  /\ run.stage = "collect" /\ run.walk = <<>>
  /\ run' = [run EXCEPT !.stage = "assess", !.items = Grouped(@)]
  /\ UNCHANGED <<files, tesseract, frozen, clock>>

-----------------------------------------------------------------------------
(* Assess.  The file is parsed as it is now, under the hash collected for it. *)
AssessItem ==
  /\ run.stage = "assess" /\ Len(run.results) < Len(run.items)
  /\ LET item == run.items[Len(run.results) + 1]
         parsed == Parse_(Suffix[item.path], ContentAt(item.path), tesseract)
     IN run' = [run EXCEPT !.results = Append(@,
                  [hash |-> item.hash, mtime |-> item.mtime, status |-> parsed.status, codes |-> parsed.codes,
                   regions |-> parsed.regions, role |-> "unique", primary |-> "none", seen |-> files[item.path].content])]
  /\ UNCHANGED <<files, tesseract, frozen, clock>>

(* _extract_doc_text, cut into paragraphs *)
TextOf(result) == FlattenSeq([r \in DOMAIN result.regions |-> Spoken(result.regions[r].text)])

Eligible_(results) ==
  {i \in DOMAIN results : results[i].status \in {"parsed", "partial"} /\ TextOf(results[i]) # <<>>}

(* The shingles of a text are those of its lines *)
Shingles(result) == UNION {ToSet(TextOf(result)[p]) : p \in DOMAIN TextOf(result)}

Similar(a, b) == 2 * Cardinality(a \cap b) >= Cardinality(a \cup b)

(* The dictionaries keyed by document keep the last of its results *)
LastOf(results, places, hash) == results[Max({i \in places : results[i].hash = hash})]

HashRank(h) == CHOOSE i \in DOMAIN HashOrder : HashOrder[i] = h
Newer(results, a, b) ==
  LET x == LastOf(results, DOMAIN results, a).mtime
      y == LastOf(results, DOMAIN results, b).mtime
  IN x > y \/ (x = y /\ HashRank(a) >= HashRank(b))

(* Two documents are compared by their last eligible results *)
Near(results, places, g, h) == Similar(Shingles(LastOf(results, places, g)), Shingles(LastOf(results, places, h)))

Documents(results, places) == {results[i].hash : i \in places}

(* Mutant: a family is a document and those similar to it, not a connected component *)
NearComponent(results, hash) ==
  LET eligible == Eligible_(results)
  IN {h \in Documents(results, eligible) : Near(results, eligible, hash, h)}

(* The documents connected with this one by pairs that are similar enough *)
Component(results, hash) ==
  LET eligible == Eligible_(results)
      hashes == Documents(results, eligible)
      Around(S) == {h \in hashes : \E g \in S : Near(results, eligible, g, h)}
      reach[n \in 0 .. Cardinality(hashes)] ==
        IF n = 0 THEN {hash} ELSE reach[n - 1] \cup Around(reach[n - 1])
  IN reach[Cardinality(hashes)]

(* Copies of a document are listed as often as they are: two are a family of their own *)
Families(results) ==
  LET eligible == Eligible_(results)
      Size(members) == Cardinality({i \in eligible : results[i].hash \in members})
      FamilyOf(members) ==
        LET primary == CHOOSE h \in members : \A g \in members : Newer(results, h, g)
        IN [members |-> members, primary |-> primary, superseded |-> members \ {primary}]
  IN {FamilyOf(c) : c \in {m \in {Component(results, h) : h \in Documents(results, eligible)} : Size(m) >= 2}}

Roled(results, families) ==
  [i \in DOMAIN results |->
     LET above == {f \in families : results[i].hash \in f.superseded}
     IN IF above # {}
        THEN [results[i] EXCEPT !.role = "superseded", !.primary = (CHOOSE f \in above : TRUE).primary]
        ELSE IF \E f \in families : f.primary = results[i].hash
             THEN [results[i] EXCEPT !.role = "primary"] ELSE results[i]]

(* A block is a paragraph or a line of one.  Documents count it once, and the total adds the *)
(* repetitions of a paragraph within a document.                                            *)
BlocksOf(result) ==
  LET text == TextOf(result)
  IN ToSet(text) \cup UNION {{<<line>> : line \in ToSet(text[p])} : p \in DOMAIN text}

Boilerplate_(results) ==
  LET eligible == Eligible_(results)
      n == Cardinality(eligible)
      Count(b) == Cardinality({i \in eligible : b \in BlocksOf(results[i])})
      Repeated(b, i) ==
        LET times == Cardinality({p \in DOMAIN TextOf(results[i]) : TextOf(results[i])[p] = b})
        IN IF times > 1 THEN times - 1 ELSE 0
      Total(b) == Count(b) + MapThenSumSet(LAMBDA i : Repeated(b, i), eligible)
      Common(b) == IF n < 10 THEN 2 * Count(b) > n ELSE 10 * Count(b) > 3 * n
  IN IF n < 2 THEN {}
     ELSE {b \in UNION {BlocksOf(results[i]) : i \in eligible} :
             Common(b) \/ (Total(b) >= 3 /\ 20 * Count(b) >= n)}

(* run_corpus_passes, once every item is parsed *)
FinishAssess ==
  /\ run.stage = "assess" /\ Len(run.results) = Len(run.items)
  /\ LET families == Families(run.results)
     IN run' = [run EXCEPT !.stage = "decompose", !.results = Roled(@, families), !.families = families,
                           !.blocks = Boilerplate_(run.results)]
  /\ UNCHANGED <<files, tesseract, frozen, clock>>

-----------------------------------------------------------------------------
(* Decompose *)
Stamped(kind, result, reason, text) ==
  [kind |-> kind, hash |-> result.hash, kb |-> run.kb, reason |-> reason, text |-> text, repeated |-> {},
   of |-> result.seen]

(* _make_empty_segment_set: the reason comes from the findings, then from the status *)
Reason(result) ==
  CASE "password_protected" \in result.codes -> "encrypted"
    [] result.codes \cap {"unservable_image_only", "unservable_audio", "unservable_video", "unservable_cad"} # {} ->
         "unservable_content"
    [] "spreadsheet_database_excluded" \in result.codes -> "spreadsheet_database"
    [] "spreadsheet_model_excluded" \in result.codes -> "spreadsheet_model"
    [] OTHER -> IF result.status = "failed" THEN "parse_failed" ELSE "other"

(* The passes (see Segmentation) tag the blocks that this run found to be repeated *)
Decomposed(result) ==
  IF result.status \in {"parsed", "partial"}
  THEN [Stamped("segments", result, "none", ToSet(TextOf(result))) EXCEPT !.repeated = run.blocks \cap BlocksOf(result)]
  ELSE Stamped("empty", result, Reason(result), {})

Superseded_(result) == Stamped("superseded", result, "superseded_version", {})

(* What is on disk for a hash: nothing for one that was never decomposed *)
FrozenFor(hash) == IF hash \in DOMAIN frozen THEN frozen[hash] ELSE NoSet

(* A frozen set that cannot be read is computed again *)
Reusable(result) == FrozenFor(result.hash).kind \notin {"none", "torn"}

(* Mutant: the cache is looked up before the role *)
CacheFirst(result) ==
  IF Reusable(result) THEN FrozenFor(result.hash)
  ELSE IF result.role = "superseded" THEN Superseded_(result) ELSE Decomposed(result)

(* No caller sets index_superseded_versions: a superseded document always gets the empty set *)
SetFor(result) ==
  IF result.role = "superseded" THEN Superseded_(result)
  ELSE IF Reusable(result) THEN FrozenFor(result.hash) ELSE Decomposed(result)

Saves(result) == result.role # "superseded" /\ ~Reusable(result)

Pending_ == run.stage = "decompose" /\ Len(run.sets) < Len(run.results)
NextResult == run.results[Len(run.sets) + 1]

DecomposeResult ==
  /\ Pending_
  /\ run' = [run EXCEPT !.sets = Append(@, SetFor(NextResult))]
  /\ frozen' = IF Saves(NextResult) THEN [frozen EXCEPT ![NextResult.hash] = Decomposed(NextResult)] ELSE frozen
  /\ UNCHANGED <<files, tesseract, clock>>

FinishDecompose ==
  /\ run.stage = "decompose" /\ Len(run.sets) = Len(run.results)
  /\ run' = [run EXCEPT !.stage = "done"]
  /\ UNCHANGED <<files, tesseract, frozen, clock>>

(* The stage that was not completed starts again, on the artifacts of those that were *)
Restarted ==
  CASE run.stage = "collect" ->
         [run EXCEPT !.walk = Walk, !.items = <<>>]
    [] run.stage = "assess" -> [run EXCEPT !.results = <<>>]
    [] run.stage = "decompose" -> [run EXCEPT !.sets = <<>>]

Crash_ ==
  /\ run.stage \in {"collect", "assess", "decompose"} /\ Edited
  /\ run' = Restarted
  /\ \/ UNCHANGED frozen
     \/ /\ Pending_ /\ Saves(NextResult)
        /\ frozen' = [frozen EXCEPT ![NextResult.hash] = Torn]
  /\ UNCHANGED <<files, tesseract>>

CorpusNext ==
  \/ \E path \in Paths : Edit(path) \/ Deny(path) \/ Remove_(path)
  \/ SwitchOcr \/ Crash_
  \/ \E hash \in DOMAIN frozen : RemoveArtifacts(hash)
  \/ \E kb \in KBs : StartRun(kb)
  \/ CollectFile \/ FinishCollect \/ AssessItem \/ FinishAssess \/ DecomposeResult \/ FinishDecompose

CorpusSpec == CorpusInit /\ [][CorpusNext]_corpusVars

-----------------------------------------------------------------------------
(* A document is left out of the index exactly while its run finds it superseded: neither a    *)
(* frozen set of a run in which it was not, nor a suppressed set of a run in which it was,      *)
(* decides for a later run.                                                                    *)
SuppressionFollowsRole ==
  \A i \in DOMAIN run.sets : run.sets[i].kind = "superseded" <=> run.results[i].role = "superseded"

(* Leaving versions out never leaves a family out: what a superseded document names as its     *)
(* primary is in the batch and not superseded itself, through chains of similar versions,       *)
(* copies and files that change between collect and assess.                                    *)
FamilyIsServed ==
  run.stage \in {"decompose", "done"} =>
    /\ \A i \in DOMAIN run.results : run.results[i].role = "superseded" =>
         \E j \in DOMAIN run.results : run.results[j].hash = run.results[i].primary /\ run.results[j].role = "primary"
    /\ \A f \in run.families : \A g \in run.families : f.primary \notin g.superseded

(* Not so in the code: docs/contracts/segment-set.md:23 lets a segment set inherit the tenancy *)
(* of its document, but the frozen set of another knowledge base carries that one's.            *)
TenancyIsInherited == \A i \in DOMAIN run.sets : run.sets[i].kb = run.kb

(* Not so in the code: the empty set of a parse that failed, because OCR was not installed or  *)
(* the file could not be opened, is frozen and reused for ever.                                *)
FailureIsRetried ==
  \A i \in DOMAIN run.sets : run.sets[i].kind = "empty" => run.results[i].status \notin {"parsed", "partial"}

(* Not so in the code: the file is read again after its hash was taken.                        *)
FrozenIsOfItsContent ==
  \A h \in DOMAIN frozen : frozen[h].kind = "segments" => frozen[h].of = h

(* Not so in the code: a reused set keeps the boilerplate of the run that froze it.            *)
BoilerplateIsCurrent ==
  \A i \in DOMAIN run.sets : run.sets[i].kind = "segments" =>
    run.sets[i].repeated = run.blocks \cap BlocksOf(run.results[i])

(* Not so in the code: copies of one document count as many, so that all of its text is found  *)
(* repeated and tagged as boilerplate.                                                        *)
CopyIsNotBoilerplate ==
  run.stage \in {"decompose", "done"} /\ Cardinality({run.results[i].hash : i \in DOMAIN run.results}) = 1
    => run.blocks = {}
=============================================================================
