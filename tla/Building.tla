------------------------------ MODULE Building ------------------------------
(***************************************************************************)
(* What the Build stage does with one document after another               *)
(* (pipeline/build): the text of a segment is normalised, cut into chunks, *)
(* rewritten and augmented, embedded in batches and written to the shadow  *)
(* collection; calls fail, the process dies, and a resumed build skips     *)
(* what its checkpoint names.  A text is a sequence of characters: "w" of  *)
(* a word, "." , a blank, a newline "n", "-" which OCR cleanup removes,    *)
(* "d" and "@" (a word that opens a definition, or a decorator, if a line  *)
(* starts with it) and the braces.                                         *)
(***************************************************************************)
EXTENDS Integers, Sequences, FiniteSets, SequencesExt, FiniteSetsExt

CONSTANTS
  Orders_,    \* segment set batches: sequences of documents [id, hash, segments]
  RuleOf,     \* RuleOf[class]: the rule of the class, or of every other one ("default")
  Upserts,    \* _UPSERT_BATCH_SIZE
  MaxStarts   \* bound on the builds of the batch

\* The limits of a rule are numbers of words (chunk_segment refuses others).
ASSUME RulesAssumption ==
  /\ "default" \in DOMAIN RuleOf
  /\ \A class \in DOMAIN RuleOf :
       /\ RuleOf[class].max \in Nat \ {0} /\ RuleOf[class].overlap \in Nat
       /\ LET ops == RuleOf[class].tier1 IN ops \in Seq({ops[k] : k \in DOMAIN ops})

\* A batch is a list of documents, a document a list of segments, a text a list of characters.
ASSUME SegmentsAssumption ==
  \A batch \in Orders_ :
    /\ batch \in Seq({batch[d] : d \in DOMAIN batch})
    /\ \A d \in DOMAIN batch :
         LET segments == batch[d].segments
         IN /\ segments \in Seq({segments[s] : s \in DOMAIN segments})
            /\ \A s \in DOMAIN segments :
                 LET text == segments[s].text IN text \in Seq({text[i] : i \in DOMAIN text})

VARIABLES
  batch_,   \* the documents, the same in every build of the run directory
  job_,     \* the build that runs: its place, its chunks to do, its buffer, its description cache
  disk_,    \* what the run directory keeps: the checkpoint and llm_cache.json;
            \* history: the contents purged since the build began
  shadow_   \* the points of the shadow collection

buildVars == <<batch_, job_, disk_, shadow_>>

-----------------------------------------------------------------------------
(* Words and lines of a text *)
Space(c) == c \in {" ", "n"}
Count(text) == Cardinality({i \in DOMAIN text : ~Space(text[i]) /\ (i = 1 \/ Space(text[i - 1]))})
Cut(text, from, to) == SubSeq(text, from + 1, to)   \* text[from:to]

\* The entries of a list at the places in kept.
Selected(list, kept) ==
  LET upto[i \in 0 .. Len(list)] ==
        IF i = 0 THEN <<>> ELSE IF i \in kept THEN Append(upto[i - 1], list[i]) ELSE upto[i - 1]
  IN upto[Len(list)]

Breaks(text) == Selected([i \in DOMAIN text |-> i], {i \in DOMAIN text : text[i] = "n"})
LineStarts(text) == <<0>> \o Breaks(text)
Lines(text) ==
  LET starts == LineStarts(text)
  IN [k \in DOMAIN starts |-> Cut(text, starts[k], IF k = Len(starts) THEN Len(text) ELSE starts[k + 1] - 1)]
Joined_(lines) == FlattenSeq([k \in DOMAIN lines |-> IF k = 1 THEN lines[k] ELSE <<"n">> \o lines[k]])

-----------------------------------------------------------------------------
(* Tier 1, apply_tier1: the operations of the rule, in its order *)
Stripped(line) ==
  LET words == {i \in DOMAIN line : line[i] # " "}
  IN SubSeq(line, 1, IF words = {} THEN 0 ELSE Max(words))
Repaired(line) ==
  Stripped(Selected(line, {i \in DOMAIN line : i = 1 \/ line[i] # " " \/ line[i - 1] # " "}))

WhitespaceRepair(text) ==
  LET lines == [k \in DOMAIN Lines(text) |-> Repaired(Lines(text)[k])]
      full == {k \in DOMAIN lines : lines[k] # <<>>}
      kept == {k \in DOMAIN lines :
                 /\ \E i, j \in full : i <= k /\ k <= j
                 /\ k \in full \/ \E i \in {k - 1, k - 2} : i \in full}
  IN Joined_(Selected(lines, kept))

\* Removes what OCR leaves, then reduces four or more of one punctuation mark to one.
OcrCleanup(text) ==
  LET clean == Selected(text, {i \in DOMAIN text : text[i] # "-"})
      From(i) == {j \in i .. Len(clean) : \A k \in i .. j : clean[k] = "."}
      InRun(i) == \E h \in 1 .. i : Cardinality(From(h)) >= 4 /\ i \in From(h)
  IN Selected(clean, {i \in DOMAIN clean : ~InRun(i) \/ i = 1 \/ clean[i - 1] # "."})

\* A first line that is shorter than the second and does not end as a sentence becomes a heading.
HeaderInference(text) ==
  LET lines == Lines(text)
      full == {k \in DOMAIN lines : Count(lines[k]) > 0}
      first == Min(full)
      second == Min(full \ {first})
      fits == /\ \A k \in DOMAIN lines : lines[k] = <<>> \/ Head(lines[k]) # "#"
              /\ Cardinality(full) >= 2
              /\ Last(Stripped(lines[first])) # "."
              /\ Len(lines[second]) > Len(lines[first])
  IN IF fits THEN Joined_([lines EXCEPT ![first] = <<"#", " ">> \o @]) ELSE text

Tier1(text, op) ==
  CASE op = "whitespace_repair" -> WhitespaceRepair(text)
    [] op = "ocr_cleanup" -> OcrCleanup(text)
    [] op = "header_inference" -> HeaderInference(text)
    [] OTHER -> text   \* "table_to_markdown", done by the parser, and what it does not know
Normalised(text, ops) ==
  LET after[k \in 0 .. Len(ops)] == IF k = 0 THEN text ELSE Tier1(after[k - 1], ops[k])
  IN after[Len(ops)]

-----------------------------------------------------------------------------
(* split_text: spans are <<from, to>>, to is not included *)
Separators == <<<<"n", "n">>, <<"n">>, <<".", " ">>, <<" ">>>>
Ends(window, sep) == {i \in Len(sep) .. Len(window) : SubSeq(window, i - Len(sep) + 1, i) = sep}

\* _find_split_point: behind the last of the strongest separator in the window, else its end.
SplitPoint(rest, size) ==
  LET window == SubSeq(rest, 1, size)
      found == {s \in DOMAIN Separators : Ends(window, Separators[s]) # {}}
  IN IF found = {} THEN size ELSE Max(Ends(window, Separators[Min(found)]))

ResumeAhead(text, from, to, overlap) == to + Min({overlap, Count(Cut(text, from, to))})

\* The cursor after a chunk: back by the overlap, but never behind where the chunk began.
Resume(text, from, to, overlap) ==
  LET words == Count(Cut(text, from, to))
      shared == IF words > 0 /\ overlap > 0 THEN Min({overlap, words - 1}) ELSE 0
      next == to - (IF words = 0 THEN 0 ELSE ((to - from) * shared) \div words)
  IN IF next <= from THEN from + 1 ELSE next

SplitText(text, max, overlap) ==
  LET n == Len(text)
      spans[c \in 0 .. n] ==
        LET rest == Cut(text, c, n)
            window == Min({c + (Len(rest) * max) \div Count(rest) + 1, n})
            to == c + SplitPoint(rest, window - c)
        IN IF c = n THEN <<>>
           ELSE IF Count(rest) <= max THEN <<<<c, n>>>>
           ELSE IF to >= n THEN <<<<c, to>>>>
           ELSE <<<<c, to>>>> \o spans[Resume(text, c, to, overlap)]
  IN IF n = 0 THEN <<>> ELSE spans[0]

-----------------------------------------------------------------------------
(* split_code: a unit begins at each boundary line, which depends on the language *)
Opens(line, c) == line # <<>> /\ line[1] = c
Excess(line) == Cardinality({i \in DOMAIN line : line[i] = "{"}) - Cardinality({i \in DOMAIN line : line[i] = "}"})
Depth(lines, k) == FoldLeft(LAMBDA d, line : Max({0, d + Excess(line)}), 0, SubSeq(lines, 1, k))
Words_(line) == SelectSeq(line, LAMBDA c : ~Space(c))

Boundaries(lines, language) ==
  LET defs == {k \in DOMAIN lines : Opens(lines[k], "d")}
      \* a Python definition begins with its decorators
      Decorated(k) == Min({j \in 1 .. k : \A i \in j .. k - 1 : Opens(lines[i], "@")})
  IN CASE language = "python" -> {Decorated(k) : k \in defs}
       [] language \in {"javascript", "go"} -> defs
       [] language = "java" -> {k \in DOMAIN lines : Depth(lines, k - 1) = 0 /\ Excess(lines[k]) > 0
                                                       /\ Opens(Words_(lines[k]), "d")}
       [] OTHER -> {}

\* Every unit is cut on its own, without overlap; before the first boundary there may be one more.
SplitCode(text, max, language) ==
  LET n == Len(text)
      lines == Lines(text)
      starts == {LineStarts(text)[k] : k \in Boundaries(lines, language)}
      spans[c \in 0 .. n - 1] ==
        LET end == Min({s \in c + 1 .. n : s \in starts \/ s = n})
            inner == SplitText(Cut(text, c, end), max, 0)
            unit == [i \in DOMAIN inner |-> <<c + inner[i][1], c + inner[i][2]>>]
        IN IF end = n THEN unit ELSE unit \o spans[end]
  IN IF n = 0 THEN <<<<0, 0>>>> ELSE spans[0]

\* chunk_segment_dispatch: a blank text is one chunk; only code_syntax has a splitter of its own.
Spans(text, rule, language) ==
  IF rule.strategy = "code_syntax" THEN SplitCode(text, rule.max, language)
  ELSE IF Count(text) = 0 THEN <<<<0, Len(text)>>>>
  ELSE SplitText(text, rule.max, rule.overlap)

-----------------------------------------------------------------------------
(* One segment: what is cut from it, with the language nobody passes on *)
RuleFor(segment) == RuleOf[IF segment.class \in DOMAIN RuleOf THEN segment.class ELSE "default"]
Kept(segment) == segment.tier # "excluded" /\ segment.text # <<>>
Canonical(segment) ==
  LET rule == RuleFor(segment)
  IN IF rule.tier1 = <<>> THEN segment.text ELSE Normalised(segment.text, rule.tier1)
Cut_(segment) == Spans(Canonical(segment), RuleFor(segment), "unknown")

-----------------------------------------------------------------------------
(* The build.  A description names the table it was asked for and who answered. *)
NoAnswer == [of |-> <<>>, by |-> "none"]
Idle == [stage |-> "idle", doc |-> 1, segment |-> 0, text |-> <<>>, spans |-> <<>>, next |-> 1,
         buffer |-> <<>>, completed |-> {}, memory |-> [k \in {} |-> NoAnswer]]

BuildFrom(orders) ==
  /\ batch_ \in orders /\ job_ = Idle /\ shadow_ = {}
  /\ disk_ = [completed |-> {}, cache |-> [k \in {} |-> NoAnswer], starts |-> 0, purged |-> {}]

BuildInit == BuildFrom(Orders_)

\* The build runs, or runs again in its run directory and into the shadow collection it has.
Begin ==
  /\ job_.stage \in {"idle", "failed"} /\ disk_.starts < MaxStarts
  /\ job_' = [Idle EXCEPT !.stage = "document", !.completed = disk_.completed, !.memory = disk_.cache]
  /\ disk_' = [disk_ EXCEPT !.starts = @ + 1, !.purged = {}]
  /\ UNCHANGED <<batch_, shadow_>>

SkipCompleted ==
  /\ job_.stage = "document" /\ job_.doc \in DOMAIN batch_ /\ batch_[job_.doc].id \in job_.completed
  /\ job_' = [job_ EXCEPT !.doc = @ + 1]
  /\ UNCHANGED <<batch_, disk_, shadow_>>

OpenDocument ==
  /\ job_.stage = "document" /\ job_.doc \in DOMAIN batch_ /\ batch_[job_.doc].id \notin job_.completed
  /\ job_' = [job_ EXCEPT !.stage = "segment", !.segment = 1]
  /\ UNCHANGED <<batch_, disk_, shadow_>>

Document == batch_[job_.doc]
Segment_ == Document.segments[job_.segment]

SkipSegment ==
  /\ job_.stage = "segment" /\ job_.segment \in DOMAIN Document.segments /\ ~Kept(Segment_)
  /\ job_' = [job_ EXCEPT !.segment = @ + 1]
  /\ UNCHANGED <<batch_, disk_, shadow_>>

CutSegment ==
  /\ job_.stage = "segment" /\ job_.segment \in DOMAIN Document.segments /\ Kept(Segment_)
  /\ job_' = [job_ EXCEPT !.stage = "chunks", !.text = Canonical(Segment_), !.spans = Cut_(Segment_), !.next = 1]
  /\ UNCHANGED <<batch_, disk_, shadow_>>

\* upsert_points replaces a point that has the id
Upserted_(points, new) == {p \in points : \A i \in DOMAIN new : new[i].id # p.id} \cup ToSet(new)

\* _cache_key; the model is that of the configuration
CacheKey(document, segment) == <<document.hash, segment.path>>

\* Who a description comes from once its retries are over: the model or, when it was down or
\* answered none of them by the schema, the template.
Answerers == {"model", "template"}

\* describe_table: from the cache, else asked for.
Described(memory, by) ==
  LET key == CacheKey(Document, Segment_)
      answer == [of |-> <<Document.hash, Segment_.path>>, by |-> by]
  IN IF key \in DOMAIN memory THEN memory
     ELSE [k \in DOMAIN memory \cup {key} |-> IF k = key THEN answer ELSE memory[k]]

\* Tier 3: a rewrite raises when its model does, or when it changed nothing and a diff is required.
RewriteRaises(rule, rewrites) == rule.tier3 /\ ~rewrites

\* Tier 2 leaves the text as it is and puts what it knows of the segment before it.
Augments(rule) == "table_description" \in rule.tier2
AugmentChunk(rule, memory) == IF Augments(rule) THEN memory[CacheKey(Document, Segment_)] ELSE NoAnswer

\* A chunk is rewritten, described, and appended; a full buffer is embedded and written.
EmitChunk(rewrites, by, embeds) ==
  LET rule == RuleFor(Segment_)
      memory == IF Augments(rule) THEN Described(job_.memory, by) ELSE job_.memory
      point == [id |-> <<Document.id, Document.hash, Segment_.path, job_.next>>, span |-> job_.spans[job_.next],
                rewritten |-> rule.tier3, description |-> AugmentChunk(rule, memory)]
      buffer == Append(job_.buffer, point)
      full == Len(buffer) >= Upserts
      raised == [Idle EXCEPT !.stage = "failed"]
  IN /\ job_.stage = "chunks" /\ job_.next \in DOMAIN job_.spans
     /\ IF RewriteRaises(rule, rewrites)
        THEN job_' = raised /\ UNCHANGED <<disk_, shadow_>>
        ELSE /\ disk_' = [disk_ EXCEPT !.cache = IF memory = job_.memory THEN @ ELSE memory]
             /\ IF full /\ ~embeds THEN job_' = raised /\ UNCHANGED shadow_
                ELSE /\ job_' = [job_ EXCEPT !.memory = memory, !.next = @ + 1,
                                             !.buffer = IF full THEN <<>> ELSE buffer]
                     /\ shadow_' = IF full THEN Upserted_(shadow_, buffer) ELSE shadow_
     /\ UNCHANGED batch_

EndSegment ==
  /\ job_.stage = "chunks" /\ job_.next \notin DOMAIN job_.spans
  /\ job_' = [job_ EXCEPT !.stage = "segment", !.segment = @ + 1]
  /\ UNCHANGED <<batch_, disk_, shadow_>>

\* Mutant: the checkpoint is saved before the rest of the buffer is written.
EndDocumentSaved(embeds) ==
  /\ job_.stage = "segment" /\ job_.segment \notin DOMAIN Document.segments
  /\ disk_' = [disk_ EXCEPT !.completed = job_.completed \cup {Document.id}]
  /\ IF job_.buffer # <<>> /\ ~embeds THEN job_' = [Idle EXCEPT !.stage = "failed"] /\ UNCHANGED shadow_
     ELSE /\ shadow_' = Upserted_(shadow_, job_.buffer)
          /\ job_' = [job_ EXCEPT !.stage = "save", !.buffer = <<>>]
  /\ UNCHANGED batch_

\* The rest of the buffer is embedded and written.
EndDocument(embeds) ==
  /\ job_.stage = "segment" /\ job_.segment \notin DOMAIN Document.segments
  /\ IF job_.buffer # <<>> /\ ~embeds THEN job_' = [Idle EXCEPT !.stage = "failed"] /\ UNCHANGED shadow_
     ELSE /\ shadow_' = Upserted_(shadow_, job_.buffer)
          /\ job_' = [job_ EXCEPT !.stage = "save", !.buffer = <<>>]
  /\ UNCHANGED <<batch_, disk_>>

\* _save_checkpoint; a death in the write leaves a file that reads as no checkpoint.
SaveCheckpoint(torn) ==
  LET completed == job_.completed \cup {Document.id}
  IN /\ job_.stage = "save"
     /\ disk_' = [disk_ EXCEPT !.completed = IF torn THEN {} ELSE completed]
     /\ job_' = IF torn THEN Idle
                ELSE [job_ EXCEPT !.stage = "document", !.doc = @ + 1, !.completed = completed]
     /\ UNCHANGED <<batch_, shadow_>>

FinishBuild ==
  /\ job_.stage = "document" /\ job_.doc \notin DOMAIN batch_
  /\ job_' = [job_ EXCEPT !.stage = "done"]
  /\ UNCHANGED <<batch_, disk_, shadow_>>

\* What is left of the cache when a document is purged: whatever is not of its content or, if the
\* inventory does not name that or cannot be read, nothing.
Surviving(cache, document, known) == [k \in {key \in DOMAIN cache : known /\ key[1] # document.hash} |-> cache[k]]

\* _purge_llm_cache rewrites the file, beside a build that has it in memory.
PurgeCache(document, known) ==
  /\ disk_.cache # [k \in {} |-> NoAnswer]
  /\ disk_' = [disk_ EXCEPT !.cache = Surviving(@, document, known), !.purged = @ \cup {document.hash}]
  /\ UNCHANGED <<batch_, job_, shadow_>>

Die == job_.stage \notin {"idle", "failed", "done"} /\ job_' = Idle /\ UNCHANGED <<batch_, disk_, shadow_>>

BuildNext ==
  \/ Begin \/ SkipCompleted \/ OpenDocument \/ SkipSegment \/ CutSegment \/ EndSegment \/ FinishBuild \/ Die
  \/ \E rewrites, embeds \in BOOLEAN, by \in Answerers : EmitChunk(rewrites, by, embeds)
  \/ \E embeds \in BOOLEAN : EndDocument(embeds)
  \/ \E torn \in BOOLEAN : SaveCheckpoint(torn)
  \/ \E d \in DOMAIN batch_, known \in BOOLEAN : PurgeCache(batch_[d], known)

BuildSpec == BuildInit /\ [][BuildNext]_buildVars

-----------------------------------------------------------------------------
Covers(spans, text) ==
  /\ spans[1][1] = 0 /\ Last(spans)[2] = Len(text)
  /\ \A i \in DOMAIN spans : spans[i][1] < spans[i][2] \/ text = <<>>
  /\ \A i \in 1 .. Len(spans) - 1 : spans[i][1] < spans[i + 1][1] /\ spans[i + 1][1] <= spans[i][2]

(* Full coverage (docs/pipeline/build.md): every character of a segment is in a chunk, and the *)
(* cursor always advances, through separators inside the overlap, words longer than the window *)
(* and chunks of one word; and as _assert_tiles has it, the chunks of code tile it in every    *)
(* language.                                                                                   *)
SegmentIsCovered ==
  job_.stage = "chunks" /\ job_.next = 1 =>
    /\ Covers(job_.spans, job_.text)
    /\ RuleFor(Segment_).strategy = "code_syntax" =>
         \A language \in {"python", "go", "java"} :
           LET spans == SplitCode(job_.text, RuleFor(Segment_).max, language)
           IN Covers(spans, job_.text) /\ \A i \in 1 .. Len(spans) - 1 : spans[i][2] = spans[i + 1][1]

(* A build that ends has written every chunk of every document, whatever failed or died before *)
(* and whatever its checkpoint skipped, and every description is that of the table it is with.  *)
BuiltIsWhole ==
  job_.stage = "done" =>
    \A d \in DOMAIN batch_ : \A s \in DOMAIN batch_[d].segments :
      LET document == batch_[d]
          segment == document.segments[s]
          own == {p \in shadow_ : p.id[1] = document.id /\ p.id[3] = segment.path}
      IN /\ Kept(segment) => {p.span : p \in own} = ToSet(Cut_(segment))
         /\ \A p \in own : p.description.of \in {<<>>, <<document.hash, segment.path>>}

(* Not so in the code.  No chunk lies within the one before it: behind a separator that is the *)
(* only one in reach, the overlap is cut at the same separator again and again.                *)
EachChunkIsNew ==
  \A i \in 1 .. Len(job_.spans) - 1 : job_.spans[i][2] < job_.spans[i + 1][2]

(* A chunk carries text: a segment of nothing but blanks becomes an empty chunk.               *)
ChunksSaySomething == job_.stage = "chunks" => job_.text # <<>>

(* Code is cut at its definitions (M-099): the stage passes no language on.                    *)
CodeAtBoundaries ==
  job_.stage = "chunks" /\ RuleFor(Segment_).strategy = "code_syntax" =>
    \A k \in DOMAIN Lines(job_.text) :
      Opens(Lines(job_.text)[k], "d") => \E i \in DOMAIN job_.spans : job_.spans[i][1] = LineStarts(job_.text)[k]

(* The run directory keeps what the model said: the template a failed call fell back to is     *)
(* kept like it, and a build that resumes does not ask again.                                  *)
CacheIsOfTheModel == \A k \in DOMAIN disk_.cache : disk_.cache[k].by = "model"

(* What is purged stays purged: the build that runs writes all it had in memory back with its  *)
(* next description.                                                                           *)
PurgedStaysOut == \A k \in DOMAIN disk_.cache : k[1] \notin disk_.purged
=============================================================================
