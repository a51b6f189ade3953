----------------------------- MODULE Segmentation -----------------------------
(***************************************************************************)
(* Decomposition of one parsed document (pipeline/decompose/passes): the   *)
(* segmentation pass, one step per region, then the passes that set tiers, *)
(* types and flags in the order of PASSES, then the resolution of cross-   *)
(* references.  A text is a sequence of lines; a line is what the          *)
(* heuristics (_is_heading, _is_table_like_line, the patterns) see of it.  *)
(***************************************************************************)
EXTENDS Integers, Sequences, FiniteSets, SequencesExt

CONSTANTS
  Documents_,  \* documents that may be parsed: sequences of regions
  BlockSets,   \* sets of boilerplate blocks the corpus passes may have found
  Roles_       \* dedup roles with which a document may reach the passes

(* A document is a list of regions, each a list of blocks; a block is a list of lines, and     *)
(* cutting at blank lines leaves none empty                                                    *)
ASSUME DocumentsAssumption ==
  \A d \in Documents_ :
    /\ d \in Seq({d[r] : r \in DOMAIN d})
    /\ \A r \in DOMAIN d :
         LET blocks == d[r].blocks
         IN /\ blocks \in Seq({blocks[b] : b \in DOMAIN blocks})
            /\ \A b \in DOMAIN blocks :
                 blocks[b] # <<>> /\ blocks[b] \in Seq({blocks[b][i] : i \in DOMAIN blocks[b]})

(* refers: the first cross-reference in the line; label: its number, 0: none.               *)
NoRef == [kind |-> "none", label |-> 0]

(* A heading's title is a sequence of parts, "A/B" being <<"A", "B">>: joining titles with   *)
(* "/" loses where one ends.  label is its leading number, level how deep that number nests. *)
Line(name) ==
  [name |-> name, heading |-> FALSE, title |-> <<>>, level |-> 1, label |-> 0, len |-> 40,
   table |-> FALSE, front |-> FALSE, history |-> FALSE, refers |-> NoRef, hits |-> 0]

(* ocr -1: native text; blocks: the text, cut at its blank lines; hidden: the invisible      *)
(* content found on the page                                                                 *)
Region(page, blocks) ==
  [page |-> page, status |-> "ok", ocr |-> -1, hint |-> "prose", hidden |-> {}, blocks |-> blocks]

VARIABLES
  document,  \* the regions of the document, the set of blocks and the role in its context
  pass,      \* the pass that runs next
  regionNo,  \* the region the segmentation pass looks at next
  out        \* what the passes have produced so far

segVars == <<document, pass, regionNo, out>>

MinSegment == 5
NoBlankLineThreshold == 200
SubDecomposeFloor == 85
ExcludeFloor == 60
WarnLevel == 80

TierOf(type) ==
  CASE type \in {"prose", "table", "list", "code"} -> "primary"
    [] type = "boilerplate" -> "boilerplate"
    [] OTHER -> "supporting"

Winner(kind, tier) == [kind |-> kind, tier |-> tier, won |-> TRUE]

LengthOf(lines) == FoldLeft(LAMBDA n, l : n + l.len + 1, -1, lines)

(* _split_block_on_headings: at a line that looks like a heading, unless a table row precedes *)
SplitOnHeadings(block) ==
  LET walk[i \in 1 .. Len(block)] ==
        IF i = 1 THEN [closed |-> <<>>, current |-> <<block[1]>>]
        ELSE IF block[i].heading /\ ~block[i - 1].table
             THEN [closed |-> Append(walk[i - 1].closed, walk[i - 1].current), current |-> <<block[i]>>]
             ELSE [closed |-> walk[i - 1].closed, current |-> Append(walk[i - 1].current, block[i])]
  IN Append(walk[Len(block)].closed, walk[Len(block)].current)

Paragraphs(region) ==
  FlattenSeq([b \in DOMAIN region.blocks |->
                IF LengthOf(region.blocks[b]) >= NoBlankLineThreshold
                THEN SplitOnHeadings(region.blocks[b]) ELSE <<region.blocks[b]>>])

UpdatedPath(path, line) ==
  Append(SubSeq(path, 1, IF line.level - 1 < Len(path) THEN line.level - 1 ELSE Len(path)),
         [title |-> line.title, label |-> line.label])

Joined(path) == FlattenSeq([i \in DOMAIN path |-> path[i].title])

OrdinalAt(o, path) == IF path \in DOMAIN o.ordinals THEN o.ordinals[path] ELSE 0

Counted(o) ==
  [p \in DOMAIN o.ordinals \cup {o.path} |->
     IF p = o.path THEN OrdinalAt(o, p) + 1 ELSE o.ordinals[p]]

ProseType(region, first, k, lines) ==
  CASE first /\ region.page = 1 /\ k <= 3 /\ (\E i \in DOMAIN lines : lines[i].front) -> "front_matter"
    [] LengthOf(lines) < 2 * MinSegment -> "unknown"
    [] OTHER -> "prose"

(* One more segment under the current path: its segment_path is the joined path and the      *)
(* number of segments that had this path before                                              *)
Emitted(o, region, type, crumb, lines) ==
  [o EXCEPT
     !.segments = Append(@, [type |-> type, tier |-> TierOf(type), crumb |-> crumb, lines |-> lines,
       at |-> <<Joined(o.path), OrdinalAt(o, o.path)>>, page |-> region.page, ocr |-> region.ocr,
       hint |-> region.hint, signals |-> <<Winner("segment_type_prior", TierOf(type))>>,
       basis |-> "segment_type_prior", suspicion |-> 0, flags |-> {}]),
     !.ordinals = Counted(o)]

(* Mutant: what follows a heading and is too short to be a segment is dropped *)
ExcludedSilently(o, reason, lines) ==
  IF reason = "too_short" THEN o
  ELSE [o EXCEPT !.exclusions = Append(@, [reason |-> reason, lines |-> lines])]

Excluded_(o, reason, lines) ==
  [o EXCEPT !.exclusions = Append(@, [reason |-> reason, lines |-> lines])]

(* A reference is recorded for a body of text, not for a heading or a scanned page           *)
WithReference(o, lines) ==
  LET found == SelectSeq(lines, LAMBDA l : l.refers # NoRef)
  IN IF found = <<>> THEN o
     ELSE [o EXCEPT !.references =
             Append(@, [from |-> Len(o.segments), to |-> 0, surface |-> Head(found).refers])]

HeadingSegment(o, region, line) ==
  LET moved == [o EXCEPT !.path = UpdatedPath(@, line)]
  IN Emitted(moved, region, IF line.history THEN "revision_history" ELSE "heading",
             SubSeq(moved.path, 1, Len(moved.path) - 1), <<line>>)

Body(o, region, first, k, lines) ==
  IF LengthOf(lines) < MinSegment THEN Excluded_(o, "too_short", lines)
  ELSE WithReference(
         Emitted(o, region, IF region.hint = "table" THEN "table" ELSE ProseType(region, first, k, lines),
                 o.path, lines), lines)

Paragraph(o, region, first, k, lines) ==
  IF region.hint # "table" /\ lines[1].heading
  THEN LET headed == HeadingSegment(o, region, lines[1])
       IN IF Len(lines) = 1 THEN headed ELSE Body(headed, region, first, k, Tail(lines))
  ELSE Body(o, region, first, k, lines)

(* The paragraphs of a region, one after the other *)
AfterParagraphs(o, region, first, paragraphs) ==
  LET after[k \in 0 .. Len(paragraphs)] ==
        IF k = 0 THEN o ELSE Paragraph(after[k - 1], region, first, k, paragraphs[k])
  IN after[Len(paragraphs)]

SegFrom(documents) ==
  /\ \E d \in documents, b \in BlockSets, r \in Roles_ :
        document = [regions |-> d, blocks |-> b, role |-> r]
  /\ pass = "segmentation" /\ regionNo = 1
  /\ out = [segments |-> <<>>, exclusions |-> <<>>, references |-> <<>>, path |-> <<>>,
            ordinals |-> [p \in {} |-> 0], firstPage |-> -1]

SegInit == SegFrom(Documents_)

SegmentRegion ==
  /\ pass = "segmentation" /\ regionNo \in DOMAIN document.regions
  /\ LET region == document.regions[regionNo]
         first == out.firstPage \in {-1, region.page}
         opened == [out EXCEPT !.firstPage = IF @ = -1 THEN region.page ELSE @]
     IN out' =
          IF region.status = "failed" THEN Excluded_(out, "parse_failed", FlattenSeq(region.blocks))
          ELSE IF region.status = "empty" \/ region.blocks = <<>>
               THEN Excluded_(out, "empty_region", FlattenSeq(region.blocks))
          ELSE IF region.ocr \in 0 .. SubDecomposeFloor - 1
               THEN Emitted(opened, region, "scanned_region", out.path, FlattenSeq(region.blocks))
          ELSE AfterParagraphs(opened, region, first, Paragraphs(region))
  /\ regionNo' = regionNo + 1
  /\ pass' = IF regionNo = Len(document.regions) THEN "salience" ELSE pass
  /\ UNCHANGED document

(* One pass of PASSES: it hands over as many segments as it was given *)
RunPass(name, next, segments) ==
  /\ pass = name /\ pass' = next /\ out' = [out EXCEPT !.segments = segments]
  /\ UNCHANGED <<document, regionNo>>

(* The signals so far are kept as evidence, the new one wins *)
Overridden(seg, kind, tier) ==
  [seg EXCEPT !.tier = tier, !.basis = kind,
              !.signals = Append([i \in DOMAIN @ |-> [@[i] EXCEPT !.won = FALSE]], Winner(kind, tier))]

OcrTiered(seg) ==
  CASE seg.ocr \in 0 .. ExcludeFloor - 1 -> Overridden(seg, "ocr_confidence_floor", "excluded")
    [] seg.ocr \in ExcludeFloor .. WarnLevel - 1 -> Overridden(seg, "ocr_confidence_warn", "supporting")
    [] OTHER -> seg

SaliencePass == RunPass("salience", "boilerplate", [i \in DOMAIN out.segments |-> OcrTiered(out.segments[i])])

NamesOf(lines) == [i \in DOMAIN lines |-> lines[i].name]

(* The text is a block of the set, or it has three lines or more and 70 % of them are *)
IsBoilerplate(lines) ==
  \/ NamesOf(lines) \in document.blocks
  \/ LET known == {i \in DOMAIN lines : <<lines[i].name>> \in document.blocks}
     IN Len(lines) >= 3 /\ 10 * Cardinality(known) >= 7 * Len(lines)

Retyped(seg) ==
  IF IsBoilerplate(seg.lines)
  THEN [Overridden(seg, "boilerplate_detection", "boilerplate") EXCEPT !.type = "boilerplate"]
  ELSE seg

BoilerplatePass == RunPass("boilerplate", "taxonomy", [i \in DOMAIN out.segments |-> Retyped(out.segments[i])])

HintType(hint) ==
  CASE hint = "code" -> "code" [] hint = "list" -> "list" [] hint = "figure" -> "figure_region"
    [] hint = "form_field" -> "form_field" [] OTHER -> "none"

Immutable == {"boilerplate", "heading", "scanned_region", "table", "front_matter", "revision_history"}

Promoted(seg) ==
  LET type == HintType(seg.hint)
  IN CASE seg.type \in Immutable \/ type \in {"none", seg.type} -> seg
       [] seg.basis \in {"ocr_confidence_floor", "ocr_confidence_warn"} -> [seg EXCEPT !.type = type]
       [] OTHER -> [Overridden(seg, "segment_type_prior", TierOf(type)) EXCEPT !.type = type]

TaxonomyPass == RunPass("taxonomy", "injection", [i \in DOMAIN out.segments |-> Promoted(out.segments[i])])

(* Suspicion grows with the patterns that hit; the flags are those of the pages it overlaps *)
Scored_(seg) ==
  [seg EXCEPT
     !.suspicion = FoldLeft(LAMBDA n, l : n + l.hits, 0, seg.lines),
     !.flags = UNION {document.regions[r].hidden : r \in
                        {r \in DOMAIN document.regions : document.regions[r].page = seg.page}}]

InjectionPass == RunPass("injection", "superseded", [i \in DOMAIN out.segments |-> Scored_(out.segments[i])])

Suppressed(seg) ==
  IF document.role = "superseded" THEN Overridden(seg, "superseded_version", "excluded") ELSE seg

SupersededVersionPass == RunPass("superseded", "resolve", [i \in DOMAIN out.segments |-> Suppressed(out.segments[i])])

(* _find_by_structural_label: the segment begins with the label, or lies under it *)
ByLabel(n) ==
  {i \in DOMAIN out.segments :
     \/ out.segments[i].lines[1].label = n
     \/ \E c \in DOMAIN out.segments[i].crumb : out.segments[i].crumb[c].label = n}

Nth(types, n) ==
  {i \in DOMAIN out.segments :
     /\ out.segments[i].type \in types
     /\ n = Cardinality({j \in 1 .. i : out.segments[j].type \in types})}

Candidates_(surface) ==
  CASE surface.kind = "section" -> ByLabel(surface.label)
    [] surface.kind = "table" -> Nth({"table"}, surface.label)
    [] OTHER -> Nth({"figure_region", "figure_caption"}, surface.label)

ResolveReferences ==
  /\ pass = "resolve" /\ pass' = "done"
  /\ LET target(ref) == LET found == Candidates_(ref.surface)
                        IN IF Cardinality(found) = 1 THEN CHOOSE i \in found : TRUE ELSE 0
     IN out' = [out EXCEPT !.references = 
             [k \in DOMAIN @ |-> [@[k] EXCEPT !.to = target(out.references[k])]]]
  /\ UNCHANGED <<document, regionNo>>

SegNext == SegmentRegion \/ SaliencePass \/ BoilerplatePass \/ TaxonomyPass \/ InjectionPass
           \/ SupersededVersionPass \/ ResolveReferences

SegSpec == SegInit /\ [][SegNext]_segVars

-----------------------------------------------------------------------------
SeenLines == FlattenSeq([r \in 1 .. regionNo - 1 |-> FlattenSeq(document.regions[r].blocks)])

LinesOf(items) == FlattenSeq([i \in DOMAIN items |-> items[i].lines])

(* s is a and b merged: each entry is the next one of a or the next one of b; taken[i] holds *)
(* how many of the first i entries may be those of a                                         *)
Merges(s, a, b) ==
  LET taken[i \in 0 .. Len(s)] ==
        IF i = 0 THEN {0}
        ELSE LET before == taken[i - 1]
             IN {j \in 0 .. i : \/ j \in DOMAIN a /\ j - 1 \in before /\ s[i] = a[j]
                                \/ i - j \in DOMAIN b /\ j \in before /\ s[i] = b[i - j]}
  IN Len(s) = Len(a) + Len(b) /\ Len(a) \in taken[Len(s)]

(* No silent content loss (section 12 of the specification, the comment on every exclusion   *)
(* of the segmentation pass): every line of the regions is in one segment or in one recorded *)
(* exclusion, none is in both or twice in one, and both keep the order of the document, also *)
(* where lines repeat.  The passes after the segmentation change no text.                    *)
NothingLost == Merges(SeenLines, LinesOf(out.segments), LinesOf(out.exclusions))

(* Not so in the code when a title holds "/": a chunk's identity is hashed from the document, *)
(* the configuration, its segment_path and its index in the segment, so two segments with one *)
(* path overwrite each other's points (review-determinism.md:87 says "by construction" never).*)
PathsUnique ==
  \A i, j \in DOMAIN out.segments : out.segments[i].at = out.segments[j].at => i = j

(* Not so in the code: segment-taxonomy.md ranks an OCR confidence below the floor above     *)
(* boilerplate detection, but BoilerplatePass runs after SaliencePass and asks nobody.       *)
OcrFloorWins ==
  pass = "done" => \A i \in DOMAIN out.segments :
                     out.segments[i].ocr \in 0 .. ExcludeFloor - 1 => out.segments[i].tier = "excluded"

(* Not so in the code: the text under a heading carries the heading in its structural_path,  *)
(* so the label of any section that is not empty has several candidates and no reference to  *)
(* it is resolved.                                                                           *)
SectionIsFound ==
  pass = "done" => \A k \in DOMAIN out.references :
    LET ref == out.references[k]
        heads == {i \in DOMAIN out.segments :
                    out.segments[i].type = "heading" /\ out.segments[i].lines[1].label = ref.surface.label}
    IN ref.surface.kind = "section" /\ Cardinality(heads) = 1 => ref.to \in heads
=============================================================================
