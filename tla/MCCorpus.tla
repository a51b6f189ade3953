------------------------------- MODULE MCCorpus -------------------------------
(***************************************************************************)
(* The stages of the pipeline, the evaluation of what they built and the   *)
(* second vector store, one beside the other: `focus` says which of them a *)
(* behaviour is about, the others stay in one state.                       *)
(***************************************************************************)
EXTENDS Evaluation, Segmentation, HtmlParser, Corpus, Planning, Building, PgVector, TLC

P == INSTANCE Parsers

(* Evaluation: one question, which collection b1 answers and b2 does not; configurations c1    *)
(* and c2 with their own fingerprints.                                                         *)
MCQuestions == {"q1"}
MCSetOf == [q \in MCQuestions |-> "s1"]
MCIdsOf == [q \in MCQuestions |-> {"chunk1"}]
MCFoundIds == [d1 |-> {"chunk1", "path1"}]
MCAnswers == [b1 |-> {"q1"}, b2 |-> {}]
MCChunks == [b1 |-> [prose |-> 4, table |-> 0], b2 |-> [prose |-> 4, table |-> 1]]
MCPrintOf == [c \in {"c1", "c2"} |-> IF c = "c1" THEN "p1" ELSE "p2"]
MCVariants == 0 .. 1
MCVariantAnswers == [v \in MCVariants |-> IF v = 0 THEN {} ELSE {"q1"}]

-----------------------------------------------------------------------------
(* Segmentation: documents of two regions; a block is headings, short text, a figure of text   *)
(* that opens the document, or a long paragraph with a table row, an inline heading and text.  *)
H(name, title, level, label) == [Line(name) EXCEPT !.heading = TRUE, !.title = title, !.level = level, !.label = label]
Text(name) == Line(name)
Tiny(name) == [Line(name) EXCEPT !.len = 3]
MCBlocks(n) ==
  {<<H("h" \o n, <<"A">>, 1, 1)>>, <<H("g" \o n, <<"B">>, 2, 2), Text("t" \o n)>>,
   <<H("h" \o n, <<"A">>, 1, 1), Tiny("s" \o n)>>, <<Tiny("s" \o n)>>,
   <<[Text("f" \o n) EXCEPT !.front = TRUE, !.refers = [kind |-> "section", label |-> 2]]>>,
   <<[Text("r1" \o n) EXCEPT !.len = 90, !.table = TRUE], [H("h" \o n, <<"A">>, 1, 1) EXCEPT !.len = 30],
     [Text("t" \o n) EXCEPT !.len = 90, !.hits = 1], H("g" \o n, <<"B">>, 2, 2)>>}
MCRegions(n) ==
  LET first == MCBlocks(ToString(n) \o "a")
      second == MCBlocks(ToString(n) \o "b")
  IN {[Region(n, <<>>) EXCEPT !.status = s] : s \in {"failed", "empty"}}
     \cup {[Region(n, <<b>>) EXCEPT !.ocr = c, !.hint = h, !.hidden = IF c = -1 THEN {} ELSE {"white"}] :
             b \in first, c \in {-1, 50, 90}, h \in {"prose", "table", "code"}}
     \cup {Region(n, <<b, c>>) : b \in first, c \in second}
MCSecond == {Region(2, <<b>>) : b \in MCBlocks("2")}
              \cup {[Region(1, <<b>>) EXCEPT !.ocr = 70, !.hint = "list"] : b \in MCBlocks("2")}
MCDocuments == {<<a, b>> : a \in MCRegions(1), b \in MCSecond}
MCBlockSets == {{}, {<<"t1a">>, <<"s1a">>, <<"r11a">>, <<"h1a">>, <<"f1a">>}}

-----------------------------------------------------------------------------
(* HtmlParser: which elements the documents nest *)
MCTags == {"root", "div", "p", "h1", "h2", "ul", "li", "table", "tr", "td", "pre", "code", "a", "script"}
MCInside == [t \in MCTags |->
  CASE t = "root" -> {"div", "p", "h1", "h2", "table", "ul", "script"}
    [] t = "div" -> {"text", "p", "ul", "table", "pre"}
    [] t = "p" -> {"text", "br", "a"}
    [] t = "ul" -> {"li"}
    [] t = "li" -> {"text", "ul", "p", "table"}
    [] t = "table" -> {"tr"}
    [] t = "tr" -> {"td"}
    [] t = "td" -> {"text", "br", "ul", "table", "code"}
    [] t = "pre" -> {"text", "code"}
    [] OTHER -> {"text"}]

-----------------------------------------------------------------------------
(* Corpus: two PDF files that may hold versions of one text, a scan, nothing or a broken page, *)
(* a page and a workbook.                                                                      *)
MCPathOrder == <<"p1", "p2", "p3", "p4">>
MCSuffix == [p1 |-> "pdf", p2 |-> "pdf", p3 |-> "html", p4 |-> "xlsx"]
MCFits == [p1 |-> {"v1", "v2", "scan", "empty"}, p2 |-> {"v1", "scan", "torn"}, p3 |-> {"page"}, p4 |-> {"report", "model"}]
Pdf(pages) == [P!File_("pdf") EXCEPT !.pages = pages]
Html(lines) == [P!File_("html") EXCEPT !.regions = <<P!Region_("ok", lines)>>]
Xlsx(rows) == [P!File_("xlsx") EXCEPT !.sheets = <<[P!Sheet(rows) EXCEPT !.charts = <<"c">>]>>]
MCContent ==
  [v1 |-> Pdf(<<P!Page(<<<<"a", "b">>>>)>>),
   v2 |-> Pdf(<<P!Page(<<<<"b", "c">>, <<"a">>, <<"a">>>>), [P!Page(<<>>) EXCEPT !.fails = "warns"]>>),
   scan |-> Pdf(<<[P!Page(<<P!Blank>>) EXCEPT !.image = TRUE, !.ocr = <<<<"a">>>>]>>),
   torn |-> Pdf(<<[P!Page(<<<<"c">>>>) EXCEPT !.fails = "raises"], [P!Page(<<<<"d">>>>) EXCEPT !.image = TRUE, !.short = TRUE]>>),
   empty |-> Pdf(<<>>),
   page |-> Html(<<<<"c">>, <<"d">>, <<"b">>>>),
   report |-> Xlsx(<<[P!Row("c") EXCEPT !.styled = TRUE], P!Row("d"), P!Row("e"), P!NoRow, P!Row("b")>>),
   model |-> Xlsx(<<[P!Row("c") EXCEPT !.formulas = 1]>>)]
MCHashOrder == <<"empty", "model", "p1", "p2", "p3", "p4", "page", "report", "scan", "torn", "v1", "v2">>

-----------------------------------------------------------------------------
(* Planning: batches of up to three documents; SetC and SetD share an exclusion.              *)
Many(class, lengths) == [i \in DOMAIN lengths |-> [Segment(class) EXCEPT !.tokens = lengths[i]]]
Scans(confs) == [i \in DOMAIN confs |-> [Segment("scanned_region") EXCEPT !.conf = confs[i], !.lang = "de"]]
SetA == [SegmentSet("a") EXCEPT !.segments = Many("prose", <<700, 20, 90>>) \o Many("heading", <<3>>)]
SetB == [SegmentSet("b") EXCEPT !.segments = Many("prose", <<400, 500, 30>>) \o Many("table", <<10, 2000>>), !.kb = "k2"]
SetC == [SegmentSet("c") EXCEPT !.segments = Scans(<<40, 90, 70>>) \o Many("table", <<300, 3000, 40>>),
                               !.exclusions = <<[id |-> "c1", reason |-> "parse_failed"]>>]
SetD == [SegmentSet("c") EXCEPT !.segments = Scans(<<95, 20>>) \o Many("code", <<1, 1, 2, 3, 4>>), !.fidelity = "unavailable",
                               !.exclusions = <<[id |-> "c1", reason |-> "parse_failed"]>>]
MCBatches == {<<>>, <<SetA>>} \cup ([1 .. 2 -> {SetA, SetB, SetC, SetD}]) \cup [1 .. 3 -> {SetA, SetB, SetC}]
MCFiles == {<<>>, <<[class |-> "prose", text |-> "d"]>>, <<[class |-> "table", text |-> "secret"], [class |-> "code", text |-> "d"]>>,
            <<[class |-> "prose", text |-> "d"], [class |-> "prose", text |-> "e"]>>}

-----------------------------------------------------------------------------
(* Building: one segment with any short text, or two documents with a table at one path each.  *)
Prose_(text) == [class |-> "prose", text |-> text, tier |-> "body", path |-> "s1"]
Texts(chars, n) == UNION {[1 .. k -> chars] : k \in 0 .. n}
One(s) == <<[id |-> "d1", hash |-> "h1", segments |-> <<s>>]>>
Twice(a, b) == <<[id |-> "d1", hash |-> "h1", segments |-> a], [id |-> "d2", hash |-> "h2", segments |-> b]>>
TableSeg(path) == [class |-> "table", text |-> <<"w", " ", "w", " ", "w", "n", "w">>, tier |-> "body", path |-> path]
PlainRule == [strategy |-> "recursive_char", max |-> 2, overlap |-> 1, tier1 |-> <<>>, tier2 |-> {}, tier3 |-> FALSE]
MCRules ==
  [default |-> [PlainRule EXCEPT !.tier1 = <<"whitespace_repair", "header_inference">>],
   scan |-> [PlainRule EXCEPT !.max = 3, !.overlap = 2, !.tier1 = <<"ocr_cleanup", "whitespace_repair">>, !.tier3 = TRUE],
   table |-> [PlainRule EXCEPT !.strategy = "table_atomic", !.max = 1, !.overlap = 0,
                               !.tier1 = <<"table_to_markdown">>, !.tier2 = {"table_description"}],
   code |-> [PlainRule EXCEPT !.strategy = "code_syntax", !.overlap = 0]]
MCOrders ==
  {One(Prose_(t)) : t \in Texts({"w", " ", "n"}, 7)}
  \cup {One([Prose_(t) EXCEPT !.class = "scan"]) : t \in Texts({"w", " ", "-", "."}, 5)}
  \cup {One([Prose_(t) EXCEPT !.class = "code"]) : t \in Texts({"d", " ", "n"}, 5) \cup Texts({"d", "@", "n", "{", "}"}, 4)}
  \cup {Twice(<<[TableSeg("s1") EXCEPT !.text = <<"w">>]>>, <<TableSeg("s1")>>),
        Twice(<<TableSeg("s1"), [Prose_(<<"w">>) EXCEPT !.tier = "excluded", !.path = "s2"], [TableSeg("s3") EXCEPT !.text = <<>>]>>,
              <<TableSeg("s1"), [Prose_(<<"w", " ", "w", " ", "w">>) EXCEPT !.class = "scan", !.path = "s2"]>>)}

-----------------------------------------------------------------------------
VARIABLE focus
parts == <<evalVars, segVars, htmlVars, corpusVars, planVars, buildVars, pgVars>>

Only(part, set, other) == IF focus = part THEN set ELSE {other}

MCInit ==
  /\ focus \in {"evaluation", "segmentation", "html", "corpus", "planning", "building", "pgvector"}
  /\ EvalInit /\ live_ = "b1" /\ (focus = "evaluation" \/ production)
  /\ SegFrom(Only("segmentation", MCDocuments, <<>>))
  /\ focus = "segmentation" \/ (document.blocks = {} /\ document.role = "unique")
  /\ HtmlInit
  /\ CorpusFrom(Only("corpus", Fitting, [p \in Paths |-> Absent_])) /\ (focus = "corpus" \/ tesseract)
  /\ PlanFrom(Only("planning", MCBatches, <<>>))
  /\ focus = "planning" \/ (planned.acknowledged /\ planned.file = <<>>)
  /\ BuildFrom(Only("building", MCOrders, <<>>))
  /\ PgInit

MCNext ==
  /\ UNCHANGED focus
  /\ \/ focus = "evaluation" /\ EvalNext /\ UNCHANGED <<segVars, htmlVars, corpusVars, planVars, buildVars, pgVars>>
     \/ focus = "segmentation" /\ SegNext /\ UNCHANGED <<evalVars, htmlVars, corpusVars, planVars, buildVars, pgVars>>
     \/ focus = "html" /\ HtmlNext /\ UNCHANGED <<evalVars, segVars, corpusVars, planVars, buildVars, pgVars>>
     \/ focus = "corpus" /\ CorpusNext /\ UNCHANGED <<evalVars, segVars, htmlVars, planVars, buildVars, pgVars>>
     \/ focus = "planning" /\ PlanNext /\ UNCHANGED <<evalVars, segVars, htmlVars, corpusVars, buildVars, pgVars>>
     \/ focus = "building" /\ BuildNext /\ UNCHANGED <<evalVars, segVars, htmlVars, corpusVars, planVars, pgVars>>
     \/ focus = "pgvector" /\ PgNext /\ UNCHANGED <<evalVars, segVars, htmlVars, corpusVars, planVars, buildVars>>

MCSpec == MCInit /\ [][MCNext]_<<parts, focus>>
MCDirectories == MCInit /\ focus = "corpus" /\ [][MCNext]_<<parts, focus>>
=============================================================================
