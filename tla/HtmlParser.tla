------------------------------ MODULE HtmlParser ------------------------------
(***************************************************************************)
(* The HTML parser (pipeline/assess/parsers/html.py): a state machine over *)
(* the events of the standard library's tokenizer, which it feeds with a   *)
(* well-formed document.  A text is a number; a path is the sequence of    *)
(* (tag, ordinal) from the root.                                           *)
(***************************************************************************)
EXTENDS Integers, Sequences, FiniteSets, SequencesExt

CONSTANTS
  Inside,     \* Inside[tag]: tags the documents put into an element, "root" the whole
  MaxEvents   \* bound on the events of a document

VARIABLES
  page,  \* the document so far: open elements, texts, events, ended
  html   \* the fields of _HTMLStructureParser

htmlVars == <<page, html>>

HeadingTags == {"h1", "h2"}
CodeTags == {"pre", "code"}
ListTags == {"ul"}
ProseTags == {"p", "div"}
CellTags == {"td"}
SkipTags == {"script"}
VoidTags == {"br"}
TagLevel(tag) == IF tag = "h1" THEN 1 ELSE 2

Nowhere == <<>>
NoTable == <<>>

HtmlInit ==
  /\ page = [open |-> <<>>, texts |-> 0, owed |-> {}, events |-> 0, ended |-> FALSE]
  /\ html = [regions |-> <<>>, links |-> <<>>, crumb |-> <<>>, stack |-> <<>>,
             ordinals |-> [k \in {} |-> 0],
             text |-> <<>>, kind |-> "none", at |-> Nowhere, under |-> <<>>,
             list |-> FALSE, items |-> <<>>, listAt |-> Nowhere, item |-> <<>>,
             tables |-> NoTable, code |-> FALSE, codeAt |-> Nowhere, codeText |-> <<>>,
             anchor |-> FALSE, anchorText |-> <<>>, skip |-> 0]

-----------------------------------------------------------------------------
Top(h) == IF h.stack = <<>> THEN "none" ELSE Last(h.stack).tag
InTable(h) == h.tables # NoTable
Table(h) == Last(h.tables)
WithTable(h, t) == [h EXCEPT !.tables = Append(Front(@), t)]

ParentPath(h) == IF h.stack = <<>> THEN Nowhere ELSE Last(h.stack).path
Ordinal(h, tag) ==
  LET key == <<ParentPath(h), tag>> IN (IF key \in DOMAIN h.ordinals THEN h.ordinals[key] ELSE 0) + 1

(* Mutant: the counters of an element are dropped when another one is counted in *)
TickedAlone(h, tag) == [k \in {<<ParentPath(h), tag>>} |-> Ordinal(h, tag)]

(* _dom_path: the ordinal of a tag is counted under the path of its parent *)
Ticked_(h, tag) ==
  LET key == <<ParentPath(h), tag>>
  IN [k \in DOMAIN h.ordinals \cup {key} |-> IF k = key THEN Ordinal(h, tag) ELSE h.ordinals[k]]

Emitted_(h, at, kind, texts, under) ==
  [h EXCEPT !.regions = Append(@, [at |-> at, kind |-> kind, texts |-> texts, under |-> under])]

(* _flush_text: text that no element claims is dropped *)
Flushed(h) ==
  LET cleared == [h EXCEPT !.text = <<>>, !.kind = "none"]
  IN IF h.text = <<>> \/ h.kind = "none" THEN cleared
     ELSE Emitted_(cleared, h.at, h.kind, h.text, h.under)

Pushed(h, tag) ==
  [h EXCEPT !.stack = Append(@, [tag |-> tag, path |-> Append(ParentPath(h), <<tag, Ordinal(h, tag)>>)]),
            !.ordinals = Ticked_(h, tag)]

Opened_(h, path) ==
  [Flushed(h) EXCEPT !.kind = "prose", !.at = path, !.under = h.crumb]

ListItem(h) ==
  [h EXCEPT !.items = IF h.item = <<>> THEN @ ELSE Append(@, h.item), !.item = <<>>]

(* A row that was not ended, at the next one or at the end of its table *)
RowDone(t) == IF t.row /\ t.cells # <<>> THEN [t EXCEPT !.rows = Append(@, t.cells)] ELSE t

StartTag(before, tag) ==
  LET h == Pushed(before, tag)
      path == Last(h.stack).path
  IN CASE tag \in SkipTags -> [h EXCEPT !.skip = IF @ = 0 THEN Len(h.stack) ELSE @]
       [] tag \notin SkipTags /\ h.skip > 0 -> h
       [] h.skip = 0 /\ tag \in HeadingTags \cup ProseTags -> Opened_(h, path)
       [] h.skip = 0 /\ tag \in CodeTags /\ ~h.code ->
            [Flushed(h) EXCEPT !.code = TRUE, !.codeAt = path, !.codeText = <<>>]
       [] h.skip = 0 /\ tag \in ListTags /\ ~h.list /\ ~InTable(h) ->
            [Flushed(h) EXCEPT !.list = TRUE, !.listAt = path, !.items = <<>>]
       [] h.skip = 0 /\ tag = "li" /\ h.list -> ListItem(h)
       [] h.skip = 0 /\ tag = "table" ->
            [Flushed(h) EXCEPT !.tables = Append(@, [at |-> path, rows |-> <<>>, row |-> FALSE, cells |-> <<>>,
                                                     cell |-> <<>>, under |-> h.crumb])]
       [] h.skip = 0 /\ tag = "tr" /\ InTable(h) ->
            WithTable(h, [RowDone(Table(h)) EXCEPT !.row = TRUE, !.cells = <<>>])
       [] h.skip = 0 /\ tag = "a" -> [h EXCEPT !.anchor = TRUE, !.anchorText = <<>>]
       [] OTHER -> h

(* _table_to_markdown: a row is cut to the width of the first one *)
Markdown(rows) ==
  IF rows = <<>> THEN <<>>
  ELSE LET width == Len(rows[1])
       IN FlattenSeq([r \in DOMAIN rows |->
            FlattenSeq(SubSeq(rows[r], 1, IF Len(rows[r]) < width THEN Len(rows[r]) ELSE width))])

(* Mutant: the cells of an ended row stay *)
RowEndedAgain(t) == [t EXCEPT !.rows = Append(@, t.cells), !.row = t.cells # <<>>]

RowEnded(t) == [t EXCEPT !.rows = Append(@, t.cells), !.row = FALSE, !.cells = <<>>]

HeadingEnded(h, tag) ==
  LET level == TagLevel(tag) - 1
      kept == SubSeq(h.crumb, 1, IF level < Len(h.crumb) THEN level ELSE Len(h.crumb))
  IN IF h.text = <<>> THEN Flushed([h EXCEPT !.crumb = kept])
     ELSE Flushed([h EXCEPT !.crumb = Append(kept, h.text), !.under = kept])

CodeEnded(h) ==
  LET closed == [h EXCEPT !.code = FALSE, !.codeText = <<>>]
  IN IF h.codeText = <<>> THEN closed ELSE Emitted_(closed, h.codeAt, "code", h.codeText, h.crumb)

ListEnded(h) ==
  LET closed == [h EXCEPT !.list = FALSE, !.items = <<>>]
  IN IF h.items = <<>> THEN closed
     ELSE Emitted_(closed, h.listAt, "list", FlattenSeq(h.items), h.crumb)

TableEnded(h) ==
  LET t == Table(h)
      rows == RowDone(t).rows
      closed == [h EXCEPT !.tables = Front(@)]
  IN IF rows = <<>> THEN closed ELSE Emitted_(closed, t.at, "table", Markdown(rows), t.under)

(* An end tag that does not match the innermost open element is ignored, and void elements   *)
(* are never closed                                                                          *)
EndTag(before, tag) ==
  LET matches == Top(before) = tag
      h == IF matches THEN [before EXCEPT !.stack = Front(@)] ELSE before
  IN CASE before.skip > 0 -> [h EXCEPT !.skip = IF Len(before.stack) <= @ \/ matches THEN 0 ELSE @]
       [] before.skip = 0 /\ ~matches -> before
       [] before.skip = 0 /\ matches /\ tag \in HeadingTags -> HeadingEnded(h, tag)
       [] before.skip = 0 /\ matches /\ tag \in ProseTags -> Flushed(h)
       [] before.skip = 0 /\ matches /\ tag \in CodeTags /\ h.code -> CodeEnded(h)
       [] before.skip = 0 /\ matches /\ tag = "li" /\ h.list -> ListItem(h)
       [] before.skip = 0 /\ matches /\ tag \in ListTags /\ h.list /\ ~InTable(h) -> ListEnded(h)
       [] before.skip = 0 /\ matches /\ tag \in CellTags /\ InTable(h) ->
            WithTable(h, [Table(h) EXCEPT !.cells = Append(@, Table(h).cell), !.cell = <<>>])
       [] before.skip = 0 /\ matches /\ tag = "tr" /\ InTable(h) /\ Table(h).row ->
            WithTable(h, RowEnded(Table(h)))
       [] before.skip = 0 /\ matches /\ tag = "table" /\ InTable(h) -> TableEnded(h)
       [] before.skip = 0 /\ matches /\ tag = "a" /\ h.anchor ->
            [h EXCEPT !.links = Append(@, h.anchorText), !.anchor = FALSE, !.anchorText = <<>>]
       [] OTHER -> h

(* A cell is the innermost of the open elements of tables *)
InCell(h) ==
  \E i \in DOMAIN h.stack :
    /\ h.stack[i].tag \in CellTags
    /\ \A j \in i + 1 .. Len(h.stack) : h.stack[j].tag \notin {"tr", "table"}

Anchored(h, text) == IF h.anchor THEN [h EXCEPT !.anchorText = Append(@, text)] ELSE h

Data(h, text) ==
  LET a == Anchored(h, text)
  IN IF h.skip > 0 THEN h
     ELSE IF h.code THEN [h EXCEPT !.codeText = Append(@, text)]
     ELSE IF InTable(h)
          THEN IF InCell(h) THEN WithTable(a, [Table(h) EXCEPT !.cell = Append(@, text)]) ELSE a
     ELSE IF h.list
          THEN IF \E i \in DOMAIN h.stack : h.stack[i].tag = "li" THEN [a EXCEPT !.item = Append(@, text)] ELSE a
     ELSE IF h.kind # "none" THEN [a EXCEPT !.text = Append(@, text)] ELSE a

(* Text that is pending at the end, and the items of a list that is still open *)
Finalized(h) ==
  LET f == Flushed(h)
  IN IF f.list /\ f.items # <<>> THEN Emitted_(f, f.listAt, "list_final", FlattenSeq(f.items), f.crumb)
     ELSE f

-----------------------------------------------------------------------------
Parent == IF page.open = <<>> THEN "root" ELSE Last(page.open)

(* The elements whose text the extraction rules of docs/pipeline/assess.md turn into a region *)
Extracted == HeadingTags \cup ProseTags \cup CodeTags \cup {"li", "td"}

(* A document leaves room for its end tags *)
Room(n) == ~page.ended /\ page.events + n + Len(page.open) <= MaxEvents

OpenElement(tag) ==
  /\ Room(2) /\ tag \in Inside[Parent] \ (VoidTags \cup {"text"})
  /\ page' = [page EXCEPT !.open = Append(@, tag), !.events = @ + 1]
  /\ html' = StartTag(html, tag)

CloseElement ==
  /\ ~page.ended /\ page.open # <<>>
  /\ page' = [page EXCEPT !.open = Front(@), !.events = @ + 1]
  /\ html' = EndTag(html, Last(page.open))

(* Written <br> or <br/>: only the second is a start and an end *)
VoidElement(tag) ==
  /\ Room(1) /\ tag \in Inside[Parent] \cap VoidTags
  /\ page' = [page EXCEPT !.events = @ + 1]
  /\ html' \in {StartTag(html, tag), EndTag(StartTag(html, tag), tag)}

Text_ ==
  /\ Room(1) /\ "text" \in Inside[Parent]
  /\ page' = [page EXCEPT !.texts = @ + 1, !.events = @ + 1,
        !.owed = IF \E i \in DOMAIN page.open : page.open[i] \in Extracted
                 THEN @ \cup {page.texts + 1} ELSE @]
  /\ html' = Data(html, page.texts + 1)

EndOfFile ==
  /\ ~page.ended /\ page.open = <<>> /\ page.texts > 0
  /\ page' = [page EXCEPT !.ended = TRUE]
  /\ html' = Finalized(html)

HtmlNext ==
  \/ \E tag \in UNION {Inside[t] : t \in DOMAIN Inside} : OpenElement(tag) \/ VoidElement(tag)
  \/ CloseElement \/ Text_ \/ EndOfFile

HtmlSpec == HtmlInit /\ [][HtmlNext]_htmlVars

-----------------------------------------------------------------------------
(* No text of a page reaches two regions, or one region twice: through a row that the next    *)
(* row, the end of the row and the end of the table all flush, an item that the next item and  *)
(* its own end flush, or a list that its end and finalize emit.                                *)
EachTextOnce ==
  LET texts == FlattenSeq([r \in DOMAIN html.regions |-> html.regions[r].texts])
  IN \A i, j \in DOMAIN texts : texts[i] = texts[j] => i = j

(* A region is named by a hash of its kind and its dom_path: no two regions of a page have     *)
(* both in common, whatever elements precede them and however they are nested.                 *)
RegionsAreDistinct ==
  \A i, j \in DOMAIN html.regions :
    html.regions[i].at = html.regions[j].at /\ html.regions[i].kind = html.regions[j].kind => i = j

(* Not so in the code: docs/pipeline/assess.md promises a region for the text of p, div, li    *)
(* and table elements.  Text of a div after an inner p, items after a nested list, what        *)
(* follows a <br> in a table cell and cells beyond the width of the first row are lost.        *)
TextIsKept ==
  page.ended => \A t \in page.owed :
    \E r \in DOMAIN html.regions : \E i \in DOMAIN html.regions[r].texts : html.regions[r].texts[i] = t
=============================================================================
