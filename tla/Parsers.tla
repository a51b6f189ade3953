------------------------------- MODULE Parsers -------------------------------
(***************************************************************************)
(* The format parsers of the Assess stage (pipeline/assess/parsers): which *)
(* one claims a file, and what status, findings and regions it returns for *)
(* what the file holds at that moment.  A paragraph is a sequence of lines; *)
(* the parser of HTML is the module HtmlParser.                            *)
(***************************************************************************)
LOCAL INSTANCE Integers
LOCAL INSTANCE Sequences
LOCAL INSTANCE FiniteSets
LOCAL INSTANCE SequencesExt
LOCAL INSTANCE FiniteSetsExt

CONSTANTS
  DatabaseRows,  \* DATABASE_ROW_THRESHOLD, scaled
  TableRows      \* TABLE_MAX_ROWS, scaled

(* The paragraph of white space alone *)
Blank == <<"blank">>
Spoken(text) == SelectSeq(text, LAMBDA p : p # Blank)

(* fails: extracting the text raises, or warns that a stream did not decompress;  short: the  *)
(* text is below min_chars_per_page                                                          *)
Page(text) == [text |-> text, fails |-> "no", image |-> FALSE, ocr |-> <<>>, short |-> FALSE]

(* A row of a sheet: how many cells are filled, hold a formula, are long, wrap, or are set as *)
(* a header (bold or coloured)                                                               *)
Row(line) == [line |-> line, cells |-> 2, formulas |-> 0, long |-> 0, wraps |-> FALSE, styled |-> FALSE]
NoRow == [Row("") EXCEPT !.cells = 0]
Sheet(rows) == [rows |-> rows, charts |-> <<>>]

(* kind: what opens the file;  regions: what the HTML parser finds in it *)
File_(kind) == [kind |-> kind, locked |-> FALSE, pages |-> <<>>, sheets |-> <<>>, regions |-> <<>>]
NoFile == File_("none")

Region_(status, text) == [status |-> status, text |-> text]
Outcome(status, codes, regions) == [status |-> status, codes |-> codes, regions |-> regions]
Failed_(code) == Outcome("failed", {code}, <<>>)
PreParse(code) == Outcome("excluded_pre_parse", {code}, <<>>)
WithText(regions) == \E r \in DOMAIN regions : regions[r].text # <<>>
Status(text) == IF text = <<>> THEN "empty" ELSE "ok"

-----------------------------------------------------------------------------
(* A page whose stream only warns has no text, and counts as an image *)
ImageOnly(file) ==
  /\ file.kind = "pdf" /\ ~file.locked /\ file.pages # <<>>
  /\ \A p \in DOMAIN file.pages :
       file.pages[p].fails # "raises" /\ (file.pages[p].fails = "warns" \/ Spoken(file.pages[p].text) = <<>>)

ScannedPage(page) ==
  IF ~page.image THEN Region_("failed", <<>>) ELSE Region_(Status(Spoken(page.ocr)), Spoken(page.ocr))

(* The file has been opened again since can_parse: nothing changed it in between *)
ParseScanned(file, tesseract) ==
  LET regions == [p \in DOMAIN file.pages |-> ScannedPage(file.pages[p])]
  IN IF ~tesseract THEN Failed_("missing_dependency")
     ELSE IF WithText(regions) THEN Outcome("parsed", {}, regions)
     ELSE Outcome("failed", {"ocr_no_text_extracted"}, regions)

-----------------------------------------------------------------------------
Extractable(page) == IF page.fails = "no" THEN page.text ELSE <<>>

(* Text of white space counts as extracted unless the page is recognised as an image *)
NativePage(page, tesseract) ==
  LET combined == Spoken(Extractable(page)) \o Spoken(page.ocr)
  IN IF page.fails = "warns" /\ Spoken(Extractable(page)) = <<>> THEN Region_("failed", <<>>)
     ELSE IF page.image /\ (page.short \/ Spoken(Extractable(page)) = <<>>) /\ tesseract
          THEN Region_(Status(combined), combined)
     ELSE Region_(Status(Extractable(page)), Extractable(page))

ParsePages(file, tesseract) ==
  LET regions == [p \in DOMAIN file.pages |-> NativePage(file.pages[p], tesseract)]
      broken == \E p \in DOMAIN regions : regions[p].status = "failed"
  IN CASE ~WithText(regions) /\ ~broken -> Outcome("failed", {"unservable_image_only"}, regions)
       [] ~WithText(regions) /\ broken -> Outcome("failed", {"parse_error"}, regions)
       [] WithText(regions) /\ broken -> Outcome("partial", {"parse_error"}, regions)
       [] OTHER -> Outcome("parsed", {}, regions)

ParseNative(file, tesseract) ==
  CASE file.kind # "pdf" -> Outcome("unreadable", {"parse_error"}, <<>>)
    [] file.kind = "pdf" /\ file.locked -> Failed_("password_protected")
    [] file.kind = "pdf" /\ ~file.locked /\ file.pages = <<>> -> Failed_("empty_document")
    [] OTHER -> ParsePages(file, tesseract)

-----------------------------------------------------------------------------
SumOver(file, field) ==
  MapThenSumSet(LAMBDA s : MapThenSumSet(LAMBDA r : file.sheets[s].rows[r][field], DOMAIN file.sheets[s].rows),
                DOMAIN file.sheets)

(* 30 % of the filled cells hold a formula *)
IsModel(file) ==
  LET cells == SumOver(file, "cells")
      formulas == SumOver(file, "formulas")
  IN cells > 0 /\ 10 * formulas >= 3 * cells

(* As many rows as make a database are sampled *)
Uniform(sheet) ==
  /\ Len(sheet.rows) >= DatabaseRows + 1
  /\ LET header == sheet.rows[1]
     IN /\ header.cells > 0 /\ ~header.wraps /\ header.long = 0
        /\ \A r \in 2 .. DatabaseRows + 1 : sheet.rows[r].cells - header.cells \in -1 .. 1

(* The presence of charts, of several sheets or of long texts is only reported *)
Triage(file) ==
  IF IsModel(file) THEN "model"
  ELSE IF Len(file.sheets) = 1 /\ Uniform(file.sheets[1]) THEN "database" ELSE "report"

(* The blocks of a sheet: its rows up to the next empty one *)
SheetBlocks(sheet) ==
  LET filled == {r \in DOMAIN sheet.rows : sheet.rows[r].cells > 0}
      starts == SetToSortSeq({r \in filled : r - 1 \notin filled}, <)
      EndOf(b) == CHOOSE e \in filled : e >= b /\ (b .. e) \subseteq filled /\ e + 1 \notin filled
  IN [i \in DOMAIN starts |-> SubSeq(sheet.rows, starts[i], EndOf(starts[i]))]

(* A table is one paragraph, cut at TABLE_MAX_ROWS; elsewhere each cell is one *)
BlockRegion(rows) ==
  LET lines == [r \in DOMAIN rows |-> rows[r].line]
      kept == SubSeq(lines, 1, IF Len(lines) < TableRows THEN Len(lines) ELSE TableRows)
  IN Region_("ok", IF rows[1].styled /\ Len(rows) > 1 THEN <<kept>> ELSE [r \in DOMAIN lines |-> <<lines[r]>>])

SheetRegions(sheet) ==
  LET blocks == SheetBlocks(sheet)
  IN [b \in DOMAIN blocks |-> BlockRegion(blocks[b])]
     \o [c \in DOMAIN sheet.charts |-> Region_("ok", <<<<sheet.charts[c]>>>>)]

ParseSpreadsheet(suffix, file) ==
  LET regions == FlattenSeq([s \in DOMAIN file.sheets |-> SheetRegions(file.sheets[s])])
  IN CASE suffix = "csv" -> PreParse("csv_not_supported")
       [] suffix # "csv" /\ file.kind # "xlsx" -> Failed_("spreadsheet_open_failed")
       [] suffix # "csv" /\ file.kind = "xlsx" /\ Triage(file) # "report" ->
            PreParse("spreadsheet_" \o Triage(file) \o "_excluded")
       [] OTHER -> IF regions = <<>> THEN Outcome("failed", {"spreadsheet_triage"}, regions)
                   ELSE Outcome("parsed", {"spreadsheet_triage"}, regions)

-----------------------------------------------------------------------------
ParseHtml(file) ==
  IF file.kind = "none" THEN Failed_("html_read_failed")
  ELSE Outcome(IF file.regions = <<>> THEN "failed" ELSE "parsed", {}, file.regions)

Registry == <<"audio", "video", "cad", "html", "spreadsheet", "scanned", "native", "fallback">>

(* can_parse: the suffix decides, and for a scanned PDF what the file holds *)
Claims(parser, suffix, file) ==
  CASE parser = "audio" -> suffix = "mp3"
    [] parser = "video" -> suffix = "mp4"
    [] parser = "cad" -> suffix = "dwg"
    [] parser = "html" -> suffix = "html"
    [] parser = "spreadsheet" -> suffix \in {"xlsx", "csv"}
    [] parser = "scanned" -> suffix = "pdf" /\ ImageOnly(file)
    [] parser = "native" -> suffix = "pdf"
    [] parser = "fallback" -> TRUE

Parse_(suffix, file, tesseract) ==
  LET parser == Registry[SelectInSeq(Registry, LAMBDA p : Claims(p, suffix, file))]
  IN CASE parser \in {"audio", "video", "cad"} -> PreParse("unservable_" \o parser)
       [] parser = "html" -> ParseHtml(file)
       [] parser = "spreadsheet" -> ParseSpreadsheet(suffix, file)
       [] parser = "scanned" -> ParseScanned(file, tesseract)
       [] parser = "native" -> ParseNative(file, tesseract)
       [] parser = "fallback" -> PreParse("excluded_content_type_other")
=============================================================================
