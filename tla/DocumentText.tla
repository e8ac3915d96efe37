---------------------------- MODULE DocumentText -----------------------------
(***************************************************************************)
(* The text of a document: what the extractors (app/extractors) keep of    *)
(* it, and where the agent's tools (app/annotators/agent_tools.py) look    *)
(* for a quotation. Operators only; a text is a sequence of words, every   *)
(* limit in characters is one in words, and case, white space and          *)
(* punctuation at the end of a word are left aside.                        *)
(*                                                                         *)
(* A definition whose name holds "_" is a broken variant of the definition *)
(* that follows it, for the property that must catch it.                   *)
(***************************************************************************)
EXTENDS Naturals, Sequences, SequencesExt, FiniteSetsExt

CONSTANTS MaxText,      \* MAX_EXTRACTED_TEXT_CHARS
          MaxRows,      \* MAX_SAMPLE_ROWS
          MaxPrompt,    \* MAX_PROMPT_TEXT_CHARS
          Window,       \* words in a window of closest_source_window
          WindowStep,   \* words from one window to the next
          MaxSnippet,   \* MAX_SNIPPET_CHARS
          Parses        \* cell -> the type tests of infer_type it passes

ASSUME LimitsAssumption ==
  /\ MaxText \in Nat \ {0} /\ MaxRows \in Nat \ {0} /\ MaxPrompt \in Nat
  /\ WindowStep \in Nat \ {0} /\ Window \in Nat /\ WindowStep <= Window
  /\ MaxSnippet \in Nat \ {0}

Empty == "empty cell"

\* Words of the layout: a label such as "Page 1", and what joins two cells.
Label == "label"
Bar == "|"

\* At most n elements of s, from the first.
FirstOf(s, n) == SubSeq(s, 1, IF n < Len(s) THEN n ELSE Len(s))

\* The elements of s at the positions in keep, in their order.
Kept(s, keep) == FlattenSeq([i \in DOMAIN s |-> IF i \in keep THEN <<s[i]>> ELSE <<>>])

\* The text is not cut.
Truncated_Whole(text) == text

\* truncate_text, its first half: text[:max_chars].
Truncated(text) == FirstOf(text, MaxText)

\* What the extractors return; a warning is the kind of it.
Extraction(text, pages, sheets, warnings) ==
  [text |-> Truncated(text), pages |-> pages, sheets |-> sheets,
   warnings |-> warnings \cup IF Len(text) > MaxText THEN {"truncated"} ELSE {}]

-----------------------------------------------------------------------------
(* The three extractors *)

\* extract_pdf: pages that are blank have a place in pages and none in the text.
ExtractPdf(pages) ==
  LET parts == [i \in DOMAIN pages |-> IF pages[i] = <<>> THEN <<>> ELSE <<Label>> \o pages[i]]
  IN  Extraction(FlattenSeq(parts), pages, <<>>, {})

Filled(row) == {i \in DOMAIN row : row[i] # Empty}

NotBlank(rows) == Kept(rows, {i \in DOMAIN rows : Filled(rows[i]) # {}})

\* " | ".join(row): nothing stands between the bars of two empty cells.
RowText(row) ==
  FlattenSeq([i \in DOMAIN row |-> (IF i = 1 THEN <<>> ELSE <<Bar>>)
                                     \o (IF row[i] = Empty THEN <<>> ELSE <<row[i]>>)])

RowsText(rows) == FlattenSeq([i \in DOMAIN rows |-> RowText(rows[i])])

\* The lines above the rows: the sheet, its size, its headers.
HeadText(headers) ==
  <<Label>> \o Kept(headers, Filled(headers))

\* render_sheet_text and render_csv_text of the extractors skip blank rows.
RenderedRows(headers, rows) == HeadText(headers) \o RowsText(NotBlank(rows))

\* extract_xlsx, one worksheet: row_count is what the file declares of it, 0 if
\* nothing, whatever rows there are.
SheetOf(sheet) ==
  LET sample == NotBlank(FirstOf(sheet.rows, MaxRows))
  IN  [name |-> sheet.name,
       rowCount |-> sheet.declared,
       headers |-> IF sample = <<>> THEN <<>> ELSE sample[1],
       sample |-> sample,
       types |-> <<>>]

\* The size of the sample is looked at.
SampledOnly_OnRowsRead(sheet) == Len(sheet.sample) > MaxRows

SampledOnly(sheet) == sheet.rowCount > MaxRows

SampleWarning(sheet) == IF SampledOnly(sheet) THEN {"sampled"} ELSE {}

ExtractXlsx(sheets) ==
  LET read == [i \in DOMAIN sheets |-> SheetOf(sheets[i])]
  IN  Extraction(FlattenSeq([i \in DOMAIN read |-> RenderedRows(read[i].headers, read[i].sample)]),
                 <<>>, read,
                 UNION {SampleWarning(read[i]) : i \in DOMAIN read})

-----------------------------------------------------------------------------
(* infer_type and infer_column_types *)

Tests == <<"boolean", "integer", "number", "date">>

\* The first of the tests that all values pass.
InferType(values) ==
  LET passed == {i \in DOMAIN Tests : \A v \in values : Tests[i] \in Parses[v]}
  IN  CASE values = {} -> "empty"
        [] values # {} /\ passed # {} -> Tests[Min(passed)]
        [] OTHER -> "string"

\* The non-empty cells of column i in rows that may be shorter than others.
Column(rows, i) == {row[i] : row \in {r \in ToSet(rows) : i <= Len(r)}} \ {Empty}

Widest_FirstRow(rows) == Len(rows[1])

Widest(rows) == Max({Len(row) : row \in ToSet(rows)})

\* A column past the headers is called by its number.
ColumnName(headers, i) ==
  IF i <= Len(headers) THEN headers[i] ELSE "column_" \o ToString(i)

\* A dict: the last of the columns with one name gives its type.
ColumnTypes(headers, rows) ==
  IF rows = <<>> THEN <<>>
  ELSE LET columns == 1..Widest(rows)
           named(n) == {i \in columns : ColumnName(headers, i) = n}
       IN  [n \in {ColumnName(headers, i) : i \in columns} |->
              InferType(Column(rows, Max(named(n))))]

\* extract_csv, with what the Sniffer says of a header row. A header row without
\* a cell is taken for data.
ExtractCsv(name, all, hasHeader) ==
  LET rows == FirstOf(all, MaxRows)
      headers == IF hasHeader /\ rows # <<>> THEN rows[1] ELSE <<>>
      data == IF headers # <<>> THEN Tail(rows) ELSE rows
      sheet == [name |-> name, rowCount |-> Len(all), headers |-> headers,
                sample |-> data, types |-> ColumnTypes(headers, data)]
  IN  Extraction(RenderedRows(headers, data), <<>>, <<sheet>>, SampleWarning(sheet))

-----------------------------------------------------------------------------
(* DocumentTools and verify_citation *)

NoPlace == "no place"

\* get_page, for a page called by its number.
PageText(ext, page) ==
  FlattenSeq([i \in DOMAIN ext.pages |-> IF ToString(i) = page THEN ext.pages[i] ELSE <<>>])

\* get_sheet_sample, with the blank rows of the sample.
SheetText(ext, name) ==
  LET named == {i \in DOMAIN ext.sheets : ext.sheets[i].name = name}
      sheet == ext.sheets[Min(named)]
  IN  IF named = {} THEN <<>> ELSE HeadText(sheet.headers) \o RowsText(sheet.sample)

\* source_for_citation
SourceFor(ext, c) ==
  CASE c.page # NoPlace -> PageText(ext, c.page)
    [] c.page = NoPlace /\ c.sheet # NoPlace -> SheetText(ext, c.sheet)
    [] OTHER -> ext.text

\* tokenize, as a set: a bar holds no token.
Terms(words) == ToSet(words) \ {Bar}

\* The runs of n words of a text.
Runs(words, n) == {SubSeq(words, i, i + n - 1) : i \in 1..(1 + Len(words) - n)}

Occurs(words, source) == words # <<>> /\ words \in Runs(source, Len(words))

\* The windows do not overlap.
WindowStarts_Apart(source) == {i \in 0..(Len(source) - 1) : i % Window = 0}

WindowStarts(source) == {i \in 0..(Len(source) - 1) : i % WindowStep = 0}

WindowAt(source, i) == FirstOf(SubSeq(source, i + 1, Len(source)), Window)

Score(terms, words) == Cardinality(terms \cap Terms(words))

\* How many of the terms make a window close.
CloseEnough(terms) == Max({2, Cardinality(terms) \div 2})

\* closest_source_window: of the windows with the most terms the first, cut, or
\* nothing if it has too few.
ClosestWindow(snippet, source) ==
  LET terms == Terms(snippet)
      score(i) == Score(terms, WindowAt(source, i))
      best == CHOOSE i \in WindowStarts(source) :
                \A j \in WindowStarts(source) :
                  score(j) < score(i) \/ (score(j) = score(i) /\ i <= j)
  IN  IF source # <<>> /\ score(best) >= CloseEnough(terms)
      THEN FirstOf(WindowAt(source, best), MaxSnippet) ELSE <<>>

\* The closest page is quoted, of all there are.
VerifyCitation_AnyPlace(ext, c) ==
  LET revised == ClosestWindow(c.snippet, ext.text)
  IN  CASE Occurs(c.snippet, SourceFor(ext, c)) -> [c EXCEPT !.status = "verified"]
        [] ~Occurs(c.snippet, SourceFor(ext, c)) /\ revised # <<>> ->
             [c EXCEPT !.snippet = revised, !.status = "revised"]
        [] OTHER -> [c EXCEPT !.status = "unverified"]

\* verify_citation
VerifyCitation(ext, c) ==
  LET source == SourceFor(ext, c)
      revised == ClosestWindow(c.snippet, source)
  IN  CASE Occurs(c.snippet, source) -> [c EXCEPT !.status = "verified"]
        [] ~Occurs(c.snippet, source) /\ revised # <<>> ->
             [c EXCEPT !.snippet = revised, !.status = "revised"]
        [] OTHER -> [c EXCEPT !.status = "unverified"]
=============================================================================
