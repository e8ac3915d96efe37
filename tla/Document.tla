------------------------------ MODULE Document -------------------------------
(***************************************************************************)
(* One document on its way from the upload to a citation of it: the bytes  *)
(* decide at the API which extractor the worker calls, the extractor what  *)
(* the model is shown, and both what a quotation is looked up in.          *)
(*                                                                         *)
(* An upload f of FileIntake also has a field content: what a parser finds *)
(* in it (pypdf, csv, openpyxl), as pages, rows or sheets.                 *)
(***************************************************************************)
EXTENDS FileIntake, DocumentText

CONSTANT Claims   \* upload -> the citations the model may make of it

\* What a parser finds in an upload of its type, with the number of rows a
\* worksheet declares, and the members of a citation after repair_citations; a
\* cell, a word and a name are strings.
Rows == Seq(Seq(STRING))
ASSUME ContentAssumption ==
  \A f \in Files :
    /\ f.suffix \in {".pdf", ".csv"} => f.content \in Rows
    /\ f.suffix = ".xlsx" =>
         f.content \in Seq([name : STRING, rows : Rows, declared : Nat])
ASSUME ClaimsAssumption ==
  \A f \in Files : \A c \in Claims[f] :
    c \in [page : STRING, sheet : STRING, snippet : Seq(STRING),
           status : {"verified", "revised", "unverified"}]

VARIABLES stage,    \* how far the worker is
          ext,      \* the extraction
          context,  \* the text of the document in the prompt
          cut,      \* agent_context_truncated, of an agent
          cited,    \* a citation of the model
          checked   \* what verify_citation makes of it

workVars == <<stage, ext, context, cut, cited, checked>>
vars == <<file, read, stored, header, intake, stage, ext, context, cut, cited, checked>>

NoExtraction == Extraction(<<>>, <<>>, <<>>, {})
NoCitation == [page |-> NoPlace, sheet |-> NoPlace, snippet |-> <<>>, status |-> "unverified"]

Init == /\ IntakeInit
        /\ stage = "upload"
        /\ ext = NoExtraction
        /\ context = <<>> /\ cut = FALSE
        /\ cited = NoCitation /\ checked = NoCitation

-----------------------------------------------------------------------------
\* What the extractor for the detected type may return: the Sniffer's word on a
\* header row is anyone's guess.
Extractions ==
  CASE intake = "pdf" -> {ExtractPdf(file.content)}
    [] intake = "xlsx" -> {ExtractXlsx(file.content)}
    [] intake = "csv" -> {ExtractCsv("upload.csv", file.content, h) : h \in BOOLEAN}

\* extract_document, and store_extraction of what it returns. A PDF without text
\* is an error.
ExtractDocument ==
  /\ stage = "upload" /\ intake \in Types
  /\ \E e \in Extractions :
       IF intake = "pdf" /\ e.text = <<>>
       THEN stage' = "failed" /\ UNCHANGED ext
       ELSE stage' = "extracted" /\ ext' = e
  /\ UNCHANGED <<context, cut, cited, checked>>
  /\ UNCHANGED intakeVars

\* The parser raises.
ExtractionFails ==
  /\ stage = "upload" /\ intake \in Types
  /\ stage' = "failed"
  /\ UNCHANGED <<ext, context, cut, cited, checked>>
  /\ UNCHANGED intakeVars

\* build_document_context of the agent: the cut is flagged.
BuildAgentPrompt ==
  /\ stage = "extracted"
  /\ stage' = "prompted"
  /\ context' = FirstOf(ext.text, MaxPrompt)
  /\ cut' = (Len(ext.text) > MaxPrompt)
  /\ UNCHANGED <<ext, cited, checked>>
  /\ UNCHANGED intakeVars

\* build_annotation_messages of the single-call modes: the cut leaves no trace.
BuildSingleCallPrompt ==
  /\ stage = "extracted"
  /\ stage' = "sent"
  /\ context' = FirstOf(ext.text, MaxPrompt)
  /\ UNCHANGED <<ext, cut, cited, checked>>
  /\ UNCHANGED intakeVars

\* The agent looks a citation up.
CheckCitation ==
  /\ stage = "prompted"
  /\ stage' = "checked"
  /\ cited' \in Claims[file]
  /\ checked' = VerifyCitation(ext, cited')
  /\ UNCHANGED <<ext, context, cut>>
  /\ UNCHANGED intakeVars

Next == \/ IntakeNext /\ UNCHANGED workVars
        \/ ExtractDocument \/ ExtractionFails
        \/ BuildAgentPrompt \/ BuildSingleCallPrompt \/ CheckCitation

Spec == Init /\ [][Next]_vars

-----------------------------------------------------------------------------
(* Properties *)

AgentPrompted == stage \in {"prompted", "checked"}
Prompted == AgentPrompted \/ stage = "sent"
Extracted == Prompted \/ stage = "extracted"

\* Types of the variables.
TypeOK ==
  /\ file \in Files /\ read \in 0..Len(file.bytes)
  /\ stored = Nothing \/ stored \in Seq(Bytes)
  /\ header \in Seq(Bytes)
  /\ intake \in {"saving"} \cup Whole \cup Types \cup Refusals
  /\ stage \in {"upload", "extracted", "failed", "sent", "prompted", "checked"}
  /\ Len(ext.text) <= MaxText /\ Len(context) <= MaxPrompt
  /\ \A i \in DOMAIN ext.sheets : Len(ext.sheets[i].sample) <= MaxRows
  /\ \A c \in {cited, checked} : c.status \in {"verified", "revised", "unverified"}
  /\ cut \in BOOLEAN

CellsIn(rows) == (UNION {ToSet(row) : row \in ToSet(rows)}) \ {Empty}

\* A worksheet with more rows than the sample that declares no more than that.
Understated(sheet) == sheet.declared <= MaxRows /\ MaxRows < Len(sheet.rows)

\* The words of the document, but for the sheets that understate their size.
WordsOf(f) ==
  CASE f.suffix = ".pdf" -> UNION {ToSet(page) : page \in ToSet(f.content)}
    [] f.suffix = ".csv" -> CellsIn(f.content)
    [] OTHER -> UNION {CellsIn(s.rows) : s \in {s \in ToSet(f.content) : ~Understated(s)}}

\* README 461: what the sample of a sheet or the 60,000 characters leave out of
\* the extracted text is warned of in the extraction, but for a sheet that
\* declares no more rows than the sample has, or none.
LossIsWarned ==
  Extracted /\ ~(WordsOf(file) \subseteq ToSet(ext.text)) => ext.warnings # {}

\* README 349, 472: "Documents over the prompt budget are truncated and a
\* `warnings` entry is emitted", in every mode that sends a prompt.
TruncationIsWarned == Prompted /\ context # ext.text => ext.warnings # {}

\* The inferred type of a column is what all its values in the sample are, rows
\* of any length and a missing header row included, as long as its name is its
\* own.
ColumnTypesFit ==
  intake = "csv" /\ Prompted =>
    LET sheet == ext.sheets[1]
        width == IF sheet.sample = <<>> THEN 0 ELSE Max({Len(r) : r \in ToSet(sheet.sample)})
        name(i) == ColumnName(sheet.headers, i)
        fits(type, v) == type = "string" \/ type \in Parses[v]
    IN  \A i \in 1..width :
          (\A k \in 1..width : name(k) = name(i) => k = i) =>
             /\ name(i) \in DOMAIN sheet.types
             /\ \A row \in ToSet(sheet.sample) :
                  i <= Len(row) /\ row[i] # Empty => fits(sheet.types[name(i)], row[i])

\* The quotations of Citations are the runs of the source a citation names.
AllRuns(words) == UNION {Runs(words, n) : n \in 1..Len(words)}

Named == {cited.page, cited.sheet} \cup {"whole text"}

Abstract == INSTANCE Citations WITH
  Places <- Named,
  Snippets <- (AllRuns(SourceFor(ext, cited)) \cup {cited.snippet}) \ {<<>>},
  Blank <- <<>>,
  Source <- [p \in Named |-> AllRuns(SourceFor(ext, cited))]

\* The lookup keeps to what AnnotationRun takes it for: verified means found at
\* the place named, a revised quotation is a run of that very source, cut or not,
\* and whatever is not found nor replaced is unverified.
LookupAsAbstracted ==
  stage = "checked" => checked \in Abstract!VerifyCitation(cited)

\* A quotation is not given up while the source has enough of its words close
\* together: a run of them one word longer than the overlap of two windows is
\* always seen, wherever it lies.
CloseMatchIsFound ==
  stage = "checked" /\ checked.status = "unverified" =>
    LET terms == Terms(cited.snippet)
    IN  \A n \in 1..(Window - WindowStep + 1) :
          \A run \in Runs(SourceFor(ext, cited), n) : Score(terms, run) < CloseEnough(terms)
-----------------------------------------------------------------------------
(* Inductive strengthening *)

\* The worker has what it computed of the upload it took up, and takes up none
\* that is still on its way.
WorkInv ==
  /\ stage \in {"upload", "extracted", "failed", "sent", "prompted", "checked"}
  /\ stage # "upload" => intake \in Types
  /\ IF stage \in {"upload", "failed"} THEN ext = NoExtraction ELSE ext \in Extractions
  /\ context = IF Prompted THEN FirstOf(ext.text, MaxPrompt) ELSE <<>>
  /\ cut = (AgentPrompted /\ Len(ext.text) > MaxPrompt)
  /\ IF stage = "checked"
     THEN cited \in Claims[file] /\ checked = VerifyCitation(ext, cited)
     ELSE cited = NoCitation /\ checked = NoCitation
=============================================================================
