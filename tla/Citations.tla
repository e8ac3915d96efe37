----------------------------- MODULE Citations -------------------------------
(***************************************************************************)
(* What the language model claims about the sources of its annotation, and *)
(* what the service makes of one claim (app/annotators/base.py and         *)
(* agent_tools.py).                                                        *)
(*                                                                         *)
(* The text of the document is the function Source: for each place a       *)
(* citation can name, the snippets found there (case and white space       *)
(* aside), none for a place that is not there.                             *)
(*                                                                         *)
(* A definition whose name holds "_" is a broken variant of the definition *)
(* that follows it, for the property that must catch it.                   *)
(***************************************************************************)
EXTENDS Naturals, Sequences, FiniteSets

CONSTANTS Places,         \* pages, sheets and WholeText
          Snippets,       \* quotations
          Blank,          \* the quotation without a word
          Source          \* place -> the snippets found there

NoPlace == "no place"
WholeText == "whole text"
Junk == "not an object"

Statuses == {"verified", "unverified", "revised"}

\* A citation names a page, a sheet, both or neither.
Claim(status) == [page    : Places \cup {NoPlace},
                  sheet   : Places \cup {NoPlace},
                  snippet : Snippets \cup {Blank},
                  status  : status]
Citation == Claim(Statuses)

ASSUME SourceAssumption == Source \in [Places -> SUBSET Snippets]
ASSUME PlacesAssumption == WholeText \in Places /\ NoPlace \notin Places
ASSUME SnippetsAssumption == Blank \notin Snippets

-----------------------------------------------------------------------------
(* validate_annotation_payload and verify_citation *)

\* The members of a finite set of numbers, in increasing order.
Ascending(S) == CHOOSE s \in [1..Cardinality(S) -> S] :
                  \A i, j \in DOMAIN s : i < j => s[i] < s[j]

\* The elements of raw that are objects, in their order.
Objects(raw) ==
  LET kept == Ascending({i \in DOMAIN raw : raw[i].status # Junk})
  IN  [i \in DOMAIN kept |-> raw[kept[i]]]

\* A status that is none stays.
Repaired_KeepsStatus(raw) == Objects(raw)

\* repair_citations: what is no object goes, a status that is none is made
\* "unverified", a valid one stays as the model claimed it.
Repaired(raw) ==
  LET kept == Objects(raw)
  IN  [i \in DOMAIN kept |->
         IF kept[i].status \in Statuses THEN kept[i]
                                        ELSE [kept[i] EXCEPT !.status = "unverified"]]

\* source_for_citation looks at the page first, then at the sheet.
PlaceOf(c) == CASE c.page # NoPlace -> c.page
                [] c.page = NoPlace /\ c.sheet # NoPlace -> c.sheet
                [] OTHER -> WholeText

Unverified(c) == [c EXCEPT !.status = "unverified"]

\* A claimed status is kept where the snippet is not found.
VerifyCitation_KeepsClaim(c) ==
  IF c.snippet \in Source[PlaceOf(c)] THEN {[c EXCEPT !.status = "verified"]} ELSE {c}

\* verify_citation: found, replaced by the window of the source closest to it
\* (which window, if any is close enough, is left open), or unverified.
VerifyCitation(c) ==
  LET found == Source[PlaceOf(c)]
  IN  CASE c.snippet = Blank \/ found = {} -> {Unverified(c)}
        [] c.snippet \in found -> {[c EXCEPT !.status = "verified"]}
        [] OTHER -> {Unverified(c)} \cup
                    {[c EXCEPT !.snippet = w, !.status = "revised"] : w \in found}
=============================================================================
