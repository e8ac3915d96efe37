-------------------------- MODULE MCAnnotationRun ---------------------------
(***************************************************************************)
(* Small instances of AnnotationRun for TLC: a document with one page, one *)
(* sheet, and a whole text that holds what is on both.                     *)
(***************************************************************************)
EXTENDS AnnotationRun

CONSTANTS page, gone, sheet, s1, s2, s3

MCPlaces == {page, gone, sheet, WholeText}
MCSnippets == {s1, s2, s3}

MCSource == [p \in MCPlaces |-> CASE p = page -> {s1}
                                  [] p = sheet -> {s2}
                                  [] p = gone -> {}
                                  [] OTHER -> {s1, s2}]

\* True claims, false ones, a page that does not exist, a blank quotation, a
\* page and a sheet at once, a status of the model's own, and no object at all.
MCRawCitations ==
  LET raw(p, s, q, st) == [page |-> p, sheet |-> s, snippet |-> q, status |-> st]
  IN  {raw(page, NoPlace, s1, "unverified"), raw(page, NoPlace, s2, "verified"),
       raw(gone, sheet, s2, "verified"), raw(NoPlace, sheet, s2, "revised"),
       raw(NoPlace, NoPlace, s3, "other"), raw(NoPlace, NoPlace, s1, "verified"),
       raw(page, NoPlace, Blank, "verified"), raw(NoPlace, NoPlace, s1, Junk)}
=============================================================================
