----------------------------- MODULE MCDocument ------------------------------
(***************************************************************************)
(* A small instance of Document for TLC: uploads that differ in name, type *)
(* and bytes, and documents that differ in what is in them.                *)
(***************************************************************************)
EXTENDS Document

Upload(suffix, declared, bytes, workbook, content) ==
  [suffix |-> suffix, declared |-> declared, bytes |-> bytes, workbook |-> workbook,
   content |-> content]

\* Every text of up to five bytes, and one byte more than the limit.
Texts == BoundedSeq({"ascii", "nul", "lead", "continuing"}, 4)
           \cup {[i \in 1..n |-> "ascii"] : n \in 5..6}
           \cup {<<"ascii", "ascii", "ascii", "lead", "continuing">>}

TextUploads == {Upload(".csv", "csv", b, "no", << <<"x">> >>) : b \in Texts}

\* Every suffix, with each declared type, magic number and kind of zip file.
NamedUploads ==
  {Upload(suffix, declared, <<magic, "ascii">>, w,
          CASE suffix = ".pdf" -> << <<"a">> >>
            [] suffix = ".xlsx" -> << [name |-> "S", rows |-> << <<"x">> >>, declared |-> 1] >>
            [] OTHER -> << <<"x">> >>) :
     suffix \in Extensions, declared \in Declared, magic \in {"%PDF-", "PK", "ascii"},
     w \in {"yes", "no", "raises"}}

Pdf(pages) == Upload(".pdf", "pdf", <<"%PDF-">>, "no", pages)
Xlsx(sheets) == Upload(".xlsx", "none", <<"PK">>, "yes", sheets)
Csv(rows) == Upload(".csv", "none", <<"ascii">>, "no", rows)

Pdfs == {Pdf(<<>>), Pdf(<< <<>>, <<"a", "b">> >>),
         Pdf(<< <<"a", "b", "c", "d", "e", "f">> >>),
         Pdf(<< <<"a", "b", "a">>, <<"c">>, <<"d", "e", "f", "b">> >>),
         Pdf(<< <<"a", "b", "c", "d", "e">>, <<"f", "g", "h">> >>)}

Sheet(name, rows, declared) == [name |-> name, rows |-> rows, declared |-> declared]

\* Sheets that declare what they have, nothing, less and more.
Xlsxs == {Xlsx(<< Sheet("S", << <<"a", "b">>, <<Empty, "c">> >>, 2) >>),
          Xlsx(<< Sheet("S", << <<Empty, Empty>>, <<"a">>, <<"b">>, <<"c">> >>, 4),
                  Sheet("T", << <<"d">> >>, 0) >>)}
         \cup {Xlsx(<< Sheet("S", << <<"a">>, <<"b">>, <<"c">>, <<"d">> >>, n) >>) : n \in {0, 1, 4, 9}}
         \cup {Xlsx(<< Sheet("S", << <<"a">>, <<"b">> >>, n) >>) : n \in {0, 1, 9}}

\* Every table of two rows of up to two cells, and longer ones.
SmallRows == BoundedSeq({"1", "2.5", "x", Empty}, 2)
Csvs == {Csv(rows) : rows \in BoundedSeq(SmallRows, 2)}
          \cup {Csv(<< <<"a", "b">>, <<"1", "x">>, r, <<"c", "d">> >>) : r \in SmallRows}

MCFiles == TextUploads \cup NamedUploads \cup Pdfs \cup Xlsxs \cup Csvs

MCParses == [v \in {"1", "2.5", "x", "a", "b", "c", "d"} |->
               CASE v = "1" -> {"integer", "number"}
                 [] v = "2.5" -> {"number"}
                 [] OTHER -> {}]

Citation(page, sheet, snippet) ==
  [page |-> page, sheet |-> sheet, snippet |-> snippet, status |-> "verified"]

\* Quotations of up to three words, "z" in none of the documents, and three long
\* ones of which two, three and four words lie together; of a page, a sheet, a
\* page that is not there and no place.
Quotes == BoundedSeq({"a", "b", "c", "d", "e", "z"}, 3)
            \cup {<<"d", "e", "u", "x", "y", "z">>, <<"b", "c", "d", "x", "y", "z">>,
                  <<"f", "e", "d", "c", "x", "y", "z">>}

MCClaims ==
  [f \in MCFiles |->
     CASE f \in Pdfs -> {Citation(p, NoPlace, q) : p \in {"1", "3", "9", NoPlace}, q \in Quotes}
       [] f \in Xlsxs -> {Citation(NoPlace, s, q) : s \in {"S", "U"}, q \in Quotes}
       [] OTHER -> {Citation(NoPlace, "upload.csv", <<"1">>)}]
=============================================================================
