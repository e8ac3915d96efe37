----------------------------- MODULE FileIntake ------------------------------
(***************************************************************************)
(* What POST /documents does with the bytes of one upload: save_upload     *)
(* (app/storage.py) reads them chunk by chunk, counts them and keeps the   *)
(* first of them as a sample; app/file_validation.py decides by the name,  *)
(* the declared type and that sample what kind of document it is.          *)
(*                                                                         *)
(* A byte is told apart by what the validation looks for: the magic number *)
(* of a format counts as one byte, and a character that is no ASCII has    *)
(* two, a leading and a continuing one.                                    *)
(*                                                                         *)
(* A definition whose name holds "_" is a broken variant of the definition *)
(* that follows it, for the property that must catch it.                   *)
(***************************************************************************)
EXTENDS Naturals, Sequences, SequencesExt

CONSTANTS Files,         \* the uploads of an instance
          ChunkSize,     \* CHUNK_SIZE_BYTES
          HeaderSize,    \* HEADER_SAMPLE_BYTES
          MaxFileSize    \* MAX_FILE_SIZE_BYTES

Extensions == {".pdf", ".xlsx", ".csv", "other"}
Types == {"pdf", "xlsx", "csv"}
Bytes == {"ascii", "nul", "lead", "continuing", "%PDF-", "PK"}

\* A declared type: none, one of the three formats, a vaguer one that browsers
\* send for them, or another.
Declared == {"none", "octet-stream", "text/plain", "other"} \cup Types

\* f.workbook: is it a zip file with the parts of a workbook, or does opening it
\* as one raise something other than BadZipFile and OSError?
ASSUME FilesAssumption ==
  \A f \in Files : /\ f.suffix \in Extensions /\ f.declared \in Declared
                    /\ f.bytes \in Seq(Bytes) /\ f.workbook \in {"yes", "no", "raises"}
ASSUME SizesAssumption == /\ ChunkSize \in Nat \ {0} /\ HeaderSize \in Nat \ {0}
                          /\ MaxFileSize \in Nat

VARIABLES file,     \* the upload
          read,     \* how much of it has been read
          stored,   \* what is at its destination: a sequence, or Nothing
          header,   \* the sample
          intake    \* "saving", "saved", the detected type, or why it was not taken

intakeVars == <<file, read, stored, header, intake>>

Nothing == <<"no file">>
Refusals == {"too large", "unreadable", "unsupported"}
Whole == {"saved", "unexpected"}

IntakeInit == /\ file \in Files
              /\ read = 0
              /\ stored = <<>> /\ header = <<>>
              /\ intake = "saving"

-----------------------------------------------------------------------------
\* At most n elements of s after the first k.
Part(s, k, n) == SubSeq(s, k + 1, IF k + n < Len(s) THEN k + n ELSE Len(s))

\* The next chunk, empty at the end of the upload.
Chunk == Part(file.bytes, read, ChunkSize)

\* The sample takes whole chunks.
Sampled_WholeChunk(chunk) ==
  IF Len(header) < HeaderSize THEN header \o chunk ELSE header

Sampled(chunk) ==
  IF Len(header) < HeaderSize
  THEN header \o Part(chunk, 0, HeaderSize - Len(header)) ELSE header

Refuse(why) == intake' = why /\ stored' = Nothing

\* A round of the loop of save_upload: the size is checked before the chunk is
\* written.
ReadChunk ==
  /\ intake = "saving" /\ Chunk # <<>>
  /\ read' = read + Len(Chunk)
  /\ IF read' > MaxFileSize
     THEN Refuse("too large") /\ UNCHANGED header
     ELSE /\ stored' = stored \o Chunk
          /\ header' = Sampled(Chunk)
          /\ UNCHANGED intake
  /\ UNCHANGED file

\* The upload or the disk fails within the loop.
ReadFails ==
  /\ intake = "saving" /\ Refuse("unreadable")
  /\ UNCHANGED <<file, read, header>>

EndOfUpload ==
  /\ intake = "saving" /\ Chunk = <<>>
  /\ intake' = "saved"
  /\ UNCHANGED <<file, read, stored, header>>

-----------------------------------------------------------------------------
\* DECLARED_MIME_BY_EXTENSION, for the suffixes it has.
DeclaredFor == (".pdf"  :> {"pdf", "octet-stream"}) @@
               (".xlsx" :> {"xlsx", "octet-stream"}) @@
               (".csv"  :> {"csv", "text/plain", "octet-stream"})

\* validate_declared_content_type
DeclaredFits == \/ file.declared = "none"
                \/ /\ file.suffix \in DOMAIN DeclaredFor
                   /\ file.declared \in DeclaredFor[file.suffix]

StartsWith(magic) == header # <<>> /\ header[1] = magic

\* bytes.decode("utf-8-sig") succeeds.
Decodes(bytes) ==
  \A i \in DOMAIN bytes :
    /\ bytes[i] = "lead" => i < Len(bytes) /\ bytes[i + 1] = "continuing"
    /\ bytes[i] = "continuing" => i > 1 /\ bytes[i - 1] = "lead"

IsText(bytes) == "nul" \notin ToSet(bytes) /\ Decodes(bytes)

\* detect_content_type: suffix and sample must agree; looks_like_text has the
\* sample, looks_like_xlsx opens the file.
DetectedType ==
  CASE file.suffix = ".pdf" /\ StartsWith("%PDF-") -> "pdf"
    [] file.suffix = ".xlsx" /\ StartsWith("PK") /\ file.workbook = "yes" -> "xlsx"
    [] file.suffix = ".xlsx" /\ StartsWith("PK") /\ file.workbook = "raises" -> "unexpected"
    [] file.suffix = ".csv" /\ IsText(header) -> "csv"
    [] OTHER -> "unsupported"

\* The upload is accepted with its type, or refused and unlinked. An exception
\* nobody expects ends the request with the upload left where it is.
DetectType ==
  /\ intake = "saved"
  /\ IF DeclaredFits /\ DetectedType # "unsupported"
     THEN intake' = DetectedType /\ UNCHANGED stored
     ELSE Refuse("unsupported")
  /\ UNCHANGED <<file, read, header>>

IntakeNext == ReadChunk \/ ReadFails \/ EndOfUpload \/ DetectType

-----------------------------------------------------------------------------
(* Properties *)

\* An upload that is taken is in the volume as it was sent, within the limit,
\* and was judged by its own first bytes; one that is refused, at whatever
\* chunk, leaves nothing there. Up to then no more than the limit is written, and
\* what an unexpected exception leaves behind is whole.
KeptWholeOrNotAtAll ==
  /\ intake \in Types \cup Whole => /\ stored = file.bytes
                                   /\ read = Len(stored)
                                   /\ header = Part(stored, 0, HeaderSize)
  /\ intake \in Refusals => stored = Nothing
  /\ intake \notin Refusals => Len(stored) <= MaxFileSize

\* README 418: a .csv upload that is "UTF-8-clean text" is not refused for its
\* type.
CleanTextIsAccepted ==
  file.suffix = ".csv" /\ DeclaredFits /\ IsText(file.bytes) => intake # "unsupported"
-----------------------------------------------------------------------------
(* Inductive strengthening *)

\* What is stored is what has been read, and the sample the first of it. A round
\* that goes past the limit is the last.
IntakeInv ==
  /\ file \in Files /\ read \in 0..Len(file.bytes) /\ header \in Seq(Bytes)
  /\ intake \in {"saving"} \cup Whole \cup Types \cup Refusals
  /\ intake \in Refusals => stored = Nothing
  /\ intake \notin Refusals =>
       /\ read <= MaxFileSize
       /\ stored = Part(file.bytes, 0, read)
       /\ header = Part(stored, 0, HeaderSize)
  /\ intake \in Types \cup Whole => read = Len(file.bytes)
  /\ intake \in Types => file.suffix = CASE intake = "pdf" -> ".pdf"
                                         [] intake = "xlsx" -> ".xlsx"
                                         [] intake = "csv" -> ".csv"
=============================================================================
