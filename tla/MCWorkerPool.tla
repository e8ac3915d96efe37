---------------------------- MODULE MCWorkerPool ----------------------------
(***************************************************************************)
(* Small instances of WorkerPool for TLC.                                  *)
(***************************************************************************)
EXTENDS WorkerPool, TLC

CONSTANTS w1, w2

\* One code for each way an attempt can end: a retried and a final annotator
\* error, an extraction error, and the code that can mean either.
OneOfEach == {"LLM_TIMEOUT", "LLM_SCHEMA_VALIDATION_FAILED",
              "PDF_TEXT_EXTRACTION_EMPTY", "UNKNOWN_WORKER_ERROR"}

JustRetry == {"LLM_TIMEOUT"}

\* Workers differ in their name only.
WorkerSymmetry == Permutations(Workers)
=============================================================================
