-------------------------- MODULE MCOutputColumns ---------------------------
(***************************************************************************)
(* A small instance of OutputColumns for TLC: an annotator with two        *)
(* answers and two bills.                                                  *)
(***************************************************************************)
EXTENDS OutputColumns, TLC

CONSTANTS w1, w2, a1, a2, u1, u2

OneOfEach == {"LLM_TIMEOUT", "LLM_SCHEMA_VALIDATION_FAILED",
              "PDF_TEXT_EXTRACTION_EMPTY", "UNKNOWN_WORKER_ERROR"}

OutputSymmetry == Permutations(Workers) \cup Permutations(Results) \cup Permutations(Usages)
=============================================================================
