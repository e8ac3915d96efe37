------------------------------ MODULE JobTable ------------------------------
(***************************************************************************)
(* One row of document_jobs (app/models.py) and what each SQL statement of *)
(* app/queue.py writes into it.  The table is the queue: a job is claimed, *)
(* retried, swept and finished by UPDATEs of its row and by nothing else.  *)
(*                                                                         *)
(* Data the properties do not tell apart is abstracted: a timestamp is     *)
(* kept as its comparison with now(), the extraction as "stored or not",   *)
(* the result as the number of the attempt that produced it.               *)
(*                                                                         *)
(* A definition whose name holds "_" is a broken variant of the definition *)
(* after it: what a plausible slip in that statement would do.  No         *)
(* specification uses one; each is a fault some property must notice.      *)
(***************************************************************************)
EXTENDS Naturals

CONSTANTS Workers,       \* the worker processes (WORKER_ID)
          MaxAttempts    \* document_jobs.max_attempts

NULL == "NULL"

ASSUME MaxAttemptsAssumption == MaxAttempts \in Nat \ {0}
ASSUME WorkersAssumption == NULL \notin Workers

JobStatus == {"queued", "processing", "completed", "failed"}
Terminal == {"completed", "failed"}

\* The stages a worker commits while it processes a job, in order.
PipelineStages == {"validating_file", "extracting_text", "storing_extraction",
                   "calling_llm", "validating_output", "storing_result"}

Stages == PipelineStages \cup {"queued"} \cup Terminal

\* The codes the pipeline raises, by the class of the exception.
FileErrors == {"FILE_NOT_FOUND", "UNKNOWN_WORKER_ERROR"}
ExtractionErrors == {"PDF_TEXT_EXTRACTION_EMPTY", "SPREADSHEET_PARSE_FAILED",
                     "UNKNOWN_WORKER_ERROR"}
AnnotationErrors == {"LLM_TIMEOUT", "LLM_RATE_LIMITED",
                     "LLM_SCHEMA_VALIDATION_FAILED", "UNKNOWN_WORKER_ERROR"}

Retryable_NotTimeout == {"LLM_RATE_LIMITED", "UNKNOWN_WORKER_ERROR"}

\* is_retryable_annotation_error
RetryableAnnotationErrors ==
  {"LLM_TIMEOUT", "LLM_RATE_LIMITED", "UNKNOWN_WORKER_ERROR"}

ErrorCodes == FileErrors \cup ExtractionErrors \cup AnnotationErrors
                \cup {"MAX_ATTEMPTS_EXCEEDED"}

(***************************************************************************)
(* status = "absent" stands for a row whose INSERT has not committed.      *)
(* due is next_attempt_at <= now(); lockedAt is "stale" once locked_at is  *)
(* older than WORKER_STALE_AFTER_SECONDS; result = 0 is SQL NULL.          *)
(***************************************************************************)
Row == [status     : JobStatus \cup {"absent"},
        stage      : Stages,
        attempts   : Nat,
        lockedAt   : {NULL, "fresh", "stale"},
        lockedBy   : Workers \cup {NULL},
        due        : BOOLEAN,
        error      : ErrorCodes \cup {NULL},
        extraction : BOOLEAN,
        result     : Nat]

\* The column defaults of the INSERT made by POST /documents.
QueuedRow == [status |-> "queued", stage |-> "queued", attempts |-> 0,
              lockedAt |-> NULL, lockedBy |-> NULL, due |-> TRUE,
              error |-> NULL, extraction |-> FALSE, result |-> 0]

AbsentRow == [QueuedRow EXCEPT !.status = "absent"]

ClaimedRow_OldError(row, w) ==
  [row EXCEPT !.status = "processing", !.stage = "validating_file",
              !.lockedAt = "fresh", !.lockedBy = w, !.attempts = row.attempts + 1]

\* CLAIM_NEXT_JOB_SQL, the UPDATE part.
ClaimedRow(row, w) == [row EXCEPT !.status = "processing",
                                  !.stage = "validating_file",
                                  !.lockedAt = "fresh",
                                  !.lockedBy = w,
                                  !.attempts = row.attempts + 1,
                                  !.error = NULL]

Unlocked(row) == [row EXCEPT !.lockedAt = NULL, !.lockedBy = NULL]

\* complete_job: error columns are left as they are.
CompletedRow(row) ==
  [Unlocked(row) EXCEPT !.status = "completed", !.stage = "completed"]

\* fail_job
FailedRow(row, code) ==
  [Unlocked(row) EXCEPT !.status = "failed", !.stage = "failed", !.error = code]

RequeuedRow_NewStatus(row, code) ==
  [Unlocked(row) EXCEPT !.status = "retrying", !.stage = "queued",
                        !.due = FALSE, !.error = code]
RequeuedRow_Locked(row, code) ==
  [row EXCEPT !.status = "queued", !.stage = "queued", !.due = FALSE, !.error = code]

\* retry_or_fail_job, the re-queueing UPDATE: next_attempt_at lies 30 or 120
\* seconds ahead.
RequeuedRow(row, code) ==
  [Unlocked(row) EXCEPT !.status = "queued", !.stage = "queued",
                        !.due = FALSE, !.error = code]

Sweepable_AnyAge(row) == row.status = "processing"

\* The WHERE clause both UPDATEs of sweep_stale_jobs share.
Sweepable(row) == row.status = "processing" /\ row.lockedAt = "stale"

SweptRow_OneMore(row) ==
  IF ~Sweepable(row) THEN row
  ELSE IF row.attempts <= MaxAttempts
       THEN [Unlocked(row) EXCEPT !.status = "queued", !.stage = "queued",
                                  !.due = TRUE]
       ELSE FailedRow(row, "MAX_ATTEMPTS_EXCEEDED")
SweptRow_RequeueOnly(row) ==
  IF ~Sweepable(row) \/ row.attempts >= MaxAttempts THEN row
  ELSE [Unlocked(row) EXCEPT !.status = "queued", !.stage = "queued", !.due = TRUE]

\* sweep_stale_jobs: attempts left decides between the two UPDATEs.
SweptRow(row) ==
  IF ~Sweepable(row) THEN row
  ELSE IF row.attempts < MaxAttempts
       THEN [Unlocked(row) EXCEPT !.status = "queued", !.stage = "queued",
                                  !.due = TRUE]
       ELSE FailedRow(row, "MAX_ATTEMPTS_EXCEEDED")
=============================================================================
