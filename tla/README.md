# A verification of the document annotation service

TLA+ models of the service in this repository, checked with TLC, and proofs of
all their safety and refinement properties for every value of the
constants, checked with TLAPS. Line numbers refer to
the files of the repository (`app/...`, `README.md`).

## The system

| Component | Code | State | Operations |
|---|---|---|---|
| Job table and queue | `app/queue.py`, `app/models.py` | one row of `document_jobs` per job: status, stage, attempts, lock, next attempt, error, outputs | claim, set stage, store extraction, store annotation, complete, fail, retry or fail, sweep |
| Worker | `app/worker.py` | the flag `running`, the time of the next sweep, the job in hand | the main loop, `process_claimed_job` with its four exception handlers, the sweeper, the signal handler |
| Upload API | `app/main.py`, `app/storage.py`, `app/annotation_tasks.py` | the upload volume; it inserts rows | `POST /documents`; `GET /jobs/{id}` only reads |
| File validation | `app/file_validation.py` | none | accept or reject an upload by signature and extension |
| Extractors | `app/extractors/` | none | PDF, CSV and XLSX to text, pages and sheets, or an `ExtractionError` |
| Annotators | `app/annotators/` | the state of one agent run | `mock`, `single_call`, and the agent graph plan → act → verify → finalize |
| Database session, migrations | `app/db.py`, `alembic/` | the connection pool, the schema | sessions, COMMIT |
| Job view | `app/schemas.py` | none | `GET /jobs/{id}` shows a row |
| Settings, cost, logging | `app/config.py`, `app/cost.py`, `app/logging_config.py` | none | read only |

The parts meet in two places and call each other nowhere else: the API and the
workers share the *table*, which is the queue, and the *volume* that holds the
uploads. A worker calls extractor and annotator synchronously, inside one
attempt at a job.

What is hard about it:

* **Claims and locks.** A claim is one `UPDATE ... FOR UPDATE SKIP LOCKED` and a
  COMMIT. Every later statement of the attempt says `WHERE id = :job_id` and
  nothing about owner or status. The lock columns are a lease that expires after
  `WORKER_STALE_AFTER_SECONDS` and that no statement renews or checks.
* **Crashes.** A worker may die between any two commits. Only `locked_at` and
  the sweep bring the row back; there is no heartbeat, and a handler that
  fails to record a failure leaves the same trace as a crash.
* **Lost acknowledgements.** A COMMIT that was applied may still raise. The last
  handler of `process_claimed_job` then treats a finished job as one to retry,
  and the upload handler removes the file of a row that exists.
* **The attempt budget** is read in one statement and acted on in another, and
  the claim does not look at it.
* **Idempotency keys.** File, row and key are three states written one after
  the other, in processes that race.
* **ORM flushes.** The outputs are written through a session that was opened
  when the attempt began, and only the columns that differ from what it loaded.
* **Bytes and limits.** A document is cut six times on its way: chunk, type
  sample, sample rows, extracted text, prompt, window of a citation. Each cut may
  lose what the next step, or the reader, takes to be there.
* **Claims of the language model.** A citation may come with the status
  `verified` from the model; only the code's own lookup may decide, within a
  cap on lookups and a deadline.

`PROJECT.json` lists these, line by line, as hazards with the properties that
watch over them.

What makes each part correct:

* *Queue and workers*: no job is processed by two workers at once; a worker in
  the pipeline is the owner its row names; attempts stay within the budget;
  `completed` means that both outputs are there, of the last attempt, without
  an error; a final row never changes; every queued job is settled.
* *Upload API*: the same key never stands for two jobs; a 202 names a recorded
  job of the same content, a 409 a real difference; a row never lacks its file.
* *Annotators*: a citation marked `verified` or `revised` is in the source at
  the place it names; verification loses none; an agent run is no later than
  one node takes, on a provider that answers in a bounded number of waits.
* *Intake, extractors and lookup*: an upload is kept whole or not at all, and
  judged by its own first bytes; what an extraction leaves out it warns of, but
  for sheets that understate their size; a column has the type of its values; a quotation that is there is found.
* *The whole*: a job whose INSERT was committed is settled, whatever became of its
  client, and a worker finds the upload of every job that was not stranded by a
  lost acknowledgement.

## The modules

| Module | What it is |
|---|---|
| `JobTable` | a row of `document_jobs` and what each SQL statement writes into it: one operator on rows per statement |
| `WorkerPool` | workers, table, signals, crashes, time; extends `JobTable` |
| `JobLifecycle` | abstract: what a client that polls may see of a job; `WorkerPool` implements it while attempts are prompt |
| `OutputColumns` | the result and usage columns as the ORM session flushes them; extends `WorkerPool` |
| `WorkerPoolProofs` | theorems about the pool that hold whatever the timing |
| `WorkerPoolPromptProofs` | those that need prompt attempts, and the refinement of `JobLifecycle` |
| `OutputColumnsProofs` | the columns of a completed row are of one answer |
| `IdempotentSubmit` | abstract: what `POST /documents` promises a client that retries |
| `UploadApi` | the handler of `POST /documents`, step by step; implements `IdempotentSubmit` |
| `IdempotentSubmitProofs` | the promise is idempotent: one key, one job |
| `UploadApiProofs` | the handlers keep the promise; answers, files and races |
| `Service` | `UploadApi` and `WorkerPool` over one table and one volume |
| `ServiceProofs` | what is proved of the parts holds of the two together, and the file a worker looks for is there |
| `Citations` | a claim of the model, its repair, and the verdict on it, over an abstract source |
| `AnnotationRun` | one call of `Annotator.annotate`: modes, deadline, tool calls, citations; extends `Citations` |
| `AnnotationRunProofs` | provenance of citations, and how late a run may be |
| `FileIntake` | the bytes of one upload: chunks, limit, sample, type detection |
| `DocumentText` | operators: what the extractors keep of a document, and how a quotation is looked up in it |
| `Document` | one document from its bytes to one citation; extends `FileIntake` and `DocumentText`, and its lookup implements that of `Citations` |
| `DocumentProofs` | intake, extraction, column types and lookup, for documents of any size |
| `MCWorkerPool`, `MCOutputColumns`, `MCUploadApi`, `MCService`, `MCAnnotationRun`, `MCDocument` | instances for TLC |

How they fit together: `Service` puts `UploadApi` and `WorkerPool` side by side.
What `WorkerPool` calls a result is refined by `OutputColumns`, what it calls an
extraction and `UploadApi` a file or a rejection by `Document`, and what it calls
an annotation by `AnnotationRun`. `Citations` is the seam between the last two:
`AnnotationRun` runs on its abstract verdict, and `Document` shows that the
lookup over words gives no other (`LookupAsAbstracted`, proved as `LookupRefines`).

A definition whose name holds an underscore is a broken variant of the
definition after it (`Sweepable_AnyAge` of `Sweepable`). No specification uses
one; each is a slip that one property is known to catch, listed under
"mutants" in `PROJECT.json`.

### JobTable and WorkerPool

`jobs[j]` is the row of job `j`; `task[w]` is where worker `w` stands, with the
job in its hands, the attempt it counts and the error it has to record;
`running[w]` is the flag of `handle_shutdown`. An action is one statement with
its COMMIT or a step between two of them:

| Action | Code |
|---|---|
| `Sweep` | `run_sweeper`, `sweep_stale_jobs`; both UPDATEs are one transaction |
| `SelectNextJob`, `ClaimNextJob`, `PollEmpty` | the claim's UPDATE, its COMMIT, and a poll that finds nothing |
| `UpdateJobStage`, `StoreExtraction`, `StoreAnnotation`, `CompleteJob` | the statements of `process_claimed_job`, in the order of `NextStage` |
| `WorkRaises` | the file check, the extractor or the annotator raises, and the handler that catches it |
| `RetryOrFailJob`, `RequeueJob`, `FailJob` | the two halves of `retry_or_fail_job`, and `fail_job` |
| `HandleShutdown`, `StopWorker`, `Crash`, `Restart` | signals and the life of a process |
| `Submit`, `LockGoesStale`, `BackoffElapses` | the API's INSERT and the clock |

`Commit` gives every statement its three outcomes: applied, failed, and (with
`LostAcks`) applied although the call raises. `SelectNextJob` keeps the row
lock of the claim: other claims skip the row and other statements wait for it.
A row counts as touched by any worker that holds its job, so that `SKIP LOCKED`
may pass over an older job whose row is locked by a statement in flight.

Abstractions: a timestamp is kept as its comparison with `now()`; an extraction
is there or not; a result is the number of the attempt that produced it, so two
attempts are taken to give different results (`OutputColumns` drops that). `WORKER_ID` is not modelled as a
setting: `locked_by` is written and never read. A stale lock needs an attempt
longer than `WORKER_STALE_AFTER_SECONDS` (`SlowWorkers`) or a worker that no
longer works on the job. A single worker is never slow in this sense, since it
sweeps between its own jobs: the overlap needs two.

### JobLifecycle

`Seen` reads the life of a job off its row: status, attempts, and whether it failed
because its attempts were used up. Against that, `JobLifecycle` allows tries
only one after the other and up to `MaxAttempts`, each ending in success, in an error
of its own, in another try or, after the last one, in exhaustion. The one thing
a lost acknowledgement adds is that a success may be tried again
(`MayGoOn`). Sweeping several jobs is one step, as it is one statement.

### OutputColumns

The module adds to every step of `WorkerPool` what it does to the columns `result`
and `usage` and to the session of the worker. A session loads a row once, in
`LoadJob` (`db.get`), and is closed with the attempt (`SessionAfter`);
`expire_on_commit` is off, so it goes on believing what it has loaded. `Flushed`
leaves out the columns that are set to what the session believes is there. A
result and a bill may agree with an earlier attempt's by chance: both have two
values. `output` is what the columns were last meant to be. The property needs
prompt attempts: with slow workers two sessions overlap, and a row can end up
with the result of one attempt and the usage of another. `extraction` has no
such partner column. Every step of the module is one of the pool or a stutter of it
(`PoolSteps`), so that the pool's invariants hold here.

### UploadApi and IdempotentSubmit

A request is also its job, its row and its file. `save_upload` awaits; from its
return to the answer the handler runs without awaiting (the database calls are
synchronous), so in one process nothing else moves: `LoopFree`. Another process
or a worker may move between any two of its steps, the COMMIT and the cleanup
after it included: `InsertRow` ends at `conflict` (an `IntegrityError`), at
`failing` (any other error of the database, whether the row is there or not) or
at `committed`, and `RereadKey`, `Unavailable` or `Respond` goes on from there.
Two exceptions are caught nowhere and leave the file behind a 500: an error of
the database in the key lookup, and what opening an `.xlsx` upload as an archive
raises beyond `BadZipFile` and `OSError` (`file_validation.py:62`), in `RejectType`. Processes share
the volume and the database. `AnswerFromRows` is the comparison both branches
make with the row that has the key. `Contents` stands for the pair of sha256 and
annotation tasks. A key text carries the spaces `resolve_idempotency_key`
strips after it has compared header and form field.

`IdempotentSubmit` knows no files, processes or races: a ledger in which a key
occurs once, and answers that agree with it. The refinement mapping
(`Promise`) reads `asked` and `answer` off the requests and takes the rows for
the ledger; saving, looking up, unlinking and crashing are stutters.

### Service

The rows of `UploadApi` are the rows of `WorkerPool` that are no longer `absent`, and
its INSERT is `WorkerPool`'s `Submit`; every other step of one side leaves the
other alone. `FileChecked` ties the file check of a worker to the volume: it
passes on a whole file only, and raises `FILE_NOT_FOUND` only of one that is gone.
One budget covers the faults of both sides. A row is *stranded* when its
INSERT was committed and its client told 503 (finding 2 below): the handler has removed
its file, and the property of the volume excepts it.

### AnnotationRun and Citations

One run in one of the three modes. `Source` (of `Citations`) is the document: for each place the
snippets found there. `draft` is what the model's answer is after
`validate_annotation_payload`, `checked` what the loop of `_verify` has been
through, `result` what is returned. `VerifyCitation` leaves open which window
of the source `closest_source_window` picks, and whether one is close enough.

Time is counted in ticks. Every local step may take up to `Pause` (`LocalStep`),
those between the last look at the deadline and the call, and the validation
after it, included. A call has a limit (`CallLimit`: what is left of the run, and
never less than `MinCall`, the 1.0 s of `agent.py:177` and `207`), but the code
passes it on as one number, which the client takes for each wait by itself: for
the pool, for the connection, to write, for each chunk it reads. No code bounds
how many there are. `Waits` does so in the model, an assumption on
the provider named `WaitsAssumption`. The clients are made without `max_retries`, so they
send a call `ClientTries` times, each with the whole limit for each wait, and pause in
between: `CallTime`.

### FileIntake, DocumentText and Document

`FileIntake` is the loop of `save_upload` over chunks, then
`validate_declared_content_type` and `detect_content_type`. A byte is one of what the
code tells apart: plain, NUL, the two halves of a character of two bytes, a
magic number. `DocumentText` has a text as a sequence of words; the limits in
characters (60,000 of text, 24,000 of prompt, 240 of a snippet) are limits
in words, and case, white space and punctuation at the end of a word, which
`normalize_text` and `tokenize` deal with, are left aside. A cell is a word, and the
tests of `infer_type` are which of them it passes (`Parses`). `Document` runs one
upload through both: intake, extraction, prompt, and the lookup of one citation.
`FileIntake` ends in a type, in a refusal, or, where opening an archive raises
what nobody catches, in `unexpected`: the upload then stays in the volume, whole.
There are two prompts: `BuildAgentPrompt` flags its cut
(`agent_context_truncated`), `BuildSingleCallPrompt` leaves no trace of it, and
only the agent looks citations up. A sheet declares a number of rows, which may be
what it has, none, fewer or more.

`Kept` takes the elements of a sequence at given positions; it is what the filters
of the extractors do, written with `FlattenSeq`, so that a proof can count
and collect what is kept.

What the models of these parts leave to the reader of the code:

* The 240 characters of a revised snippet are the beginning of the window, and may
  end before the words it was chosen for.
* `spreadsheet.py:39` takes the declared dimension of a sheet for its
  length. A workbook that declares none, or fewer rows than it has, is sampled
  without a warning, and its other rows are lost silently. `LossIsWarned` excepts just
  the sheets with more rows than the sample that declare no more than the sample
  holds (`Understated`); without that exception TLC finds the loss in the instances
  of `MCDocument`. Columns to the right of a declared width are not read either;
  the `content` of an upload is without them.
* The agent's prompt does not carry the warnings of the extraction; that of a
  single call does. `LossIsWarned` is about what is stored with the job.
* `README.md:471` has XLSX columns with inferred types; only `csv.py` infers them.

## The runs

| Run | Bounds | Shows |
|---|---|---|
| `WorkerPool_any` | 2 workers, 1 job, 2 attempts, 2 faults, slow workers, lost COMMITs | what holds whatever the timing |
| `WorkerPool_prompt` | `OutputColumns`: 2 workers, 1 job, 3 attempts, 3 faults, lost COMMITs, 2 results, 2 bills | exclusion, ownership, budget, last attempt, one answer's columns; final rows; `JobLifecycle` is implemented; all while attempts are prompt |
| `WorkerPool_live` | 2 workers, 2 jobs, 1 fault | every queued job is settled; a signalled worker stops |
| `WorkerPool_slow_status` | slow workers | *violation*: work starts on a finished job |
| `Service_live` | 2 uploads of one key, one to each of 2 processes, 2 workers, 2 attempts, 1 fault, lost COMMITs | no worker misses an upload; every inserted job is settled |
| `UploadApi_race` | 3 requests, 2 processes, 1 key, 2 contents, 2 faults, lost COMMITs | answers agree with the table, rows have their files, `IdempotentSubmit` is implemented |
| `UploadApi_lost_ack` | 2 requests, 1 fault | *violation*: a 202 for a job without its file |
| `AnnotationRun_runs` | 3 citations, 2 tool calls, 8 kinds of claim, Timeout 3, MinCall 2, Pause 1, 2 tries of 2 waits each | provenance of citations, and how late a run ends |
| `AnnotationRun_bound` | 1 citation, Timeout 3, MinCall 2, Pause 1, 1 try of 1 wait | *violation*: a run past `LLM_TIMEOUT_SECONDS` by more than a local step |
| `Document_journey` | uploads of up to 6 bytes, chunks of 2, sample of 3, limit 5; tables of up to 2 by 2 and 4 rows, sample of 3; texts around the limits 8 and 6; windows of 4 at every 2nd word, quotations of up to 3 words and three long ones; sheets that declare what they have, nothing, less and more | whole or not at all; what an extraction leaves out is warned of; column types; the lookup |
| `Document_prompt_cut` | as above | *violation*: 7 words cut to 6 for a prompt, without a warning |
| `Document_clean_text` | as above | *violation*: clean UTF-8 refused for a character across the end of the sample |

Why the bounds are enough. A race over a job or a key is between two actors, and
a third request is the one that comes back to an answer the first two have
settled. Two faults let a crash or a lost COMMIT follow another one. Two
attempts are the least with a retry and a last one; three, as in the column
default, add a retry that is neither. With two workers the overrun the code
allows is one attempt, which is the bound `AttemptOverrunBounded` states, and
which the proof gives for any number of workers. Symmetry (workers, requests,
processes, keys, contents, results, bills) is used for safety runs only.

`Service_live` has the two uploads in two processes, since two in one are one event
loop and never in a race (`LookupDecides`, in `UploadApi_race`); both have the one key, which makes the second
a retry of the first or a rival. One fault leaves one process and
one worker at least. In `Document` each limit is met, missed by one and exceeded:
a sample of 3 with chunks of 2 ends inside a chunk, a limit of 5 bytes inside another,
texts of 7 to 11 words lie around the limits, and a window of 4 at every 2nd
word leaves quotations that lie across any of its edges. `CloseEnough` takes 2 of
up to five terms and 3 of the long quotations' six or seven.

`CHECK_DEADLOCK FALSE` is set where the system really stops: all requests are
answered, or the run has returned or raised.

Prompt attempts (`SlowWorkers = FALSE`) are an assumption on the configuration and
on the provider. An attempt makes one model call, which the client sends three
times at most. With the defaults each of its waits is limited to 60 s, and a
lock goes stale after 600 s, so an attempt whose tries take up to three waits
each is prompt. A provider that trickles its answer may take longer: nothing
bounds the time of a try, and `config.py` checks no relation between the settings.

### Fairness

A worker that can take a step takes one (`WF_vars(WorkerStep(w))`): its waits
are the poll interval and calls with a timeout, and it is a process of its own.
Locks go stale and backoffs elapse because time passes. Nothing is assumed of
clients, nor that a dead worker is restarted: `docker-compose.yml` sets no
restart policy. Two workers and one fault leave one running. In `UploadApi` the
event loop runs every handler that can go on; `Service` assumes both of its
parts and nothing more. That a call of the annotator and one of the database
return is part of `WorkerStep`: `app/db.py` sets no statement timeout, and the
limit of a model call is one on each wait. `AnnotationRun` and `Document` have
safety properties only and assume no fairness.

### What the violations say

1. No job status is checked before processing (`README.md:446`).
2. A COMMIT applied but not acknowledged leaves a row without its file, and a
   retry with the same key is accepted for it (`tests/test_upload.py:33`,
   `README.md:444`).
3. An agent run can exceed `LLM_TIMEOUT_SECONDS` (`README.md:439`), even if its one
   call is sent once and waits once: `MinCall` is given to a call that starts just
   ahead of the deadline. What holds instead is `OverrunBounded`: the excess
   is less than the longest node takes, the client's own retries included, and
   only as long as `WaitsAssumption` is true of the provider.
4. A text between 24,000 and 60,000 characters is cut for the prompt and no
   `warnings` entry is made (`README.md:349`, `README.md:472`): the limit of the
   prompt is one number (`base.py:10`), that of the warning another
   (`extractors/base.py:27`). The agent at least sets `agent_context_truncated`; a
   single call leaves no trace.
5. A valid UTF-8 file is refused with 415 when a character lies across byte 8,192
   (`README.md:418`).

More departures follow from the models and have no run of their own.
`UNKNOWN_WORKER_ERROR` is retried only when it comes from the annotator or
from an exception of no class of its own: `README.md:436` lists it as retryable, and
the file check (`queue.py:255`) and `extract_pdf` raise it as errors that fail the
job at once (`WorkRaises`, with the classes in `FileErrors` and
`ExtractionErrors`). With slow
workers a job may get more than `max_attempts` attempts (`AttemptOverrunBounded`
says how many). A database error in the key lookup, and an unexpected one in
opening an archive, is a 500 that
`README.md:625` does not list and that leaves its file behind (the exception in
`OrphansOnlyFromErrors`).

`TerminalIsFinal` needs prompt attempts, and has one exception: with a lost
acknowledgement in `complete_job`, the worker's own handler queues the job again
after a client could see it completed. `CompletedByLastAttempt` says that what
it shows when it completes again is consistent. In the same way `RowHasFile`
excepts the row of finding 2.

## The proofs

Every invariant, action property and refinement of the passing runs is a theorem,
for all values of the constants; what remains with TLC is named at the end of this
section. The assumptions are those the modules state (finitely many
workers, numbered jobs, a positive `MaxAttempts`, positive sizes and steps, a content
of the type its parser returns; for `OverrunIsBounded` alone the numbers `Waits` and
`Pause`, of which `WaitsAssumption` is one on the provider) and, where it is said, prompt attempts
(`~SlowWorkers`). The inductive invariants stand in the modules they are about, under
*Inductive strengthening*, and each was checked with TLC on the instance of its
run before it was proved.

**`WorkerPoolProofs`**: slow workers, lost COMMITs, crashes and signals included.

* `TypeCorrect`. The invariant is `TypeInv`: `TypeOK` needs to know that a worker
  with a job holds one that exists, and that a handler has an error to record
  (`TasksInOrder`).
* `OutputCorrect`: a completed row has its outputs. `OutputInv` adds what each
  worker past a store has stored: since no statement ever takes an output away, a
  slow worker cannot break it either.
* `AttemptOverrun`: `attempts <= MaxAttempts + Cardinality(Workers) - 1`.
  `ClaimInv` is about a claim between its UPDATE and its COMMIT. `OverrunInv`
  weighs the attempts of a queued row against the workers that have read
  `attempts` and are about to re-queue: the k-th claim beyond the budget uses up
  the k-th of them.
* `LockColumnsCorrect`: a row is in `processing` exactly while both lock columns
  are set. `ProcessingIsLocked` is inductive over `TypeInv`: the lemma `RowChanges`
  says that each step changes a row as one of the operators of `JobTable` does,
  and each of them sets or clears status and lock together.
* `ExhaustionCorrect`, `TransientErrorsCorrect`. `ErrorInv` extends both to the
  error a handler has in hand (`MayRecord`): its UPDATE may come when others have
  moved the row, but attempts never go down.

**`WorkerPoolPromptProofs`**, under `~SlowWorkers` and with lost COMMITs:

* `MutualExclusionCorrect`, `OwnershipCorrect`, `AttemptBudgetCorrect`,
  `LastAttemptCorrect`. `PromptInv` says that a worker at work on a job is its row's
  owner, under a fresh lock, on the attempt the row counts (`Owns`, `Held`), and
  that a row which is queued has attempts left (`WithinBudget`). A handler that
  follows a lost COMMIT is the one case in which a worker holds a job that may
  be completed already.
* `OutcomesStay`: `TerminalIsFinal`, as an action property. `HistoryInv` says which
  handlers can find their job completed (`Reached`), and that only a queued row
  waits for its next attempt.
* `PoolKeepsLifecycle`: the refinement of `JobLifecycle`. `LifeInit` and `LifeStep`
  map the initial states and, under `PoolInv` (all of the above), each step: a
  claim is a try, a final UPDATE an outcome, a sweep a sweep of several jobs, all
  else a stutter.

**`OutputColumnsProofs`**:

* The lemma `PoolSteps`: every step with the columns is a step or a stutter of the
  pool, so that `PoolInv` holds here. That every behaviour of the pool is one with
  columns, the converse, is not claimed.
* `OneAnswersColumns`, under `~SlowWorkers`. `ColumnsInv` says that a session
  believes what is there (`SessionFits`), so that what a flush leaves out is there
  already; `ResultsInv` that the result in a row is older than the attempt in
  progress, so that `store_annotation` is seen to change the row.

**`IdempotentSubmitProofs` and `UploadApiProofs`**, for any number of requests,
processes and keys, with faults and lost COMMITs:

* `PromiseIsIdempotent`: under the promise, requests accepted under one key are told
  one job and were for one upload. `PromiseInv` is that a recorded job's key is
  its own and that answers agree with the ledger, also later.
* `UploadTypes`, `UploadKeepsPromise`: the refinement of `IdempotentSubmit`.
  `UploadInv` says of each handler that it has told nothing before its answer, that
  its row is there once its INSERT returned, and that one that lost the race
  for a key has a row to read (`InOrder`): without the last, the answer of
  `RereadKey` could be a conflict with nothing. One lemma per kind of step names the
  step of the promise.
* `OneKeyOneJob`, `AcceptedJobs`, `ConflictsAreReal` are `PromiseInv` carried over
  by that refinement, not proved again for the handlers.
* `QueuedWithFile`, `FilesRemoved`. `FileInv` adds what is stored for a request at
  each point of its handler (`Stored`).
* `RacesCrossProcesses`: `LookupDecides`. `LoopInv` says that one handler at a time
  runs on an event loop and that a key found free stays free for that process
  until the INSERT.

**`ServiceProofs`** instantiates both sides' proof modules over the shared table
and volume. `PartSteps` shows that every step of the service is a step or a stutter
of either part, so their invariants hold (`PartsInv`), and with them:

* `UploadsAreThere`. `FileErrorsInv` follows `FILE_NOT_FOUND` from the check that
  raises it to the row: it is of a stranded job all along.
* `ServiceKeepsPromise`, `ServiceKeepsLifecycle`: both abstract specifications hold
  of the service as a whole.

**`AnnotationRunProofs`**: `RunTypes`, `MarksAreGrounded`, `UncheckedIsWarned`,
`CitationsStay`, `CapSparesTheFirst`, `OverrunIsBounded`. `CitationsStay`
compares the result with the validated answer (`draft`): what `repair_citations`
drops of the raw one is in `Repaired`. `RunInv`
says what has been computed at each point of a run (`Progress`), what the
first verdicts are (`Verdicts`), and how late the run can be at each node
(`OnTime`). `AscendingOf` is the lemma on the order in which `repair_citations` keeps
what it keeps.

**`DocumentProofs`**, for documents, limits, windows and claims of any size. Its
first part are lemmas on sequences: `Flattened` says what `FlattenSeq` returns and
holds, `PartOf`, `StartOf`, `PartsJoin` and `SampleKept` what the cuts of a
sequence are, `KeptSeq` what a filter keeps. They rest on `UpTo`, an induction over
the members of `1..n` as a set.

* `KeptWhole`. `IntakeInv`: what is stored is what has been read, and the sample the
  first of it, whatever the chunks.
* `Typed`, `LossesAreWarned`, `TypesFit`. `WorkInv`: the worker has what it computed of
  the upload it took up. One lemma per extractor says that, without a warning,
  each word of the document is in its text (`PdfWords`, `CsvWords`, `XlsxWords`, the
  last but for the sheets that understate their size).
* `CloseMatches`: a run no longer than the overlap of two windows and one word
  lies in one of them (`RunInAWindow`), a larger window has no lower score
  (`ScoreGrows`), and the best window exists and is the one taken (`ClosestIsBest`).
* `LookupRefines`: what `verify_citation` makes of a citation is among what
  `Citations` lets it make. `CitationsAreGrounded` says what that means of the
  words: a quotation verified or revised is a run of the place named.

Only model-checked: the liveness properties (`QueuedJobSettles`,
`ShutdownCompletes`, `EveryJobSettles`), since the
prover has no rules for ENABLED and with it none for fairness. The five violations
are counterexamples, for which a run is the evidence. What the models abstract
(`Parses`, the outcome of a parser) is a constant in the proofs, so they hold of any.

## Not modelled

* The parsing of files (pypdf, openpyxl, the CSV sniffer): its outcome is the
  `content` of an upload, and it may raise.
* The wording of prompts, token counts, costs and logs: no state depends on them.
* `search_document` and `best_snippet` (`agent_tools.py`): no graph node calls them.
* The heuristics of the mock annotator: they cite nothing.
* An annotation beyond its citations.
* The read-only endpoints, the connection pool and the migrations.
* `UNSUPPORTED_FILE_TYPE` of the extractor dispatch, which cannot occur for an
  uploaded row, whose type was detected from the same list; it is left out of
  `ExtractionErrors`.

## Plan

1. Done: `JobTable`, `WorkerPool`, `UploadApi`, `IdempotentSubmit` and their
   proofs; `AnnotationRun`.
2. Done: `JobLifecycle`, `OutputColumns`, `Service`, `Citations`, `FileIntake`,
   `DocumentText`, `Document`.
3. Done: every safety property and refinement above as a theorem, with its
   inductive invariant; `DocumentProofs`, `ServiceProofs`, `OutputColumnsProofs`.
4. Left: liveness by proof, once the prover has rules for it; up to then it
   stays with the runs. A next step in the proofs is to put `Document` in the place of
   `Citations` within a run of the annotator, now that `LookupRefines` allows it.
