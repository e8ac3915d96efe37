----------------------------- MODULE WorkerPool -----------------------------
(***************************************************************************)
(* The worker processes (app/worker.py) competing for the rows of          *)
(* document_jobs (app/queue.py).  Every action is one committed statement, *)
(* one step between two of them, or an event of the environment: a crash,  *)
(* a signal, the passing of time, a failed statement.                      *)
(*                                                                         *)
(* Statements other than the claim update a row by its id alone, whatever  *)
(* its status and owner are, so a worker whose lock was swept keeps        *)
(* writing.  SlowWorkers says whether that can happen.                     *)
(***************************************************************************)
EXTENDS JobTable, FiniteSets

CONSTANTS Jobs,          \* job ids, numbered in created_at order
          Raised,        \* the error codes the pipeline raises in an instance
          MaxFaults,     \* bound on crashes, signals and failed statements
          SlowWorkers,   \* may an attempt outlive WORKER_STALE_AFTER_SECONDS?
          LostAcks       \* may a COMMIT be applied and still raise?

ASSUME FiniteWorkers == IsFiniteSet(Workers)
ASSUME JobsAssumption == Jobs \subseteq Nat \ {0}
ASSUME RaisedAssumption == Raised \subseteq ErrorCodes \ {"MAX_ATTEMPTS_EXCEEDED"}
ASSUME FaultsAssumption == MaxFaults \in Nat
ASSUME SwitchesAssumption == SlowWorkers \in BOOLEAN /\ LostAcks \in BOOLEAN

NoJob == 0

VARIABLES jobs,     \* the table: job id -> row
          task,     \* worker -> where its loop is and the job it holds
          running,  \* worker -> the flag handle_shutdown clears
          faults    \* faults so far

vars == <<jobs, task, running, faults>>

(***************************************************************************)
(* pc of a worker.  A stage name says which stage it committed last;       *)
(* "claiming" is between the UPDATE ... RETURNING of the claim and its     *)
(* COMMIT; "retrying" and "failing" are the exception handlers, and        *)
(* "requeueing" is retry_or_fail_job after it has read attempts.           *)
(***************************************************************************)
Pipeline == PipelineStages \cup {"claimed", "extraction_stored", "result_stored"}
Handlers == {"failing", "retrying", "requeueing"}
Processing == Pipeline \cup Handlers

Task == [pc      : Processing \cup {"idle", "polling", "claiming", "down"},
         job     : Jobs \cup {NoJob},
         attempt : Nat,
         err     : ErrorCodes \cup {NULL}]

Resting(pc) == [pc |-> pc, job |-> NoJob, attempt |-> 0, err |-> NULL]
Idle == Resting("idle")

Init == /\ jobs = [j \in Jobs |-> AbsentRow]
        /\ task = [w \in Workers |-> Idle]
        /\ running = [w \in Workers |-> TRUE]
        /\ faults = 0

-----------------------------------------------------------------------------
(* Statements and their failures *)

Fault == faults < MaxFaults /\ faults' = faults + 1

\* A job some other worker may hold the row lock of, in a statement in flight.
TouchedByOther(w, j) == \E v \in Workers \ {w} : task[v].job = j

LockedByClaim_NoLock(w, j) == FALSE

\* The lock a claim takes and keeps up to its COMMIT; statements wait for it.
LockedByClaim(w, j) ==
  \E v \in Workers \ {w} : task[v].pc = "claiming" /\ task[v].job = j

(***************************************************************************)
(* One statement of w on the row of its job, with its COMMIT.  It is       *)
(* applied and acknowledged; or the database call raises and the row is as *)
(* it was, or has been written all the same when the acknowledgement of    *)
(* the COMMIT is what was lost.                                            *)
(***************************************************************************)
Commit(w, row, acked, raised) ==
  LET written == [jobs EXCEPT ![task[w].job] = row]
  IN  /\ ~LockedByClaim(w, task[w].job)
      /\ \/ /\ jobs' = written
            /\ task' = [task EXCEPT ![w] = acked]
            /\ UNCHANGED faults
         \/ /\ Fault
            /\ jobs' = jobs \/ (LostAcks /\ jobs' = written)
            /\ task' = [task EXCEPT ![w] = raised]
      /\ UNCHANGED running

At(w, pc) == [task[w] EXCEPT !.pc = pc]

\* process_claimed_job, except Exception: any error without a class of its own.
UnknownError(w) == [task[w] EXCEPT !.pc = "retrying", !.err = "UNKNOWN_WORKER_ERROR"]

-----------------------------------------------------------------------------
(* The loop of main: sweep when it is due, then claim *)

\* run_sweeper: a sweep that raises is swallowed, and the loop goes on.
Sweep(w) ==
  /\ task[w].pc = "idle" /\ running[w]
  /\ task' = [task EXCEPT ![w] = Resting("polling")]
  /\ \/ /\ jobs' = [j \in Jobs |-> SweptRow(jobs[j])]
        /\ UNCHANGED faults
     \/ Fault /\ UNCHANGED jobs
  /\ UNCHANGED running

ReadyToClaim(w) == task[w].pc = "polling" \/ (task[w].pc = "idle" /\ running[w])

Claimable_AnyStatus(j) == jobs[j].status # "absent" /\ jobs[j].due

Claimable(j) == jobs[j].status = "queued" /\ jobs[j].due

\* CLAIM_NEXT_JOB_SQL: the oldest due row not locked by another statement.
SelectNextJob(w) ==
  /\ ReadyToClaim(w)
  /\ \E j \in Jobs :
       /\ Claimable(j) /\ ~LockedByClaim(w, j)
       /\ \A k \in Jobs : k < j /\ Claimable(k) => TouchedByOther(w, k)
       /\ task' = [task EXCEPT ![w] = [Idle EXCEPT !.pc = "claiming", !.job = j]]
  /\ UNCHANGED <<jobs, running, faults>>

\* No row is returned, or the claim raises: sleep and go round the loop.
PollEmpty(w) ==
  /\ task[w].pc = "polling"
  /\ \/ (\A j \in Jobs : Claimable(j) => TouchedByOther(w, j)) /\ UNCHANGED faults
     \/ Fault
  /\ task' = [task EXCEPT ![w] = Idle]
  /\ UNCHANGED <<jobs, running>>

\* claim_next_job, the COMMIT; claim_one returns the id.
ClaimNextJob(w) ==
  LET row == ClaimedRow(jobs[task[w].job], w)
  IN  /\ task[w].pc = "claiming"
      /\ Commit(w, row, [At(w, "claimed") EXCEPT !.attempt = row.attempts], Idle)

-----------------------------------------------------------------------------
(* process_claimed_job *)

\* The stage committed after each piece of work that has succeeded.
NextStage == [claimed            |-> "validating_file",
              validating_file    |-> "extracting_text",
              extracting_text    |-> "storing_extraction",
              extraction_stored  |-> "calling_llm",
              calling_llm        |-> "validating_output",
              validating_output  |-> "storing_result"]

\* update_job_stage: WHERE id = :job_id and nothing else.
UpdateJobStage(w) ==
  /\ task[w].pc \in DOMAIN NextStage
  /\ LET stage == NextStage[task[w].pc]
     IN  Commit(w, [jobs[task[w].job] EXCEPT !.stage = stage],
                At(w, stage), UnknownError(w))

StoreExtraction(w) ==
  /\ task[w].pc = "storing_extraction"
  /\ Commit(w, [jobs[task[w].job] EXCEPT !.extraction = TRUE],
            At(w, "extraction_stored"), UnknownError(w))

StoreAnnotation(w) ==
  /\ task[w].pc = "storing_result"
  /\ Commit(w, [jobs[task[w].job] EXCEPT !.result = task[w].attempt],
            At(w, "result_stored"), UnknownError(w))

CompleteJob_Early(w) ==
  /\ task[w].pc = "storing_result"
  /\ Commit(w, CompletedRow(jobs[task[w].job]), Idle, UnknownError(w))

CompleteJob(w) ==
  /\ task[w].pc = "result_stored"
  /\ Commit(w, CompletedRow(jobs[task[w].job]), Idle, UnknownError(w))

\* The file check, the extractor or the annotator raises; the handler that
\* catches it is chosen by the exception's class and, for the annotator, code.
\* An exception of no class of its own goes to the last handler.
WorkRaises(w) ==
  \E code \in Raised, handler \in {"failing", "retrying"} :
    /\ \/ /\ task[w].pc = "validating_file" /\ code \in FileErrors
          /\ handler = "failing"
       \/ /\ task[w].pc = "extracting_text" /\ code \in ExtractionErrors
          /\ handler = "failing"
       \/ /\ task[w].pc = "calling_llm" /\ code \in AnnotationErrors
          /\ handler = "retrying" <=> code \in RetryableAnnotationErrors
       \/ /\ task[w].pc \in {"validating_file", "extracting_text", "calling_llm"}
          /\ code = "UNKNOWN_WORKER_ERROR" /\ handler = "retrying"
    /\ task' = [task EXCEPT ![w] = [@ EXCEPT !.pc = handler, !.err = code]]
    /\ UNCHANGED <<jobs, running, faults>>

RetryOrFailJob_OneLess(w) ==
  /\ task[w].pc = "retrying"
  /\ IF jobs[task[w].job].attempts + 1 >= MaxAttempts
     THEN task' = [task EXCEPT ![w] =
                     [@ EXCEPT !.pc = "failing", !.err = "MAX_ATTEMPTS_EXCEEDED"]]
     ELSE task' = [task EXCEPT ![w] = At(w, "requeueing")]
  /\ UNCHANGED <<jobs, running, faults>>
RetryOrFailJob_OneMore(w) ==
  /\ task[w].pc = "retrying"
  /\ IF jobs[task[w].job].attempts > MaxAttempts
     THEN task' = [task EXCEPT ![w] =
                     [@ EXCEPT !.pc = "failing", !.err = "MAX_ATTEMPTS_EXCEEDED"]]
     ELSE task' = [task EXCEPT ![w] = At(w, "requeueing")]
  /\ UNCHANGED <<jobs, running, faults>>

\* retry_or_fail_job up to its decision: attempts is read in a transaction
\* that locks nothing.  A handler whose database call raises only logs.
RetryOrFailJob(w) ==
  /\ task[w].pc = "retrying"
  /\ \/ /\ IF jobs[task[w].job].attempts >= MaxAttempts
           THEN task' = [task EXCEPT ![w] =
                           [@ EXCEPT !.pc = "failing", !.err = "MAX_ATTEMPTS_EXCEEDED"]]
           ELSE task' = [task EXCEPT ![w] = At(w, "requeueing")]
        /\ UNCHANGED faults
     \/ Fault /\ task' = [task EXCEPT ![w] = Idle]
  /\ UNCHANGED <<jobs, running>>

RequeueJob(w) ==
  /\ task[w].pc = "requeueing"
  /\ Commit(w, RequeuedRow(jobs[task[w].job], task[w].err), Idle, Idle)

FailJob(w) ==
  /\ task[w].pc = "failing"
  /\ Commit(w, FailedRow(jobs[task[w].job], task[w].err), Idle, Idle)

-----------------------------------------------------------------------------
(* Signals, crashes, clients and time *)

\* SIGTERM or SIGINT at any point of the loop.
HandleShutdown(w) ==
  /\ task[w].pc # "down" /\ running[w] /\ Fault
  /\ running' = [running EXCEPT ![w] = FALSE]
  /\ UNCHANGED <<jobs, task>>

StopWorker_AfterSweep(w) ==
  /\ task[w].pc = "polling" /\ ~running[w]
  /\ task' = [task EXCEPT ![w] = Resting("down")]
  /\ UNCHANGED <<jobs, running, faults>>

\* while running: the flag is looked at between two jobs only.
StopWorker(w) ==
  /\ task[w].pc = "idle" /\ ~running[w]
  /\ task' = [task EXCEPT ![w] = Resting("down")]
  /\ UNCHANGED <<jobs, running, faults>>

\* SIGKILL or power loss; an open transaction is rolled back.
Crash(w) ==
  /\ task[w].pc # "down" /\ Fault
  /\ task' = [task EXCEPT ![w] = Resting("down")]
  /\ UNCHANGED <<jobs, running>>

Restart(w) ==
  /\ task[w].pc = "down"
  /\ task' = [task EXCEPT ![w] = Idle]
  /\ running' = [running EXCEPT ![w] = TRUE]
  /\ UNCHANGED <<jobs, faults>>

\* POST /documents commits its INSERT; created_at is the start of that
\* transaction, so rows may appear in another order.
Submit(j) ==
  /\ jobs[j].status = "absent"
  /\ jobs' = [jobs EXCEPT ![j] = QueuedRow]
  /\ UNCHANGED <<task, running, faults>>

\* A worker still working on the attempt its lock was taken for.
StillAtWork(j) == \E w \in Workers : task[w].job = j /\ task[w].pc \in Processing

LockGoesStale(j) ==
  /\ jobs[j].lockedAt = "fresh"
  /\ SlowWorkers \/ ~StillAtWork(j)
  /\ jobs' = [jobs EXCEPT ![j].lockedAt = "stale"]
  /\ UNCHANGED <<task, running, faults>>

BackoffElapses(j) ==
  /\ jobs[j].status # "absent" /\ ~jobs[j].due
  /\ jobs' = [jobs EXCEPT ![j].due = TRUE]
  /\ UNCHANGED <<task, running, faults>>

-----------------------------------------------------------------------------
WorkerStep(w) ==
  \/ Sweep(w) \/ SelectNextJob(w) \/ PollEmpty(w) \/ ClaimNextJob(w)
  \/ UpdateJobStage(w) \/ StoreExtraction(w) \/ StoreAnnotation(w)
  \/ CompleteJob(w) \/ WorkRaises(w) \/ RetryOrFailJob(w) \/ RequeueJob(w)
  \/ FailJob(w) \/ StopWorker(w)

Next == \/ \E w \in Workers : \/ WorkerStep(w)
                              \/ HandleShutdown(w) \/ Crash(w) \/ Restart(w)
        \/ \E j \in Jobs : Submit(j) \/ LockGoesStale(j) \/ BackoffElapses(j)

(***************************************************************************)
(* A live worker keeps taking steps: its waits are bounded by the poll     *)
(* interval and by the client timeouts of the annotator.  Time passes.     *)
(* Nothing is assumed of clients, and no restart: the compose file sets no *)
(* restart policy.                                                         *)
(***************************************************************************)
Fairness == /\ \A w \in Workers : WF_vars(WorkerStep(w))
            /\ \A j \in Jobs : /\ WF_vars(LockGoesStale(j))
                               /\ WF_vars(BackoffElapses(j))

Spec == Init /\ [][Next]_vars /\ Fairness

-----------------------------------------------------------------------------
(* Properties that hold whatever the timing and the faults *)

\* Types of the four variables.
TypeOK == /\ jobs \in [Jobs -> Row]
          /\ task \in [Workers -> Task]
          /\ running \in [Workers -> BOOLEAN]
          /\ faults \in 0..MaxFaults

\* A row is in "processing" exactly while both lock columns are set, whoever
\* wrote it last: the sweeper finds abandoned rows by locked_at alone, so a
\* processing row without it would never be recovered.
ProcessingIsLocked ==
  \A j \in Jobs : /\ jobs[j].status = "processing" <=> jobs[j].lockedAt # NULL
                  /\ jobs[j].lockedAt = NULL <=> jobs[j].lockedBy = NULL

\* GET /jobs/{id} never shows a completed job whose extraction or result is
\* missing, however often the attempt was cut short before and whichever
\* worker wrote the row in between.
CompletedHasOutput ==
  \A j \in Jobs : jobs[j].status = "completed" =>
                   jobs[j].extraction /\ jobs[j].result # 0

\* MAX_ATTEMPTS_EXCEEDED is only ever recorded of a row whose attempts are
\* used up, although attempts is read in another transaction than the one
\* that writes the code.
ExhaustedMeansExhausted ==
  \A j \in Jobs : jobs[j].error = "MAX_ATTEMPTS_EXCEEDED" =>
                   jobs[j].attempts >= MaxAttempts

\* An error that is always worth a retry never fails a job by itself: such a
\* job fails with MAX_ATTEMPTS_EXCEEDED, after its last attempt.
TransientErrorsNeverFail ==
  \A j \in Jobs : jobs[j].status = "failed" =>
                   jobs[j].error \notin {"LLM_TIMEOUT", "LLM_RATE_LIMITED"}

\* Workers past retry_or_fail_job's read of a job's attempts, on their way to
\* the UPDATE that re-queues it.
Requeuers(j) == {w \in Workers : task[w].job = j /\ task[w].pc = "requeueing"}

\* The claim checks no attempt budget, and the read and the UPDATE of
\* retry_or_fail_job are two statements: max_attempts can be overrun, by one
\* claim for each worker that read attempts while some were left.
AttemptOverrunBounded ==
  \A j \in Jobs : jobs[j].attempts <= MaxAttempts + Cardinality(Workers) - 1

-----------------------------------------------------------------------------
(* Properties that need attempts to be shorter than the stale timeout *)

\* No job is worked on by two workers at once.
MutualExclusion ==
  \A v, w \in Workers :
    task[v].pc \in Processing /\ task[w].pc \in Processing
      /\ task[v].job = task[w].job => v = w

\* A worker in the pipeline is the owner the row names, on the attempt the
\* row counts, at the stage the row shows.
PipelineOwnsRow ==
  \A w \in Workers : task[w].pc \in Pipeline =>
    LET row == jobs[task[w].job]
    IN  /\ row.status = "processing" /\ row.lockedBy = w
        /\ row.attempts = task[w].attempt
        /\ task[w].pc \in PipelineStages => row.stage = task[w].pc

\* The attempt budget is kept through retries, sweeps and lost COMMITs.
AttemptsWithinMax == \A j \in Jobs : jobs[j].attempts <= MaxAttempts

\* A completed job shows the result of its last attempt and no error.
CompletedByLastAttempt ==
  \A j \in Jobs : jobs[j].status = "completed" =>
    /\ jobs[j].result = jobs[j].attempts
    /\ jobs[j].error = NULL

\* Once a client has seen completed or failed, the row does not change, but by
\* the handler of the worker that never heard that its COMMIT was applied.
TerminalIsFinal ==
  [][\A j \in Jobs :
       jobs[j].status \in Terminal /\ jobs'[j] # jobs[j] =>
         LostAcks /\ \E w \in Workers : task[w].pc \in Handlers /\ task[w].job = j]_vars

\* What there is to see of a job from outside.
Seen(row) == [status |-> row.status, tries |-> row.attempts,
              exhausted |-> row.status = "failed" /\ row.error = "MAX_ATTEMPTS_EXCEEDED"]

Lifecycle == INSTANCE JobLifecycle WITH life <- [j \in Jobs |-> Seen(jobs[j])]

\* Every behaviour of the pool is one of JobLifecycle: no try beyond the last, no
\* two tries at once, no way back from an outcome, through crashes, sweeps, lost
\* COMMITs and read-then-write handlers.
KeepsLifecycle == Lifecycle!LSpec

-----------------------------------------------------------------------------
(* Liveness *)

\* Every queued job is completed or failed in the end, through crashes and
\* failed statements, as long as one worker is left running.
QueuedJobSettles ==
  \A j \in Jobs : jobs[j].status = "queued" ~> jobs[j].status \in Terminal

\* A worker that was told to stop finishes its job and stops.
ShutdownCompletes == \A w \in Workers : ~running[w] ~> task[w].pc = "down"

-----------------------------------------------------------------------------
(* What the README says of the queue and the code does not keep *)

\* "the worker checks job status before processing in case a sweeper requeued
\* a row that another worker is already finishing": process_claimed_job never
\* starts on a job that is completed or failed by then.
StatusCheckedBeforeProcessing ==
  [][\A w \in Workers :
       task[w].pc = "claimed" /\ task'[w].pc = "validating_file" =>
         jobs[task[w].job].status \notin Terminal]_vars

-----------------------------------------------------------------------------
(* Inductive strengthenings *)

\* A worker with a job holds one that has been submitted, and a handler has an
\* error to record.
TasksInOrder ==
  \A w \in Workers :
    /\ task[w].pc \in Processing \cup {"claiming"} =>
         task[w].job \in Jobs /\ jobs[task[w].job].status # "absent"
    /\ task[w].pc \in Handlers => task[w].err \in ErrorCodes

TypeInv == TypeOK /\ TasksInOrder

\* What a worker that got this far in the pipeline has stored.
AfterExtraction == {"extraction_stored", "calling_llm", "validating_output",
                    "storing_result", "result_stored"}

OutputOf(t, row) ==
  /\ t.pc \in Pipeline => t.attempt # 0
  /\ t.pc \in AfterExtraction => row.extraction
  /\ t.pc = "result_stored" => row.result # 0

OutputInv == /\ \A w \in Workers : OutputOf(task[w], jobs[task[w].job])
             /\ CompletedHasOutput

\* The row a claim has locked stays queued up to its COMMIT, and no other
\* claim has it.
ClaimInv ==
  \A w \in Workers : task[w].pc = "claiming" =>
    /\ jobs[task[w].job].status = "queued"
    /\ ~LockedByClaim(w, task[w].job)

\* Past the budget, every further claim uses up the row's place in the queue,
\* and only a worker that read attempts before can put it back.
Pending(j) == Cardinality(Requeuers(j)) + IF jobs[j].status = "queued" THEN 1 ELSE 0

OverrunInv ==
  \A j \in Jobs : jobs[j].attempts >= MaxAttempts =>
    jobs[j].attempts + Pending(j) <= MaxAttempts + Cardinality(Workers) - 1

\* An error a handler is about to record is one it may record, at whatever time
\* its UPDATE comes.
MayRecord(t, row) ==
  /\ t.err = "MAX_ATTEMPTS_EXCEEDED" => row.attempts >= MaxAttempts
  /\ t.pc = "failing" => t.err \notin {"LLM_TIMEOUT", "LLM_RATE_LIMITED"}

ErrorInv ==
  /\ \A w \in Workers : task[w].pc \in Handlers => MayRecord(task[w], jobs[task[w].job])
  /\ ExhaustedMeansExhausted
  /\ TransientErrorsNeverFail

\* With attempts shorter than the stale timeout: what a worker with a job may
\* rely on.  A handler may find the job completed, by a COMMIT of its own that
\* was applied and raised.
Owns(w, row) ==
  row.status = "processing" /\ row.lockedBy = w /\ row.lockedAt = "fresh"

Held(w, t, row) ==
  /\ t.pc \in Pipeline => Owns(w, row) /\ row.attempts = t.attempt
  /\ t.pc \in PipelineStages => row.stage = t.pc
  /\ t.pc = "result_stored" => row.result = row.attempts
  /\ t.pc \in Handlers => Owns(w, row) \/ row.status = "completed"
  /\ t.pc = "requeueing" => row.attempts < MaxAttempts

WithinBudget(row) ==
  /\ row.attempts <= MaxAttempts
  /\ row.status = "queued" => row.attempts < MaxAttempts
  /\ row.status = "processing" => row.error = NULL
  /\ row.status = "completed" => row.result = row.attempts /\ row.error = NULL

PromptInv ==
  /\ \A w \in Workers : Held(w, task[w], jobs[task[w].job])
  /\ \A j \in Jobs : WithinBudget(jobs[j])
  /\ MutualExclusion

\* A handler finds its job completed only by a COMMIT it never heard of, and
\* never when it is about to fail the job for an error of the pipeline.
Reached(t, row) ==
  /\ row.status = "completed" => LostAcks
  /\ t.pc = "failing" /\ t.err # "MAX_ATTEMPTS_EXCEEDED" => row.status = "processing"

\* Only a queued job waits for its next attempt, and not once it is claimed.
HistoryInv ==
  /\ \A w \in Workers :
       /\ task[w].pc \in Handlers => Reached(task[w], jobs[task[w].job])
       /\ task[w].pc = "claiming" => jobs[task[w].job].due
  /\ \A j \in Jobs :
       /\ jobs[j].status = "absent" => jobs[j].attempts = 0
       /\ jobs[j].status # "queued" => jobs[j].due
=============================================================================
