------------------------ MODULE OutputColumnsProofs ------------------------
(***************************************************************************)
(* A theorem about OutputColumns: the columns a flush leaves out are those *)
(* that need no UPDATE, while attempts are prompt.                         *)
(***************************************************************************)
EXTENDS OutputColumns, WorkerPoolPromptProofs

\* Whatever is done to the columns, a step is one of the pool.
LEMMA PoolSteps == [OutputNext]_<<vars, outputVars>> => [Next]_vars
<1>1. \A w \in Workers : StoreOutput(w) => Next
  BY DEF StoreOutput, Next, WorkerStep
<1>2. QED
  BY <1>1 DEF OutputNext, OtherStep, LoadJob, vars

-----------------------------------------------------------------------------
(* The attempt a result is of *)

\* How a worker gets into the pipeline, and on in it.
LEMMA PipelineChanges ==
  ASSUME TypeInv, [Next]_vars, NEW w \in Workers, task'[w].pc \in Pipeline
  PROVE  /\ task[w].pc \in Processing \cup {"claiming"} /\ task'[w].job = task[w].job
         /\ \/ task'[w] = task[w]
            \/ /\ task[w].pc = "claiming" /\ task'[w].pc = "claimed"
               /\ task'[w].attempt = jobs[task[w].job].attempts + 1
            \/ /\ task[w].pc \in Pipeline \ {"result_stored"}
               /\ task'[w].pc # "claimed" /\ task'[w].attempt = task[w].attempt
               /\ task[w].pc = "claimed" => task'[w].pc = "validating_file"
<1>. DEFINE Goal ==
       /\ task[w].pc \in Processing \cup {"claiming"} /\ task'[w].job = task[w].job
       /\ \/ task'[w] = task[w]
          \/ /\ task[w].pc = "claiming" /\ task'[w].pc = "claimed"
             /\ task'[w].attempt = jobs[task[w].job].attempts + 1
          \/ /\ task[w].pc \in Pipeline \ {"result_stored"}
             /\ task'[w].pc # "claimed" /\ task'[w].attempt = task[w].attempt
             /\ task[w].pc = "claimed" => task'[w].pc = "validating_file"
<1>0. task'[w] = task[w] => Goal
  BY Sets
<1>1. ASSUME NEW row, NEW acked, NEW raised, Commit(w, row, acked, raised),
             task[w].job \in Jobs, raised.pc \notin Pipeline
      PROVE  task'[w] = acked
  BY <1>1, CommitShape DEF Statement, TypeInv, TypeOK
<1>2. "retrying" \notin Pipeline /\ "idle" \notin Pipeline
  BY DEF Pipeline, PipelineStages
<1>3. UnknownError(w).pc \notin Pipeline /\ Idle.pc \notin Pipeline
  BY <1>2, StatementTasks, Unowned
<1>4. CASE ClaimNextJob(w)
  <2>. DEFINE row == ClaimedRow(jobs[task[w].job], w)
              t == [At(w, "claimed") EXCEPT !.attempt = row.attempts]
  <2>1. task[w].pc = "claiming" /\ Commit(w, row, t, Idle)
    BY <1>4 DEF ClaimNextJob
  <2>2. t.pc = "claimed" /\ t.job = task[w].job /\ t.attempt = row.attempts
    BY StatementTasks
  <2>3. row.attempts = jobs[task[w].job].attempts + 1
    BY <2>1, Holding DEF ClaimedRow, Row
  <2>. HIDE DEF row, t
  <2>4. task'[w] = t
    BY <1>1, <1>3, <2>1, Holding
  <2>5. QED
    BY <2>1, <2>2, <2>3, <2>4
<1>5. CASE UpdateJobStage(w)
  <2>1. task[w].pc \in DOMAIN NextStage /\ task[w].pc \in Pipeline
    BY <1>5, NextStages DEF UpdateJobStage
  <2>2. task'[w] = At(w, NextStage[task[w].pc])
    BY <1>1, <1>3, <1>5, <2>1, Holding, Sets DEF UpdateJobStage
  <2>3. /\ task[w].pc # "result_stored" /\ NextStage[task[w].pc] # "claimed"
        /\ task[w].pc = "claimed" => NextStage[task[w].pc] = "validating_file"
    BY <2>1 DEF NextStage
  <2>4. QED
    BY <2>1, <2>2, <2>3, StatementTasks, Sets
<1>6. CASE StoreExtraction(w)
  <2>1. task[w].pc = "storing_extraction" /\ task[w].pc \in Pipeline
    BY <1>6 DEF StoreExtraction, Pipeline, PipelineStages
  <2>2. task'[w] = At(w, "extraction_stored")
    BY <1>1, <1>3, <1>6, <2>1, Holding, Sets DEF StoreExtraction
  <2>3. QED
    BY <2>1, <2>2, StatementTasks, Sets
<1>7. CASE StoreAnnotation(w)
  <2>1. task[w].pc = "storing_result" /\ task[w].pc \in Pipeline
    BY <1>7 DEF StoreAnnotation, Pipeline, PipelineStages
  <2>2. task'[w] = At(w, "result_stored")
    BY <1>1, <1>3, <1>7, <2>1, Holding, Sets DEF StoreAnnotation
  <2>3. QED
    BY <2>1, <2>2, StatementTasks, Sets
<1>8. CASE CompleteJob(w) \/ RequeueJob(w) \/ FailJob(w)
  <2>1. task[w].pc \in Processing
    BY <1>8, Sets DEF CompleteJob, RequeueJob, FailJob
  <2>2. task'[w] = Idle \/ task'[w] = UnknownError(w)
    BY <1>8, <2>1, Holding, CommitShape
    DEF CompleteJob, RequeueJob, FailJob, Statement, TypeInv, TypeOK
  <2>3. QED
    BY <1>3, <2>2
<1>9. CASE WorkRaises(w) \/ RetryOrFailJob(w)
  BY <1>2, <1>9, DecisionSteps, Sets DEF TypeInv, TypeOK
<1>10. CASE Sweep(w) \/ SelectNextJob(w) \/ PollEmpty(w) \/ StopWorker(w) \/ Crash(w) \/ Restart(w)
  <2>1. \A j : [Idle EXCEPT !.pc = "claiming", !.job = j].pc \notin Pipeline
    BY DEF Idle, Resting, Pipeline, PipelineStages
  <2>2. ASSUME NEW t, task' = [task EXCEPT ![w] = t], t.pc \notin Pipeline PROVE FALSE
    BY <2>2 DEF TypeInv, TypeOK
  <2>3. CASE SelectNextJob(w)
    BY <2>1, <2>2, <2>3 DEF SelectNextJob
  <2>4. CASE Sweep(w)
    BY <2>2, <2>4, Unowned, Sets DEF Sweep
  <2>5. CASE PollEmpty(w) \/ StopWorker(w) \/ Crash(w) \/ Restart(w)
    BY <2>2, <2>5, FreeingStep, Sets
  <2>6. QED
    BY <1>10, <2>3, <2>4, <2>5
<1>11. QED
  BY <1>0, <1>4, <1>5, <1>6, <1>7, <1>8, <1>9, <1>10, OwnSteps DEF WorkerStep

\* store_annotation alone writes a result.
LEMMA ResultWriters ==
  ASSUME TypeInv, [Next]_vars, NEW j \in Jobs
  PROVE  \/ jobs'[j].result \in {0, jobs[j].result}
         \/ \E w \in Workers : StoreAnnotation(w) /\ task[w].job = j
<1>. DEFINE Goal == \/ jobs'[j].result \in {0, jobs[j].result}
                    \/ \E w \in Workers : StoreAnnotation(w) /\ task[w].job = j
<1>1. ASSUME NEW w \in Workers, StatementStep(w) PROVE Goal
  <2>1. PICK t, row : Statement(w, t, row) /\ Writes(w, jobs[task[w].job], row)
    BY <1>1, StatementSteps
  <2>2. task[w].job \in Jobs /\ jobs[task[w].job] \in Row
    BY <1>1, StatementSteps, Holding
  <2>3. jobs'[j] = jobs[j] \/ (task[w].job = j /\ jobs'[j] = row)
    BY <2>1, <2>2 DEF Statement, TypeInv, TypeOK
  <2>4. CASE StoreAnnotation(w)
    BY <2>3, <2>4
  <2>5. CASE task[w].pc # "storing_result"
    <3>1. row.result = jobs[task[w].job].result
      BY <2>1, <2>2, <2>5
      DEF Writes, Row, ClaimedRow, CompletedRow, RequeuedRow, FailedRow, Unlocked
    <3>2. QED
      BY <2>3, <3>1
  <2>6. task[w].pc = "storing_result" => StoreAnnotation(w)
    BY <1>1 DEF StatementStep, ClaimNextJob, UpdateJobStage, NextStage, StoreExtraction,
                CompleteJob, RequeueJob, FailJob
  <2>7. QED
    BY <2>4, <2>5, <2>6
<1>2. jobs[j] \in Row
  BY DEF TypeInv, TypeOK
<1>3. SweptRow(jobs[j]).result = jobs[j].result
  BY <1>2 DEF SweptRow, FailedRow, Unlocked, Row
<1>4. ASSUME NEW w \in Workers,
             \/ Sweep(w) \/ SelectNextJob(w) \/ PollEmpty(w) \/ WorkRaises(w)
             \/ RetryOrFailJob(w) \/ StopWorker(w) \/ HandleShutdown(w) \/ Crash(w) \/ Restart(w)
      PROVE  Goal
  BY <1>3, <1>4
  DEF Sweep, SelectNextJob, PollEmpty, WorkRaises, RetryOrFailJob, StopWorker,
      HandleShutdown, Crash, Restart
<1>5. ASSUME NEW k \in Jobs, Submit(k) \/ LockGoesStale(k) \/ BackoffElapses(k) PROVE Goal
  <2>1. QueuedRow.result = 0
    BY DEF QueuedRow
  <2>2. QED
    BY <1>2, <1>5, <2>1 DEF Submit, LockGoesStale, BackoffElapses, TypeInv, TypeOK, Row
<1>6. CASE UNCHANGED vars
  BY <1>6 DEF vars
<1>7. QED
  BY <1>1, <1>4, <1>5, <1>6 DEF Next, WorkerStep, StatementStep

\* An attempt that has stored nothing yet counts further than the row's result.
LEMMA ResultsNext ==
  ASSUME PoolInv, ResultsInv, [Next]_vars
  PROVE  ResultsInv'
<1>0. TypeInv /\ ClaimInv /\ PromptInv
  BY DEF PoolInv
<1>1. /\ \A j \in Jobs : jobs[j] \in Row /\ jobs[j].attempts \in Nat /\ jobs[j].result \in Nat
      /\ \A w \in Workers : task[w] \in Task /\ task[w].attempt \in Nat
  BY <1>0 DEF TypeInv, TypeOK, Row, Task
<1>2. ASSUME NEW w \in Workers, StoreAnnotation(w)
      PROVE  /\ task[w].pc = "storing_result" /\ task[w].pc \in Pipeline
             /\ task[w].job \in Jobs
             /\ jobs[task[w].job].attempts = task[w].attempt
             /\ task'[w].pc \in {"result_stored", "retrying"}
             /\ jobs'[task[w].job].attempts = task[w].attempt
             /\ jobs'[task[w].job].result \in {task[w].attempt, jobs[task[w].job].result}
  <2>1. task[w].pc = "storing_result" /\ task[w].pc \in Pipeline
    BY <1>2 DEF StoreAnnotation, Pipeline, PipelineStages
  <2>2. task[w].job \in Jobs /\ jobs[task[w].job].attempts = task[w].attempt
    BY <1>0, <2>1, Holding, Sets DEF PromptInv, Held
  <2>. DEFINE row == [jobs[task[w].job] EXCEPT !.result = task[w].attempt]
  <2>3. Commit(w, row, At(w, "result_stored"), UnknownError(w))
    BY <1>2 DEF StoreAnnotation
  <2>4. row.result = task[w].attempt /\ row.attempts = jobs[task[w].job].attempts
    BY <1>1, <2>2 DEF Row
  <2>. HIDE DEF row
  <2>5. /\ task'[w] \in {At(w, "result_stored"), UnknownError(w)}
        /\ jobs'[task[w].job] \in {jobs[task[w].job], row}
    BY <1>0, <2>2, <2>3, CommitShape DEF Statement, TypeInv, TypeOK
  <2>6. QED
    BY <1>0, <2>1, <2>2, <2>4, <2>5, StatementTasks
<1>3. ASSUME NEW j \in Jobs PROVE jobs'[j].attempts >= jobs[j].attempts \/ jobs'[j].result = 0
  <2>1. ASSUME NEW w \in Workers, WrittenBy(w, j) PROVE jobs'[j].attempts >= jobs[j].attempts
    <3>1. Writes(w, jobs[j], jobs'[j])
      BY <2>1 DEF WrittenBy
    <3>2. jobs'[j].attempts \in {jobs[j].attempts, jobs[j].attempts + 1}
      BY Zenon, <1>1, <3>1, WrittenRow
    <3>3. QED
      BY <1>1, <3>2
  <2>2. SweptRow(jobs[j]).attempts = jobs[j].attempts
    BY <1>1, SweptAttempts
  <2>3. /\ [jobs[j] EXCEPT !.lockedAt = "stale"].attempts = jobs[j].attempts
        /\ [jobs[j] EXCEPT !.due = TRUE].attempts = jobs[j].attempts
    BY <1>1 DEF Row
  <2>4. QueuedRow.result = 0
    BY DEF QueuedRow
  <2>5. RowStep(j)
    BY <1>0, RowChanges
  <2>6. \A n \in Nat : n >= n
    OBVIOUS
  <2>7. QED
    BY <1>1, <2>1, <2>2, <2>3, <2>4, <2>5, <2>6 DEF RowStep
<1>4. ASSUME NEW j \in Jobs PROVE jobs'[j].result <= jobs'[j].attempts
  <2>1. jobs'[j].attempts \in Nat
    BY <1>0, TypeNext DEF TypeInv, TypeOK, Row
  <2>2. CASE jobs'[j].result = 0
    BY <2>1, <2>2
  <2>3. CASE jobs'[j].result = jobs[j].result
    BY <1>1, <1>3, <2>1, <2>2, <2>3 DEF ResultsInv
  <2>4. CASE \E w \in Workers : StoreAnnotation(w) /\ task[w].job = j
    BY <1>1, <1>2, <2>1, <2>4 DEF ResultsInv
  <2>5. QED
    BY <1>0, <2>2, <2>3, <2>4, ResultWriters
<1>5. ASSUME NEW w \in Workers, task'[w].pc \in Pipeline \ {"result_stored"}
      PROVE  jobs'[task'[w].job].result < task'[w].attempt
  <2>. DEFINE j == task[w].job
  <2>1. j \in Jobs /\ task'[w].job = j /\ task[w].pc \in Processing \cup {"claiming"}
    BY <1>0, <1>5, PipelineChanges, Holding
  <2>2. jobs[j].result < task'[w].attempt /\ task'[w].attempt \in Nat
    <3>1. CASE task'[w] = task[w]
      BY <1>1, <1>5, <2>1, <3>1 DEF ResultsInv
    <3>2. CASE task'[w].attempt = jobs[j].attempts + 1
      BY <1>1, <2>1, <3>2 DEF ResultsInv
    <3>3. CASE task[w].pc \in Pipeline \ {"result_stored"} /\ task'[w].attempt = task[w].attempt
      BY <1>1, <2>1, <3>3 DEF ResultsInv
    <3>4. QED
      BY <1>0, <1>5, <3>1, <3>2, <3>3, PipelineChanges
  <2>3. ASSUME NEW v \in Workers, StoreAnnotation(v), task[v].job = j PROVE FALSE
    <3>1. v # w
      BY <1>2, <1>5, <2>3 DEF Pipeline, PipelineStages
    <3>2. task[v].pc \in Processing
      BY <1>2, <2>3, Sets
    <3>3. QED
      BY <1>0, <2>1, <2>3, <3>1, <3>2, OnlyWorker
  <2>4. jobs'[j].result \in {0, jobs[j].result}
    BY <1>0, <2>1, <2>3, ResultWriters
  <2>5. QED
    BY <1>1, <2>1, <2>2, <2>4
<1>6. QED
  BY <1>4, <1>5 DEF ResultsInv

-----------------------------------------------------------------------------
(* Sessions and columns *)

\* A flush from a session that believes what is there writes what it was given.
LEMMA FlushedAll ==
  ASSUME NEW row, NEW new \in Outputs
  PROVE  Flushed(row, row, new) = new
BY DEF Flushed, Outputs

LEMMA ColumnsStart == OutputInit => ColumnsInv /\ ResultsInv
<1>1. SUFFICES ASSUME OutputInit PROVE ColumnsInv /\ ResultsInv
  OBVIOUS
<1>2. \A w \in Workers : task[w].pc \notin Pipeline
  BY <1>1, Unowned, Sets DEF OutputInit, Init
<1>3. \A j \in Jobs : jobs[j].result = 0 /\ jobs[j].attempts = 0
  BY <1>1 DEF OutputInit, Init, AbsentRow, QueuedRow
<1>4. "claimed" \in Pipeline /\ Unset \in Columns
  BY DEF Pipeline, Unset, Columns
<1>5. QED
  BY <1>1, <1>2, <1>3, <1>4 DEF OutputInit, ColumnsInv, SessionFits, ResultsInv

\* A session stays with what its worker's job shows, so that a flush leaves no
\* column of another answer in place.
LEMMA ColumnsNext ==
  ASSUME PoolInv, ResultsInv, ColumnsInv, [OutputNext]_<<vars, outputVars>>
  PROVE  ColumnsInv'
<1>0. TypeInv /\ ClaimInv /\ PromptInv /\ [Next]_vars
  BY PoolSteps DEF PoolInv
<1>1. "claimed" \in Pipeline /\ "claiming" \notin Pipeline
  BY DEF Pipeline, PipelineStages
<1>2. CASE UNCHANGED <<vars, outputVars>>
  BY <1>2 DEF vars, outputVars, ColumnsInv, SessionFits
<1>3. CASE OtherStep
  <2>1. /\ session' = SessionAfter(session) /\ columns' = columns /\ output' = output
        /\ \A w \in Workers : ~Unloaded(w)
    BY <1>3 DEF OtherStep
  <2>2. session' \in [Workers -> Columns \cup {NoRow}]
    BY <2>1 DEF ColumnsInv, SessionAfter
  <2>3. ASSUME NEW w \in Workers PROVE SessionFits(w)'
    <3>1. CASE task'[w].pc \notin Pipeline
      BY <1>1, <2>1, <3>1 DEF SessionFits, SessionAfter
    <3>2. CASE task'[w].pc \in Pipeline
      <4>1. session'[w] = session[w] /\ task'[w].job = task[w].job
        BY <1>0, <2>1, <3>2, PipelineChanges DEF SessionAfter
      <4>2. SessionFits(w) /\ ~Unloaded(w)
        BY <2>1 DEF ColumnsInv
      <4>3. CASE task'[w] = task[w]
        BY <2>1, <4>1, <4>2, <4>3 DEF SessionFits
      <4>4. CASE task[w].pc = "claiming" /\ task'[w].pc = "claimed"
        BY <1>1, <2>1, <4>1, <4>2, <4>4 DEF SessionFits
      <4>5. CASE /\ task[w].pc \in Pipeline /\ task'[w].pc # "claimed"
                 /\ task[w].pc = "claimed" => task'[w].pc = "validating_file"
        BY <2>1, <3>2, <4>1, <4>2, <4>5 DEF SessionFits, Unloaded
      <4>6. QED
        BY <1>0, <3>2, <4>3, <4>4, <4>5, PipelineChanges
    <3>3. QED
      BY <3>1, <3>2
  <2>4. QED
    BY <2>1, <2>2, <2>3 DEF ColumnsInv
<1>4. ASSUME NEW w \in Workers, LoadJob(w) PROVE ColumnsInv'
  <2>1. /\ task' = task /\ columns' = columns /\ output' = output
        /\ task[w].pc = "claimed"
        /\ session' = [session EXCEPT ![w] = columns[task[w].job]]
    BY <1>4 DEF LoadJob, vars
  <2>2. task[w].job \in Jobs
    BY <1>0, <1>1, <2>1, Holding, Sets
  <2>3. QED
    BY <1>1, <2>1, <2>2 DEF ColumnsInv, SessionFits
<1>5. ASSUME NEW w \in Workers, StoreOutput(w) PROVE ColumnsInv'
  <2>. DEFINE j == task[w].job
              row == [jobs[j] EXCEPT !.result = task[w].attempt]
  <2>1. PICK new \in Outputs :
          /\ session' = SessionAfter([session EXCEPT ![w] = new])
          /\ IF jobs' = jobs THEN UNCHANGED <<columns, output>>
             ELSE /\ columns' = [columns EXCEPT ![j] = Flushed(columns[j], session[w], new)]
                  /\ output' = [output EXCEPT ![j] = new]
    BY Zenon, <1>5 DEF StoreOutput, ColumnsInv
  <2>2. /\ task[w].pc = "storing_result" /\ task[w].pc \in Pipeline \ {"claimed", "result_stored"}
        /\ Commit(w, row, At(w, "result_stored"), UnknownError(w))
    BY <1>5 DEF StoreOutput, StoreAnnotation, Pipeline, PipelineStages
  <2>3. j \in Jobs /\ jobs[j] \in Row /\ jobs[j].result \in Nat /\ task[w].attempt \in Nat
    BY <1>0, <2>2, Holding, Sets DEF Row, Task
  <2>4. Flushed(columns[j], session[w], new) = new
    BY <2>2, FlushedAll DEF ColumnsInv, SessionFits
  <2>5. row # jobs[j]
    BY <2>2, <2>3 DEF ResultsInv, Row
  <2>6. UnknownError(w).pc \notin Pipeline /\ "result_stored" # "claimed"
    BY <1>0, StatementTasks DEF Pipeline, PipelineStages
  <2>7. At(w, "result_stored").pc = "result_stored" /\ At(w, "result_stored").job = j
    BY <1>0, StatementTasks
  <2>. HIDE DEF row
  <2>8. /\ \/ task'[w] = At(w, "result_stored") /\ jobs' # jobs
           \/ task'[w] = UnknownError(w)
        /\ \A v \in Workers \ {w} : task'[v] = task[v]
    BY <1>0, <2>2, <2>3, <2>5, CommitShape DEF Statement, TypeInv, TypeOK
  <2>9. /\ output' = columns'
        /\ columns' \in [Jobs -> Columns]
        /\ \A k \in Jobs \ {j} : columns'[k] = columns[k]
        /\ jobs' # jobs => columns'[j] = new
    BY <2>1, <2>3, <2>4 DEF ColumnsInv, Outputs, Columns
  <2>10. session' \in [Workers -> Columns \cup {NoRow}]
    BY <2>1 DEF ColumnsInv, SessionAfter, Outputs, Columns
  <2>11. SessionFits(w)'
    BY <1>1, <2>1, <2>6, <2>7, <2>8, <2>9 DEF SessionFits, SessionAfter, ColumnsInv
  <2>12. ASSUME NEW v \in Workers \ {w} PROVE SessionFits(v)'
    <3>1. task'[v] = task[v]
      BY <2>8
    <3>2. session'[v] = session[v]
      BY <2>1, <3>1 DEF SessionFits, SessionAfter, ColumnsInv
    <3>3. task[v].pc \in Pipeline => task[v].job \in Jobs \ {j}
      BY <1>0, <2>2, OnlyWorker, Holding, Sets
    <3>4. QED
      BY <1>1, <2>9, <3>1, <3>2, <3>3 DEF SessionFits, ColumnsInv
  <2>13. QED
    BY <2>9, <2>10, <2>11, <2>12 DEF ColumnsInv
<1>6. QED
  BY <1>2, <1>3, <1>4, <1>5 DEF OutputNext

\* A completed job shows the result and the usage of one answer of the annotator:
\* what a flush leaves out is there already, however the attempts before ended.
THEOREM OneAnswersColumns ==
  ASSUME ~SlowWorkers
  PROVE  OutputSpec => []ResultHasItsUsage
<1>. DEFINE Inv == PoolInv /\ ResultsInv /\ ColumnsInv
<1>1. OutputInit => Inv
  BY PoolInit, ColumnsStart DEF OutputInit
<1>2. Inv /\ [OutputNext]_<<vars, outputVars>> => Inv'
  BY PoolSteps, PoolNext, ResultsNext, ColumnsNext
<1>3. Inv => ResultHasItsUsage
  BY DEF ColumnsInv, ResultHasItsUsage
<1>4. QED
  BY <1>1, <1>2, <1>3, PTL DEF OutputSpec
=============================================================================
