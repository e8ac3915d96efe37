-------------------------- MODULE WorkerPoolProofs --------------------------
(***************************************************************************)
(* Theorems about WorkerPool that hold whatever the timing, for any finite *)
(* set of workers, any jobs and any budgets: types and outputs, the lock   *)
(* of a claim, the overrun of the attempt budget, and what may become of   *)
(* the lock columns and the error code of a row.                           *)
(***************************************************************************)
EXTENDS WorkerPool, FiniteSetTheorems, TLAPS

(***************************************************************************)
(* What every statement does: it moves one worker on, and leaves the table *)
(* as it was or writes the row of the job the worker holds.                *)
(***************************************************************************)
LEMMA CommitEffect ==
  ASSUME NEW w \in Workers, NEW row, NEW acked, NEW raised,
         Commit(w, row, acked, raised), TypeOK, task[w].job \in Jobs
  PROVE  /\ ~LockedByClaim(w, task[w].job)
         /\ running' = running
         /\ faults' \in 0..MaxFaults
         /\ \/ /\ jobs' = [jobs EXCEPT ![task[w].job] = row]
               /\ task' = [task EXCEPT ![w] = acked]
            \/ /\ jobs' = jobs
               /\ task' = [task EXCEPT ![w] = raised]
            \/ /\ LostAcks
               /\ jobs' = [jobs EXCEPT ![task[w].job] = row]
               /\ task' = [task EXCEPT ![w] = raised]
  BY FaultsAssumption DEF Commit, Fault, TypeOK

LEMMA Constants ==
  /\ NoJob \notin Jobs
  /\ "UNKNOWN_WORKER_ERROR" \in ErrorCodes
  /\ "MAX_ATTEMPTS_EXCEEDED" \in ErrorCodes
  /\ Raised \subseteq ErrorCodes
  /\ NULL \in ErrorCodes \cup {NULL}
  BY JobsAssumption, RaisedAssumption
     DEF NoJob, ErrorCodes, FileErrors, ExtractionErrors, AnnotationErrors

\* The row transformers keep a row a row.
LEMMA RowTypes ==
  ASSUME NEW row \in Row
  PROVE  /\ \A w \in Workers : ClaimedRow(row, w) \in Row
         /\ Unlocked(row) \in Row
         /\ CompletedRow(row) \in Row
         /\ \A code \in ErrorCodes : FailedRow(row, code) \in Row
         /\ \A code \in ErrorCodes \cup {NULL} : RequeuedRow(row, code) \in Row
         /\ SweptRow(row) \in Row
         /\ \A s \in PipelineStages : [row EXCEPT !.stage = s] \in Row
         /\ [row EXCEPT !.extraction = TRUE] \in Row
         /\ \A n \in Nat : [row EXCEPT !.result = n] \in Row
         /\ [row EXCEPT !.lockedAt = "stale"] \in Row
         /\ [row EXCEPT !.due = TRUE] \in Row
<1>. USE DEF Row, JobStatus, Stages, PipelineStages, Terminal
<1>1. \A w \in Workers : ClaimedRow(row, w) \in Row
  <2>1. row.attempts + 1 \in Nat
    OBVIOUS
  <2>2. QED
    BY <2>1 DEF ClaimedRow
<1>2. Unlocked(row) \in Row
  BY DEF Unlocked
<1>3. CompletedRow(row) \in Row
  BY DEF CompletedRow, Unlocked
<1>4. \A code \in ErrorCodes : FailedRow(row, code) \in Row
  BY DEF FailedRow, Unlocked
<1>5. \A code \in ErrorCodes \cup {NULL} : RequeuedRow(row, code) \in Row
  BY DEF RequeuedRow, Unlocked
<1>6. SweptRow(row) \in Row
  <2>1. [Unlocked(row) EXCEPT !.status = "queued", !.stage = "queued", !.due = TRUE]
          \in Row
    BY DEF Unlocked
  <2>2. FailedRow(row, "MAX_ATTEMPTS_EXCEEDED") \in Row
    BY <1>4, Constants
  <2>. HIDE DEF Row, JobStatus, Stages, PipelineStages, Terminal
  <2>3. QED
    BY <2>1, <2>2 DEF SweptRow
<1>7. \A s \in PipelineStages : [row EXCEPT !.stage = s] \in Row
  OBVIOUS
<1>8. /\ [row EXCEPT !.extraction = TRUE] \in Row
      /\ \A n \in Nat : [row EXCEPT !.result = n] \in Row
      /\ [row EXCEPT !.lockedAt = "stale"] \in Row
      /\ [row EXCEPT !.due = TRUE] \in Row
  OBVIOUS
<1>9. QED
  BY <1>1, <1>2, <1>3, <1>4, <1>5, <1>6, <1>7, <1>8

-----------------------------------------------------------------------------
LEMMA RestingTasks ==
  /\ \A pc \in {"idle", "polling", "down"} :
       /\ Resting(pc) \in Task
       /\ Resting(pc).pc = pc
       /\ pc \notin Processing \cup {"claiming"}
       /\ Resting(pc).job = NoJob
  /\ Idle = Resting("idle")
  BY DEF Idle, Resting, Task, Processing, Pipeline, Handlers, PipelineStages

LEMMA TypeInit == Init => TypeInv
<1>. SUFFICES ASSUME Init PROVE TypeInv
  OBVIOUS
<1>1. AbsentRow \in Row
  BY DEF AbsentRow, QueuedRow, Row, JobStatus, Stages
<1>2. TypeOK
  BY <1>1, RestingTasks, FaultsAssumption DEF Init, TypeOK
<1>3. TasksInOrder
  BY RestingTasks DEF Init, TasksInOrder, Processing
<1>4. QED
  BY <1>2, <1>3 DEF TypeInv

\* A row that is a row, and a task that is a task, leave the types in order.
LEMMA TypeStep ==
  ASSUME NEW w \in Workers, NEW j \in Jobs, TypeInv, task[w].job = j,
         jobs[j].status # "absent",
         NEW row \in Row, row.status # "absent",
         NEW t \in Task,
         jobs' \in {jobs, [jobs EXCEPT ![j] = row]},
         task' = [task EXCEPT ![w] = t],
         t.pc \in Processing \cup {"claiming"} => t.job = j,
         t.pc \in Handlers => t.err \in ErrorCodes,
         running' = running, faults' \in 0..MaxFaults
  PROVE  TypeInv'
<1>1. TypeOK'
  BY DEF TypeInv, TypeOK
<1>2. TasksInOrder'
  <2>1. \A k \in Jobs : jobs[k].status # "absent" => jobs'[k].status # "absent"
    BY DEF TypeInv, TypeOK
  <2>2. \A v \in Workers : task'[v] = IF v = w THEN t ELSE task[v]
    BY DEF TypeInv, TypeOK
  <2>3. QED
    BY <2>1, <2>2 DEF TypeInv, TasksInOrder
<1>3. QED
  BY <1>1, <1>2 DEF TypeInv

\* The tasks a statement leaves its worker with.
LEMMA TaskTypes ==
  ASSUME TypeInv, NEW w \in Workers
  PROVE  /\ Idle \in Task /\ Idle.pc = "idle" /\ Idle.job = NoJob
         /\ Resting("polling") \in Task /\ Resting("polling").pc = "polling"
         /\ Resting("down") \in Task /\ Resting("down").pc = "down"
         /\ \A pc \in Processing :
              At(w, pc) \in Task /\ At(w, pc) = [task[w] EXCEPT !.pc = pc]
         /\ UnknownError(w) \in Task
         /\ UnknownError(w).pc = "retrying"
         /\ UnknownError(w).job = task[w].job
         /\ UnknownError(w).err \in ErrorCodes
  BY Constants DEF TypeInv, TypeOK, Task, Idle, Resting, At, UnknownError, Processing,
     Handlers, Pipeline, PipelineStages

\* A task that a worker may be left with while it holds job j.
TaskFor(t, j) == /\ t \in Task
                 /\ t.pc \in Processing \cup {"claiming"} => t.job = j
                 /\ t.pc \in Handlers => t.err \in ErrorCodes

LEMMA CommitTypes ==
  ASSUME TypeInv, NEW w \in Workers, task[w].pc \in Processing \cup {"claiming"},
         NEW row \in Row, row.status # "absent",
         NEW acked, NEW raised, TaskFor(acked, task[w].job), TaskFor(raised, task[w].job),
         Commit(w, row, acked, raised)
  PROVE  TypeInv'
<1>1. task[w].job \in Jobs /\ jobs[task[w].job].status # "absent"
  BY DEF TypeInv, TasksInOrder
<1>2. /\ running' = running /\ faults' \in 0..MaxFaults
      /\ jobs' \in {jobs, [jobs EXCEPT ![task[w].job] = row]}
      /\ task' = [task EXCEPT ![w] = acked] \/ task' = [task EXCEPT ![w] = raised]
  BY <1>1, CommitEffect DEF TypeInv
<1>3. CASE task' = [task EXCEPT ![w] = acked]
  BY <1>1, <1>2, <1>3, TypeStep DEF TaskFor
<1>4. CASE task' = [task EXCEPT ![w] = raised]
  BY <1>1, <1>2, <1>4, TypeStep DEF TaskFor
<1>5. QED
  BY <1>2, <1>3, <1>4

LEMMA TasksFor ==
  ASSUME TypeInv, NEW w \in Workers, NEW j
  PROVE  /\ TaskFor(Idle, j)
         /\ task[w].job = j => TaskFor(UnknownError(w), j)
         /\ task[w].job = j => \A pc \in Pipeline : TaskFor(At(w, pc), j)
         /\ task[w].job = j => \A n \in Nat, pc \in Pipeline :
              TaskFor([At(w, pc) EXCEPT !.attempt = n], j)
<1>1. TaskFor(Idle, j)
  BY RestingTasks DEF TaskFor, Processing
<1>2. task[w] \in Task
  BY DEF TypeInv, TypeOK
<1>3. task[w].job = j => TaskFor(UnknownError(w), j)
  BY <1>2, Constants DEF TaskFor, UnknownError, Task, Processing, Handlers
<1>4. task[w].job = j => \A pc \in Pipeline : TaskFor(At(w, pc), j)
  BY <1>2 DEF TaskFor, At, Task, Processing, Handlers, Pipeline, PipelineStages
<1>5. task[w].job = j => \A n \in Nat, pc \in Pipeline :
        TaskFor([At(w, pc) EXCEPT !.attempt = n], j)
  BY <1>2 DEF TaskFor, At, Task, Processing, Handlers, Pipeline, PipelineStages
<1>6. QED
  BY <1>1, <1>3, <1>4, <1>5

\* The stage update_job_stage commits is a stage of the pipeline.
LEMMA NextStages ==
  /\ DOMAIN NextStage \subseteq Pipeline
  /\ \A pc \in DOMAIN NextStage : NextStage[pc] \in PipelineStages
  BY DEF NextStage, Pipeline, PipelineStages

\* Statuses the row transformers leave: never "absent".
LEMMA RowStatuses ==
  ASSUME NEW row \in Row
  PROVE  /\ \A w : ClaimedRow(row, w).status = "processing"
         /\ CompletedRow(row).status = "completed"
         /\ \A code : FailedRow(row, code).status = "failed"
         /\ \A code : RequeuedRow(row, code).status = "queued"
         /\ row.status # "absent" => SweptRow(row).status # "absent"
<1>1. /\ \A w : ClaimedRow(row, w).status = "processing"
      /\ CompletedRow(row).status = "completed"
      /\ \A code : FailedRow(row, code).status = "failed"
      /\ \A code : RequeuedRow(row, code).status = "queued"
  BY DEF Row, ClaimedRow, CompletedRow, FailedRow, RequeuedRow, Unlocked
<1>2. row.status # "absent" => SweptRow(row).status # "absent"
  BY DEF Row, SweptRow, FailedRow, Unlocked
<1>3. QED
  BY <1>1, <1>2

LEMMA TypeNext == TypeInv /\ [Next]_vars => TypeInv'
<1>. SUFFICES ASSUME TypeInv, [Next]_vars PROVE TypeInv'
  OBVIOUS
<1>0. ASSUME NEW w \in Workers, task[w].pc \in Processing \cup {"claiming"}
      PROVE  /\ task[w] \in Task /\ task[w].attempt \in Nat
             /\ task[w].job \in Jobs
             /\ jobs[task[w].job] \in Row
             /\ jobs[task[w].job].status # "absent"
  BY <1>0 DEF TypeInv, TypeOK, TasksInOrder, Task
<1>1. ASSUME NEW w \in Workers, Sweep(w) PROVE TypeInv'
  <2>1. \A j \in Jobs : jobs'[j] \in Row
    BY <1>1, RowTypes DEF Sweep, TypeInv, TypeOK
  <2>2. \A j \in Jobs : jobs[j].status # "absent" => jobs'[j].status # "absent"
    BY <1>1, RowStatuses DEF Sweep, TypeInv, TypeOK
  <2>3. TypeOK'
    BY <1>1, <2>1, RestingTasks, FaultsAssumption DEF Sweep, Fault, TypeInv, TypeOK
  <2>4. TasksInOrder'
    BY <1>1, <2>2, RestingTasks DEF Sweep, TypeInv, TypeOK, TasksInOrder, Processing
  <2>5. QED
    BY <2>3, <2>4 DEF TypeInv
<1>2. ASSUME NEW w \in Workers, SelectNextJob(w) PROVE TypeInv'
  <2>1. PICK j \in Jobs : /\ Claimable(j)
                          /\ task' = [task EXCEPT ![w] = [Idle EXCEPT !.pc = "claiming", !.job = j]]
    BY <1>2 DEF SelectNextJob
  <2>2. /\ [Idle EXCEPT !.pc = "claiming", !.job = j] \in Task
        /\ [Idle EXCEPT !.pc = "claiming", !.job = j].job = j
        /\ [Idle EXCEPT !.pc = "claiming", !.job = j].pc = "claiming"
    BY DEF Idle, Resting, Task
  <2>3. TypeOK'
    BY <1>2, <2>1, <2>2 DEF SelectNextJob, TypeInv, TypeOK
  <2>4. TasksInOrder'
    BY <1>2, <2>1, <2>2 DEF SelectNextJob, Claimable, TypeInv, TypeOK, TasksInOrder, Handlers
  <2>5. QED
    BY <2>3, <2>4 DEF TypeInv
<1>3. ASSUME NEW w \in Workers, NEW t \in {Idle, Resting("down")},
             task' = [task EXCEPT ![w] = t], jobs' = jobs,
             running' \in [Workers -> BOOLEAN], faults' \in 0..MaxFaults
      PROVE  TypeInv'
  BY <1>3, RestingTasks DEF TypeInv, TypeOK, TasksInOrder, Processing
<1>4. ASSUME NEW w \in Workers, PollEmpty(w) PROVE TypeInv'
  <2>1. running' = running /\ jobs' = jobs /\ faults' \in 0..MaxFaults
    BY <1>4, FaultsAssumption DEF PollEmpty, Fault, TypeInv, TypeOK
  <2>2. task' = [task EXCEPT ![w] = Idle]
    BY <1>4 DEF PollEmpty
  <2>3. QED
    BY <1>3, <2>1, <2>2 DEF TypeInv, TypeOK
<1>5. ASSUME NEW w \in Workers, ClaimNextJob(w) PROVE TypeInv'
  <2>. DEFINE row == ClaimedRow(jobs[task[w].job], w)
  <2>1. row \in Row /\ row.status # "absent" /\ row.attempts \in Nat
    <3>1. jobs[task[w].job] \in Row
      BY <1>0, <1>5 DEF ClaimNextJob
    <3>2. row \in Row /\ row.status = "processing"
      BY <3>1, RowTypes, RowStatuses
    <3>3. QED
      BY <3>2 DEF Row
  <2>2. TaskFor([At(w, "claimed") EXCEPT !.attempt = row.attempts], task[w].job)
    BY <2>1, TasksFor DEF Pipeline
  <2>3. QED
    BY <1>5, <2>1, <2>2, TasksFor, CommitTypes DEF ClaimNextJob
<1>6. ASSUME NEW w \in Workers, UpdateJobStage(w) PROVE TypeInv'
  <2>. DEFINE stage == NextStage[task[w].pc]
              row == [jobs[task[w].job] EXCEPT !.stage = stage]
  <2>1. task[w].pc \in Pipeline /\ stage \in PipelineStages
    BY <1>6, NextStages DEF UpdateJobStage
  <2>2. task[w].pc \in Processing /\ stage \in Pipeline
    BY <2>1 DEF Processing, Pipeline
  <2>3. row \in Row /\ row.status # "absent"
    <3>1. jobs[task[w].job] \in Row /\ jobs[task[w].job].status # "absent"
      BY <1>0, <2>2
    <3>2. row \in Row
      BY <2>1, <3>1, RowTypes
    <3>3. QED
      BY <3>1, <3>2 DEF Row
  <2>4. TaskFor(At(w, stage), task[w].job) /\ TaskFor(UnknownError(w), task[w].job)
    BY <2>2, TasksFor
  <2>5. QED
    BY <1>6, <2>2, <2>3, <2>4, CommitTypes DEF UpdateJobStage
<1>7. ASSUME NEW w \in Workers, StoreExtraction(w) PROVE TypeInv'
  <2>. DEFINE row == [jobs[task[w].job] EXCEPT !.extraction = TRUE]
  <2>1. task[w].pc \in Processing
    BY <1>7 DEF StoreExtraction, Processing, Pipeline, PipelineStages
  <2>2. row \in Row /\ row.status # "absent"
    <3>1. jobs[task[w].job] \in Row /\ jobs[task[w].job].status # "absent"
      BY <1>0, <2>1
    <3>2. row \in Row
      BY <1>0, <2>1, <3>1, RowTypes
    <3>3. QED
      BY <3>1, <3>2 DEF Row
  <2>3. TaskFor(At(w, "extraction_stored"), task[w].job) /\ TaskFor(UnknownError(w), task[w].job)
    BY TasksFor DEF Pipeline
  <2>4. QED
    BY <1>7, <2>1, <2>2, <2>3, CommitTypes DEF StoreExtraction
<1>8. ASSUME NEW w \in Workers, StoreAnnotation(w) PROVE TypeInv'
  <2>. DEFINE row == [jobs[task[w].job] EXCEPT !.result = task[w].attempt]
  <2>1. task[w].pc \in Processing
    BY <1>8 DEF StoreAnnotation, Processing, Pipeline, PipelineStages
  <2>2. row \in Row /\ row.status # "absent"
    <3>1. jobs[task[w].job] \in Row /\ jobs[task[w].job].status # "absent"
      BY <1>0, <2>1
    <3>2. row \in Row
      BY <1>0, <2>1, <3>1, RowTypes
    <3>3. QED
      BY <3>1, <3>2 DEF Row
  <2>3. TaskFor(At(w, "result_stored"), task[w].job) /\ TaskFor(UnknownError(w), task[w].job)
    BY TasksFor DEF Pipeline
  <2>4. QED
    BY <1>8, <2>1, <2>2, <2>3, CommitTypes DEF StoreAnnotation
<1>9. ASSUME NEW w \in Workers, CompleteJob(w) PROVE TypeInv'
  <2>1. task[w].pc \in Processing
    BY <1>9 DEF CompleteJob, Processing, Pipeline
  <2>2. CompletedRow(jobs[task[w].job]) \in Row /\ CompletedRow(jobs[task[w].job]).status # "absent"
    BY <1>0, <2>1, RowTypes, RowStatuses
  <2>3. QED
    BY <1>9, <2>1, <2>2, TasksFor, CommitTypes DEF CompleteJob
<1>10. ASSUME NEW w \in Workers, WorkRaises(w) PROVE TypeInv'
  <2>1. PICK code \in Raised, handler \in {"failing", "retrying"} :
          task' = [task EXCEPT ![w] = [task[w] EXCEPT !.pc = handler, !.err = code]]
    BY <1>10 DEF WorkRaises, TypeInv, TypeOK
  <2>2. task[w].pc \in Processing
    BY <1>10 DEF WorkRaises, Processing, Pipeline, PipelineStages
  <2>3. code \in ErrorCodes
    BY Constants
  <2>4. TaskFor([task[w] EXCEPT !.pc = handler, !.err = code], task[w].job)
    BY <1>0, <2>2, <2>3 DEF TaskFor, Task, Processing, Handlers
  <2>5. QED
    BY <1>0, <1>10, <2>1, <2>2, <2>4, TypeStep DEF WorkRaises, TaskFor, TypeInv, TypeOK
<1>11. ASSUME NEW w \in Workers, RetryOrFailJob(w) PROVE TypeInv'
  <2>1. task[w].pc \in Processing /\ task[w].pc \in Handlers
    BY <1>11 DEF RetryOrFailJob, Processing, Handlers
  <2>2. /\ TaskFor([task[w] EXCEPT !.pc = "failing", !.err = "MAX_ATTEMPTS_EXCEEDED"], task[w].job)
        /\ TaskFor(At(w, "requeueing"), task[w].job)
    BY <1>0, <2>1, Constants DEF TaskFor, At, Task, Processing, Handlers, TypeInv, TasksInOrder
  <2>3. running' = running /\ jobs' = jobs /\ faults' \in 0..MaxFaults
    BY <1>11, FaultsAssumption DEF RetryOrFailJob, Fault, TypeInv, TypeOK
  <2>4. PICK t : TaskFor(t, task[w].job) /\ task' = [task EXCEPT ![w] = t]
    BY <1>11, <2>2, TasksFor DEF RetryOrFailJob, TypeInv, TypeOK
  <2>5. QED
    BY <1>0, <2>1, <2>3, <2>4, TypeStep DEF TaskFor
<1>12. ASSUME NEW w \in Workers, RequeueJob(w) PROVE TypeInv'
  <2>1. task[w].pc \in Processing /\ task[w].err \in ErrorCodes
    BY <1>12 DEF RequeueJob, Processing, Handlers, TypeInv, TasksInOrder
  <2>2. /\ RequeuedRow(jobs[task[w].job], task[w].err) \in Row
        /\ RequeuedRow(jobs[task[w].job], task[w].err).status # "absent"
    BY <1>0, <2>1, RowTypes, RowStatuses
  <2>3. QED
    BY <1>12, <2>1, <2>2, TasksFor, CommitTypes DEF RequeueJob
<1>13. ASSUME NEW w \in Workers, FailJob(w) PROVE TypeInv'
  <2>1. task[w].pc \in Processing /\ task[w].err \in ErrorCodes
    BY <1>13 DEF FailJob, Processing, Handlers, TypeInv, TasksInOrder
  <2>2. /\ FailedRow(jobs[task[w].job], task[w].err) \in Row
        /\ FailedRow(jobs[task[w].job], task[w].err).status # "absent"
    BY <1>0, <2>1, RowTypes, RowStatuses
  <2>3. QED
    BY <1>13, <2>1, <2>2, TasksFor, CommitTypes DEF FailJob
<1>14. ASSUME NEW w \in Workers, StopWorker(w) \/ Crash(w) \/ Restart(w) PROVE TypeInv'
  <2>1. running' \in [Workers -> BOOLEAN] /\ jobs' = jobs /\ faults' \in 0..MaxFaults
    <3>1. running' = running \/ running' = [running EXCEPT ![w] = TRUE]
      BY <1>14 DEF StopWorker, Crash, Restart
    <3>2. running' \in [Workers -> BOOLEAN]
      BY <3>1, Zenon DEF TypeInv, TypeOK
    <3>3. jobs' = jobs /\ faults' \in 0..MaxFaults
      BY <1>14, FaultsAssumption DEF StopWorker, Crash, Restart, Fault, TypeInv, TypeOK
    <3>4. QED
      BY <3>2, <3>3
  <2>2. PICK t \in {Idle, Resting("down")} : task' = [task EXCEPT ![w] = t]
    BY <1>14 DEF StopWorker, Crash, Restart
  <2>3. QED
    BY <1>3, <2>1, <2>2
<1>15. ASSUME NEW w \in Workers, HandleShutdown(w) PROVE TypeInv'
  BY <1>15, FaultsAssumption DEF HandleShutdown, Fault, TypeInv, TypeOK, TasksInOrder
<1>16. ASSUME NEW j \in Jobs, Submit(j) \/ LockGoesStale(j) \/ BackoffElapses(j) PROVE TypeInv'
  <2>1. PICK row \in Row : /\ jobs' = [jobs EXCEPT ![j] = row]
                           /\ jobs[j].status # "absent" => row.status # "absent"
    <3>1. CASE Submit(j)
      <4>1. QueuedRow \in Row /\ QueuedRow.status = "queued"
        BY DEF QueuedRow, Row, JobStatus, Stages
      <4>2. QED
        BY <3>1, <4>1 DEF Submit
    <3>2. CASE LockGoesStale(j)
      <4>1. [jobs[j] EXCEPT !.lockedAt = "stale"] \in Row
        BY RowTypes DEF TypeInv, TypeOK
      <4>2. jobs' = [jobs EXCEPT ![j] = [jobs[j] EXCEPT !.lockedAt = "stale"]]
        BY <3>2 DEF LockGoesStale
      <4>3. [jobs[j] EXCEPT !.lockedAt = "stale"].status = jobs[j].status
        BY DEF Row, TypeInv, TypeOK
      <4>4. QED
        BY <4>1, <4>2, <4>3
    <3>3. CASE BackoffElapses(j)
      <4>1. [jobs[j] EXCEPT !.due = TRUE] \in Row
        BY RowTypes DEF TypeInv, TypeOK
      <4>2. jobs' = [jobs EXCEPT ![j] = [jobs[j] EXCEPT !.due = TRUE]]
        BY <3>3 DEF BackoffElapses
      <4>3. [jobs[j] EXCEPT !.due = TRUE].status = jobs[j].status
        BY DEF Row, TypeInv, TypeOK
      <4>4. QED
        BY <4>1, <4>2, <4>3
    <3>4. QED
      BY <1>16, <3>1, <3>2, <3>3
  <2>2. UNCHANGED <<task, running, faults>>
    BY <1>16 DEF Submit, LockGoesStale, BackoffElapses
  <2>3. TypeOK'
    BY <2>1, <2>2 DEF TypeInv, TypeOK
  <2>4. \A k \in Jobs : jobs[k].status # "absent" => jobs'[k].status # "absent"
    BY <2>1 DEF TypeInv, TypeOK
  <2>5. QED
    BY <2>2, <2>3, <2>4 DEF TypeInv, TasksInOrder
<1>17. CASE UNCHANGED vars
  BY <1>17 DEF vars, TypeInv, TypeOK, TasksInOrder
<1>18. QED
  BY <1>1, <1>2, <1>4, <1>5, <1>6, <1>7, <1>8, <1>9, <1>10, <1>11, <1>12, <1>13, <1>14,
     <1>15, <1>16, <1>17
  DEF Next, WorkerStep

\* The four variables keep their types.
THEOREM TypeCorrect == Spec => []TypeOK
<1>1. TypeInv => TypeOK
  BY DEF TypeInv
<1>2. QED
  BY TypeInit, TypeNext, <1>1, PTL DEF Spec

-----------------------------------------------------------------------------
(* A completed job has its extraction and its result *)

\* No statement takes an output away, or completes a row without one.
KeepsOutput(old, new) ==
  /\ old.extraction => new.extraction
  /\ old.result # 0 => new.result # 0
  /\ new.status = "completed" =>
       old.status = "completed" \/ (old.extraction /\ old.result # 0)

LEMMA OutputStep ==
  ASSUME TypeInv, OutputInv, NEW w \in Workers, NEW row, NEW t,
         task[w].job \in Jobs,
         KeepsOutput(jobs[task[w].job], row),
         jobs' \in {jobs, [jobs EXCEPT ![task[w].job] = row]},
         task' = [task EXCEPT ![w] = t],
         t.job = task[w].job \/ t.pc \notin Pipeline,
         t.job = task[w].job => OutputOf(t, jobs'[task[w].job])
  PROVE  OutputInv'
<1>1. \A j \in Jobs : KeepsOutput(jobs[j], jobs'[j])
  BY DEF KeepsOutput, TypeInv, TypeOK
<1>2. CompletedHasOutput'
  BY <1>1 DEF KeepsOutput, OutputInv, CompletedHasOutput
<1>3. ASSUME NEW v \in Workers PROVE OutputOf(task'[v], jobs'[task'[v].job])
  <2>1. AfterExtraction \subseteq Pipeline /\ "result_stored" \in Pipeline
    BY DEF AfterExtraction, Pipeline, PipelineStages
  <2>2. CASE v = w
    BY <2>1, <2>2 DEF OutputOf, TypeInv, TypeOK
  <2>3. CASE v # w
    <3>1. task'[v] = task[v] /\ OutputOf(task[v], jobs[task[v].job])
      BY <2>3 DEF TypeInv, TypeOK, OutputInv
    <3>2. task[v].pc \in Pipeline => task[v].job \in Jobs
      BY DEF TypeInv, TasksInOrder, Processing
    <3>3. QED
      BY <1>1, <2>1, <3>1, <3>2 DEF OutputOf, KeepsOutput
  <2>4. QED
    BY <2>2, <2>3
<1>4. QED
  BY <1>2, <1>3 DEF OutputInv

\* A worker that leaves the pipeline needs no output any more.
LEMMA OutsidePipeline ==
  ASSUME NEW t, t.pc \notin Pipeline, NEW row
  PROVE  OutputOf(t, row)
  BY DEF OutputOf, AfterExtraction, Pipeline, PipelineStages

LEMMA OutputCommit ==
  ASSUME TypeInv, OutputInv, NEW w \in Workers, task[w].job \in Jobs,
         NEW row, NEW acked, NEW raised, KeepsOutput(jobs[task[w].job], row),
         Commit(w, row, acked, raised),
         acked.job = task[w].job \/ acked.pc \notin Pipeline,
         OutputOf(acked, row), raised.pc \notin Pipeline
  PROVE  OutputInv'
<1>1. CASE /\ jobs' = [jobs EXCEPT ![task[w].job] = row]
           /\ task' = [task EXCEPT ![w] = acked]
  <2>1. jobs'[task[w].job] = row
    BY <1>1 DEF TypeInv, TypeOK
  <2>2. QED
    BY <1>1, <2>1, OutputStep
<1>2. CASE /\ jobs' \in {jobs, [jobs EXCEPT ![task[w].job] = row]}
           /\ task' = [task EXCEPT ![w] = raised]
  BY <1>2, OutputStep, OutsidePipeline
<1>3. QED
  BY <1>1, <1>2, CommitEffect DEF TypeInv

\* The row transformers keep the output.
LEMMA RowOutputs ==
  ASSUME NEW row \in Row
  PROVE  /\ \A w : KeepsOutput(row, ClaimedRow(row, w))
         /\ row.extraction /\ row.result # 0 => KeepsOutput(row, CompletedRow(row))
         /\ \A code : KeepsOutput(row, FailedRow(row, code))
         /\ \A code : KeepsOutput(row, RequeuedRow(row, code))
         /\ KeepsOutput(row, SweptRow(row))
<1>. USE DEF KeepsOutput, Row
<1>1. /\ \A w : KeepsOutput(row, ClaimedRow(row, w))
      /\ row.extraction /\ row.result # 0 => KeepsOutput(row, CompletedRow(row))
  BY DEF ClaimedRow, CompletedRow, Unlocked
<1>2. /\ \A code : KeepsOutput(row, FailedRow(row, code))
      /\ \A code : KeepsOutput(row, RequeuedRow(row, code))
  BY DEF FailedRow, RequeuedRow, Unlocked
<1>3. KeepsOutput(row, [Unlocked(row) EXCEPT !.status = "queued", !.stage = "queued",
                                              !.due = TRUE])
  BY DEF Unlocked
<1>4. KeepsOutput(row, SweptRow(row))
  <2>1. KeepsOutput(row, row)
    OBVIOUS
  <2>. HIDE DEF KeepsOutput, Row
  <2>2. QED
    BY <1>2, <1>3, <2>1 DEF SweptRow
<1>5. QED
  BY <1>1, <1>2, <1>4

LEMMA OutputInvInit == Init => OutputInv
<1>. SUFFICES ASSUME Init PROVE OutputInv
  OBVIOUS
<1>1. CompletedHasOutput
  BY DEF Init, CompletedHasOutput, AbsentRow, QueuedRow
<1>2. \A w \in Workers : task[w].pc \notin Pipeline
  BY RestingTasks DEF Init, Processing
<1>3. QED
  BY <1>1, <1>2, OutsidePipeline DEF OutputInv

LEMMA OutputInvNext == TypeInv /\ OutputInv /\ [Next]_vars => OutputInv'
<1>. SUFFICES ASSUME TypeInv, OutputInv, [Next]_vars PROVE OutputInv'
  OBVIOUS
<1>0. ASSUME NEW w \in Workers, task[w].pc \in Processing \cup {"claiming"}
      PROVE  /\ task[w] \in Task /\ task[w].attempt \in Nat
             /\ task[w].job \in Jobs
             /\ jobs[task[w].job] \in Row
             /\ OutputOf(task[w], jobs[task[w].job])
  BY <1>0 DEF TypeInv, TypeOK, TasksInOrder, Task, OutputInv
<1>. DEFINE Leaves(w, t) == task' = [task EXCEPT ![w] = t] /\ t.pc \notin Pipeline
<1>1. ASSUME NEW w \in Workers, NEW t, Leaves(w, t),
             \A j \in Jobs : KeepsOutput(jobs[j], jobs'[j])
      PROVE  OutputInv'
  <2>1. CompletedHasOutput'
    BY <1>1 DEF KeepsOutput, OutputInv, CompletedHasOutput
  <2>2. ASSUME NEW v \in Workers PROVE OutputOf(task'[v], jobs'[task'[v].job])
    <3>1. CASE v = w
      BY <1>1, <3>1, OutsidePipeline DEF TypeInv, TypeOK
    <3>2. CASE v # w
      <4>1. task'[v] = task[v] /\ OutputOf(task[v], jobs[task[v].job])
        BY <1>1, <3>2 DEF TypeInv, TypeOK, OutputInv
      <4>2. task[v].pc \in Pipeline => task[v].job \in Jobs
        BY DEF TypeInv, TasksInOrder, Processing
      <4>3. CASE task[v].pc \in Pipeline
        BY <1>1, <4>1, <4>2, <4>3 DEF OutputOf, KeepsOutput
      <4>4. CASE task[v].pc \notin Pipeline
        BY <4>1, <4>4, OutsidePipeline
      <4>5. QED
        BY <4>3, <4>4
    <3>3. QED
      BY <3>1, <3>2
  <2>3. QED
    BY <2>1, <2>2 DEF OutputInv
<1>2. \A j \in Jobs : KeepsOutput(jobs[j], jobs[j])
  BY DEF KeepsOutput
<1>3. /\ \A pc \in {"idle", "polling", "down"} : Resting(pc).pc \notin Pipeline
      /\ Idle.pc \notin Pipeline
      /\ \A w \in Workers : UnknownError(w).pc \notin Pipeline
      /\ \A pc \in Handlers \cup {"claiming"} : pc \notin Pipeline
  <2>1. \A w \in Workers : UnknownError(w).pc = "retrying"
    BY DEF UnknownError, TypeInv, TypeOK, Task
  <2>2. QED
    BY <2>1, RestingTasks DEF Pipeline, PipelineStages, Handlers, Processing
<1>4. ASSUME NEW w \in Workers, Sweep(w) PROVE OutputInv'
  <2>1. \A j \in Jobs : KeepsOutput(jobs[j], jobs'[j])
    BY <1>2, <1>4, RowOutputs DEF Sweep, TypeInv, TypeOK
  <2>2. QED
    BY <1>1, <1>3, <1>4, <2>1 DEF Sweep
<1>5. ASSUME NEW w \in Workers,
             \/ SelectNextJob(w) \/ PollEmpty(w) \/ WorkRaises(w) \/ RetryOrFailJob(w)
             \/ StopWorker(w) \/ Crash(w) \/ Restart(w)
      PROVE  OutputInv'
  <2>1. jobs' = jobs
    BY <1>5 DEF SelectNextJob, PollEmpty, WorkRaises, RetryOrFailJob, StopWorker, Crash, Restart
  <2>2. PICK t : Leaves(w, t)
    <3>1. CASE SelectNextJob(w)
      <4>1. \A j : [Idle EXCEPT !.pc = "claiming", !.job = j].pc = "claiming"
        BY DEF Idle, Resting
      <4>2. QED
        BY <1>3, <3>1, <4>1 DEF SelectNextJob
    <3>2. CASE PollEmpty(w) \/ StopWorker(w) \/ Crash(w) \/ Restart(w)
      BY <1>3, <3>2 DEF PollEmpty, StopWorker, Crash, Restart
    <3>3. CASE WorkRaises(w)
      <4>1. PICK code \in Raised, handler \in {"failing", "retrying"} :
              task' = [task EXCEPT ![w] = [task[w] EXCEPT !.pc = handler, !.err = code]]
        BY <3>3 DEF WorkRaises, TypeInv, TypeOK
      <4>2. [task[w] EXCEPT !.pc = handler, !.err = code].pc = handler
        BY DEF TypeInv, TypeOK, Task
      <4>3. QED
        BY <1>3, <4>1, <4>2 DEF Handlers
    <3>4. CASE RetryOrFailJob(w)
      <4>1. /\ [task[w] EXCEPT !.pc = "failing", !.err = "MAX_ATTEMPTS_EXCEEDED"].pc = "failing"
            /\ At(w, "requeueing").pc = "requeueing"
        BY DEF At, TypeInv, TypeOK, Task
      <4>2. \/ task' = [task EXCEPT ![w] = [task[w] EXCEPT !.pc = "failing",
                                                    !.err = "MAX_ATTEMPTS_EXCEEDED"]]
            \/ task' = [task EXCEPT ![w] = At(w, "requeueing")]
            \/ task' = [task EXCEPT ![w] = Idle]
        BY <3>4 DEF RetryOrFailJob, TypeInv, TypeOK
      <4>3. QED
        BY <1>3, <4>1, <4>2 DEF Handlers
    <3>5. QED
      BY <1>5, <3>1, <3>2, <3>3, <3>4
  <2>3. QED
    BY <1>1, <1>2, <2>1, <2>2
<1>6. ASSUME NEW w \in Workers, ClaimNextJob(w) PROVE OutputInv'
  <2>. DEFINE row == ClaimedRow(jobs[task[w].job], w)
              t == [At(w, "claimed") EXCEPT !.attempt = row.attempts]
  <2>1. task[w] \in Task /\ task[w].job \in Jobs /\ jobs[task[w].job] \in Row
    BY <1>0, <1>6 DEF ClaimNextJob
  <2>2. row.attempts = jobs[task[w].job].attempts + 1 /\ jobs[task[w].job].attempts \in Nat
    BY <2>1 DEF ClaimedRow, Row
  <2>3. t.pc = "claimed" /\ t.job = task[w].job /\ t.attempt # 0
    BY <2>1, <2>2 DEF At, Task
  <2>4. OutputOf(t, row)
    BY <2>3 DEF OutputOf, AfterExtraction
  <2>5. KeepsOutput(jobs[task[w].job], row)
    BY <2>1, RowOutputs
  <2>. HIDE DEF row, t
  <2>6. Commit(w, row, t, Idle)
    BY <1>6 DEF ClaimNextJob, row, t
  <2>7. QED
    BY <1>3, <2>1, <2>3, <2>4, <2>5, <2>6, OutputCommit
<1>7. ASSUME NEW w \in Workers, UpdateJobStage(w) PROVE OutputInv'
  <2>. DEFINE stage == NextStage[task[w].pc]
              row == [jobs[task[w].job] EXCEPT !.stage = stage]
              t == At(w, stage)
  <2>1. task[w].pc \in Pipeline /\ task[w].pc \in DOMAIN NextStage
    BY <1>7, NextStages DEF UpdateJobStage
  <2>2. /\ task[w] \in Task /\ task[w].job \in Jobs /\ jobs[task[w].job] \in Row
        /\ OutputOf(task[w], jobs[task[w].job])
    BY <1>0, <2>1 DEF Processing
  <2>3. /\ stage # "result_stored"
        /\ stage \in AfterExtraction => task[w].pc \in AfterExtraction
    BY <2>1 DEF NextStage, AfterExtraction
  <2>4. t.pc = stage /\ t.job = task[w].job /\ t.attempt = task[w].attempt
    BY <2>2 DEF At, Task
  <2>5. /\ row.extraction = jobs[task[w].job].extraction
        /\ row.result = jobs[task[w].job].result
        /\ row.status = jobs[task[w].job].status
    BY <2>2 DEF Row
  <2>6. OutputOf(t, row)
    BY <2>1, <2>2, <2>3, <2>4, <2>5 DEF OutputOf
  <2>7. KeepsOutput(jobs[task[w].job], row)
    BY <2>5 DEF KeepsOutput
  <2>. HIDE DEF row, t
  <2>8. Commit(w, row, t, UnknownError(w))
    BY <1>7 DEF UpdateJobStage, row, t
  <2>9. QED
    BY <1>3, <2>2, <2>4, <2>6, <2>7, <2>8, OutputCommit
<1>8. ASSUME NEW w \in Workers, StoreExtraction(w) PROVE OutputInv'
  <2>. DEFINE row == [jobs[task[w].job] EXCEPT !.extraction = TRUE]
              t == At(w, "extraction_stored")
  <2>1. task[w].pc \in Pipeline
    BY <1>8 DEF StoreExtraction, Pipeline, PipelineStages
  <2>2. /\ task[w] \in Task /\ task[w].job \in Jobs /\ jobs[task[w].job] \in Row
        /\ OutputOf(task[w], jobs[task[w].job])
    BY <1>0, <2>1 DEF Processing
  <2>3. t.pc = "extraction_stored" /\ t.job = task[w].job /\ t.attempt = task[w].attempt
    BY <2>2 DEF At, Task
  <2>4. /\ row.extraction = TRUE
        /\ row.result = jobs[task[w].job].result
        /\ row.status = jobs[task[w].job].status
    BY <2>2 DEF Row
  <2>5. OutputOf(t, row)
    BY <2>1, <2>2, <2>3, <2>4 DEF OutputOf
  <2>6. KeepsOutput(jobs[task[w].job], row)
    BY <2>4 DEF KeepsOutput
  <2>. HIDE DEF row, t
  <2>7. Commit(w, row, t, UnknownError(w))
    BY <1>8 DEF StoreExtraction, row, t
  <2>8. QED
    BY <1>3, <2>2, <2>3, <2>5, <2>6, <2>7, OutputCommit
<1>9. ASSUME NEW w \in Workers, StoreAnnotation(w) PROVE OutputInv'
  <2>. DEFINE row == [jobs[task[w].job] EXCEPT !.result = task[w].attempt]
              t == At(w, "result_stored")
  <2>1. task[w].pc \in Pipeline /\ task[w].pc \in AfterExtraction
    BY <1>9 DEF StoreAnnotation, Pipeline, PipelineStages, AfterExtraction
  <2>2. /\ task[w] \in Task /\ task[w].job \in Jobs /\ jobs[task[w].job] \in Row
        /\ OutputOf(task[w], jobs[task[w].job])
    BY <1>0, <2>1 DEF Processing
  <2>3. t.pc = "result_stored" /\ t.job = task[w].job /\ t.attempt = task[w].attempt
    BY <2>2 DEF At, Task
  <2>4. /\ row.extraction = jobs[task[w].job].extraction
        /\ row.result = task[w].attempt
        /\ row.status = jobs[task[w].job].status
    BY <2>2 DEF Row
  <2>5. task[w].attempt # 0 /\ jobs[task[w].job].extraction
    BY <2>1, <2>2 DEF OutputOf
  <2>6. OutputOf(t, row)
    BY <2>3, <2>4, <2>5 DEF OutputOf
  <2>7. KeepsOutput(jobs[task[w].job], row)
    BY <2>4, <2>5 DEF KeepsOutput
  <2>. HIDE DEF row, t
  <2>8. Commit(w, row, t, UnknownError(w))
    BY <1>9 DEF StoreAnnotation, row, t
  <2>9. QED
    BY <1>3, <2>2, <2>3, <2>6, <2>7, <2>8, OutputCommit
<1>10. ASSUME NEW w \in Workers, CompleteJob(w) PROVE OutputInv'
  <2>1. task[w].pc \in Pipeline /\ task[w].pc \in AfterExtraction
    BY <1>10 DEF CompleteJob, Pipeline, AfterExtraction
  <2>2. /\ task[w].job \in Jobs /\ jobs[task[w].job] \in Row
        /\ OutputOf(task[w], jobs[task[w].job])
    BY <1>0, <2>1 DEF Processing
  <2>3. KeepsOutput(jobs[task[w].job], CompletedRow(jobs[task[w].job]))
    BY <1>10, <2>1, <2>2, RowOutputs DEF CompleteJob, OutputOf
  <2>4. QED
    BY <1>3, <1>10, <2>2, <2>3, OutsidePipeline, OutputCommit DEF CompleteJob
<1>11. ASSUME NEW w \in Workers, RequeueJob(w) \/ FailJob(w) PROVE OutputInv'
  <2>1. task[w].job \in Jobs /\ jobs[task[w].job] \in Row
    BY <1>0, <1>11 DEF RequeueJob, FailJob, Processing, Handlers
  <2>2. /\ KeepsOutput(jobs[task[w].job], RequeuedRow(jobs[task[w].job], task[w].err))
        /\ KeepsOutput(jobs[task[w].job], FailedRow(jobs[task[w].job], task[w].err))
    BY <2>1, RowOutputs
  <2>3. QED
    BY <1>3, <1>11, <2>1, <2>2, OutsidePipeline, OutputCommit DEF RequeueJob, FailJob
<1>12. ASSUME NEW w \in Workers, HandleShutdown(w) PROVE OutputInv'
  BY <1>12 DEF HandleShutdown, OutputInv, CompletedHasOutput
<1>13. ASSUME NEW j \in Jobs, Submit(j) \/ LockGoesStale(j) \/ BackoffElapses(j)
       PROVE  OutputInv'
  <2>1. task' = task
    BY <1>13 DEF Submit, LockGoesStale, BackoffElapses
  <2>2. CASE Submit(j)
    <3>1. \A v \in Workers : task[v].pc \in Pipeline =>
            task[v].job \in Jobs /\ jobs'[task[v].job] = jobs[task[v].job]
      BY <2>2 DEF Submit, TypeInv, TypeOK, TasksInOrder, Processing
    <3>2. \A v \in Workers : OutputOf(task'[v], jobs'[task'[v].job])
      BY <2>1, <3>1, OutsidePipeline DEF OutputInv
    <3>3. CompletedHasOutput'
      BY <2>2 DEF Submit, QueuedRow, OutputInv, CompletedHasOutput, TypeInv, TypeOK
    <3>4. QED
      BY <3>2, <3>3 DEF OutputInv
  <2>3. CASE LockGoesStale(j) \/ BackoffElapses(j)
    <3>1. \A k \in Jobs : KeepsOutput(jobs[k], jobs'[k])
      BY <2>3 DEF LockGoesStale, BackoffElapses, KeepsOutput, TypeInv, TypeOK, Row
    <3>2. \A v \in Workers : task[v].pc \in Pipeline => task[v].job \in Jobs
      BY DEF TypeInv, TasksInOrder, Processing
    <3>3. AfterExtraction \subseteq Pipeline /\ "result_stored" \in Pipeline
      BY DEF AfterExtraction, Pipeline, PipelineStages
    <3>4. \A v \in Workers : OutputOf(task'[v], jobs'[task'[v].job])
      BY <2>1, <3>1, <3>2, <3>3 DEF OutputInv, OutputOf, KeepsOutput
    <3>5. CompletedHasOutput'
      BY <3>1 DEF KeepsOutput, OutputInv, CompletedHasOutput
    <3>6. QED
      BY <3>4, <3>5 DEF OutputInv
  <2>4. QED
    BY <1>13, <2>2, <2>3
<1>14. CASE UNCHANGED vars
  BY <1>14 DEF vars, OutputInv, CompletedHasOutput
<1>15. QED
  BY <1>4, <1>5, <1>6, <1>7, <1>8, <1>9, <1>10, <1>11, <1>12, <1>13, <1>14
  DEF Next, WorkerStep

\* GET never shows a completed job without its extraction and its result: no
\* crash, retry, sweep or late writer takes away what complete_job relies on.
THEOREM OutputCorrect == Spec => []CompletedHasOutput
<1>1. Init => TypeInv /\ OutputInv
  BY TypeInit, OutputInvInit
<1>2. (TypeInv /\ OutputInv) /\ [Next]_vars => (TypeInv /\ OutputInv)'
  BY TypeNext, OutputInvNext
<1>3. TypeInv /\ OutputInv => CompletedHasOutput
  BY DEF OutputInv
<1>4. QED
  BY <1>1, <1>2, <1>3, PTL DEF Spec
-----------------------------------------------------------------------------
(* Statements, and the workers that make them *)


\* The shape of every statement: one worker moves to t, and one row, that no
\* claim of another worker has locked, may change.
Statement(w, t, row) ==
  /\ task' = [task EXCEPT ![w] = t]
  /\ jobs' \in {jobs, [jobs EXCEPT ![task[w].job] = row]}
  /\ ~LockedByClaim(w, task[w].job)

LEMMA CommitShape ==
  ASSUME TypeInv, NEW w \in Workers, task[w].job \in Jobs,
         NEW row, NEW acked, NEW raised, Commit(w, row, acked, raised)
  PROVE  \/ Statement(w, acked, row) /\ jobs' = [jobs EXCEPT ![task[w].job] = row]
         \/ Statement(w, raised, row)
  BY CommitEffect DEF Statement, TypeInv

\* Workers with a job, what they hold, and that pcs are told apart.
LEMMA Holding ==
  ASSUME TypeInv, NEW w \in Workers, task[w].pc \in Processing \cup {"claiming"}
  PROVE  /\ task[w] \in Task /\ task[w].job \in Jobs
         /\ jobs[task[w].job] \in Row /\ jobs[task[w].job].status # "absent"
  BY DEF TypeInv, TypeOK, TasksInOrder

LEMMA Sets ==
  /\ Processing = Pipeline \cup Handlers
  /\ PipelineStages \subseteq Pipeline
  /\ "claiming" \notin Processing
  /\ DOMAIN NextStage \subseteq Pipeline
  /\ \A pc \in Handlers : pc \notin Pipeline
  /\ \A pc \in {"claimed", "extraction_stored", "result_stored"} :
       pc \in Pipeline /\ pc \notin PipelineStages
  /\ \A pc \in {"failing", "retrying", "requeueing"} : pc \in Handlers
  BY NextStages DEF Processing, Pipeline, Handlers, PipelineStages

LEMMA Unowned ==
  /\ Idle.pc = "idle" /\ Idle.pc \notin Processing \cup {"claiming"}
  /\ \A pc \in {"idle", "polling", "down"} :
       Resting(pc).pc = pc /\ pc \notin Processing \cup {"claiming"}
  BY RestingTasks

\* The steps that leave the table alone and free their worker.
LEMMA FreeingStep ==
  ASSUME TypeInv, NEW w \in Workers,
         PollEmpty(w) \/ StopWorker(w) \/ Crash(w) \/ Restart(w)
  PROVE  \E t : /\ task' = [task EXCEPT ![w] = t] /\ jobs' = jobs
                /\ t.pc \notin Processing \cup {"claiming"}
  BY Unowned DEF PollEmpty, StopWorker, Crash, Restart

\* The tasks the handlers leave their worker with.
LEMMA DecisionSteps ==
  ASSUME TypeInv, NEW w \in Workers, WorkRaises(w) \/ RetryOrFailJob(w)
  PROVE  /\ jobs' = jobs /\ task[w].pc \in Processing
         /\ \E t : /\ task' = [task EXCEPT ![w] = t]
                   /\ \/ t.pc \in Handlers /\ t.job = task[w].job
                      \/ t.pc = "idle"
                   /\ t.pc = "requeueing" => jobs[task[w].job].attempts < MaxAttempts
<1>1. CASE WorkRaises(w)
  <2>1. PICK code \in Raised, handler \in {"failing", "retrying"} :
          task' = [task EXCEPT ![w] = [task[w] EXCEPT !.pc = handler, !.err = code]]
    BY <1>1 DEF WorkRaises, TypeInv, TypeOK
  <2>2. /\ [task[w] EXCEPT !.pc = handler, !.err = code].pc = handler
        /\ [task[w] EXCEPT !.pc = handler, !.err = code].job = task[w].job
    BY DEF TypeInv, TypeOK, Task
  <2>3. jobs' = jobs /\ task[w].pc \in PipelineStages
    BY <1>1 DEF WorkRaises, PipelineStages
  <2>4. QED
    BY <2>1, <2>2, <2>3, Sets
<1>2. CASE RetryOrFailJob(w)
  <2>1. /\ [task[w] EXCEPT !.pc = "failing", !.err = "MAX_ATTEMPTS_EXCEEDED"].pc = "failing"
        /\ [task[w] EXCEPT !.pc = "failing", !.err = "MAX_ATTEMPTS_EXCEEDED"].job = task[w].job
        /\ At(w, "requeueing").pc = "requeueing" /\ At(w, "requeueing").job = task[w].job
    BY DEF At, TypeInv, TypeOK, Task
  <2>2. jobs' = jobs /\ task[w].pc \in Processing
    BY <1>2, Sets DEF RetryOrFailJob
  <2>3. jobs[task[w].job].attempts \in Nat
    BY <2>2, Holding DEF Row
  <2>4. \/ task' = [task EXCEPT ![w] = [task[w] EXCEPT !.pc = "failing",
                                                !.err = "MAX_ATTEMPTS_EXCEEDED"]]
        \/ /\ task' = [task EXCEPT ![w] = At(w, "requeueing")]
           /\ jobs[task[w].job].attempts < MaxAttempts
        \/ task' = [task EXCEPT ![w] = Idle]
    BY <1>2, <2>3, MaxAttemptsAssumption DEF RetryOrFailJob, TypeInv, TypeOK
  <2>5. QED
    BY <2>1, <2>2, <2>4, Sets, Unowned
<1>3. QED
  BY <1>1, <1>2

-----------------------------------------------------------------------------
(* The lock of a claim *)

LEMMA ClaimStep ==
  ASSUME TypeInv, ClaimInv, NEW w \in Workers, NEW t, t.pc # "claiming",
         task' = [task EXCEPT ![w] = t],
         \A v \in Workers \ {w} : task[v].pc = "claiming" =>
           jobs'[task[v].job].status = "queued"
  PROVE  ClaimInv'
  BY DEF ClaimInv, LockedByClaim, TypeInv, TypeOK

LEMMA ClaimStatement ==
  ASSUME TypeInv, ClaimInv, NEW w \in Workers, NEW t, t.pc # "claiming", NEW row,
         task[w].job \in Jobs, Statement(w, t, row)
  PROVE  ClaimInv'
<1>1. \A v \in Workers \ {w} : task[v].pc = "claiming" =>
        task[v].job \in Jobs /\ task[v].job # task[w].job
  BY DEF Statement, LockedByClaim, TypeInv, TasksInOrder
<1>2. \A v \in Workers \ {w} : task[v].pc = "claiming" =>
        jobs'[task[v].job].status = "queued"
  BY <1>1 DEF Statement, ClaimInv, TypeInv, TypeOK
<1>3. QED
  BY <1>2, ClaimStep DEF Statement

\* The pcs of the tasks that statements leave.
LEMMA StatementTasks ==
  ASSUME TypeInv, NEW w \in Workers
  PROVE  /\ \A pc : At(w, pc).pc = pc /\ At(w, pc).job = task[w].job
                    /\ At(w, pc).attempt = task[w].attempt
         /\ \A pc, n : /\ [At(w, pc) EXCEPT !.attempt = n].pc = pc
                       /\ [At(w, pc) EXCEPT !.attempt = n].job = task[w].job
                       /\ [At(w, pc) EXCEPT !.attempt = n].attempt = n
         /\ UnknownError(w).pc = "retrying" /\ UnknownError(w).job = task[w].job
  BY DEF At, UnknownError, TypeInv, TypeOK, Task

\* Every statement, seen only as what it does to the row it may write.
Writes(w, old, new) ==
  \/ task[w].pc = "claiming" /\ new = ClaimedRow(old, w)
  \/ task[w].pc \in DOMAIN NextStage /\ new = [old EXCEPT !.stage = NextStage[task[w].pc]]
  \/ task[w].pc = "storing_extraction" /\ new = [old EXCEPT !.extraction = TRUE]
  \/ task[w].pc = "storing_result" /\ new = [old EXCEPT !.result = task[w].attempt]
  \/ task[w].pc = "result_stored" /\ new = CompletedRow(old)
  \/ task[w].pc = "requeueing" /\ new = RequeuedRow(old, task[w].err)
  \/ task[w].pc = "failing" /\ new = FailedRow(old, task[w].err)

StatementStep(w) == ClaimNextJob(w) \/ UpdateJobStage(w) \/ StoreExtraction(w)
                      \/ StoreAnnotation(w) \/ CompleteJob(w) \/ RequeueJob(w) \/ FailJob(w)

LEMMA StatementSteps ==
  ASSUME TypeInv, NEW w \in Workers, StatementStep(w)
  PROVE  /\ task[w].pc \in Processing \cup {"claiming"}
         /\ \E t, row : /\ Statement(w, t, row)
                        /\ Writes(w, jobs[task[w].job], row)
                        /\ t.pc \notin {"claiming", "requeueing"}
<1>0. ASSUME task[w].pc \in Processing \cup {"claiming"}, NEW row, NEW acked, NEW raised,
             Writes(w, jobs[task[w].job], row), Commit(w, row, acked, raised),
             acked.pc \notin {"claiming", "requeueing"},
             raised.pc \notin {"claiming", "requeueing"}
      PROVE  \E t, r : /\ Statement(w, t, r)
                       /\ Writes(w, jobs[task[w].job], r)
                       /\ t.pc \notin {"claiming", "requeueing"}
  BY <1>0, Holding, CommitShape
<1>1. CASE ClaimNextJob(w)
  <2>. DEFINE r == ClaimedRow(jobs[task[w].job], w)
              t == [At(w, "claimed") EXCEPT !.attempt = r.attempts]
  <2>1. t.pc = "claimed"
    BY StatementTasks
  <2>2. Writes(w, jobs[task[w].job], r) /\ task[w].pc = "claiming"
    BY <1>1 DEF ClaimNextJob, Writes
  <2>3. Commit(w, r, t, Idle)
    BY <1>1 DEF ClaimNextJob
  <2>. HIDE DEF r, t
  <2>4. QED
    BY <1>0, <2>1, <2>2, <2>3, Unowned
<1>2. CASE UpdateJobStage(w)
  <2>1. NextStage[task[w].pc] \notin {"claiming", "requeueing"}
    BY <1>2, NextStages DEF UpdateJobStage, PipelineStages
  <2>2. QED
    BY <1>0, <1>2, <2>1, StatementTasks, Sets DEF UpdateJobStage, Writes
<1>3. CASE StoreExtraction(w)
  BY <1>0, <1>3, StatementTasks, Sets DEF StoreExtraction, Writes, PipelineStages
<1>4. CASE StoreAnnotation(w)
  BY <1>0, <1>4, StatementTasks, Sets DEF StoreAnnotation, Writes, PipelineStages
<1>5. CASE CompleteJob(w)
  BY <1>0, <1>5, StatementTasks, Sets, Unowned DEF CompleteJob, Writes
<1>6. CASE RequeueJob(w)
  BY <1>0, <1>6, Sets, Unowned DEF RequeueJob, Writes
<1>7. CASE FailJob(w)
  BY <1>0, <1>7, Sets, Unowned DEF FailJob, Writes
<1>8. QED
  BY <1>1, <1>2, <1>3, <1>4, <1>5, <1>6, <1>7 DEF StatementStep

LEMMA ClaimNext == TypeInv /\ ClaimInv /\ [Next]_vars => ClaimInv'
<1>. SUFFICES ASSUME TypeInv, ClaimInv, [Next]_vars PROVE ClaimInv'
  OBVIOUS
<1>0. \A v \in Workers : task[v].pc = "claiming" =>
        task[v].job \in Jobs /\ jobs[task[v].job] \in Row /\ jobs[task[v].job].status = "queued"
  BY Holding DEF ClaimInv
<1>1. ASSUME NEW w \in Workers, StatementStep(w) PROVE ClaimInv'
  BY <1>1, StatementSteps, Holding, ClaimStatement
<1>2. ASSUME NEW w \in Workers, Sweep(w) PROVE ClaimInv'
  <2>1. \A v \in Workers : task[v].pc = "claiming" => jobs'[task[v].job].status = "queued"
    BY <1>0, <1>2 DEF Sweep, SweptRow, Sweepable
  <2>2. QED
    BY <1>2, <2>1, ClaimStep, Unowned DEF Sweep
<1>3. ASSUME NEW w \in Workers, SelectNextJob(w) PROVE ClaimInv'
  <2>1. PICK j \in Jobs : /\ Claimable(j) /\ ~LockedByClaim(w, j)
                          /\ task' = [task EXCEPT ![w] = [Idle EXCEPT !.pc = "claiming", !.job = j]]
    BY <1>3 DEF SelectNextJob
  <2>2. [Idle EXCEPT !.pc = "claiming", !.job = j].job = j
    BY DEF Idle, Resting
  <2>3. jobs' = jobs
    BY <1>3 DEF SelectNextJob
  <2>4. task'[w].job = j /\ \A v \in Workers \ {w} : task'[v] = task[v]
    BY <2>1, <2>2 DEF TypeInv, TypeOK
  <2>5. QED
    BY <1>0, <2>1, <2>3, <2>4 DEF ClaimInv, LockedByClaim, Claimable
<1>4. ASSUME NEW w \in Workers,
             PollEmpty(w) \/ StopWorker(w) \/ Crash(w) \/ Restart(w)
      PROVE  ClaimInv'
  BY <1>0, <1>4, FreeingStep, ClaimStep
<1>5. ASSUME NEW w \in Workers, WorkRaises(w) \/ RetryOrFailJob(w) PROVE ClaimInv'
  <2>1. PICK t : task' = [task EXCEPT ![w] = t] /\ t.pc # "claiming"
    BY <1>5, DecisionSteps, Sets DEF Handlers
  <2>2. jobs' = jobs
    BY <1>5, DecisionSteps
  <2>3. QED
    BY <1>0, <2>1, <2>2, ClaimStep
<1>6. ASSUME NEW w \in Workers, HandleShutdown(w) PROVE ClaimInv'
  BY <1>6 DEF HandleShutdown, ClaimInv, LockedByClaim
<1>7. ASSUME NEW j \in Jobs, Submit(j) \/ LockGoesStale(j) \/ BackoffElapses(j)
      PROVE  ClaimInv'
  <2>1. task' = task
    BY <1>7 DEF Submit, LockGoesStale, BackoffElapses
  <2>2. \A k \in Jobs : jobs[k].status = "queued" => jobs'[k].status = "queued"
    BY <1>7 DEF Submit, LockGoesStale, BackoffElapses, TypeInv, TypeOK, Row, QueuedRow
  <2>3. QED
    BY <1>0, <2>1, <2>2 DEF ClaimInv, LockedByClaim
<1>8. CASE UNCHANGED vars
  BY <1>8 DEF vars, ClaimInv, LockedByClaim
<1>9. QED
  BY <1>1, <1>2, <1>3, <1>4, <1>5, <1>6, <1>7, <1>8 DEF Next, WorkerStep, StatementStep

LEMMA ClaimInit == Init => ClaimInv
  BY Unowned DEF Init, ClaimInv

-----------------------------------------------------------------------------
(* How far the attempt budget can be overrun *)

LEMMA RequeuersFinite ==
  /\ \A j : IsFiniteSet(Requeuers(j)) /\ Cardinality(Requeuers(j)) \in Nat
  /\ Cardinality(Workers) \in Nat
<1>1. \A j : Requeuers(j) \subseteq Workers
  BY DEF Requeuers
<1>2. QED
  BY <1>1, FiniteWorkers, FS_Subset, FS_CardinalityType

LEMMA RequeuersPrimeFinite ==
  \A j : IsFiniteSet(Requeuers(j)') /\ Cardinality(Requeuers(j)') \in Nat
<1>1. \A j : Requeuers(j)' \subseteq Workers
  BY DEF Requeuers
<1>2. QED
  BY <1>1, FiniteWorkers, FS_Subset, FS_CardinalityType

\* A row that is past its budget, and stays there, may only lose pending
\* claims.
LEMMA OverrunKept ==
  ASSUME TypeInv, OverrunInv, NEW j \in Jobs,
         jobs'[j].attempts = jobs[j].attempts,
         jobs'[j].attempts >= MaxAttempts =>
           /\ Requeuers(j)' \subseteq Requeuers(j)
           /\ jobs'[j].status = "queued" =>
                 \/ jobs[j].status = "queued"
                 \/ \E w \in Requeuers(j) : w \notin Requeuers(j)'
  PROVE  jobs'[j].attempts >= MaxAttempts =>
           jobs'[j].attempts + Pending(j)' <= MaxAttempts + Cardinality(Workers) - 1
<1>. SUFFICES ASSUME jobs'[j].attempts >= MaxAttempts
     PROVE  jobs'[j].attempts + Pending(j)' <= MaxAttempts + Cardinality(Workers) - 1
  OBVIOUS
<1>1. jobs[j].attempts \in Nat /\ MaxAttempts \in Nat
  BY MaxAttemptsAssumption DEF TypeInv, TypeOK, Row
<1>2. jobs[j].attempts + Pending(j) <= MaxAttempts + Cardinality(Workers) - 1
  BY DEF OverrunInv
<1>3. Cardinality(Requeuers(j)') <= Cardinality(Requeuers(j))
  BY RequeuersFinite, FS_Subset
<1>4. CASE jobs'[j].status = "queued" => jobs[j].status = "queued"
  BY <1>1, <1>2, <1>3, <1>4, RequeuersFinite, RequeuersPrimeFinite DEF Pending
<1>5. CASE \E w \in Requeuers(j) : w \notin Requeuers(j)'
  <2>1. PICK w \in Requeuers(j) : w \notin Requeuers(j)'
    BY <1>5
  <2>2. Requeuers(j)' \subseteq Requeuers(j) \ {w}
    BY <2>1
  <2>3. /\ Cardinality(Requeuers(j) \ {w}) = Cardinality(Requeuers(j)) - 1
        /\ IsFiniteSet(Requeuers(j) \ {w})
    BY <2>1, RequeuersFinite, FS_RemoveElement
  <2>4. Cardinality(Requeuers(j)') <= Cardinality(Requeuers(j)) - 1
    BY <2>2, <2>3, FS_Subset
  <2>5. QED
    BY <1>1, <1>2, <2>4, RequeuersFinite, RequeuersPrimeFinite DEF Pending
<1>6. QED
  BY <1>4, <1>5

\* A claim: the attempt it counts is paid for by the row's place in the queue
\* or, the first time the budget is used up, by the claimer itself.
LEMMA OverrunClaim ==
  ASSUME TypeInv, OverrunInv, NEW j \in Jobs, NEW w \in Workers,
         jobs'[j].attempts = jobs[j].attempts + 1,
         jobs[j].status = "queued", jobs'[j].status # "queued",
         Requeuers(j)' \subseteq Requeuers(j) \ {w}
  PROVE  jobs'[j].attempts >= MaxAttempts =>
           jobs'[j].attempts + Pending(j)' <= MaxAttempts + Cardinality(Workers) - 1
<1>1. jobs[j].attempts \in Nat /\ MaxAttempts \in Nat
  BY MaxAttemptsAssumption DEF TypeInv, TypeOK, Row
<1>2. Pending(j)' = Cardinality(Requeuers(j)')
  BY RequeuersPrimeFinite DEF Pending
<1>3. CASE jobs[j].attempts >= MaxAttempts
  <2>1. jobs[j].attempts + Cardinality(Requeuers(j)) + 1
          <= MaxAttempts + Cardinality(Workers) - 1
    BY <1>1, <1>3, RequeuersFinite DEF OverrunInv, Pending
  <2>2. Cardinality(Requeuers(j)') <= Cardinality(Requeuers(j))
    BY RequeuersFinite, FS_Subset
  <2>3. QED
    BY <1>1, <1>2, <2>1, <2>2, RequeuersFinite, RequeuersPrimeFinite
<1>4. CASE jobs[j].attempts < MaxAttempts
  <2>1. Requeuers(j)' \subseteq Workers \ {w}
    BY DEF Requeuers
  <2>2. /\ Cardinality(Workers \ {w}) = Cardinality(Workers) - 1
        /\ IsFiniteSet(Workers \ {w})
    BY FiniteWorkers, FS_RemoveElement
  <2>3. Cardinality(Requeuers(j)') <= Cardinality(Workers) - 1
    BY <2>1, <2>2, FS_Subset
  <2>4. QED
    BY <1>1, <1>2, <1>4, <2>3, RequeuersFinite, RequeuersPrimeFinite
<1>5. QED
  BY <1>1, <1>3, <1>4

\* Attempts and statuses under the sweep.
LEMMA SweptAttempts ==
  ASSUME NEW row \in Row
  PROVE  /\ SweptRow(row).attempts = row.attempts
         /\ SweptRow(row).status = "queued" =>
              row.status = "queued" \/ row.attempts < MaxAttempts
<1>1. /\ [Unlocked(row) EXCEPT !.status = "queued", !.stage = "queued", !.due = TRUE].attempts
           = row.attempts
      /\ FailedRow(row, "MAX_ATTEMPTS_EXCEEDED").attempts = row.attempts
      /\ FailedRow(row, "MAX_ATTEMPTS_EXCEEDED").status = "failed"
  BY DEF Row, Unlocked, FailedRow
<1>2. QED
  BY <1>1 DEF SweptRow

\* What a statement other than the claim does to attempts and to the status.
LEMMA WrittenRow ==
  ASSUME NEW w, NEW old \in Row, NEW new, Writes(w, old, new)
  PROVE  /\ task[w].pc = "claiming" =>
              new.attempts = old.attempts + 1 /\ new.status = "processing"
         /\ task[w].pc # "claiming" =>
              /\ new.attempts = old.attempts
              /\ new.status = "queued" =>
                   old.status = "queued" \/ task[w].pc = "requeueing"
<1>1. "claiming" \notin DOMAIN NextStage
  BY DEF NextStage
<1>2. CASE task[w].pc = "claiming"
  <2>1. new = ClaimedRow(old, w)
    BY <1>1, <1>2 DEF Writes
  <2>2. QED
    BY <1>2, <2>1 DEF ClaimedRow, Row
<1>3. CASE task[w].pc # "claiming"
  <2>1. CASE task[w].pc \in DOMAIN NextStage /\ new = [old EXCEPT !.stage = NextStage[task[w].pc]]
    BY <1>3, <2>1 DEF Row
  <2>2. CASE new = [old EXCEPT !.extraction = TRUE] \/ new = [old EXCEPT !.result = task[w].attempt]
    BY <1>3, <2>2 DEF Row
  <2>3. CASE new = CompletedRow(old) \/ new = FailedRow(old, task[w].err)
    BY <1>3, <2>3 DEF CompletedRow, FailedRow, Unlocked, Row
  <2>4. CASE task[w].pc = "requeueing" /\ new = RequeuedRow(old, task[w].err)
    BY <1>3, <2>4 DEF RequeuedRow, Unlocked, Row
  <2>5. QED
    BY <1>3, <2>1, <2>2, <2>3, <2>4 DEF Writes
<1>4. QED
  BY <1>2, <1>3

LEMMA OverrunInit == Init => OverrunInv
<1>. SUFFICES ASSUME Init PROVE OverrunInv
  OBVIOUS
<1>1. \A j \in Jobs : jobs[j].attempts = 0
  BY DEF Init, AbsentRow, QueuedRow
<1>2. QED
  BY <1>1, MaxAttemptsAssumption DEF OverrunInv

LEMMA OverrunNext == TypeInv /\ ClaimInv /\ OverrunInv /\ [Next]_vars => OverrunInv'
<1>. SUFFICES ASSUME TypeInv, ClaimInv, OverrunInv, [Next]_vars, NEW j \in Jobs
     PROVE  jobs'[j].attempts >= MaxAttempts =>
              jobs'[j].attempts + Pending(j)' <= MaxAttempts + Cardinality(Workers) - 1
  BY DEF OverrunInv
<1>0. jobs[j] \in Row
  BY DEF TypeInv, TypeOK
<1>1. ASSUME NEW w \in Workers, NEW t, task' = [task EXCEPT ![w] = t], t.pc # "requeueing"
      PROVE  Requeuers(j)' \subseteq Requeuers(j) \ {w}
  BY <1>1 DEF Requeuers, TypeInv, TypeOK
<1>2. ASSUME NEW w \in Workers, StatementStep(w)
      PROVE  jobs'[j].attempts >= MaxAttempts =>
               jobs'[j].attempts + Pending(j)' <= MaxAttempts + Cardinality(Workers) - 1
  <2>1. PICK t, row : /\ Statement(w, t, row)
                      /\ Writes(w, jobs[task[w].job], row)
                      /\ t.pc \notin {"claiming", "requeueing"}
    BY <1>2, StatementSteps
  <2>2. /\ task[w].job \in Jobs /\ jobs[task[w].job] \in Row
    BY <1>2, StatementSteps, Holding
  <2>3. Requeuers(j)' \subseteq Requeuers(j) \ {w}
    BY <1>1, <2>1 DEF Statement
  <2>4. CASE jobs'[j] = jobs[j]
    BY <2>3, <2>4, OverrunKept
  <2>5. CASE j = task[w].job /\ jobs'[j] = row /\ task[w].pc = "claiming"
    BY <2>1, <2>2, <2>3, <2>5, WrittenRow, OverrunClaim DEF ClaimInv
  <2>6. CASE j = task[w].job /\ jobs'[j] = row /\ task[w].pc # "claiming"
    <3>1. /\ jobs'[j].attempts = jobs[j].attempts
          /\ jobs'[j].status = "queued" =>
               jobs[j].status = "queued" \/ task[w].pc = "requeueing"
      BY <2>1, <2>2, <2>6, WrittenRow
    <3>2. task[w].pc = "requeueing" => w \in Requeuers(j) /\ w \notin Requeuers(j)'
      BY <2>3, <2>6 DEF Requeuers
    <3>3. QED
      BY <2>3, <3>1, <3>2, OverrunKept
  <2>7. QED
    BY <2>1, <2>2, <2>4, <2>5, <2>6 DEF Statement, TypeInv, TypeOK
<1>3. ASSUME NEW w \in Workers, Sweep(w)
      PROVE  jobs'[j].attempts >= MaxAttempts =>
               jobs'[j].attempts + Pending(j)' <= MaxAttempts + Cardinality(Workers) - 1
  <2>1. Requeuers(j)' \subseteq Requeuers(j)
    BY <1>1, <1>3, Unowned DEF Sweep
  <2>2. jobs'[j] = jobs[j] \/ jobs'[j] = SweptRow(jobs[j])
    BY <1>3 DEF Sweep
  <2>3. /\ jobs'[j].attempts = jobs[j].attempts
        /\ jobs'[j].status = "queued" =>
             jobs[j].status = "queued" \/ jobs[j].attempts < MaxAttempts
    BY <1>0, <2>2, SweptAttempts
  <2>4. jobs[j].attempts \in Nat /\ MaxAttempts \in Nat
    BY <1>0, MaxAttemptsAssumption DEF Row
  <2>5. jobs'[j].attempts >= MaxAttempts /\ jobs'[j].status = "queued" => jobs[j].status = "queued"
    BY <2>3, <2>4
  <2>6. QED
    BY <2>1, <2>3, <2>5, OverrunKept
<1>4. ASSUME NEW w \in Workers,
             \/ PollEmpty(w) \/ StopWorker(w) \/ Crash(w) \/ Restart(w) \/ SelectNextJob(w)
      PROVE  jobs'[j].attempts >= MaxAttempts =>
               jobs'[j].attempts + Pending(j)' <= MaxAttempts + Cardinality(Workers) - 1
  <2>1. PICK t : task' = [task EXCEPT ![w] = t] /\ t.pc # "requeueing"
    <3>1. CASE SelectNextJob(w)
      <4>1. \A k : [Idle EXCEPT !.pc = "claiming", !.job = k].pc = "claiming"
        BY DEF Idle, Resting
      <4>2. QED
        BY <3>1, <4>1 DEF SelectNextJob
    <3>2. CASE ~SelectNextJob(w)
      BY <1>4, <3>2, FreeingStep, Sets
    <3>3. QED
      BY <3>1, <3>2
  <2>2. jobs' = jobs
    BY <1>4 DEF PollEmpty, StopWorker, Crash, Restart, SelectNextJob
  <2>3. Requeuers(j)' \subseteq Requeuers(j)
    BY <1>1, <2>1
  <2>4. QED
    BY <2>2, <2>3, OverrunKept
<1>5. ASSUME NEW w \in Workers, WorkRaises(w) \/ RetryOrFailJob(w)
      PROVE  jobs'[j].attempts >= MaxAttempts =>
               jobs'[j].attempts + Pending(j)' <= MaxAttempts + Cardinality(Workers) - 1
  <2>1. jobs' = jobs /\ task[w].job \in Jobs
    BY <1>5, DecisionSteps, Holding
  <2>2. PICK t : /\ task' = [task EXCEPT ![w] = t]
                 /\ t.job = task[w].job \/ t.pc = "idle"
                 /\ t.pc = "requeueing" => jobs[task[w].job].attempts < MaxAttempts
    BY <1>5, DecisionSteps
  <2>3. jobs[j].attempts \in Nat /\ MaxAttempts \in Nat
    BY <1>0, MaxAttemptsAssumption DEF Row
  <2>4. jobs[j].attempts >= MaxAttempts => Requeuers(j)' \subseteq Requeuers(j)
    <3>1. CASE t.pc # "requeueing"
      BY <1>1, <2>2, <3>1
    <3>2. CASE t.pc = "requeueing" /\ j # task[w].job
      BY <2>2, <3>2 DEF Requeuers, TypeInv, TypeOK
    <3>3. CASE t.pc = "requeueing" /\ j = task[w].job
      BY <2>2, <2>3, <3>3
    <3>4. QED
      BY <3>1, <3>2, <3>3
  <2>5. QED
    BY <2>1, <2>4, OverrunKept
<1>6. ASSUME \/ UNCHANGED vars
             \/ \E w \in Workers : HandleShutdown(w)
             \/ \E k \in Jobs : Submit(k) \/ LockGoesStale(k) \/ BackoffElapses(k)
      PROVE  jobs'[j].attempts >= MaxAttempts =>
               jobs'[j].attempts + Pending(j)' <= MaxAttempts + Cardinality(Workers) - 1
  <2>1. task' = task
    BY <1>6 DEF vars, HandleShutdown, Submit, LockGoesStale, BackoffElapses
  <2>2. Requeuers(j)' = Requeuers(j)
    BY <2>1 DEF Requeuers
  <2>3. CASE Submit(j)
    <3>1. jobs'[j].attempts = 0
      BY <2>3 DEF Submit, QueuedRow, TypeInv, TypeOK
    <3>2. QED
      BY <3>1, MaxAttemptsAssumption
  <2>4. CASE ~Submit(j)
    <3>1. jobs'[j].attempts = jobs[j].attempts /\ jobs'[j].status = jobs[j].status
      BY <1>0, <1>6, <2>4
      DEF vars, HandleShutdown, Submit, LockGoesStale, BackoffElapses, TypeInv, TypeOK, Row
    <3>2. QED
      BY <2>2, <3>1, OverrunKept
  <2>5. QED
    BY <2>3, <2>4
<1>7. QED
  BY <1>2, <1>3, <1>4, <1>5, <1>6 DEF Next, WorkerStep, StatementStep

\* attempts may pass max_attempts, since no claim compares them and the
\* decision to retry is taken on a value read before, but never by more than
\* one claim for each worker but the last claimer.
THEOREM AttemptOverrun == Spec => []AttemptOverrunBounded
<1>1. Init => TypeInv /\ ClaimInv /\ OverrunInv
  BY TypeInit, ClaimInit, OverrunInit
<1>2. (TypeInv /\ ClaimInv /\ OverrunInv) /\ [Next]_vars => (TypeInv /\ ClaimInv /\ OverrunInv)'
  BY TypeNext, ClaimNext, OverrunNext
<1>3. TypeInv /\ ClaimInv /\ OverrunInv => AttemptOverrunBounded
  <2>. SUFFICES ASSUME TypeInv, OverrunInv, NEW j \in Jobs
       PROVE  jobs[j].attempts <= MaxAttempts + Cardinality(Workers) - 1
    BY DEF AttemptOverrunBounded
  <2>1. jobs[j].attempts \in Nat /\ MaxAttempts \in Nat /\ Pending(j) \in Nat
    BY MaxAttemptsAssumption, RequeuersFinite DEF TypeInv, TypeOK, Row, Pending
  <2>2. jobs[j].attempts >= MaxAttempts =>
          jobs[j].attempts + Pending(j) <= MaxAttempts + Cardinality(Workers) - 1
    BY DEF OverrunInv
  <2>3. QED
    BY <2>1, <2>2, RequeuersFinite
<1>4. QED
  BY <1>1, <1>2, <1>3, PTL DEF Spec

-----------------------------------------------------------------------------
(* Everything that can happen to one row, and to one handler *)

\* A statement of w on row j; a handler is done with it.
WrittenBy(w, j) ==
  /\ task[w].job = j /\ task[w].pc \in Processing \cup {"claiming"}
  /\ Writes(w, jobs[j], jobs'[j])
  /\ ~LockedByClaim(w, j)
  /\ task[w].pc \in Handlers => task'[w] = Idle

RowStep(j) ==
  \/ jobs'[j] = jobs[j]
  \/ \E w \in Workers : WrittenBy(w, j)
  \/ jobs'[j] = SweptRow(jobs[j])
  \/ jobs[j].status = "absent" /\ jobs'[j] = QueuedRow
  \/ LockGoesStale(j) /\ jobs'[j] = [jobs[j] EXCEPT !.lockedAt = "stale"]
  \/ jobs[j].status # "absent" /\ jobs'[j] = [jobs[j] EXCEPT !.due = TRUE]

\* A handler's statement is its last.
LEMMA HandlersEnd ==
  ASSUME TypeInv, NEW w \in Workers, StatementStep(w), task[w].pc \in Handlers
  PROVE  task'[w] = Idle
<1>1. task[w].pc \notin Pipeline /\ task[w].pc # "claiming"
  BY Sets DEF Handlers
<1>2. RequeueJob(w) \/ FailJob(w)
  BY <1>1, Sets DEF StatementStep, ClaimNextJob, UpdateJobStage, StoreExtraction,
                    StoreAnnotation, CompleteJob, PipelineStages
<1>3. task' = [task EXCEPT ![w] = Idle]
  BY <1>2 DEF RequeueJob, FailJob, Commit
<1>4. QED
  BY <1>3 DEF TypeInv, TypeOK

LEMMA RowChanges ==
  ASSUME TypeInv, [Next]_vars, NEW j \in Jobs
  PROVE  RowStep(j)
<1>1. ASSUME NEW w \in Workers, StatementStep(w) PROVE RowStep(j)
  <2>1. PICK t, row : Statement(w, t, row) /\ Writes(w, jobs[task[w].job], row)
    BY <1>1, StatementSteps
  <2>2. task[w].pc \in Processing \cup {"claiming"} /\ task[w].job \in Jobs
    BY <1>1, StatementSteps, Holding
  <2>3. jobs'[j] = jobs[j] \/ (j = task[w].job /\ jobs'[j] = row)
    BY <2>1, <2>2 DEF Statement, TypeInv, TypeOK
  <2>4. j = task[w].job /\ jobs'[j] = row => WrittenBy(w, j)
    BY <1>1, <2>1, <2>2, HandlersEnd DEF WrittenBy, Statement
  <2>5. QED
    BY <2>3, <2>4 DEF RowStep
<1>2. ASSUME NEW w \in Workers, Sweep(w) PROVE RowStep(j)
  BY <1>2 DEF Sweep, RowStep
<1>3. ASSUME NEW w \in Workers,
             \/ SelectNextJob(w) \/ PollEmpty(w) \/ StopWorker(w) \/ WorkRaises(w)
             \/ RetryOrFailJob(w) \/ HandleShutdown(w) \/ Crash(w) \/ Restart(w)
      PROVE  RowStep(j)
  <2>1. jobs' = jobs
    BY <1>3 DEF SelectNextJob, PollEmpty, StopWorker, WorkRaises, RetryOrFailJob,
                HandleShutdown, Crash, Restart
  <2>2. QED
    BY <2>1 DEF RowStep
<1>4. ASSUME NEW k \in Jobs, Submit(k) \/ LockGoesStale(k) \/ BackoffElapses(k)
      PROVE  RowStep(j)
  <2>1. CASE k # j
    BY <1>4, <2>1 DEF Submit, LockGoesStale, BackoffElapses, RowStep, TypeInv, TypeOK
  <2>2. CASE k = j
    <3>1. CASE Submit(j)
      BY <3>1 DEF Submit, RowStep, TypeInv, TypeOK
    <3>2. CASE LockGoesStale(j)
      <4>1. jobs'[j] = [jobs[j] EXCEPT !.lockedAt = "stale"]
        BY <3>2 DEF LockGoesStale, TypeInv, TypeOK
      <4>2. QED
        BY <3>2, <4>1 DEF RowStep
    <3>3. CASE BackoffElapses(j)
      BY <3>3 DEF BackoffElapses, RowStep, TypeInv, TypeOK
    <3>4. QED
      BY <1>4, <2>2, <3>1, <3>2, <3>3
  <2>3. QED
    BY <2>1, <2>2
<1>5. CASE UNCHANGED vars
  BY <1>5 DEF vars, RowStep
<1>6. QED
  BY <1>1, <1>2, <1>3, <1>4, <1>5 DEF Next, WorkerStep, StatementStep


\* A statement that raises in the pipeline ends in the last handler, and has
\* written its row only if an acknowledgement can be lost.
LEMMA RaisingStatement ==
  ASSUME TypeInv, NEW w \in Workers, StatementStep(w), task'[w].pc \in Handlers
  PROVE  /\ task[w].pc \in Pipeline
         /\ task'[w] = UnknownError(w)
         /\ jobs' = jobs \/ LostAcks
<1>1. task[w].pc \in Processing \cup {"claiming"} /\ task[w].job \in Jobs
  BY StatementSteps, Holding
<1>2. task[w].pc \notin Handlers
  BY HandlersEnd, Unowned, Sets
<1>3. ASSUME NEW row, NEW acked, NEW raised, Commit(w, row, acked, raised),
             acked.pc \notin Handlers
      PROVE  task'[w] = raised /\ (jobs' = jobs \/ LostAcks)
  <2>1. /\ task' = [task EXCEPT ![w] = acked] \/ task' = [task EXCEPT ![w] = raised]
        /\ task' = [task EXCEPT ![w] = acked] \/ jobs' = jobs \/ LostAcks
    BY <1>1, <1>3, CommitEffect DEF TypeInv
  <2>2. QED
    BY <1>3, <2>1 DEF TypeInv, TypeOK
<1>4. \A pc \in Pipeline : At(w, pc).pc \notin Handlers
  BY StatementTasks, Sets
<1>5. CASE ClaimNextJob(w)
  <2>. DEFINE r == ClaimedRow(jobs[task[w].job], w)
              t == [At(w, "claimed") EXCEPT !.attempt = r.attempts]
  <2>1. t.pc \notin Handlers
    BY StatementTasks, Sets
  <2>2. Commit(w, r, t, Idle)
    BY <1>5 DEF ClaimNextJob
  <2>. HIDE DEF r, t
  <2>3. task'[w] = Idle
    BY <1>3, <2>1, <2>2
  <2>4. QED
    BY <2>3, Unowned, Sets
<1>6. CASE UpdateJobStage(w)
  <2>1. NextStage[task[w].pc] \in Pipeline /\ task[w].pc \in Pipeline
    BY <1>6, NextStages, Sets DEF UpdateJobStage
  <2>2. QED
    BY <1>3, <1>4, <1>6, <2>1 DEF UpdateJobStage
<1>7. CASE StoreExtraction(w) \/ StoreAnnotation(w)
  <2>1. task[w].pc \in Pipeline /\ {"extraction_stored", "result_stored"} \subseteq Pipeline
    BY <1>7, Sets DEF StoreExtraction, StoreAnnotation, PipelineStages
  <2>2. QED
    BY <1>3, <1>4, <1>7, <2>1 DEF StoreExtraction, StoreAnnotation
<1>8. CASE CompleteJob(w)
  BY <1>3, <1>8, Unowned, Sets DEF CompleteJob
<1>9. QED
  BY <1>2, <1>5, <1>6, <1>7, <1>8, Sets DEF StatementStep, RequeueJob, FailJob

\* A worker is moved by its own steps only.
LEMMA OthersStay ==
  ASSUME TypeInv, NEW v \in Workers, NEW w \in Workers, v # w,
         WorkerStep(v) \/ Crash(v) \/ Restart(v)
  PROVE  task'[w] = task[w]
<1>1. \A t : task' = [task EXCEPT ![v] = t] => task'[w] = task[w]
  BY DEF TypeInv, TypeOK
<1>2. StatementStep(v) => task'[w] = task[w]
  BY <1>1, StatementSteps DEF Statement
<1>3. QED
  BY <1>1, <1>2
  DEF WorkerStep, StatementStep, Sweep, SelectNextJob, PollEmpty, StopWorker, WorkRaises,
      RetryOrFailJob, Crash, Restart

LEMMA OwnSteps ==
  ASSUME TypeInv, [Next]_vars, NEW w \in Workers
  PROVE  task'[w] = task[w] \/ WorkerStep(w) \/ Crash(w) \/ Restart(w)
<1>1. ASSUME \/ \E v \in Workers : HandleShutdown(v)
             \/ \E k \in Jobs : Submit(k) \/ LockGoesStale(k) \/ BackoffElapses(k)
             \/ UNCHANGED vars
      PROVE  task'[w] = task[w]
  BY <1>1 DEF HandleShutdown, Submit, LockGoesStale, BackoffElapses, vars
<1>2. QED
  BY <1>1, OthersStay DEF Next

Transient == {"LLM_TIMEOUT", "LLM_RATE_LIMITED"}

\* How a worker gets into a handler, and on in it.
LEMMA HandlerChanges ==
  ASSUME TypeInv, [Next]_vars, NEW w \in Workers, task'[w].pc \in Handlers
  PROVE  /\ task[w].pc \in Processing /\ task'[w].job = task[w].job
         /\ \/ task'[w] = task[w]
            \/ /\ task[w].pc \in Pipeline
               /\ task'[w].err # "MAX_ATTEMPTS_EXCEEDED"
               /\ task'[w].pc = "failing" => task'[w].err \notin Transient /\ jobs' = jobs
               /\ jobs' = jobs \/ LostAcks
            \/ /\ task[w].pc = "retrying" /\ jobs' = jobs
               /\ \/ /\ task'[w].pc = "failing" /\ task'[w].err = "MAX_ATTEMPTS_EXCEEDED"
                     /\ jobs[task[w].job].attempts >= MaxAttempts
                  \/ task'[w].pc = "requeueing" /\ task'[w].err = task[w].err
<1>. DEFINE Goal ==
       /\ task[w].pc \in Processing /\ task'[w].job = task[w].job
       /\ \/ task'[w] = task[w]
          \/ /\ task[w].pc \in Pipeline
             /\ task'[w].err # "MAX_ATTEMPTS_EXCEEDED"
             /\ task'[w].pc = "failing" => task'[w].err \notin Transient /\ jobs' = jobs
             /\ jobs' = jobs \/ LostAcks
          \/ /\ task[w].pc = "retrying" /\ jobs' = jobs
             /\ \/ /\ task'[w].pc = "failing" /\ task'[w].err = "MAX_ATTEMPTS_EXCEEDED"
                   /\ jobs[task[w].job].attempts >= MaxAttempts
                \/ task'[w].pc = "requeueing" /\ task'[w].err = task[w].err
<1>0. task'[w] = task[w] => Goal
  BY Sets
<1>1. CASE StatementStep(w)
  <2>1. /\ task[w].pc \in Pipeline /\ task'[w] = UnknownError(w)
        /\ jobs' = jobs \/ LostAcks
    BY <1>1, RaisingStatement
  <2>2. UnknownError(w).err = "UNKNOWN_WORKER_ERROR"
    BY DEF UnknownError, TypeInv, TypeOK, Task
  <2>3. QED
    BY <2>1, <2>2, StatementTasks, Sets
<1>2. CASE WorkRaises(w)
  <2>1. PICK code \in Raised, handler \in {"failing", "retrying"} :
          /\ \/ task[w].pc = "validating_file" /\ code \in FileErrors
             \/ task[w].pc = "extracting_text" /\ code \in ExtractionErrors
             \/ /\ task[w].pc = "calling_llm"
                /\ handler = "retrying" <=> code \in RetryableAnnotationErrors
             \/ handler = "retrying"
          /\ task[w].pc \in {"validating_file", "extracting_text", "calling_llm"}
          /\ task' = [task EXCEPT ![w] = [task[w] EXCEPT !.pc = handler, !.err = code]]
          /\ jobs' = jobs
    BY <1>2 DEF WorkRaises, TypeInv, TypeOK
  <2>2. task'[w].pc = handler /\ task'[w].err = code /\ task'[w].job = task[w].job
    BY <2>1 DEF TypeInv, TypeOK, Task
  <2>3. code # "MAX_ATTEMPTS_EXCEEDED"
    BY RaisedAssumption
  <2>4. handler = "failing" => code \notin Transient
    BY <2>1 DEF FileErrors, ExtractionErrors, RetryableAnnotationErrors, Transient
  <2>5. task[w].pc \in Pipeline
    BY <2>1, Sets DEF PipelineStages
  <2>6. QED
    BY <2>1, <2>2, <2>3, <2>4, <2>5, Sets
<1>3. CASE RetryOrFailJob(w)
  <2>. DEFINE failing == [task[w] EXCEPT !.pc = "failing", !.err = "MAX_ATTEMPTS_EXCEEDED"]
              requeueing == At(w, "requeueing")
  <2>1. /\ failing.pc = "failing" /\ failing.err = "MAX_ATTEMPTS_EXCEEDED"
        /\ failing.job = task[w].job
        /\ requeueing.pc = "requeueing" /\ requeueing.err = task[w].err
        /\ requeueing.job = task[w].job
    BY DEF At, TypeInv, TypeOK, Task
  <2>2. /\ task[w].pc = "retrying" /\ jobs' = jobs
        /\ \/ /\ task' = [task EXCEPT ![w] = failing]
              /\ jobs[task[w].job].attempts >= MaxAttempts
           \/ task' = [task EXCEPT ![w] = requeueing]
           \/ task' = [task EXCEPT ![w] = Idle]
    BY <1>3 DEF RetryOrFailJob, TypeInv, TypeOK
  <2>. HIDE DEF failing, requeueing
  <2>3. \/ task'[w] = failing /\ jobs[task[w].job].attempts >= MaxAttempts
        \/ task'[w] = requeueing
    BY <2>2, Unowned, Sets DEF TypeInv, TypeOK
  <2>4. QED
    BY <2>1, <2>2, <2>3, Sets
<1>4. CASE Sweep(w) \/ SelectNextJob(w) \/ PollEmpty(w) \/ StopWorker(w) \/ Crash(w) \/ Restart(w)
  <2>1. \A j : [Idle EXCEPT !.pc = "claiming", !.job = j].pc \notin Handlers
    BY DEF Idle, Resting, Handlers
  <2>2. ASSUME NEW t, task' = [task EXCEPT ![w] = t], t.pc \notin Handlers PROVE FALSE
    BY <2>2 DEF TypeInv, TypeOK
  <2>3. CASE SelectNextJob(w)
    BY <2>1, <2>2, <2>3 DEF SelectNextJob
  <2>4. CASE Sweep(w)
    BY <2>2, <2>4, Unowned, Sets DEF Sweep
  <2>5. CASE PollEmpty(w) \/ StopWorker(w) \/ Crash(w) \/ Restart(w)
    BY <2>2, <2>5, FreeingStep, Sets
  <2>6. QED
    BY <1>4, <2>3, <2>4, <2>5
<1>5. QED
  BY <1>0, <1>1, <1>2, <1>3, <1>4, OwnSteps DEF WorkerStep, StatementStep

-----------------------------------------------------------------------------
(* The lock columns, at any timing *)

LockColumns(row) == /\ row.status = "processing" <=> row.lockedAt # NULL
                    /\ row.lockedAt = NULL <=> row.lockedBy = NULL

\* Every way to write a row sets or clears status and lock columns together.
LEMMA LocksWritten ==
  ASSUME NEW w \in Workers, NEW old \in Row, NEW new, Writes(w, old, new), LockColumns(old)
  PROVE  LockColumns(new)
<1>1. CASE new = ClaimedRow(old, w)
  <2>1. new.status = "processing" /\ new.lockedAt = "fresh" /\ new.lockedBy = w
    BY <1>1 DEF ClaimedRow, Row
  <2>2. w # NULL /\ NULL # "fresh"
    BY WorkersAssumption DEF NULL
  <2>3. QED
    BY <2>1, <2>2 DEF LockColumns
<1>2. CASE \/ new = [old EXCEPT !.stage = NextStage[task[w].pc]]
           \/ new = [old EXCEPT !.extraction = TRUE]
           \/ new = [old EXCEPT !.result = task[w].attempt]
  BY <1>2 DEF LockColumns, Row
<1>3. CASE \/ new = CompletedRow(old) \/ new = RequeuedRow(old, task[w].err)
           \/ new = FailedRow(old, task[w].err)
  <2>1. new.status # "processing" /\ new.lockedAt = NULL /\ new.lockedBy = NULL
    BY <1>3 DEF CompletedRow, RequeuedRow, FailedRow, Unlocked, Row
  <2>2. QED
    BY <2>1 DEF LockColumns
<1>4. QED
  BY <1>1, <1>2, <1>3 DEF Writes

LEMMA LocksSwept ==
  ASSUME NEW row \in Row, LockColumns(row)
  PROVE  LockColumns(SweptRow(row))
<1>. DEFINE queued == [Unlocked(row) EXCEPT !.status = "queued", !.stage = "queued", !.due = TRUE]
            failed == FailedRow(row, "MAX_ATTEMPTS_EXCEEDED")
<1>1. /\ queued.status = "queued" /\ queued.lockedAt = NULL /\ queued.lockedBy = NULL
      /\ failed.status = "failed" /\ failed.lockedAt = NULL /\ failed.lockedBy = NULL
  BY DEF FailedRow, Unlocked, Row
<1>2. LockColumns(queued) /\ LockColumns(failed)
  BY <1>1 DEF LockColumns
<1>3. QED
  BY <1>2 DEF SweptRow

LEMMA LocksNext == TypeInv /\ ProcessingIsLocked /\ [Next]_vars => ProcessingIsLocked'
<1>. SUFFICES ASSUME TypeInv, ProcessingIsLocked, [Next]_vars, NEW j \in Jobs
     PROVE  LockColumns(jobs'[j])
  BY DEF ProcessingIsLocked, LockColumns
<1>1. jobs[j] \in Row /\ LockColumns(jobs[j])
  BY DEF TypeInv, TypeOK, ProcessingIsLocked, LockColumns
<1>2. ASSUME NEW w \in Workers, WrittenBy(w, j) PROVE LockColumns(jobs'[j])
  BY <1>1, <1>2, LocksWritten DEF WrittenBy
<1>3. CASE jobs'[j] = SweptRow(jobs[j])
  BY <1>1, <1>3, LocksSwept
<1>4. CASE jobs'[j] = QueuedRow
  BY <1>4 DEF QueuedRow, LockColumns
<1>5. CASE LockGoesStale(j) /\ jobs'[j] = [jobs[j] EXCEPT !.lockedAt = "stale"]
  <2>1. NULL \notin {"fresh", "stale"}
    BY DEF NULL
  <2>2. QED
    BY <1>1, <1>5, <2>1 DEF LockGoesStale, LockColumns, Row
<1>6. CASE jobs'[j] = [jobs[j] EXCEPT !.due = TRUE]
  BY <1>1, <1>6 DEF LockColumns, Row
<1>7. QED
  BY <1>1, <1>2, <1>3, <1>4, <1>5, <1>6, RowChanges DEF RowStep

LEMMA LocksInit == Init => ProcessingIsLocked
  BY DEF Init, ProcessingIsLocked, AbsentRow, QueuedRow

\* However workers, sweepers and crashes interleave, and however late a
\* statement comes, a row is in "processing" exactly while both lock columns are
\* set: the sweeper, which looks for locked_at, finds every abandoned job.
THEOREM LockColumnsCorrect == Spec => []ProcessingIsLocked
<1>1. Init => TypeInv /\ ProcessingIsLocked
  BY TypeInit, LocksInit
<1>2. (TypeInv /\ ProcessingIsLocked) /\ [Next]_vars => (TypeInv /\ ProcessingIsLocked)'
  BY TypeNext, LocksNext
<1>3. QED
  BY <1>1, <1>2, PTL DEF Spec

-----------------------------------------------------------------------------
(* The error code, at any timing *)

GoodError(row) ==
  /\ row.error = "MAX_ATTEMPTS_EXCEEDED" => row.attempts >= MaxAttempts
  /\ row.status = "failed" => row.error \notin Transient

\* What each statement leaves in error and attempts.
LEMMA ErrorsWritten ==
  ASSUME NEW w, NEW old \in Row, NEW new, Writes(w, old, new), GoodError(old),
         task[w].pc \in Handlers => MayRecord(task[w], old)
  PROVE  GoodError(new) /\ new.attempts >= old.attempts
<1>0. old.attempts \in Nat
  BY DEF Row
<1>1. CASE new = ClaimedRow(old, w)
  <2>1. new.status = "processing" /\ new.attempts = old.attempts + 1 /\ new.error = NULL
    BY <1>1 DEF ClaimedRow, Row
  <2>2. QED
    BY <1>0, <2>1 DEF GoodError, NULL
<1>2. CASE \/ new = [old EXCEPT !.stage = NextStage[task[w].pc]]
           \/ new = [old EXCEPT !.extraction = TRUE]
           \/ new = [old EXCEPT !.result = task[w].attempt]
  <2>1. new.status = old.status /\ new.attempts = old.attempts /\ new.error = old.error
    BY <1>2 DEF Row
  <2>2. QED
    BY <1>0, <2>1 DEF GoodError
<1>3. CASE new = CompletedRow(old)
  <2>1. new.status = "completed" /\ new.attempts = old.attempts /\ new.error = old.error
    BY <1>3 DEF CompletedRow, Unlocked, Row
  <2>2. QED
    BY <1>0, <2>1 DEF GoodError
<1>4. CASE task[w].pc = "requeueing" /\ new = RequeuedRow(old, task[w].err)
  <2>1. new.status = "queued" /\ new.attempts = old.attempts /\ new.error = task[w].err
    BY <1>4 DEF RequeuedRow, Unlocked, Row
  <2>2. QED
    BY <1>0, <1>4, <2>1, Sets DEF GoodError, MayRecord
<1>5. CASE task[w].pc = "failing" /\ new = FailedRow(old, task[w].err)
  <2>1. new.status = "failed" /\ new.attempts = old.attempts /\ new.error = task[w].err
    BY <1>5 DEF FailedRow, Unlocked, Row
  <2>2. QED
    BY <1>0, <1>5, <2>1, Sets DEF GoodError, MayRecord, Transient
<1>6. QED
  BY <1>1, <1>2, <1>3, <1>4, <1>5 DEF Writes

LEMMA ErrorsSwept ==
  ASSUME NEW row \in Row, GoodError(row)
  PROVE  GoodError(SweptRow(row)) /\ SweptRow(row).attempts = row.attempts
<1>. DEFINE queued == [Unlocked(row) EXCEPT !.status = "queued", !.stage = "queued", !.due = TRUE]
            failed == FailedRow(row, "MAX_ATTEMPTS_EXCEEDED")
<1>1. /\ queued.status = "queued" /\ queued.attempts = row.attempts /\ queued.error = row.error
      /\ failed.error = "MAX_ATTEMPTS_EXCEEDED" /\ failed.attempts = row.attempts
  BY DEF FailedRow, Unlocked, Row
<1>2. row.attempts \in Nat /\ MaxAttempts \in Nat
  BY MaxAttemptsAssumption DEF Row
<1>3. GoodError(queued)
  BY <1>1 DEF GoodError
<1>4. row.attempts < MaxAttempts \/ GoodError(failed)
  BY <1>1, <1>2 DEF GoodError, Transient
<1>. HIDE DEF queued, failed
<1>5. SweptRow(row) \in {row, queued} \/ (SweptRow(row) = failed /\ ~(row.attempts < MaxAttempts))
  BY DEF SweptRow, queued, failed
<1>6. QED
  BY <1>1, <1>3, <1>4, <1>5

\* One row: its error stays good, and no attempt is uncounted once it exists.
LEMMA ErrorRow ==
  ASSUME TypeInv, ErrorInv, [Next]_vars, NEW j \in Jobs
  PROVE  /\ GoodError(jobs'[j])
         /\ jobs[j].status # "absent" => jobs'[j].attempts >= jobs[j].attempts
<1>1. jobs[j] \in Row /\ GoodError(jobs[j]) /\ jobs[j].attempts \in Nat
  BY DEF TypeInv, TypeOK, ErrorInv, ExhaustedMeansExhausted, TransientErrorsNeverFail,
         GoodError, Transient, Row
<1>2. ASSUME NEW w \in Workers, WrittenBy(w, j)
      PROVE  GoodError(jobs'[j]) /\ jobs'[j].attempts >= jobs[j].attempts
  BY <1>1, <1>2, ErrorsWritten DEF WrittenBy, ErrorInv
<1>3. CASE jobs'[j] = SweptRow(jobs[j])
  BY <1>1, <1>3, ErrorsSwept
<1>4. CASE jobs[j].status = "absent" /\ jobs'[j] = QueuedRow
  BY <1>4 DEF QueuedRow, GoodError, NULL
<1>5. CASE \/ jobs'[j] = [jobs[j] EXCEPT !.lockedAt = "stale"]
           \/ jobs'[j] = [jobs[j] EXCEPT !.due = TRUE]
  BY <1>1, <1>5 DEF GoodError, Row
<1>6. QED
  BY <1>1, <1>2, <1>3, <1>4, <1>5, RowChanges DEF RowStep

LEMMA ErrorInit == Init => ErrorInv
<1>. SUFFICES ASSUME Init PROVE ErrorInv
  OBVIOUS
<1>1. \A w \in Workers : task[w].pc \notin Handlers
  BY Unowned, Sets DEF Init
<1>2. \A j \in Jobs : jobs[j].status = "absent" /\ jobs[j].error = NULL
  BY DEF Init, AbsentRow, QueuedRow
<1>3. QED
  BY <1>1, <1>2 DEF ErrorInv, ExhaustedMeansExhausted, TransientErrorsNeverFail, NULL

LEMMA ErrorNext == TypeInv /\ ErrorInv /\ [Next]_vars => ErrorInv'
<1>. SUFFICES ASSUME TypeInv, ErrorInv, [Next]_vars PROVE ErrorInv'
  OBVIOUS
<1>1. \A j \in Jobs : GoodError(jobs'[j])
  BY ErrorRow
<1>2. ASSUME NEW w \in Workers, task'[w].pc \in Handlers
      PROVE  MayRecord(task'[w], jobs'[task'[w].job])
  <2>1. PICK j \in Jobs : /\ j = task[w].job /\ j = task'[w].job
                          /\ jobs[j].status # "absent" /\ jobs[j] \in Row
    BY <1>2, HandlerChanges, Holding
  <2>2. /\ jobs'[j].attempts >= jobs[j].attempts
        /\ jobs[j].attempts \in Nat /\ jobs'[j].attempts \in Nat /\ MaxAttempts \in Nat
    BY <2>1, ErrorRow, TypeNext, MaxAttemptsAssumption DEF TypeInv, TypeOK, Row
  <2>3. CASE task'[w] = task[w]
    <3>1. MayRecord(task[w], jobs[j])
      BY <1>2, <2>1, <2>3 DEF ErrorInv
    <3>2. QED
      BY <2>1, <2>2, <2>3, <3>1 DEF MayRecord
  <2>4. CASE /\ task'[w].err # "MAX_ATTEMPTS_EXCEEDED"
             /\ task'[w].pc = "failing" => task'[w].err \notin Transient
    BY <2>4 DEF MayRecord, Transient
  <2>5. CASE /\ task'[w].pc = "failing" /\ task'[w].err = "MAX_ATTEMPTS_EXCEEDED"
             /\ jobs[j].attempts >= MaxAttempts
    BY <2>1, <2>2, <2>5 DEF MayRecord
  <2>6. CASE task[w].pc = "retrying" /\ task'[w].pc = "requeueing" /\ task'[w].err = task[w].err
    <3>1. MayRecord(task[w], jobs[j])
      BY <2>1, <2>6, Sets DEF ErrorInv
    <3>2. QED
      BY <2>1, <2>2, <2>6, <3>1 DEF MayRecord
  <2>7. QED
    BY <1>2, <2>1, <2>3, <2>4, <2>5, <2>6, HandlerChanges
<1>3. QED
  BY <1>1, <1>2
  DEF ErrorInv, ExhaustedMeansExhausted, TransientErrorsNeverFail, GoodError, Transient

LEMMA ErrorAlways == Spec => []ErrorInv
<1>1. Init => TypeInv /\ ErrorInv
  BY TypeInit, ErrorInit
<1>2. (TypeInv /\ ErrorInv) /\ [Next]_vars => (TypeInv /\ ErrorInv)'
  BY TypeNext, ErrorNext
<1>3. QED
  BY <1>1, <1>2, PTL DEF Spec

\* MAX_ATTEMPTS_EXCEEDED is only recorded of a row whose attempts are used up,
\* although the handler read attempts in another transaction than the one that
\* writes the code and other workers may have written the row in between.
THEOREM ExhaustionCorrect == Spec => []ExhaustedMeansExhausted
<1>1. ErrorInv => ExhaustedMeansExhausted
  BY DEF ErrorInv
<1>2. QED
  BY <1>1, ErrorAlways, PTL

\* A timeout or a rate limit never fails a job by itself, at any timing.
THEOREM TransientErrorsCorrect == Spec => []TransientErrorsNeverFail
<1>1. ErrorInv => TransientErrorsNeverFail
  BY DEF ErrorInv
<1>2. QED
  BY <1>1, ErrorAlways, PTL

-----------------------------------------------------------------------------
(* What the rest of the service may rely on: who inserts a row, and where  *)
(* an error code comes from                                                *)

\* A job is inserted by POST /documents and by nothing a worker does.
LEMMA WorkersInsertNothing ==
  ASSUME TypeInv, NEW j \in Jobs,
         \/ \E w \in Workers : WorkerStep(w) \/ HandleShutdown(w) \/ Crash(w) \/ Restart(w)
         \/ \E k \in Jobs : LockGoesStale(k) \/ BackoffElapses(k)
  PROVE  jobs'[j].status = "absent" <=> jobs[j].status = "absent"
<1>0. jobs[j] \in Row /\ jobs \in [Jobs -> Row]
  BY DEF TypeInv, TypeOK
<1>1. ASSUME NEW w \in Workers, StatementStep(w)
      PROVE  jobs'[j].status = "absent" <=> jobs[j].status = "absent"
  <2>1. PICK t, row : Statement(w, t, row) /\ Writes(w, jobs[task[w].job], row)
    BY <1>1, StatementSteps
  <2>2. jobs[task[w].job].status # "absent" /\ jobs[task[w].job] \in Row /\ task[w].job \in Jobs
    BY <1>1, StatementSteps, Holding
  <2>3. row.status # "absent"
    BY <2>1, <2>2, RowStatuses DEF Writes, Row
  <2>4. jobs'[j] = jobs[j] \/ (j = task[w].job /\ jobs'[j] = row)
    BY <1>0, <2>1, <2>2 DEF Statement
  <2>5. QED
    BY <2>2, <2>3, <2>4
<1>2. ASSUME NEW w \in Workers, Sweep(w)
      PROVE  jobs'[j].status = "absent" <=> jobs[j].status = "absent"
  <2>1. jobs'[j] = SweptRow(jobs[j]) \/ jobs'[j] = jobs[j]
    BY <1>2 DEF Sweep
  <2>2. jobs[j].status = "absent" => SweptRow(jobs[j]) = jobs[j]
    BY DEF SweptRow, Sweepable
  <2>3. QED
    BY <1>0, <2>1, <2>2, RowStatuses
<1>3. ASSUME NEW w \in Workers,
             \/ SelectNextJob(w) \/ PollEmpty(w) \/ StopWorker(w) \/ WorkRaises(w)
             \/ RetryOrFailJob(w) \/ HandleShutdown(w) \/ Crash(w) \/ Restart(w)
      PROVE  jobs' = jobs
  <2>1. SelectNextJob(w) \/ HandleShutdown(w) => jobs' = jobs
    BY DEF SelectNextJob, HandleShutdown
  <2>2. QED
    BY <1>3, <2>1, FreeingStep, DecisionSteps
<1>4. ASSUME NEW k \in Jobs, LockGoesStale(k) \/ BackoffElapses(k)
      PROVE  jobs'[j].status = jobs[j].status
  BY <1>0, <1>4 DEF LockGoesStale, BackoffElapses, Row
<1>5. QED
  BY <1>1, <1>2, <1>3, <1>4 DEF WorkerStep, StatementStep

\* A new code in a row is one a handler had to record, or the sweeper's.
LEMMA ErrorSource ==
  ASSUME TypeInv, [Next]_vars, NEW j \in Jobs
  PROVE  \/ jobs'[j].error \in {jobs[j].error, NULL, "MAX_ATTEMPTS_EXCEEDED"}
         \/ \E w \in Workers : /\ task[w].pc \in Handlers /\ task[w].job = j
                               /\ jobs'[j].error = task[w].err
<1>0. jobs[j] \in Row
  BY DEF TypeInv, TypeOK
<1>1. ASSUME NEW w \in Workers, WrittenBy(w, j)
      PROVE  \/ jobs'[j].error \in {jobs[j].error, NULL}
             \/ task[w].pc \in Handlers /\ task[w].job = j /\ jobs'[j].error = task[w].err
  <2>. DEFINE old == jobs[j]
              new == jobs'[j]
  <2>1. Writes(w, old, new) /\ task[w].job = j
    BY <1>1 DEF WrittenBy
  <2>2. CASE new = ClaimedRow(old, w)
    BY <1>0, <2>2 DEF ClaimedRow, Row
  <2>3. CASE \/ new = [old EXCEPT !.stage = NextStage[task[w].pc]]
             \/ new = [old EXCEPT !.extraction = TRUE]
             \/ new = [old EXCEPT !.result = task[w].attempt]
    BY <1>0, <2>3 DEF Row
  <2>4. CASE new = CompletedRow(old)
    BY <1>0, <2>4 DEF CompletedRow, Unlocked, Row
  <2>5. CASE task[w].pc = "requeueing" /\ new = RequeuedRow(old, task[w].err)
    BY <1>0, <2>1, <2>5, Sets DEF RequeuedRow, Unlocked, Row
  <2>6. CASE task[w].pc = "failing" /\ new = FailedRow(old, task[w].err)
    BY <1>0, <2>1, <2>6, Sets DEF FailedRow, Unlocked, Row
  <2>7. QED
    BY <2>1, <2>2, <2>3, <2>4, <2>5, <2>6 DEF Writes
<1>2. SweptRow(jobs[j]).error \in {jobs[j].error, "MAX_ATTEMPTS_EXCEEDED"}
  BY <1>0 DEF SweptRow, FailedRow, Unlocked, Row
<1>3. /\ QueuedRow.error = NULL
      /\ [jobs[j] EXCEPT !.lockedAt = "stale"].error = jobs[j].error
      /\ [jobs[j] EXCEPT !.due = TRUE].error = jobs[j].error
  BY <1>0 DEF QueuedRow, Row
<1>4. QED
  BY <1>1, <1>2, <1>3, RowChanges DEF RowStep

\* No signal, no crash and no passing of time puts a worker into a handler.
LEMMA EventsRaiseNothing ==
  ASSUME TypeInv, NEW w \in Workers, task'[w].pc \in Handlers,
         \/ \E v \in Workers : HandleShutdown(v) \/ Crash(v) \/ Restart(v)
         \/ \E j \in Jobs : Submit(j) \/ LockGoesStale(j) \/ BackoffElapses(j)
  PROVE  task'[w] = task[w]
<1>1. Crash(w) \/ Restart(w) => task'[w].pc \in {"idle", "down"}
  BY DEF Crash, Restart, Idle, Resting, TypeInv, TypeOK
<1>2. ~Crash(w) /\ ~Restart(w)
  BY <1>1 DEF Handlers
<1>3. ASSUME NEW v \in Workers, Crash(v) \/ Restart(v) PROVE task'[w] = task[w]
  BY <1>2, <1>3, OthersStay
<1>4. QED
  BY <1>3 DEF HandleShutdown, Submit, LockGoesStale, BackoffElapses

\* FILE_NOT_FOUND is raised by the check of the file and by nothing else.
LEMMA MissingFileRaised ==
  ASSUME TypeInv, [Next]_vars, NEW w \in Workers,
         task'[w].pc \in Handlers, task'[w].err = "FILE_NOT_FOUND"
  PROVE  /\ task[w].pc \in Processing /\ task'[w].job = task[w].job
         /\ \/ task[w].pc \in Handlers /\ task[w].err = "FILE_NOT_FOUND"
            \/ task[w].pc = "validating_file" /\ WorkRaises(w)
<1>1. task[w].pc \in Processing /\ task'[w].job = task[w].job
  BY HandlerChanges
<1>2. \/ task[w].pc \in Handlers /\ task[w].err = "FILE_NOT_FOUND"
      \/ task[w].pc \in Pipeline /\ task'[w] # task[w]
  BY HandlerChanges, Sets
<1>3. CASE task[w].pc \in Pipeline /\ task'[w] # task[w]
  <2>1. UnknownError(w).err # "FILE_NOT_FOUND"
    BY DEF UnknownError, TypeInv, TypeOK, Task
  <2>2. ~StatementStep(w)
    BY <2>1, RaisingStatement
  <2>3. task[w].pc \notin {"idle", "polling", "down", "retrying"} /\ task'[w].pc # "down"
    BY <1>3, Sets DEF Pipeline, PipelineStages, Handlers
  <2>4. WorkRaises(w)
    <3>1. Crash(w) => task'[w].pc = "down"
      BY DEF Crash, Resting, TypeInv, TypeOK
    <3>2. Restart(w) \/ Sweep(w) \/ PollEmpty(w) \/ StopWorker(w) \/ RetryOrFailJob(w)
            => task[w].pc \in {"idle", "polling", "down", "retrying"}
      BY Zenon DEF Restart, Sweep, PollEmpty, RetryOrFailJob, StopWorker
    <3>3. SelectNextJob(w) => task[w].pc \in {"idle", "polling", "down", "retrying"}
      BY Zenon DEF SelectNextJob, ReadyToClaim
    <3>4. QED
      BY <1>3, <2>2, <2>3, <3>1, <3>2, <3>3, OwnSteps DEF WorkerStep, StatementStep
  <2>5. PICK code, handler :
          /\ task' = [task EXCEPT ![w] = [task[w] EXCEPT !.pc = handler, !.err = code]]
          /\ \/ task[w].pc = "validating_file"
             \/ code \in ExtractionErrors \cup AnnotationErrors \cup {"UNKNOWN_WORKER_ERROR"}
    BY <2>4 DEF WorkRaises, TypeInv, TypeOK
  <2>6. task'[w].err = code
    BY <2>5 DEF TypeInv, TypeOK, Task
  <2>7. QED
    BY <1>1, <2>4, <2>5, <2>6 DEF ExtractionErrors, AnnotationErrors
<1>4. QED
  BY <1>1, <1>2, <1>3
=============================================================================
