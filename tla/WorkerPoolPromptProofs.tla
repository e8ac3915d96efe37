----------------------- MODULE WorkerPoolPromptProofs -----------------------
(***************************************************************************)
(* Theorems about WorkerPool when no attempt outlives the stale timeout:   *)
(* mutual exclusion, ownership and the exact budget, and the life of a job *)
(* as JobLifecycle has it.                                                 *)
(***************************************************************************)
EXTENDS WorkerPoolProofs

-----------------------------------------------------------------------------
(* Mutual exclusion and the exact budget, when no attempt outlives its lock *)

\* One worker moves, and only the row of the job it held changes: the others
\* keep what they hold.
LEMMA PromptStep ==
  ASSUME TypeInv, PromptInv, NEW w \in Workers, NEW j \in Jobs, NEW t, NEW new,
         task' = [task EXCEPT ![w] = t],
         jobs'[j] = new,
         \A k \in Jobs : k # j => jobs'[k] = jobs[k],
         WithinBudget(new),
         \A v \in Workers \ {w} : task[v].pc \in Processing => task[v].job # j,
         t.pc \in Processing => t.job = j /\ Held(w, t, new)
  PROVE  PromptInv'
<1>1. /\ task'[w] = t
      /\ \A v \in Workers \ {w} : task'[v] = task[v]
  BY DEF TypeInv, TypeOK
<1>2. ASSUME NEW v \in Workers PROVE Held(v, task'[v], jobs'[task'[v].job])
  <2>1. CASE task'[v].pc \notin Processing
    BY <2>1, Sets DEF Held
  <2>2. CASE v = w /\ t.pc \in Processing
    BY <1>1, <2>2
  <2>3. CASE v # w /\ task[v].pc \in Processing
    <3>1. task[v].job \in Jobs /\ jobs'[task[v].job] = jobs[task[v].job]
      BY <2>3, Holding
    <3>2. QED
      BY <1>1, <2>3, <3>1 DEF PromptInv
  <2>4. QED
    BY <1>1, <2>1, <2>2, <2>3
<1>3. \A k \in Jobs : WithinBudget(jobs'[k])
  BY DEF PromptInv
<1>4. MutualExclusion'
  BY <1>1 DEF PromptInv, MutualExclusion
<1>5. QED
  BY <1>2, <1>3, <1>4 DEF PromptInv

\* A worker about to write a row is the only one working on its job: a job
\* being claimed is queued, and so nobody works on it.
LEMMA OnlyWorker ==
  ASSUME TypeInv, ClaimInv, PromptInv, NEW w \in Workers,
         task[w].pc \in Processing \cup {"claiming"}
  PROVE  \A v \in Workers \ {w} : task[v].pc \in Processing => task[v].job # task[w].job
<1>1. CASE task[w].pc \in Processing
  BY <1>1 DEF PromptInv, MutualExclusion
<1>2. CASE task[w].pc = "claiming"
  <2>1. \A v \in Workers : task[v].pc \in Processing =>
          jobs[task[v].job].status \in {"processing", "completed"}
    BY Sets DEF PromptInv, Held, Owns
  <2>2. QED
    BY <1>2, <2>1 DEF ClaimInv
<1>3. QED
  BY <1>1, <1>2

\* A statement acknowledged or not: what is left to show of the row and task.
LEMMA PromptCommit ==
  ASSUME TypeInv, ClaimInv, PromptInv, NEW w \in Workers,
         task[w].pc \in Processing \cup {"claiming"},
         NEW row, NEW acked, NEW raised, Commit(w, row, acked, raised),
         WithinBudget(row),
         acked.pc \in Processing => acked.job = task[w].job /\ Held(w, acked, row),
         raised.pc \in Processing =>
           /\ raised.job = task[w].job
           /\ Held(w, raised, row) /\ Held(w, raised, jobs[task[w].job])
  PROVE  PromptInv'
<1>1. PICK j \in Jobs : j = task[w].job
  BY Holding
<1>2. \A v \in Workers \ {w} : task[v].pc \in Processing => task[v].job # j
  BY <1>1, OnlyWorker
<1>3. PICK t, new : /\ task' = [task EXCEPT ![w] = t] /\ jobs'[j] = new
                    /\ \A k \in Jobs : k # j => jobs'[k] = jobs[k]
                    /\ \/ t = acked /\ new = row
                       \/ t = raised /\ new \in {row, jobs[j]}
  BY <1>1, CommitShape DEF Statement, TypeInv, TypeOK
<1>4. WithinBudget(new)
  BY <1>3 DEF PromptInv
<1>5. t.pc \in Processing => t.job = j /\ Held(w, t, new)
  BY <1>1, <1>3
<1>6. QED
  BY <1>2, <1>3, <1>4, <1>5, PromptStep

\* A handler entered from the pipeline finds the row still owned.
LEMMA HandlerHeld ==
  ASSUME NEW w \in Workers, NEW t, t.pc = "retrying", NEW row,
         Owns(w, row) \/ row.status = "completed"
  PROVE  Held(w, t, row)
  BY Sets DEF Held, PipelineStages

LEMMA PromptInit == Init => PromptInv
<1>. SUFFICES ASSUME Init PROVE PromptInv
  OBVIOUS
<1>1. \A w \in Workers : task[w].pc \notin Processing
  BY Unowned DEF Init
<1>2. \A w \in Workers : Held(w, task[w], jobs[task[w].job])
  BY <1>1, Sets DEF Held
<1>3. \A j \in Jobs : WithinBudget(jobs[j])
  BY MaxAttemptsAssumption DEF Init, AbsentRow, QueuedRow, WithinBudget
<1>4. QED
  BY <1>1, <1>2, <1>3 DEF PromptInv, MutualExclusion

LEMMA PromptNext ==
  ASSUME ~SlowWorkers
  PROVE  TypeInv /\ ClaimInv /\ PromptInv /\ [Next]_vars => PromptInv'
<1>. SUFFICES ASSUME TypeInv, ClaimInv, PromptInv, [Next]_vars PROVE PromptInv'
  OBVIOUS
<1>0. ASSUME NEW w \in Workers, task[w].pc \in Processing \cup {"claiming"}
      PROVE  /\ task[w] \in Task /\ task[w].job \in Jobs /\ jobs[task[w].job] \in Row
             /\ WithinBudget(jobs[task[w].job])
             /\ Held(w, task[w], jobs[task[w].job])
  BY <1>0, Holding DEF PromptInv
<1>1. ASSUME NEW w \in Workers, NEW t, task' = [task EXCEPT ![w] = t], jobs' = jobs,
             t.pc \notin Processing
      PROVE  PromptInv'
  <2>1. task'[w] = t /\ \A v \in Workers \ {w} : task'[v] = task[v]
    BY <1>1 DEF TypeInv, TypeOK
  <2>2. \A v \in Workers : Held(v, task'[v], jobs'[task'[v].job])
    <3>1. SUFFICES ASSUME NEW v \in Workers PROVE Held(v, task'[v], jobs'[task'[v].job])
      OBVIOUS
    <3>2. CASE v = w
      BY <1>1, <2>1, <3>2, Sets DEF Held
    <3>3. CASE v # w
      BY <1>1, <2>1, <3>3 DEF PromptInv
    <3>4. QED
      BY <3>2, <3>3
  <2>3. (\A j \in Jobs : WithinBudget(jobs'[j])) /\ MutualExclusion'
    BY <1>1, <2>1 DEF PromptInv, MutualExclusion
  <2>4. QED
    BY <2>2, <2>3 DEF PromptInv
<1>2. ASSUME NEW w \in Workers, PollEmpty(w) \/ StopWorker(w) \/ Crash(w) \/ Restart(w)
      PROVE  PromptInv'
  BY <1>1, <1>2, FreeingStep
<1>3. ASSUME NEW w \in Workers, SelectNextJob(w) PROVE PromptInv'
  <2>1. \A k : [Idle EXCEPT !.pc = "claiming", !.job = k].pc = "claiming"
    BY DEF Idle, Resting
  <2>2. QED
    <3>1. PICK t : task' = [task EXCEPT ![w] = t] /\ t.pc = "claiming"
      BY <1>3, <2>1 DEF SelectNextJob
    <3>2. t.pc \notin Processing /\ jobs' = jobs
      BY <1>3, <3>1, Sets DEF SelectNextJob
    <3>3. QED
      BY <1>1, <3>1, <3>2
<1>4. ASSUME NEW w \in Workers, Sweep(w) PROVE PromptInv'
  <2>1. ASSUME NEW k \in Jobs PROVE WithinBudget(jobs'[k])
    <3>1. jobs[k] \in Row /\ WithinBudget(jobs[k])
      BY DEF TypeInv, TypeOK, PromptInv
    <3>2. jobs'[k] \in {jobs[k], SweptRow(jobs[k])}
      BY <1>4 DEF Sweep
    <3>3. WithinBudget(SweptRow(jobs[k]))
      <4>. DEFINE queued == [Unlocked(jobs[k]) EXCEPT !.status = "queued", !.stage = "queued",
                                                       !.due = TRUE]
                  failed == FailedRow(jobs[k], "MAX_ATTEMPTS_EXCEEDED")
      <4>1. queued.status = "queued" /\ queued.attempts = jobs[k].attempts
        BY <3>1 DEF Unlocked, Row
      <4>2. failed.status = "failed" /\ failed.attempts = jobs[k].attempts
        BY <3>1 DEF FailedRow, Unlocked, Row
      <4>3. jobs[k].attempts < MaxAttempts => WithinBudget(queued)
        BY <3>1, <4>1 DEF WithinBudget
      <4>4. WithinBudget(failed)
        BY <3>1, <4>2 DEF WithinBudget
      <4>5. QED
        BY <3>1, <4>3, <4>4 DEF SweptRow
    <3>4. QED
      BY <3>1, <3>2, <3>3
  <2>2. \A v \in Workers : task[v].pc \in Processing => jobs'[task[v].job] = jobs[task[v].job]
    <3>1. \A v \in Workers : task[v].pc \in Processing =>
            task[v].job \in Jobs /\ ~Sweepable(jobs[task[v].job])
      BY <1>0, Sets DEF Held, Owns, Sweepable
    <3>2. QED
      BY <1>4, <3>1 DEF Sweep, SweptRow
  <2>3. /\ task'[w].pc \notin Processing
        /\ \A v \in Workers \ {w} : task'[v] = task[v]
    BY <1>4, Unowned DEF Sweep, TypeInv, TypeOK
  <2>4. \A v \in Workers : Held(v, task'[v], jobs'[task'[v].job])
    <3>1. SUFFICES ASSUME NEW v \in Workers PROVE Held(v, task'[v], jobs'[task'[v].job])
      OBVIOUS
    <3>2. CASE task'[v].pc \notin Processing
      BY <3>2, Sets DEF Held
    <3>3. CASE task'[v].pc \in Processing
      BY <2>2, <2>3, <3>3 DEF PromptInv
    <3>4. QED
      BY <3>2, <3>3
  <2>5. MutualExclusion'
    BY <2>3 DEF PromptInv, MutualExclusion
  <2>6. QED
    BY <2>1, <2>4, <2>5 DEF PromptInv
<1>5. ASSUME NEW w \in Workers, WorkRaises(w) \/ RetryOrFailJob(w) PROVE PromptInv'
  <2>1. jobs' = jobs /\ task[w].pc \in Processing
    BY <1>5, DecisionSteps
  <2>2. PICK t : /\ task' = [task EXCEPT ![w] = t]
                 /\ (t.pc \in Handlers /\ t.job = task[w].job) \/ t.pc = "idle"
                 /\ t.pc = "requeueing" => jobs[task[w].job].attempts < MaxAttempts
    BY <1>5, DecisionSteps
  <2>3. t.pc \in Handlers => Held(w, t, jobs[task[w].job])
    BY <1>0, <2>1, <2>2, Sets DEF Held, Handlers
  <2>4. CASE t.pc = "idle"
    BY <1>1, <2>1, <2>2, <2>4, Unowned
  <2>5. CASE t.pc \in Handlers /\ t.job = task[w].job
    <3>1. PICK j \in Jobs : j = task[w].job
      BY <1>0, <2>1
    <3>2. PICK new : new = jobs[j]
      OBVIOUS
    <3>3. jobs'[j] = new /\ (\A k \in Jobs : k # j => jobs'[k] = jobs[k]) /\ WithinBudget(new)
      BY <2>1, <3>2 DEF PromptInv
    <3>4. \A v \in Workers \ {w} : task[v].pc \in Processing => task[v].job # j
      BY <2>1, <3>1, OnlyWorker
    <3>5. t.job = j /\ Held(w, t, new)
      BY <2>3, <2>5, <3>1, <3>2
    <3>6. QED
      BY <2>2, <3>3, <3>4, <3>5, PromptStep
  <2>6. QED
    BY <2>2, <2>4, <2>5
<1>6. ASSUME NEW w \in Workers, ClaimNextJob(w) PROVE PromptInv'
  <2>. DEFINE old == jobs[task[w].job]
              row == ClaimedRow(old, w)
              t == [At(w, "claimed") EXCEPT !.attempt = row.attempts]
  <2>1. task[w].pc = "claiming" /\ Commit(w, row, t, Idle)
    BY <1>6 DEF ClaimNextJob
  <2>2. old \in Row /\ WithinBudget(old) /\ old.status = "queued"
    BY <1>0, <2>1 DEF ClaimInv
  <2>3. /\ row.status = "processing" /\ row.lockedBy = w /\ row.lockedAt = "fresh"
        /\ row.attempts = old.attempts + 1 /\ row.error = NULL
    BY <2>2 DEF ClaimedRow, Row
  <2>4. WithinBudget(row)
    <3>1. old.attempts \in Nat /\ MaxAttempts \in Nat /\ old.attempts < MaxAttempts
      BY <2>2, MaxAttemptsAssumption DEF WithinBudget, Row
    <3>2. QED
      BY <2>3, <3>1 DEF WithinBudget
  <2>5. t.pc = "claimed" /\ t.job = task[w].job /\ t.attempt = row.attempts
    BY StatementTasks
  <2>6. Held(w, t, row)
    BY <2>3, <2>5, Sets DEF Held, Owns, Handlers
  <2>. HIDE DEF old, row, t
  <2>7. QED
    BY <2>1, <2>4, <2>5, <2>6, PromptCommit, Unowned
\* In the pipeline a statement that is not the last leaves status, lock and
\* attempts alone, and what raises goes to the last handler.
<1>7. ASSUME NEW w \in Workers, task[w].pc \in Pipeline, NEW row, NEW pc \in Pipeline,
             Commit(w, row, At(w, pc), UnknownError(w)),
             LET old == jobs[task[w].job]
             IN  /\ row.status = old.status /\ row.lockedBy = old.lockedBy
                 /\ row.lockedAt = old.lockedAt /\ row.attempts = old.attempts
                 /\ row.error = old.error
                 /\ pc \in PipelineStages => row.stage = pc
                 /\ pc = "result_stored" => row.result = row.attempts
      PROVE  PromptInv'
  <2>. DEFINE old == jobs[task[w].job]
  <2>1. Owns(w, old) /\ WithinBudget(old) /\ old.attempts = task[w].attempt
    BY <1>0, <1>7, Sets DEF Held
  <2>2. Owns(w, row) /\ WithinBudget(row)
    BY <1>7, <2>1 DEF Owns, WithinBudget
  <2>3. At(w, pc).pc = pc /\ At(w, pc).job = task[w].job /\ At(w, pc).attempt = task[w].attempt
    BY StatementTasks
  <2>4. Held(w, At(w, pc), row)
    BY <1>7, <2>1, <2>2, <2>3, Sets DEF Held, Handlers
  <2>5. /\ UnknownError(w).pc = "retrying" /\ UnknownError(w).job = task[w].job
        /\ Held(w, UnknownError(w), row) /\ Held(w, UnknownError(w), old)
    BY <2>1, <2>2, StatementTasks, HandlerHeld
  <2>6. QED
    BY <1>7, <2>2, <2>3, <2>4, <2>5, PromptCommit, Sets
<1>8. ASSUME NEW w \in Workers, UpdateJobStage(w) PROVE PromptInv'
  <2>. DEFINE stage == NextStage[task[w].pc]
              row == [jobs[task[w].job] EXCEPT !.stage = stage]
  <2>1. /\ task[w].pc \in Pipeline /\ stage \in PipelineStages /\ stage \in Pipeline
        /\ stage # "result_stored"
        /\ Commit(w, row, At(w, stage), UnknownError(w))
    BY <1>8, NextStages, Sets DEF UpdateJobStage
  <2>2. jobs[task[w].job] \in Row
    BY <1>0, <2>1, Sets
  <2>3. LET old == jobs[task[w].job]
        IN  /\ row.status = old.status /\ row.lockedBy = old.lockedBy
            /\ row.lockedAt = old.lockedAt /\ row.attempts = old.attempts
            /\ row.error = old.error /\ row.stage = stage
    BY <2>2 DEF Row
  <2>. HIDE DEF row, stage
  <2>4. QED
    BY <1>7, <2>1, <2>3
<1>9. ASSUME NEW w \in Workers, StoreExtraction(w) PROVE PromptInv'
  <2>. DEFINE row == [jobs[task[w].job] EXCEPT !.extraction = TRUE]
  <2>1. /\ task[w].pc \in Pipeline /\ "extraction_stored" \in Pipeline
        /\ Commit(w, row, At(w, "extraction_stored"), UnknownError(w))
    BY <1>9, Sets DEF StoreExtraction, PipelineStages
  <2>2. jobs[task[w].job] \in Row
    BY <1>0, <2>1, Sets
  <2>3. LET old == jobs[task[w].job]
        IN  /\ row.status = old.status /\ row.lockedBy = old.lockedBy
            /\ row.lockedAt = old.lockedAt /\ row.attempts = old.attempts
            /\ row.error = old.error
    BY <2>2 DEF Row
  <2>. HIDE DEF row
  <2>4. QED
    BY <1>7, <2>1, <2>3, Sets
<1>10. ASSUME NEW w \in Workers, StoreAnnotation(w) PROVE PromptInv'
  <2>. DEFINE row == [jobs[task[w].job] EXCEPT !.result = task[w].attempt]
  <2>1. /\ task[w].pc \in Pipeline /\ "result_stored" \in Pipeline
        /\ Commit(w, row, At(w, "result_stored"), UnknownError(w))
    BY <1>10, Sets DEF StoreAnnotation, PipelineStages
  <2>2. jobs[task[w].job] \in Row /\ jobs[task[w].job].attempts = task[w].attempt
    BY <1>0, <2>1, Sets DEF Held
  <2>3. LET old == jobs[task[w].job]
        IN  /\ row.status = old.status /\ row.lockedBy = old.lockedBy
            /\ row.lockedAt = old.lockedAt /\ row.attempts = old.attempts
            /\ row.error = old.error /\ row.result = row.attempts
    BY <2>2 DEF Row
  <2>. HIDE DEF row
  <2>4. QED
    BY <1>7, <2>1, <2>3, Sets
<1>11. ASSUME NEW w \in Workers, CompleteJob(w) PROVE PromptInv'
  <2>. DEFINE old == jobs[task[w].job]
              row == CompletedRow(old)
  <2>1. /\ task[w].pc = "result_stored" /\ task[w].pc \in Pipeline
        /\ Commit(w, row, Idle, UnknownError(w))
    BY <1>11, Sets DEF CompleteJob
  <2>2. /\ old \in Row /\ WithinBudget(old) /\ Owns(w, old) /\ old.result = old.attempts
    BY <1>0, <2>1, Sets DEF Held
  <2>3. row.status = "completed" /\ WithinBudget(row)
    BY <2>2 DEF CompletedRow, Unlocked, WithinBudget, Owns, Row
  <2>4. /\ UnknownError(w).pc = "retrying" /\ UnknownError(w).job = task[w].job
        /\ Held(w, UnknownError(w), row) /\ Held(w, UnknownError(w), old)
    BY <2>2, <2>3, StatementTasks, HandlerHeld
  <2>. HIDE DEF row
  <2>5. QED
    BY <2>1, <2>3, <2>4, PromptCommit, Unowned, Sets
<1>12. ASSUME NEW w \in Workers, RequeueJob(w) \/ FailJob(w) PROVE PromptInv'
  <2>. DEFINE old == jobs[task[w].job]
  <2>1. task[w].pc \in Processing /\ old \in Row /\ WithinBudget(old)
    BY <1>0, <1>12, Sets DEF RequeueJob, FailJob
  <2>2. CASE RequeueJob(w)
    <3>1. old.attempts < MaxAttempts
      BY <1>0, <2>1, <2>2 DEF RequeueJob, Held
    <3>2. WithinBudget(RequeuedRow(old, task[w].err))
      BY <2>1, <3>1 DEF RequeuedRow, Unlocked, WithinBudget, Row
    <3>3. QED
      BY <2>1, <2>2, <3>2, PromptCommit, Unowned DEF RequeueJob
  <2>3. CASE FailJob(w)
    <3>1. WithinBudget(FailedRow(old, task[w].err))
      BY <2>1 DEF FailedRow, Unlocked, WithinBudget, Row
    <3>2. QED
      BY <2>1, <2>3, <3>1, PromptCommit, Unowned DEF FailJob
  <2>4. QED
    BY <1>12, <2>2, <2>3
<1>13. ASSUME NEW w \in Workers, HandleShutdown(w) PROVE PromptInv'
  BY <1>13 DEF HandleShutdown, PromptInv, MutualExclusion
<1>14. ASSUME NEW j \in Jobs, Submit(j) \/ LockGoesStale(j) \/ BackoffElapses(j)
       PROVE  PromptInv'
  <2>1. task' = task
    BY <1>14 DEF Submit, LockGoesStale, BackoffElapses
  <2>2. \A v \in Workers : task[v].pc \in Processing =>
          Held(v, task[v], jobs'[task[v].job])
    <3>1. SUFFICES ASSUME NEW v \in Workers, task[v].pc \in Processing
          PROVE  Held(v, task[v], jobs'[task[v].job])
      OBVIOUS
    <3>2. /\ task[v].job \in Jobs /\ jobs[task[v].job] \in Row
          /\ jobs[task[v].job].status # "absent"
          /\ Held(v, task[v], jobs[task[v].job])
      BY <3>1, <1>0, Holding
    <3>3. CASE Submit(j) \/ LockGoesStale(j)
      <4>1. task[v].job # j
        BY <3>1, <3>2, <3>3 DEF Submit, LockGoesStale, StillAtWork
      <4>2. jobs'[task[v].job] = jobs[task[v].job]
        BY <3>2, <3>3, <4>1 DEF Submit, LockGoesStale, TypeInv, TypeOK
      <4>3. QED
        BY <3>2, <4>2
    <3>4. CASE BackoffElapses(j)
      BY <3>2, <3>4 DEF BackoffElapses, Held, Owns, TypeInv, TypeOK, Row
    <3>5. QED
      BY <1>14, <3>3, <3>4
  <2>3. \A k \in Jobs : WithinBudget(jobs'[k])
    <3>1. CASE Submit(j)
      BY <3>1, MaxAttemptsAssumption
      DEF Submit, QueuedRow, WithinBudget, PromptInv, TypeInv, TypeOK
    <3>2. CASE LockGoesStale(j) \/ BackoffElapses(j)
      BY <3>2 DEF LockGoesStale, BackoffElapses, WithinBudget, PromptInv, TypeInv, TypeOK, Row
    <3>3. QED
      BY <1>14, <3>1, <3>2
  <2>4. \A v \in Workers : Held(v, task'[v], jobs'[task'[v].job])
    BY <2>1, <2>2, Sets DEF Held
  <2>5. MutualExclusion'
    BY <2>1 DEF PromptInv, MutualExclusion
  <2>6. QED
    BY <2>3, <2>4, <2>5 DEF PromptInv
<1>15. CASE UNCHANGED vars
  BY <1>15 DEF vars, PromptInv, MutualExclusion
<1>16. QED
  BY <1>2, <1>3, <1>4, <1>5, <1>6, <1>8, <1>9, <1>10, <1>11, <1>12, <1>13, <1>14, <1>15
  DEF Next, WorkerStep

LEMMA PromptAlways ==
  ASSUME ~SlowWorkers
  PROVE  Spec => [](TypeInv /\ ClaimInv /\ PromptInv)
<1>1. Init => TypeInv /\ ClaimInv /\ PromptInv
  BY TypeInit, ClaimInit, PromptInit
<1>2. (TypeInv /\ ClaimInv /\ PromptInv) /\ [Next]_vars => (TypeInv /\ ClaimInv /\ PromptInv)'
  BY TypeNext, ClaimNext, PromptNext
<1>3. QED
  BY <1>1, <1>2, PTL DEF Spec

\* When every attempt ends before its lock goes stale, no two workers ever
\* work on one job, although no statement checks the owner of the row.
THEOREM MutualExclusionCorrect ==
  ASSUME ~SlowWorkers
  PROVE  Spec => []MutualExclusion
<1>1. PromptInv => MutualExclusion
  BY DEF PromptInv
<1>2. QED
  BY PromptAlways, <1>1, PTL

\* Under the same assumption a worker in the pipeline is the owner the row
\* names, on the attempt and at the stage the row shows.
THEOREM OwnershipCorrect ==
  ASSUME ~SlowWorkers
  PROVE  Spec => []PipelineOwnsRow
<1>1. PromptInv => PipelineOwnsRow
  BY DEF PromptInv, PipelineOwnsRow, Held, Owns
<1>2. QED
  BY PromptAlways, <1>1, PTL

\* Under the same assumption max_attempts is never passed.
THEOREM AttemptBudgetCorrect ==
  ASSUME ~SlowWorkers
  PROVE  Spec => []AttemptsWithinMax
<1>1. PromptInv => AttemptsWithinMax
  BY DEF PromptInv, AttemptsWithinMax, WithinBudget
<1>2. QED
  BY PromptAlways, <1>1, PTL

\* Under the same assumption a completed job shows its last attempt's result
\* and no error.
THEOREM LastAttemptCorrect ==
  ASSUME ~SlowWorkers
  PROVE  Spec => []CompletedByLastAttempt
<1>1. PromptInv => CompletedByLastAttempt
  BY DEF PromptInv, CompletedByLastAttempt, WithinBudget
<1>2. QED
  BY PromptAlways, <1>1, PTL
-----------------------------------------------------------------------------
(* The life of a job, when no attempt outlives its lock *)

\* What is known of a row in a reachable state.
Known(j) == /\ jobs[j] \in Row /\ jobs[j].attempts \in Nat
            /\ WithinBudget(jobs[j]) /\ LockColumns(jobs[j])

LEMMA KnownRows ==
  ASSUME TypeInv, PromptInv, ProcessingIsLocked, NEW j \in Jobs
  PROVE  Known(j)
  BY DEF TypeInv, TypeOK, PromptInv, ProcessingIsLocked, LockColumns, Known, Row

\* Who writes a row finds it as the life of its job has it: a claim finds it
\* queued, the pipeline in its try, a handler in its try or, if the COMMIT that
\* completed the job was not heard of, completed.
LEMMA WriterFinds ==
  ASSUME TypeInv, ClaimInv, PromptInv, HistoryInv, ErrorInv,
         NEW w \in Workers, NEW j \in Jobs, task[w].job = j,
         task[w].pc \in Processing \cup {"claiming"}
  PROVE  /\ task[w].pc = "claiming" =>
              jobs[j].status = "queued" /\ jobs[j].due /\ jobs[j].attempts < MaxAttempts
         /\ task[w].pc \in Pipeline => Owns(w, jobs[j])
         /\ task[w].pc \in Handlers =>
              \/ Owns(w, jobs[j])
              \/ LostAcks /\ jobs[j].status = "completed"
         /\ task[w].pc = "requeueing" => jobs[j].attempts < MaxAttempts
         /\ task[w].pc = "failing" =>
              \/ task[w].err = "MAX_ATTEMPTS_EXCEEDED" /\ jobs[j].attempts = MaxAttempts
              \/ task[w].err # "MAX_ATTEMPTS_EXCEEDED" /\ jobs[j].status = "processing"
<1>1. /\ jobs[j] \in Row /\ jobs[j].attempts \in Nat /\ MaxAttempts \in Nat
      /\ WithinBudget(jobs[j]) /\ Held(w, task[w], jobs[j])
  BY MaxAttemptsAssumption DEF TypeInv, TypeOK, PromptInv, Row
<1>2. task[w].pc = "claiming" =>
        jobs[j].status = "queued" /\ jobs[j].due /\ jobs[j].attempts < MaxAttempts
  BY <1>1 DEF ClaimInv, HistoryInv, WithinBudget
<1>3. task[w].pc \in Handlers => Reached(task[w], jobs[j]) /\ MayRecord(task[w], jobs[j])
  BY DEF HistoryInv, ErrorInv
<1>4. jobs[j].attempts <= MaxAttempts
  BY <1>1 DEF WithinBudget
<1>5. QED
  BY <1>1, <1>2, <1>3, <1>4, Sets DEF Held, Reached, MayRecord

\* The row of a job somebody works on changes by that worker's statements only,
\* but for the passing of its backoff.
LEMMA RowFixed ==
  ASSUME ~SlowWorkers, TypeInv, ClaimInv, PromptInv, HistoryInv, ErrorInv,
         NEW w \in Workers, NEW j \in Jobs, task[w].job = j,
         task[w].pc \in Processing, RowStep(j), ~WrittenBy(w, j)
  PROVE  jobs'[j].status = jobs[j].status
<1>1. jobs[j] \in Row
  BY DEF TypeInv, TypeOK
<1>2. ASSUME NEW v \in Workers, WrittenBy(v, j) PROVE FALSE
  <2>1. v # w /\ task[v].job = task[w].job /\ task[v].pc \in Processing \cup {"claiming"}
    BY <1>2 DEF WrittenBy
  <2>2. QED
    BY <2>1, OnlyWorker
<1>3. Owns(w, jobs[j]) \/ jobs[j].status = "completed"
  BY WriterFinds, Sets
<1>4. SweptRow(jobs[j]) = jobs[j] /\ jobs[j].status # "absent"
  BY <1>3 DEF SweptRow, Sweepable, Owns
<1>5. LockGoesStale(j) => FALSE
  BY DEF LockGoesStale, StillAtWork
<1>6. [jobs[j] EXCEPT !.due = TRUE].status = jobs[j].status
  BY <1>1 DEF Row
<1>7. QED
  BY <1>2, <1>4, <1>5, <1>6 DEF RowStep

LEMMA HistoryInit == Init => HistoryInv
<1>. SUFFICES ASSUME Init PROVE HistoryInv
  OBVIOUS
<1>1. \A w \in Workers : task[w].pc \notin Handlers /\ task[w].pc # "claiming"
  BY Unowned, Sets DEF Init
<1>2. \A j \in Jobs : jobs[j].attempts = 0 /\ jobs[j].due
  BY DEF Init, AbsentRow, QueuedRow
<1>3. QED
  BY <1>1, <1>2 DEF HistoryInv

\* What each statement leaves of status and due.
LEMMA WrittenDue ==
  ASSUME NEW w, NEW old \in Row, NEW new, Writes(w, old, new)
  PROVE  /\ task[w].pc \in Handlers => new.status \in {"queued", "failed"}
         /\ task[w].pc # "requeueing" => new.due = old.due
         /\ task[w].pc = "requeueing" => new.status = "queued"
         /\ new.status # "absent" \/ new.status = old.status
<1>0. /\ "claiming" \notin Handlers /\ DOMAIN NextStage \cap Handlers = {}
      /\ {"storing_extraction", "storing_result", "result_stored"} \cap Handlers = {}
      /\ "requeueing" \notin DOMAIN NextStage
  BY Sets DEF Handlers, PipelineStages
<1>1. CASE task[w].pc = "claiming" /\ new = ClaimedRow(old, w)
  <2>1. new.status = "processing" /\ new.due = old.due
    BY <1>1 DEF ClaimedRow, Row
  <2>2. QED
    BY <1>0, <1>1, <2>1
<1>2. CASE \/ /\ task[w].pc \in DOMAIN NextStage
              /\ new = [old EXCEPT !.stage = NextStage[task[w].pc]]
           \/ task[w].pc = "storing_extraction" /\ new = [old EXCEPT !.extraction = TRUE]
           \/ task[w].pc = "storing_result" /\ new = [old EXCEPT !.result = task[w].attempt]
  <2>1. new.status = old.status /\ new.due = old.due
    BY <1>2 DEF Row
  <2>2. QED
    BY <1>0, <1>2, <2>1
<1>3. CASE task[w].pc = "result_stored" /\ new = CompletedRow(old)
  <2>1. new.status = "completed" /\ new.due = old.due
    BY <1>3 DEF CompletedRow, Unlocked, Row
  <2>2. QED
    BY <1>0, <1>3, <2>1
<1>4. CASE task[w].pc = "requeueing" /\ new = RequeuedRow(old, task[w].err)
  BY <1>4 DEF RequeuedRow, Unlocked, Row
<1>5. CASE task[w].pc = "failing" /\ new = FailedRow(old, task[w].err)
  <2>1. new.status = "failed" /\ new.due = old.due
    BY <1>5 DEF FailedRow, Unlocked, Row
  <2>2. QED
    BY <1>5, <2>1
<1>6. QED
  BY <1>1, <1>2, <1>3, <1>4, <1>5 DEF Writes

LEMMA SweptDue ==
  ASSUME NEW row \in Row, row.status # "queued" => row.due
  PROVE  /\ SweptRow(row).status # "queued" => SweptRow(row).due
         /\ row.due => SweptRow(row).due
         /\ SweptRow(row).status = "absent" => row.status = "absent"
         /\ SweptRow(row).attempts = row.attempts
<1>. DEFINE queued == [Unlocked(row) EXCEPT !.status = "queued", !.stage = "queued", !.due = TRUE]
            failed == FailedRow(row, "MAX_ATTEMPTS_EXCEEDED")
<1>1. /\ queued.status = "queued" /\ queued.due /\ queued.attempts = row.attempts
      /\ failed.status = "failed" /\ failed.due = row.due /\ failed.attempts = row.attempts
  BY DEF FailedRow, Unlocked, Row
<1>. HIDE DEF queued, failed
<1>2. SweptRow(row) = row \/ SweptRow(row) = queued \/ (SweptRow(row) = failed /\ row.status = "processing")
  BY DEF SweptRow, Sweepable, queued, failed
<1>3. QED
  BY <1>1, <1>2

LEMMA HistoryRow ==
  ASSUME TypeInv, ClaimInv, PromptInv, HistoryInv, ErrorInv, [Next]_vars, NEW j \in Jobs
  PROVE  /\ jobs'[j].status = "absent" => jobs'[j].attempts = 0
         /\ jobs'[j].status # "queued" => jobs'[j].due
         /\ jobs[j].due => jobs'[j].due \/ \E w \in Workers : WrittenBy(w, j)
<1>1. /\ jobs[j] \in Row
      /\ jobs[j].status = "absent" => jobs[j].attempts = 0
      /\ jobs[j].status # "queued" => jobs[j].due
  BY DEF TypeInv, TypeOK, HistoryInv
<1>2. ASSUME NEW w \in Workers, WrittenBy(w, j)
      PROVE  /\ jobs'[j].status = "absent" => jobs'[j].attempts = 0
             /\ jobs'[j].status # "queued" => jobs'[j].due
  <2>1. task[w].job = j /\ task[w].pc \in Processing \cup {"claiming"} /\ Writes(w, jobs[j], jobs'[j])
    BY <1>2 DEF WrittenBy
  <2>2. jobs[j].status # "absent"
    BY <2>1, Holding
  <2>3. /\ task[w].pc \in Handlers => jobs'[j].status \in {"queued", "failed"}
        /\ task[w].pc # "requeueing" => jobs'[j].due = jobs[j].due
        /\ task[w].pc = "requeueing" => jobs'[j].status = "queued"
        /\ jobs'[j].status # "absent" \/ jobs'[j].status = jobs[j].status
    BY <1>1, <2>1, WrittenDue
  <2>4. jobs[j].due
    <3>1. jobs[j].status \in {"processing", "completed"} \/ jobs[j].due
      BY <2>1, WriterFinds, Sets DEF Owns
    <3>2. QED
      BY <1>1, <3>1
  <2>5. CASE task[w].pc = "requeueing"
    BY <2>3, <2>5
  <2>6. CASE task[w].pc # "requeueing"
    <3>1. jobs'[j].due
      BY Zenon, <2>3, <2>4, <2>6
    <3>2. QED
      BY <2>2, <2>3, <3>1
  <2>7. QED
    BY <2>5, <2>6
<1>3. CASE jobs'[j] = SweptRow(jobs[j])
  BY <1>1, <1>3, SweptDue
<1>4. CASE jobs'[j] = QueuedRow
  BY <1>4 DEF QueuedRow
<1>5. CASE \/ LockGoesStale(j) /\ jobs'[j] = [jobs[j] EXCEPT !.lockedAt = "stale"]
           \/ jobs[j].status # "absent" /\ jobs'[j] = [jobs[j] EXCEPT !.due = TRUE]
  BY <1>1, <1>5 DEF Row
<1>6. QED
  BY <1>1, <1>2, <1>3, <1>4, <1>5, RowChanges DEF RowStep

LEMMA HistoryNext ==
  ASSUME ~SlowWorkers
  PROVE  TypeInv /\ ClaimInv /\ PromptInv /\ HistoryInv /\ ErrorInv /\ [Next]_vars
           => HistoryInv'
<1>. SUFFICES ASSUME TypeInv, ClaimInv, PromptInv, HistoryInv, ErrorInv, [Next]_vars
     PROVE  HistoryInv'
  OBVIOUS
<1>1. \A j \in Jobs :
        /\ jobs'[j].status = "absent" => jobs'[j].attempts = 0
        /\ jobs'[j].status # "queued" => jobs'[j].due
  BY HistoryRow
<1>2. ASSUME NEW w \in Workers, task'[w].pc \in Handlers
      PROVE  Reached(task'[w], jobs'[task'[w].job])
  <2>1. PICK j \in Jobs : j = task[w].job /\ j = task'[w].job /\ task[w].pc \in Processing
    BY <1>2, HandlerChanges, Holding
  <2>2. CASE task'[w] = task[w]
    <3>1. ~WrittenBy(w, j)
      BY <1>2, <2>2, Unowned, Sets DEF WrittenBy
    <3>2. jobs'[j].status = jobs[j].status
      BY <2>1, <3>1, RowChanges, RowFixed
    <3>3. Reached(task[w], jobs[j])
      BY <1>2, <2>1, <2>2 DEF HistoryInv
    <3>4. QED
      BY <2>1, <2>2, <3>2, <3>3 DEF Reached
  <2>3. CASE /\ task[w].pc \in Pipeline
             /\ task'[w].pc = "failing" => jobs' = jobs
             /\ jobs' = jobs \/ LostAcks
    <3>1. jobs[j].status = "processing"
      BY <2>1, <2>3, WriterFinds DEF Owns
    <3>2. QED
      BY <2>1, <2>3, <3>1 DEF Reached
  <2>4. CASE /\ task[w].pc = "retrying" /\ jobs' = jobs
             /\ task'[w].pc = "failing" => task'[w].err = "MAX_ATTEMPTS_EXCEEDED"
    <3>1. Reached(task[w], jobs[j])
      BY <2>1, <2>4, Sets DEF HistoryInv
    <3>2. QED
      BY <2>1, <2>4, <3>1 DEF Reached
  <2>5. QED
    BY <1>2, <2>2, <2>3, <2>4, HandlerChanges
<1>3. ASSUME NEW w \in Workers, task'[w].pc = "claiming"
      PROVE  jobs'[task'[w].job].due
  <2>1. ASSUME NEW v \in Workers, SelectNextJob(v) PROVE jobs'[task'[w].job].due
    <3>1. PICK j \in Jobs :
            /\ Claimable(j)
            /\ task' = [task EXCEPT ![v] = [Idle EXCEPT !.pc = "claiming", !.job = j]]
      BY <2>1 DEF SelectNextJob
    <3>2. [Idle EXCEPT !.pc = "claiming", !.job = j].job = j
      BY DEF Idle, Resting
    <3>3. jobs' = jobs
      BY <2>1 DEF SelectNextJob
    <3>4. CASE v = w
      BY <3>1, <3>2, <3>3, <3>4 DEF Claimable, TypeInv, TypeOK
    <3>5. CASE v # w
      BY <1>3, <3>1, <3>3, <3>5 DEF HistoryInv, TypeInv, TypeOK
    <3>6. QED
      BY <3>4, <3>5
  <2>2. CASE task'[w] = task[w]
    <3>1. PICK j \in Jobs : j = task[w].job /\ jobs[j].due
      BY <1>3, <2>2, Holding DEF HistoryInv
    <3>2. ASSUME NEW v \in Workers, WrittenBy(v, j) PROVE jobs'[j].due
      <4>1. v = w
        BY <1>3, <2>2, <3>1, <3>2 DEF WrittenBy, LockedByClaim
      <4>2. Writes(w, jobs[j], jobs'[j]) /\ jobs[j] \in Row /\ task[w].pc # "requeueing"
        BY <1>3, <2>2, <3>2, <4>1 DEF WrittenBy, TypeInv, TypeOK
      <4>3. QED
        BY <3>1, <4>2, WrittenDue
    <3>3. QED
      BY <2>2, <3>1, <3>2, HistoryRow
  <2>3. ASSUME NEW v \in Workers, WorkerStep(v) \/ Crash(v) \/ Restart(v), ~SelectNextJob(v)
        PROVE  task'[w] = task[w]
    <3>1. PICK t : task' = [task EXCEPT ![v] = t] /\ t.pc # "claiming"
      <4>1. CASE StatementStep(v)
        BY <4>1, StatementSteps DEF Statement
      <4>2. CASE Sweep(v)
        BY <4>2, Unowned DEF Sweep
      <4>3. CASE PollEmpty(v) \/ StopWorker(v) \/ Crash(v) \/ Restart(v)
        BY <4>3, FreeingStep
      <4>4. CASE WorkRaises(v) \/ RetryOrFailJob(v)
        BY <4>4, DecisionSteps, Sets
      <4>5. QED
        BY <2>3, <4>1, <4>2, <4>3, <4>4 DEF WorkerStep, StatementStep
    <3>2. QED
      BY <1>3, <3>1 DEF TypeInv, TypeOK
  <2>4. ASSUME \/ \E v \in Workers : HandleShutdown(v)
               \/ \E k \in Jobs : Submit(k) \/ LockGoesStale(k) \/ BackoffElapses(k)
               \/ UNCHANGED vars
        PROVE  task'[w] = task[w]
    BY <2>4 DEF HandleShutdown, Submit, LockGoesStale, BackoffElapses, vars
  <2>5. QED
    BY <2>1, <2>2, <2>3, <2>4 DEF Next
<1>4. QED
  BY <1>1, <1>2, <1>3 DEF HistoryInv

PoolInv == /\ TypeInv /\ ClaimInv /\ PromptInv
           /\ HistoryInv /\ ErrorInv /\ ProcessingIsLocked

LEMMA PoolInit == Init => PoolInv
BY TypeInit, ClaimInit, PromptInit, HistoryInit, ErrorInit, LocksInit DEF PoolInv

LEMMA PoolNext ==
  ASSUME ~SlowWorkers
  PROVE  PoolInv /\ [Next]_vars => PoolInv'
BY TypeNext, ClaimNext, PromptNext, HistoryNext, ErrorNext, LocksNext DEF PoolInv

LEMMA PoolInvAlways ==
  ASSUME ~SlowWorkers
  PROVE  Spec => []PoolInv
<1>1. QED
  BY PoolInit, PoolNext, PTL DEF Spec

\* Once a client has seen completed or failed, the row stays as it is, unless an
\* acknowledgement was lost and the handler of the worker it was lost for is
\* still to write: no sweep, no claim and no other worker's statement undoes an
\* outcome.
THEOREM OutcomesStay ==
  ASSUME ~SlowWorkers
  PROVE  Spec => TerminalIsFinal
<1>1. PoolInv /\ [Next]_vars =>
        [\A j \in Jobs :
           jobs[j].status \in Terminal /\ jobs'[j] # jobs[j] =>
             LostAcks /\ \E w \in Workers : task[w].pc \in Handlers /\ task[w].job = j]_vars
  <2>. SUFFICES ASSUME PoolInv, [Next]_vars, NEW j \in Jobs,
                       jobs[j].status \in Terminal, jobs'[j] # jobs[j]
       PROVE  LostAcks /\ \E w \in Workers : task[w].pc \in Handlers /\ task[w].job = j
    OBVIOUS
  <2>1. /\ jobs[j] \in Row /\ jobs[j].status \in {"completed", "failed"}
        /\ jobs[j].lockedAt = NULL /\ jobs[j].due
    BY DEF PoolInv, TypeInv, TypeOK, ProcessingIsLocked, HistoryInv, Terminal
  <2>2. SweptRow(jobs[j]) = jobs[j]
    BY <2>1 DEF SweptRow, Sweepable
  <2>3. ~LockGoesStale(j)
    BY <2>1 DEF LockGoesStale, NULL
  <2>4. [jobs[j] EXCEPT !.due = TRUE] = jobs[j]
    BY <2>1 DEF Row
  <2>5. PICK w \in Workers : WrittenBy(w, j)
    BY <2>1, <2>2, <2>3, <2>4, RowChanges DEF PoolInv, RowStep
  <2>6. task[w].job = j /\ task[w].pc \in Processing \cup {"claiming"}
    BY <2>5 DEF WrittenBy
  <2>7. QED
    BY <2>1, <2>6, WriterFinds, Sets DEF PoolInv, Owns
<1>2. QED
  BY <1>1, PoolInvAlways, PTL DEF Spec, TerminalIsFinal

-----------------------------------------------------------------------------
(* The pool implements JobLifecycle *)

Life == [j \in Jobs |-> Seen(jobs[j])]

\* What there is to see of each row a statement may leave.
LEMMA SeenWritten ==
  ASSUME NEW w, NEW old \in Row, NEW new, Writes(w, old, new)
  PROVE  \/ task[w].pc = "claiming" /\ Seen(new) = Lifecycle!Is("processing", old.attempts + 1, FALSE)
         \/ task[w].pc \in Pipeline /\ Seen(new) = Seen(old)
         \/ /\ task[w].pc \in Pipeline
            /\ Seen(new) = Lifecycle!Is("completed", old.attempts, FALSE)
         \/ /\ task[w].pc = "requeueing"
            /\ Seen(new) = Lifecycle!Is("queued", old.attempts, FALSE)
         \/ /\ task[w].pc = "failing"
            /\ Seen(new) = Lifecycle!Is("failed", old.attempts,
                                        task[w].err = "MAX_ATTEMPTS_EXCEEDED")
<1>1. CASE task[w].pc = "claiming" /\ new = ClaimedRow(old, w)
  <2>1. new.status = "processing" /\ new.attempts = old.attempts + 1
    BY <1>1 DEF ClaimedRow, Row
  <2>2. QED
    BY <1>1, <2>1 DEF Seen, Lifecycle!Is
<1>2. CASE \/ /\ task[w].pc \in DOMAIN NextStage
              /\ new = [old EXCEPT !.stage = NextStage[task[w].pc]]
           \/ task[w].pc = "storing_extraction" /\ new = [old EXCEPT !.extraction = TRUE]
           \/ task[w].pc = "storing_result" /\ new = [old EXCEPT !.result = task[w].attempt]
  <2>1. new.status = old.status /\ new.attempts = old.attempts /\ new.error = old.error
    BY <1>2 DEF Row
  <2>2. task[w].pc \in Pipeline
    BY <1>2, Sets DEF PipelineStages
  <2>3. QED
    BY <2>1, <2>2 DEF Seen
<1>3. CASE task[w].pc = "result_stored" /\ new = CompletedRow(old)
  <2>1. new.status = "completed" /\ new.attempts = old.attempts
    BY <1>3 DEF CompletedRow, Unlocked, Row
  <2>2. QED
    BY <1>3, <2>1, Sets DEF Seen, Lifecycle!Is
<1>4. CASE task[w].pc = "requeueing" /\ new = RequeuedRow(old, task[w].err)
  <2>1. new.status = "queued" /\ new.attempts = old.attempts
    BY <1>4 DEF RequeuedRow, Unlocked, Row
  <2>2. QED
    BY <1>4, <2>1 DEF Seen, Lifecycle!Is
<1>5. CASE task[w].pc = "failing" /\ new = FailedRow(old, task[w].err)
  <2>1. new.status = "failed" /\ new.attempts = old.attempts /\ new.error = task[w].err
    BY <1>5 DEF FailedRow, Unlocked, Row
  <2>2. QED
    BY <1>5, <2>1 DEF Seen, Lifecycle!Is
<1>6. QED
  BY <1>1, <1>2, <1>3, <1>4, <1>5 DEF Writes

\* A sweep of one row is a sweep of one life.
LEMMA SeenSwept ==
  ASSUME NEW row \in Row, row.attempts \in Nat
  PROVE  Seen(SweptRow(row)) = IF Sweepable(row) THEN Lifecycle!Swept(Seen(row)) ELSE Seen(row)
<1>. DEFINE queued == [Unlocked(row) EXCEPT !.status = "queued", !.stage = "queued", !.due = TRUE]
            failed == FailedRow(row, "MAX_ATTEMPTS_EXCEEDED")
<1>1. /\ queued.status = "queued" /\ queued.attempts = row.attempts
      /\ failed.status = "failed" /\ failed.attempts = row.attempts
      /\ failed.error = "MAX_ATTEMPTS_EXCEEDED"
  BY DEF FailedRow, Unlocked, Row
<1>2. /\ Seen(queued) = Lifecycle!Is("queued", row.attempts, FALSE)
      /\ Seen(failed) = Lifecycle!Is("failed", row.attempts, TRUE)
  BY <1>1 DEF Seen, Lifecycle!Is
<1>3. Seen(row).status = row.status /\ Seen(row).tries = row.attempts
  BY DEF Seen
<1>4. CASE ~Sweepable(row)
  BY <1>4 DEF SweptRow
<1>5. CASE Sweepable(row) /\ row.attempts < MaxAttempts
  <2>1. SweptRow(row) = queued
    BY <1>5 DEF SweptRow
  <2>2. Lifecycle!Swept(Seen(row)) = Lifecycle!Is("queued", row.attempts, FALSE)
    BY <1>3, <1>5 DEF Lifecycle!Swept, Sweepable
  <2>3. QED
    BY <1>2, <1>5, <2>1, <2>2
<1>6. CASE Sweepable(row) /\ ~(row.attempts < MaxAttempts)
  <2>1. SweptRow(row) = failed
    BY <1>6 DEF SweptRow
  <2>2. Lifecycle!Swept(Seen(row)) = Lifecycle!Is("failed", row.attempts, TRUE)
    BY <1>3, <1>6 DEF Lifecycle!Swept, Sweepable
  <2>3. QED
    BY <1>2, <1>6, <2>1, <2>2
<1>7. QED
  BY <1>4, <1>5, <1>6

\* One statement is one step in the life of its job, or none.
LEMMA StatementLives ==
  ASSUME PoolInv, NEW w \in Workers, NEW j \in Jobs, WrittenBy(w, j),
         \A k \in Jobs : k # j => jobs'[k] = jobs[k]
  PROVE  Life' = Life \/ Lifecycle!LStep(j)
<1>1. /\ Life' = [Life EXCEPT ![j] = Seen(jobs'[j])]
      /\ Life[j] = Seen(jobs[j])
  BY DEF Life
<1>2. /\ jobs[j] \in Row /\ jobs[j].attempts \in Nat /\ MaxAttempts \in Nat
      /\ jobs[j].attempts <= MaxAttempts
      /\ task[w].job = j /\ task[w].pc \in Processing \cup {"claiming"}
      /\ Writes(w, jobs[j], jobs'[j])
  BY KnownRows, MaxAttemptsAssumption DEF PoolInv, Known, WrittenBy, WithinBudget
<1>3. Seen(jobs[j]).status = jobs[j].status /\ Seen(jobs[j]).tries = jobs[j].attempts
  BY DEF Seen
<1>4. CASE /\ task[w].pc = "claiming"
           /\ Seen(jobs'[j]) = Lifecycle!Is("processing", jobs[j].attempts + 1, FALSE)
  <2>1. jobs[j].status = "queued" /\ jobs[j].attempts < MaxAttempts
    BY <1>2, <1>4, WriterFinds DEF PoolInv
  <2>2. Lifecycle!Try(j)
    BY <1>1, <1>3, <1>4, <2>1 DEF Lifecycle!Try, Life
  <2>3. QED
    BY <2>2 DEF Lifecycle!LStep
<1>5. CASE Seen(jobs'[j]) = Seen(jobs[j])
  BY <1>5 DEF Life
<1>6. CASE /\ task[w].pc \in Pipeline
           /\ Seen(jobs'[j]) = Lifecycle!Is("completed", jobs[j].attempts, FALSE)
  <2>1. jobs[j].status = "processing"
    BY <1>2, <1>6, WriterFinds DEF PoolInv, Owns
  <2>2. Lifecycle!Complete(j)
    BY <1>1, <1>3, <1>6, <2>1 DEF Lifecycle!Complete, Life
  <2>3. QED
    BY <2>2 DEF Lifecycle!LStep
<1>7. CASE /\ task[w].pc = "requeueing"
           /\ Seen(jobs'[j]) = Lifecycle!Is("queued", jobs[j].attempts, FALSE)
  <2>1. /\ jobs[j].attempts < MaxAttempts
        /\ jobs[j].status = "processing" \/ (LostAcks /\ jobs[j].status = "completed")
    BY <1>2, <1>7, WriterFinds, Sets DEF PoolInv, Owns
  <2>2. Lifecycle!Requeue(j)
    BY <1>1, <1>3, <1>7, <2>1 DEF Lifecycle!Requeue, Lifecycle!MayGoOn, Life
  <2>3. QED
    BY <2>2 DEF Lifecycle!LStep
<1>8. CASE /\ task[w].pc = "failing"
           /\ Seen(jobs'[j]) = Lifecycle!Is("failed", jobs[j].attempts,
                                            task[w].err = "MAX_ATTEMPTS_EXCEEDED")
  <2>1. /\ jobs[j].status = "processing" \/ (LostAcks /\ jobs[j].status = "completed")
        /\ \/ task[w].err = "MAX_ATTEMPTS_EXCEEDED" /\ jobs[j].attempts = MaxAttempts
           \/ task[w].err # "MAX_ATTEMPTS_EXCEEDED" /\ jobs[j].status = "processing"
    BY <1>2, <1>8, WriterFinds, Sets DEF PoolInv, Owns
  <2>2. CASE task[w].err = "MAX_ATTEMPTS_EXCEEDED"
    <3>1. Seen(jobs'[j]) = Lifecycle!Is("failed", jobs[j].attempts, TRUE)
      BY <1>8, <2>2
    <3>2. Lifecycle!Exhaust(j)
      BY <1>1, <1>3, <2>1, <2>2, <3>1 DEF Lifecycle!Exhaust, Lifecycle!MayGoOn, Life
    <3>3. QED
      BY <3>2 DEF Lifecycle!LStep
  <2>3. CASE task[w].err # "MAX_ATTEMPTS_EXCEEDED"
    <3>1. Seen(jobs'[j]) = Lifecycle!Is("failed", jobs[j].attempts, FALSE)
      BY <1>8, <2>3
    <3>2. Lifecycle!Fail(j)
      BY <1>1, <1>3, <2>1, <2>3, <3>1 DEF Lifecycle!Fail, Life
    <3>3. QED
      BY <3>2 DEF Lifecycle!LStep
  <2>4. QED
    BY <2>2, <2>3
<1>9. QED
  BY <1>2, <1>4, <1>5, <1>6, <1>7, <1>8, SeenWritten

LEMMA LifeInit == Init => Lifecycle!LInit
<1>. SUFFICES ASSUME Init PROVE Lifecycle!LInit
  OBVIOUS
<1>1. Seen(AbsentRow) = Lifecycle!Absent
  BY DEF Seen, AbsentRow, QueuedRow, Lifecycle!Absent
<1>2. \A j \in Jobs : Seen(jobs[j]) = Lifecycle!Absent
  BY <1>1 DEF Init
<1>3. QED
  BY <1>2 DEF Lifecycle!LInit

LEMMA LifeStep == PoolInv /\ [Next]_vars => Lifecycle!LNext \/ Life' = Life
<1>. SUFFICES ASSUME PoolInv, [Next]_vars PROVE Lifecycle!LNext \/ Life' = Life
  OBVIOUS
<1>0. TypeInv
  BY DEF PoolInv
<1>1. ASSUME NEW w \in Workers, StatementStep(w) PROVE Lifecycle!LNext \/ Life' = Life
  <2>1. PICK t, row : Statement(w, t, row) /\ Writes(w, jobs[task[w].job], row)
    BY <1>0, <1>1, StatementSteps
  <2>2. PICK j \in Jobs : j = task[w].job /\ task[w].pc \in Processing \cup {"claiming"}
    BY <1>0, <1>1, StatementSteps, Holding
  <2>3. \A k \in Jobs : k # j => jobs'[k] = jobs[k]
    BY <1>0, <2>1, <2>2 DEF Statement, TypeInv, TypeOK
  <2>4. CASE jobs'[j] = jobs[j]
    BY <2>3, <2>4 DEF Life
  <2>5. CASE jobs'[j] = row
    <3>1. WrittenBy(w, j)
      BY <1>0, <1>1, <2>1, <2>2, <2>5, HandlersEnd DEF WrittenBy, Statement
    <3>2. Life' = Life \/ Lifecycle!LStep(j)
      BY <2>3, <3>1, StatementLives
    <3>3. QED
      BY <3>2 DEF Lifecycle!LNext
  <2>6. QED
    BY <1>0, <2>1, <2>2, <2>4, <2>5 DEF Statement, TypeInv, TypeOK
<1>2. ASSUME NEW w \in Workers, Sweep(w) PROVE Lifecycle!LNext \/ Life' = Life
  <2>1. CASE jobs' = jobs
    BY <2>1 DEF Life
  <2>2. CASE jobs' = [j \in Jobs |-> SweptRow(jobs[j])]
    <3>. DEFINE stale == {j \in Jobs : Sweepable(jobs[j])}
    <3>1. \A j \in Jobs : jobs[j] \in Row /\ jobs[j].attempts \in Nat
      BY <1>0 DEF TypeInv, TypeOK, Row
    <3>2. \A j \in Jobs :
            Seen(jobs'[j]) = IF j \in stale THEN Lifecycle!Swept(Life[j]) ELSE Life[j]
      BY <2>2, <3>1, SeenSwept DEF Life
    <3>3. Life' = [j \in Jobs |-> IF j \in stale THEN Lifecycle!Swept(Life[j]) ELSE Life[j]]
      BY <3>2 DEF Life
    <3>4. stale \in SUBSET Jobs
      OBVIOUS
    <3>. HIDE DEF stale
    <3>5. Lifecycle!SweepSome
      BY <3>3, <3>4 DEF Lifecycle!SweepSome, Life
    <3>6. QED
      BY <3>5 DEF Lifecycle!LNext
  <2>3. QED
    BY <1>2, <2>1, <2>2 DEF Sweep
<1>3. ASSUME NEW w \in Workers,
             \/ SelectNextJob(w) \/ PollEmpty(w) \/ StopWorker(w) \/ WorkRaises(w)
             \/ RetryOrFailJob(w) \/ HandleShutdown(w) \/ Crash(w) \/ Restart(w)
      PROVE  Life' = Life
  BY <1>3 DEF SelectNextJob, PollEmpty, StopWorker, WorkRaises, RetryOrFailJob,
              HandleShutdown, Crash, Restart, Life
<1>4. ASSUME NEW j \in Jobs, Submit(j) PROVE Lifecycle!LNext
  <2>1. jobs[j].status = "absent" /\ jobs[j].attempts = 0
    BY <1>4 DEF Submit, PoolInv, HistoryInv
  <2>2. Life[j] = Lifecycle!Absent
    BY <2>1 DEF Life, Seen, Lifecycle!Absent
  <2>3. Seen(QueuedRow) = Lifecycle!Is("queued", 0, FALSE)
    BY DEF QueuedRow, Seen, Lifecycle!Is
  <2>4. Life' = [Life EXCEPT ![j] = Lifecycle!Is("queued", 0, FALSE)]
    BY <1>0, <1>4, <2>3 DEF Life, Submit, TypeInv, TypeOK
  <2>5. Lifecycle!Submit(j)
    BY <2>2, <2>4 DEF Lifecycle!Submit, Life
  <2>6. QED
    BY <2>5 DEF Lifecycle!LNext, Lifecycle!LStep
<1>5. ASSUME NEW j \in Jobs, LockGoesStale(j) \/ BackoffElapses(j) PROVE Life' = Life
  <2>1. \A k \in Jobs : /\ jobs'[k].status = jobs[k].status
                         /\ jobs'[k].attempts = jobs[k].attempts
                         /\ jobs'[k].error = jobs[k].error
    BY <1>0, <1>5 DEF LockGoesStale, BackoffElapses, TypeInv, TypeOK, Row
  <2>2. QED
    BY <2>1 DEF Life, Seen
<1>6. CASE UNCHANGED vars
  BY <1>6 DEF vars, Life
<1>7. QED
  BY <1>1, <1>2, <1>3, <1>4, <1>5, <1>6 DEF Next, WorkerStep, StatementStep

\* Through crashes, sweeps, lost COMMITs and handlers that read a row in one
\* transaction and write it in another, what a client sees of a job is a
\* behaviour of JobLifecycle: no try beyond max_attempts, one try after the other,
\* and no way back from an outcome it was told of.
THEOREM PoolKeepsLifecycle ==
  ASSUME ~SlowWorkers
  PROVE  Spec => KeepsLifecycle
<1>1. PoolInv /\ [Next]_vars => [Lifecycle!LNext]_Life
  BY LifeStep
<1>2. QED
  BY <1>1, LifeInit, PoolInvAlways, PTL DEF Spec, KeepsLifecycle, Lifecycle!LSpec, Life

=============================================================================
