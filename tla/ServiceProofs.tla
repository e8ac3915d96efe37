---------------------------- MODULE ServiceProofs ----------------------------
(***************************************************************************)
(* Theorems about Service: its steps are steps of both parts, so that what *)
(* is proved of POST /documents and of the workers holds of the service    *)
(* they make up, and the workers find the uploads of their jobs.           *)
(***************************************************************************)
EXTENDS Service, TLAPS

ApiPart == INSTANCE UploadApiProofs WITH rows <- Inserted, faults <- apiFaults
PoolPart == INSTANCE WorkerPoolPromptProofs WITH Jobs <- JobIds, SlowWorkers <- FALSE,
                                                  faults <- poolFaults

-----------------------------------------------------------------------------
\* The instances of UploadApi in Service and here have the same states and steps.
LEMMA SameApiSteps ==
  /\ Api!Init <=> ApiPart!Init
  /\ \A r \in Requests : /\ Api!Begin(r) <=> ApiPart!Begin(r)
                         /\ Api!InsertRow(r) <=> ApiPart!InsertRow(r)
                         /\ Api!Handle(r) <=> ApiPart!Handle(r)
  /\ \A p \in Processes : Api!Crash(p) <=> ApiPart!Crash(p)
<1> USE DEF Api!NoKey, ApiPart!NoKey, Api!NoJob, ApiPart!NoJob, Api!Synchronous,
            ApiPart!Synchronous, Api!InFlight, ApiPart!InFlight,
            Api!KeyTexts, ApiPart!KeyTexts, Api!Absent, ApiPart!Absent,
            Api!Codes, ApiPart!Codes, Api!Request, ApiPart!Request,
            Api!Unborn, ApiPart!Unborn, Api!Fault, ApiPart!Fault,
            Api!LoopFree, ApiPart!LoopFree, Api!Goto, ApiPart!Goto,
            Api!Answer, ApiPart!Answer, Api!Unlink, ApiPart!Unlink,
            Api!SameKeyRows, ApiPart!SameKeyRows, Api!SameUpload,
            ApiPart!SameUpload, Api!AnswerFromRows, ApiPart!AnswerFromRows
<1>1. Api!Init <=> ApiPart!Init
  BY DEF Api!Init, ApiPart!Init
<1>2. \A r \in Requests : Api!Begin(r) <=> ApiPart!Begin(r)
  BY DEF Api!Begin, ApiPart!Begin, Api!Started, ApiPart!Started, Api!Clash,
         ApiPart!Clash, Api!ResolvedKey, ApiPart!ResolvedKey
<1>3. \A r \in Requests : Api!SaveFails(r) <=> ApiPart!SaveFails(r)
  BY DEF Api!SaveFails, ApiPart!SaveFails
<1>4. \A r \in Requests : Api!SaveUpload(r) <=> ApiPart!SaveUpload(r)
  BY DEF Api!SaveUpload, ApiPart!SaveUpload
<1>5. \A r \in Requests : Api!RejectType(r) <=> ApiPart!RejectType(r)
  BY DEF Api!RejectType, ApiPart!RejectType
<1>6. \A r \in Requests : Api!LookupKey(r) <=> ApiPart!LookupKey(r)
  BY DEF Api!LookupKey, ApiPart!LookupKey
<1>7. \A r \in Requests : Api!InsertRow(r) <=> ApiPart!InsertRow(r)
  BY DEF Api!InsertRow, ApiPart!InsertRow
<1>8. \A r \in Requests : Api!RereadKey(r) <=> ApiPart!RereadKey(r)
  BY DEF Api!RereadKey, ApiPart!RereadKey
<1>9. \A r \in Requests : Api!Respond(r) <=> ApiPart!Respond(r)
  BY DEF Api!Respond, ApiPart!Respond
<1>10. \A p \in Processes : Api!Crash(p) <=> ApiPart!Crash(p)
  BY DEF Api!Crash, ApiPart!Crash
<1>11. \A r \in Requests : Api!Unavailable(r) <=> ApiPart!Unavailable(r)
  BY DEF Api!Unavailable, ApiPart!Unavailable
<1>12. QED
  BY Zenon, <1>1, <1>2, <1>3, <1>4, <1>5, <1>6, <1>7, <1>8, <1>9, <1>10, <1>11
  DEF Api!Handle, ApiPart!Handle

\* And so have the two instances of WorkerPool.
LEMMA SamePoolSteps ==
  /\ Pool!Init <=> PoolPart!Init
  /\ \A w \in Workers : /\ Pool!WorkerStep(w) <=> PoolPart!WorkerStep(w)
                        /\ Pool!HandleShutdown(w) <=> PoolPart!HandleShutdown(w)
                        /\ Pool!Crash(w) <=> PoolPart!Crash(w)
                        /\ Pool!Restart(w) <=> PoolPart!Restart(w)
  /\ \A j \in JobIds : /\ Pool!Submit(j) <=> PoolPart!Submit(j)
                       /\ Pool!LockGoesStale(j) <=> PoolPart!LockGoesStale(j)
                       /\ Pool!BackoffElapses(j) <=> PoolPart!BackoffElapses(j)
<1> USE DEF Pool!NULL, PoolPart!NULL, Pool!PipelineStages, PoolPart!PipelineStages,
            Pool!Pipeline, PoolPart!Pipeline, Pool!Handlers,
            PoolPart!Handlers, Pool!Processing, PoolPart!Processing,
            Pool!FileErrors, PoolPart!FileErrors, Pool!ExtractionErrors,
            PoolPart!ExtractionErrors, Pool!AnnotationErrors,
            PoolPart!AnnotationErrors, Pool!ErrorCodes,
            PoolPart!ErrorCodes, Pool!NoJob, PoolPart!NoJob, Pool!Resting,
            PoolPart!Resting, Pool!Idle, PoolPart!Idle, Pool!Fault,
            PoolPart!Fault, Pool!LockedByClaim, PoolPart!LockedByClaim,
            Pool!Commit, PoolPart!Commit, Pool!At, PoolPart!At,
            Pool!UnknownError, PoolPart!UnknownError, Pool!Unlocked,
            PoolPart!Unlocked
<1>1. Pool!Init <=> PoolPart!Init
  BY DEF Pool!Init, PoolPart!Init, Pool!AbsentRow, PoolPart!AbsentRow, Pool!QueuedRow,
         PoolPart!QueuedRow
<1>2. \A w \in Workers : Pool!Sweep(w) <=> PoolPart!Sweep(w)
  BY DEF Pool!Sweep, PoolPart!Sweep, Pool!SweptRow, PoolPart!SweptRow, Pool!Sweepable,
         PoolPart!Sweepable, Pool!FailedRow, PoolPart!FailedRow
<1>3. \A w \in Workers : Pool!SelectNextJob(w) <=> PoolPart!SelectNextJob(w)
  BY DEF Pool!SelectNextJob, PoolPart!SelectNextJob, Pool!ReadyToClaim,
         PoolPart!ReadyToClaim, Pool!Claimable, PoolPart!Claimable,
         Pool!TouchedByOther, PoolPart!TouchedByOther
<1>4. \A w \in Workers : Pool!PollEmpty(w) <=> PoolPart!PollEmpty(w)
  BY DEF Pool!PollEmpty, PoolPart!PollEmpty, Pool!Claimable, PoolPart!Claimable,
         Pool!TouchedByOther, PoolPart!TouchedByOther
<1>5. \A w \in Workers : Pool!ClaimNextJob(w) <=> PoolPart!ClaimNextJob(w)
  BY DEF Pool!ClaimNextJob, PoolPart!ClaimNextJob, Pool!ClaimedRow,
         PoolPart!ClaimedRow
<1>6. \A w \in Workers : Pool!UpdateJobStage(w) <=> PoolPart!UpdateJobStage(w)
  BY DEF Pool!UpdateJobStage, PoolPart!UpdateJobStage, Pool!NextStage,
         PoolPart!NextStage
<1>7. \A w \in Workers : Pool!StoreExtraction(w) <=> PoolPart!StoreExtraction(w)
  BY DEF Pool!StoreExtraction, PoolPart!StoreExtraction
<1>8. \A w \in Workers : Pool!StoreAnnotation(w) <=> PoolPart!StoreAnnotation(w)
  BY DEF Pool!StoreAnnotation, PoolPart!StoreAnnotation
<1>9. \A w \in Workers : Pool!CompleteJob(w) <=> PoolPart!CompleteJob(w)
  BY DEF Pool!CompleteJob, PoolPart!CompleteJob, Pool!CompletedRow,
         PoolPart!CompletedRow
<1>10. \A w \in Workers : Pool!WorkRaises(w) <=> PoolPart!WorkRaises(w)
  BY DEF Pool!WorkRaises, PoolPart!WorkRaises, Pool!RetryableAnnotationErrors,
         PoolPart!RetryableAnnotationErrors
<1>11. \A w \in Workers : Pool!RetryOrFailJob(w) <=> PoolPart!RetryOrFailJob(w)
  BY DEF Pool!RetryOrFailJob, PoolPart!RetryOrFailJob
<1>12. \A w \in Workers : Pool!RequeueJob(w) <=> PoolPart!RequeueJob(w)
  BY DEF Pool!RequeueJob, PoolPart!RequeueJob, Pool!RequeuedRow, PoolPart!RequeuedRow
<1>13. \A w \in Workers : Pool!FailJob(w) <=> PoolPart!FailJob(w)
  BY DEF Pool!FailJob, PoolPart!FailJob, Pool!FailedRow, PoolPart!FailedRow
<1>14. \A w \in Workers : Pool!StopWorker(w) <=> PoolPart!StopWorker(w)
  BY DEF Pool!StopWorker, PoolPart!StopWorker
<1>15. \A w \in Workers : Pool!HandleShutdown(w) <=> PoolPart!HandleShutdown(w)
  BY DEF Pool!HandleShutdown, PoolPart!HandleShutdown
<1>16. \A w \in Workers : Pool!Crash(w) <=> PoolPart!Crash(w)
  BY DEF Pool!Crash, PoolPart!Crash
<1>17. \A w \in Workers : Pool!Restart(w) <=> PoolPart!Restart(w)
  BY DEF Pool!Restart, PoolPart!Restart
<1>18. \A j \in JobIds : Pool!Submit(j) <=> PoolPart!Submit(j)
  BY DEF Pool!Submit, PoolPart!Submit, Pool!QueuedRow, PoolPart!QueuedRow
<1>19. \A j \in JobIds : Pool!LockGoesStale(j) <=> PoolPart!LockGoesStale(j)
  BY DEF Pool!LockGoesStale, PoolPart!LockGoesStale, Pool!StillAtWork,
         PoolPart!StillAtWork
<1>20. \A j \in JobIds : Pool!BackoffElapses(j) <=> PoolPart!BackoffElapses(j)
  BY DEF Pool!BackoffElapses, PoolPart!BackoffElapses
<1>21. QED
  BY Zenon, <1>1, <1>2, <1>3, <1>4, <1>5, <1>6, <1>7, <1>8, <1>9, <1>10, <1>11,
     <1>12, <1>13, <1>14, <1>15, <1>16, <1>17, <1>18, <1>19, <1>20
  DEF Pool!WorkerStep, PoolPart!WorkerStep

\* What the parts assume of their constants holds of what Service puts in.
LEMMA PoolConstants ==
  /\ PoolPart!IsFiniteSet(Workers)
  /\ JobIds \subseteq Nat \ {0}
  /\ Raised \subseteq PoolPart!ErrorCodes \ {"MAX_ATTEMPTS_EXCEEDED"}
  /\ PoolPart!NULL \notin Workers
  /\ FALSE \in BOOLEAN
<1>1. PoolPart!IsFiniteSet(Workers)
  BY PoolAssumption DEF IsFiniteSet, PoolPart!IsFiniteSet
<1>2. JobIds \subseteq Nat \ {0}
  BY NumberAssumption DEF JobIds
<1>3. Pool!ErrorCodes = PoolPart!ErrorCodes
  BY DEF Pool!ErrorCodes, PoolPart!ErrorCodes, Pool!FileErrors, PoolPart!FileErrors,
         Pool!ExtractionErrors, PoolPart!ExtractionErrors, Pool!AnnotationErrors,
         PoolPart!AnnotationErrors
<1>4. QED
  BY <1>1, <1>2, <1>3, PoolAssumption DEF Pool!NULL, PoolPart!NULL

LEMMA ApiConstants ==
  /\ ApiPart!NoJob \notin Requests /\ ApiPart!NoJob \notin Contents
  /\ ApiPart!NoKey \notin Keys
BY UploadAssumption DEF Api!NoJob, Api!NoKey, ApiPart!NoJob, ApiPart!NoKey

-----------------------------------------------------------------------------
(* Every step of the service is a step of each part                        *)

\* The rows the API sees are changed by its INSERT alone: whatever a worker
\* does to a row, it was there before and is there after.
LEMMA WorkersKeepRows ==
  ASSUME PoolPart!TypeInv,
         \/ \E w \in Workers : PoolPart!WorkerStep(w) \/ PoolPart!HandleShutdown(w)
                                 \/ PoolPart!Crash(w) \/ PoolPart!Restart(w)
         \/ \E j \in JobIds : PoolPart!LockGoesStale(j) \/ PoolPart!BackoffElapses(j)
  PROVE  Inserted' = Inserted
<1>1. \A j \in JobIds : jobs'[j].status = "absent" <=> jobs[j].status = "absent"
  BY PoolConstants, PoolAssumption, UploadAssumption, PoolPart!WorkersInsertNothing
<1>2. \A r \in Requests : Number[r] \in JobIds
  BY DEF JobIds
<1>3. QED
  BY <1>1, <1>2 DEF Inserted

\* The steps of Service, sorted by the part that makes them.
ApiStep ==
  \/ \E r \in Requests : ApiPart!Begin(r) /\ UNCHANGED poolVars
  \/ \E r \in Requests : /\ ApiPart!Handle(r)
                         /\ UNCHANGED poolVars \/ PoolPart!Submit(Number[r])
  \/ \E p \in Processes : ApiPart!Crash(p) /\ UNCHANGED poolVars

CheckedStep == \E w \in Workers : PoolPart!WorkerStep(w) /\ FileChecked(w)

PoolEvent ==
  \/ \E w \in Workers : PoolPart!HandleShutdown(w) \/ PoolPart!Crash(w) \/ PoolPart!Restart(w)
  \/ \E j \in JobIds : PoolPart!LockGoesStale(j) \/ PoolPart!BackoffElapses(j)

LEMMA StepKinds ==
  ASSUME PoolPart!TypeInv, Next
  PROVE  ApiStep \/ ((CheckedStep \/ PoolEvent) /\ UNCHANGED apiVars /\ Inserted' = Inserted)
<1>1. ASSUME NEW r \in Requests, BeginUpload(r) \/ Handle(r) PROVE ApiStep
  <2>1. CASE BeginUpload(r)
    BY Zenon, <2>1, SameApiSteps DEF BeginUpload, ApiStep
  <2>2. CASE HandlerStep(r)
    BY Zenon, <2>2, SameApiSteps DEF HandlerStep, ApiStep
  <2>3. CASE InsertRow(r)
    <3>1. ApiPart!Handle(r)
      BY Zenon, <2>3, SameApiSteps DEF InsertRow, ApiPart!Handle
    <3>2. UNCHANGED poolVars \/ PoolPart!Submit(Number[r])
      BY Zenon, <2>3, SamePoolSteps DEF InsertRow, JobIds
    <3>3. QED
      BY <3>1, <3>2 DEF ApiStep
  <2>4. QED
    BY <1>1, <2>1, <2>2, <2>3 DEF Handle
<1>2. ASSUME NEW p \in Processes, ApiCrash(p) PROVE ApiStep
  BY Zenon, <1>2, SameApiSteps DEF ApiCrash, ApiStep
<1>3. ASSUME NEW w \in Workers, WorkerStep(w)
      PROVE  CheckedStep /\ UNCHANGED apiVars /\ Inserted' = Inserted
  BY Zenon, <1>3, SamePoolSteps, WorkersKeepRows DEF WorkerStep, CheckedStep
<1>4. ASSUME NEW w \in Workers, WorkerEvent(w)
      PROVE  PoolEvent /\ UNCHANGED apiVars /\ Inserted' = Inserted
  BY Zenon, <1>4, SamePoolSteps, WorkersKeepRows DEF WorkerEvent, PoolEvent
<1>5. ASSUME NEW j \in JobIds, TimePasses(j)
      PROVE  PoolEvent /\ UNCHANGED apiVars /\ Inserted' = Inserted
  BY Zenon, <1>5, SamePoolSteps, WorkersKeepRows DEF TimePasses, PoolEvent
<1>6. QED
  BY <1>1, <1>2, <1>3, <1>4, <1>5 DEF Next, Work

LEMMA PartSteps ==
  ASSUME PoolPart!TypeInv, [Next]_vars
  PROVE  [ApiPart!Next]_(ApiPart!vars) /\ [PoolPart!Next]_(PoolPart!vars)
<1>0. \A r \in Requests : Number[r] \in JobIds
  BY DEF JobIds
<1>1. CASE ApiStep
  <2>1. ApiPart!Next
    BY Zenon, <1>1 DEF ApiStep, ApiPart!Next
  <2>2. PoolPart!Next \/ UNCHANGED PoolPart!vars
    BY Zenon, <1>0, <1>1 DEF ApiStep, PoolPart!Next, poolVars, PoolPart!vars
  <2>3. QED
    BY <2>1, <2>2
<1>2. CASE (CheckedStep \/ PoolEvent) /\ UNCHANGED apiVars /\ Inserted' = Inserted
  <2>1. PoolPart!Next
    BY Zenon, <1>2 DEF CheckedStep, PoolEvent, PoolPart!Next
  <2>2. UNCHANGED ApiPart!vars
    BY <1>2 DEF apiVars, ApiPart!vars
  <2>3. QED
    BY <2>1, <2>2
<1>3. CASE UNCHANGED vars
  BY <1>3 DEF vars, ApiPart!vars, PoolPart!vars, Inserted
<1>4. QED
  BY <1>1, <1>2, <1>3, StepKinds

-----------------------------------------------------------------------------
(* The service keeps what its parts keep                                   *)

\* The invariants of both parts.
PartsInv == ApiPart!FileInv /\ PoolPart!PoolInv

LEMMA PartsInit == Init => PartsInv
BY SameApiSteps, SamePoolSteps, ApiConstants, PoolConstants, PoolAssumption, UploadAssumption,
   ApiPart!FileInit, PoolPart!PoolInit DEF Init, PartsInv

LEMMA PartsStep ==
  ASSUME PartsInv, [Next]_vars
  PROVE  PartsInv'
<1>1. [ApiPart!Next]_(ApiPart!vars) /\ [PoolPart!Next]_(PoolPart!vars)
  BY PartSteps DEF PartsInv, PoolPart!PoolInv
<1>2. ApiPart!FileInv'
  BY <1>1, ApiConstants, UploadAssumption, ApiPart!FileStep DEF PartsInv
<1>3. PoolPart!PoolInv'
  BY <1>1, PoolConstants, PoolAssumption, UploadAssumption, PoolPart!PoolNext DEF PartsInv
<1>4. QED
  BY <1>2, <1>3 DEF PartsInv

-----------------------------------------------------------------------------
(* The uploads and the workers                                             *)

\* A row that is stranded stays so: its request has been answered.
LEMMA StrandedStays ==
  ASSUME PartsInv, [Next]_vars, NEW j, j \in StrandedJobs
  PROVE  j \in StrandedJobs'
<1>1. PICK r \in Requests : /\ jobs[Number[r]].status # "absent" /\ Number[r] = j
                            /\ LostAcks /\ req[r].code = 503
  BY DEF StrandedJobs, Stranded, Inserted
<1>2. ApiPart!UploadInv /\ PoolPart!TypeInv
  BY DEF PartsInv, ApiPart!FileInv, PoolPart!PoolInv
<1>3. r \in Inserted /\ req[r].pc = "answered"
  BY <1>1, <1>2 DEF Inserted, ApiPart!UploadInv, ApiPart!InOrder
<1>4. r \in Inserted' /\ req'[r].code = req[r].code
  <2>1. ASSUME NEW s \in Requests, ApiPart!Handle(s)
        PROVE  r \in Inserted' /\ req'[r].code = req[r].code
    <3>1. ApiPart!Outcome(s) /\ Inserted \subseteq Inserted' /\ (s # r => req'[r] = req[r])
      BY <1>2, <2>1, ApiConstants, UploadAssumption, ApiPart!HandlerOutcome
    <3>2. req[s].pc # "answered"
      BY <3>1 DEF ApiPart!Outcome
    <3>3. QED
      BY <1>3, <3>1, <3>2
  <2>2. ASSUME NEW s \in Requests, ApiPart!Begin(s)
        PROVE  r \in Inserted' /\ req'[r].code = req[r].code
    <3>1. req[s].pc = "unborn" /\ Inserted' = Inserted /\ (s # r => req'[r] = req[r])
      BY <1>2, <2>2, ApiConstants, UploadAssumption, ApiPart!BeginOutcome
    <3>2. QED
      BY <1>3, <3>1
  <2>3. ASSUME NEW p \in Processes, ApiPart!Crash(p)
        PROVE  r \in Inserted' /\ req'[r].code = req[r].code
    <3>1. Inserted' = Inserted /\ req'[r].code = req[r].code
      BY <1>2, <2>3, ApiConstants, UploadAssumption, ApiPart!CrashOutcome
    <3>2. QED
      BY <1>3, <3>1
  <2>4. CASE UNCHANGED ApiPart!vars
    BY <1>3, <2>4 DEF ApiPart!vars
  <2>5. QED
    BY <1>2, <2>1, <2>2, <2>3, <2>4, PartSteps DEF ApiPart!Next
<1>5. QED
  BY <1>1, <1>4 DEF StrandedJobs, Stranded

\* The job a worker holds while it looks for the file, and finds none, is one
\* whose row is stranded.
LEMMA NothingFound ==
  ASSUME PartsInv, NEW w \in Workers, task[w].pc = "validating_file", UploadOf(w) = "none"
  PROVE  task[w].job \in StrandedJobs
<1>1. task[w].job \in JobIds /\ jobs[task[w].job].status # "absent"
  BY DEF PartsInv, PoolPart!PoolInv, PoolPart!TypeInv, PoolPart!TasksInOrder,
         PoolPart!Processing, PoolPart!Pipeline, PoolPart!PipelineStages
<1>2. PICK r \in Requests : r = CHOOSE q \in Requests : Number[q] = task[w].job
  BY <1>1 DEF JobIds
<1>3. Number[r] = task[w].job
  BY <1>1, <1>2 DEF JobIds
<1>4. r \in Inserted /\ files[r] = "none"
  BY <1>1, <1>2, <1>3 DEF Inserted, UploadOf
<1>5. Stranded(r)
  BY <1>4 DEF Stranded, PartsInv, ApiPart!FileInv, ApiPart!RowHasFile
<1>6. QED
  BY <1>3, <1>4, <1>5 DEF StrandedJobs

LEMMA FileErrorsInit == Init => FileErrorsInv
<1> SUFFICES ASSUME Init PROVE FileErrorsInv
  OBVIOUS
<1>1. \A w \in Workers : task[w].pc = "idle"
  BY DEF Init, Pool!Init, Pool!Idle, Pool!Resting
<1>2. \A j \in JobIds : jobs[j].error = "NULL"
  BY DEF Init, Pool!Init, Pool!AbsentRow, Pool!QueuedRow, Pool!NULL
<1>3. QED
  BY <1>1, <1>2 DEF FileErrorsInv, Pool!Handlers

LEMMA FileErrorsStep ==
  ASSUME PartsInv, FileErrorsInv, [Next]_vars
  PROVE  FileErrorsInv'
<1>1. PoolPart!TypeInv /\ [PoolPart!Next]_(PoolPart!vars)
  BY PartSteps DEF PartsInv, PoolPart!PoolInv
<1>2. Pool!Handlers = PoolPart!Handlers /\ "validating_file" \notin PoolPart!Handlers
  BY DEF Pool!Handlers, PoolPart!Handlers
<1>3. ASSUME NEW w \in Workers, task'[w].pc \in PoolPart!Handlers,
             task'[w].err = "FILE_NOT_FOUND"
      PROVE  task'[w].job \in StrandedJobs'
  <2>1. /\ task'[w].job = task[w].job
        /\ \/ task[w].pc \in PoolPart!Handlers /\ task[w].err = "FILE_NOT_FOUND"
           \/ task[w].pc = "validating_file"
    BY <1>1, <1>3, PoolConstants, PoolAssumption, UploadAssumption, PoolPart!MissingFileRaised
  <2>2. CASE task[w].pc \in PoolPart!Handlers /\ task[w].err = "FILE_NOT_FOUND"
    BY <1>2, <2>1, <2>2, StrandedStays DEF FileErrorsInv
  <2>3. CASE task[w].pc = "validating_file"
    <3>1. task'[w] # task[w]
      BY <1>2, <1>3, <2>3
    <3>2. PICK v \in Workers : PoolPart!WorkerStep(v) /\ FileChecked(v)
      <4>1. ~ApiStep /\ ~UNCHANGED vars
        BY <3>1 DEF ApiStep, poolVars, vars, PoolPart!Submit
      <4>2. ~PoolEvent
        BY <1>1, <1>3, <3>1, PoolConstants, PoolAssumption, UploadAssumption,
           PoolPart!EventsRaiseNothing DEF PoolEvent
      <4>3. CheckedStep
        BY <1>1, <4>1, <4>2, StepKinds
      <4>4. QED
        BY <4>3 DEF CheckedStep
    <3>3. v = w
      BY <1>1, <3>1, <3>2, PoolConstants, PoolAssumption, UploadAssumption, PoolPart!OthersStay
    <3>4. UploadOf(w) = "none"
      BY <1>3, <2>3, <3>2, <3>3 DEF FileChecked
    <3>5. QED
      BY <2>1, <2>3, <3>4, NothingFound, StrandedStays
  <2>4. QED
    BY <2>1, <2>2, <2>3
<1>4. ASSUME NEW j \in JobIds, jobs'[j].error = "FILE_NOT_FOUND" PROVE j \in StrandedJobs'
  <2>1. \/ jobs[j].error = "FILE_NOT_FOUND"
        \/ \E w \in Workers : /\ task[w].pc \in PoolPart!Handlers /\ task[w].job = j
                              /\ task[w].err = "FILE_NOT_FOUND"
    BY <1>1, <1>4, PoolConstants, PoolAssumption, UploadAssumption, PoolPart!ErrorSource
    DEF PoolPart!NULL
  <2>2. j \in StrandedJobs
    BY <1>2, <2>1 DEF FileErrorsInv
  <2>3. QED
    BY <2>2, StrandedStays
<1>5. QED
  BY <1>2, <1>3, <1>4 DEF FileErrorsInv, JobIds

LEMMA ServiceInvAlways == Spec => [](PartsInv /\ FileErrorsInv)
<1>1. Init => PartsInv /\ FileErrorsInv
  BY PartsInit, FileErrorsInit
<1>2. (PartsInv /\ FileErrorsInv) /\ [Next]_vars => (PartsInv /\ FileErrorsInv)'
  BY PartsStep, FileErrorsStep
<1>3. QED
  BY <1>1, <1>2, PTL DEF Spec

\* A worker finds the upload of its job whole whenever it looks, however the API
\* process that stored it ended and however often the job is retried: only the
\* row of a COMMIT that was reported lost, whose upload save_upload's caller has
\* removed, ever gets FILE_NOT_FOUND.
THEOREM UploadsAreThere == Spec => []UploadThereForWorker
<1>1. PartsInv /\ FileErrorsInv => UploadThereForWorker
  <2> SUFFICES ASSUME PartsInv, FileErrorsInv, NEW r \in Inserted, ~Stranded(r)
               PROVE  /\ jobs[Number[r]].error # "FILE_NOT_FOUND"
                      /\ jobs[Number[r]].status = "processing" => files[r] = "full"
    BY DEF UploadThereForWorker
  <2>1. r \in Requests /\ Number[r] \in JobIds
    BY DEF Inserted, JobIds
  <2>2. Number[r] \notin StrandedJobs
    <3>1. \A s \in Inserted : Number[s] = Number[r] => s = r
      BY <2>1, NumberAssumption DEF Inserted
    <3>2. QED
      BY <3>1 DEF StrandedJobs
  <2>3. files[r] = "full"
    BY DEF PartsInv, ApiPart!FileInv, ApiPart!RowHasFile, Stranded
  <2>4. QED
    BY <2>1, <2>2, <2>3 DEF FileErrorsInv
<1>2. QED
  BY <1>1, ServiceInvAlways, PTL

-----------------------------------------------------------------------------
(* The abstract specifications                                             *)

\* The service keeps the promise of POST /documents while the workers claim,
\* fail, sweep and complete the rows it is about.
THEOREM ServiceKeepsPromise == Spec => ApiPart!KeepsPromise
<1>1. Init => ApiPart!UploadInv /\ ApiPart!Promise!AInit
  BY SameApiSteps, ApiConstants, UploadAssumption, ApiPart!InitKept DEF Init
<1>2. PartsInv /\ [Next]_vars => [ApiPart!Promise!ANext]_(ApiPart!Promise!avars)
  <2> SUFFICES ASSUME PartsInv, [Next]_vars
               PROVE  [ApiPart!Promise!ANext]_(ApiPart!Promise!avars)
    OBVIOUS
  <2>1. ApiPart!UploadInv /\ [ApiPart!Next]_(ApiPart!vars)
    BY PartSteps DEF PartsInv, PoolPart!PoolInv, ApiPart!FileInv
  <2>2. QED
    BY <2>1, ApiConstants, UploadAssumption, ApiPart!StepKept
<1>3. QED
  BY <1>1, <1>2, ServiceInvAlways, PTL DEF Spec, ApiPart!KeepsPromise, ApiPart!Promise!ASpec

\* And each job it accepts lives as JobLifecycle says.
THEOREM ServiceKeepsLifecycle == Spec => PoolPart!KeepsLifecycle
<1>1. Init => PoolPart!Lifecycle!LInit
  BY SamePoolSteps, PoolConstants, PoolAssumption, UploadAssumption, PoolPart!LifeInit DEF Init
<1>2. PartsInv /\ [Next]_vars => [PoolPart!Lifecycle!LNext]_(PoolPart!Life)
  <2> SUFFICES ASSUME PartsInv, [Next]_vars
               PROVE  [PoolPart!Lifecycle!LNext]_(PoolPart!Life)
    OBVIOUS
  <2>1. PoolPart!PoolInv /\ [PoolPart!Next]_(PoolPart!vars)
    BY PartSteps DEF PartsInv, PoolPart!PoolInv
  <2>2. QED
    BY <2>1, PoolConstants, PoolAssumption, UploadAssumption, PoolPart!LifeStep
<1>3. QED
  BY <1>1, <1>2, ServiceInvAlways, PTL
  DEF Spec, PoolPart!KeepsLifecycle, PoolPart!Lifecycle!LSpec, PoolPart!Life
=============================================================================
