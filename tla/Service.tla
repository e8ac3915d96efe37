------------------------------- MODULE Service -------------------------------
(***************************************************************************)
(* The whole service: the API processes of UploadApi and the workers of    *)
(* WorkerPool over one table and one volume. Neither calls the other. A    *)
(* job becomes visible to the workers with the COMMIT of its INSERT, and   *)
(* its upload has to be in the volume whenever a worker looks for it.      *)
(*                                                                         *)
(* The rows of UploadApi are read off the table of WorkerPool; its clients *)
(* are the ones that submit the jobs. Here the environment keeps attempts  *)
(* shorter than the stale timeout.                                         *)
(***************************************************************************)
EXTENDS Naturals, FiniteSets

CONSTANTS Requests, Processes, Keys, Contents,   \* as in UploadApi
          Workers, MaxAttempts, Raised,          \* as in WorkerPool
          Number,      \* request -> the place of its row by created_at
          Route,       \* request -> the processes it may be sent to
          Keyless,     \* may a client leave the idempotency key out?
          MaxFaults,   \* bound on the faults of API, workers and database
          LostAcks     \* may a COMMIT be applied and still raise?

ASSUME NumberAssumption ==
  /\ Number \in [Requests -> Nat \ {0}]
  /\ \A r, s \in Requests : Number[r] = Number[s] => r = s
ASSUME RouteAssumption == Route \in [Requests -> SUBSET Processes]
ASSUME KeylessAssumption == Keyless \in BOOLEAN

VARIABLES req, files, apiFaults,               \* UploadApi
          jobs, task, running, poolFaults      \* WorkerPool

JobIds == {Number[r] : r \in Requests}

\* The requests whose INSERT is committed.
Inserted == {r \in Requests : jobs[Number[r]].status # "absent"}

Api == INSTANCE UploadApi WITH rows <- Inserted, faults <- apiFaults
Pool == INSTANCE WorkerPool WITH Jobs <- JobIds, SlowWorkers <- FALSE,
                                 faults <- poolFaults

\* What the parts assume of their constants.
ASSUME UploadAssumption ==
  /\ Api!NoJob \notin Requests \cup Contents /\ Api!NoKey \notin Keys
  /\ MaxFaults \in Nat /\ LostAcks \in BOOLEAN
ASSUME PoolAssumption ==
  /\ IsFiniteSet(Workers) /\ Pool!NULL \notin Workers /\ MaxAttempts \in Nat \ {0}
  /\ Raised \subseteq Pool!ErrorCodes \ {"MAX_ATTEMPTS_EXCEEDED"}

apiVars == <<req, files, apiFaults>>
poolVars == <<jobs, task, running, poolFaults>>
vars == <<req, files, apiFaults, jobs, task, running, poolFaults>>

Init == Pool!Init /\ Api!Init

\* One budget for all faults.
WithinFaults == apiFaults' + poolFaults' <= MaxFaults

-----------------------------------------------------------------------------
\* The INSERT is the one statement of the API that writes the table. Its row
\* appears in the step that is its COMMIT, heard of or not.
InsertRow(r) ==
  /\ req[r].pc = "inserting"
  /\ Pool!Submit(Number[r]) \/ UNCHANGED poolVars
  /\ Api!InsertRow(r)

\* Everything else a handler does touches its request and its file.
HandlerStep(r) ==
  req[r].pc # "inserting" /\ UNCHANGED poolVars /\ Api!Handle(r)

BeginUpload(r) == /\ UNCHANGED poolVars
                  /\ Api!Begin(r)
                  /\ Keyless \/ req'[r].key \in Keys
                  /\ req'[r].proc \in Route[r]

ApiCrash(p) == UNCHANGED poolVars /\ Api!Crash(p)

\* The upload of the job a worker holds.
UploadOf(w) == files[CHOOSE r \in Requests : Number[r] = task[w].job]

\* validate_claimed_file looks into the volume: it lets a whole file pass, and
\* raises FILE_NOT_FOUND of one that is gone.
FileChecked(w) ==
  LET checking == task[w].pc = "validating_file"
      missing == checking /\ UploadOf(w) = "none"
  IN  /\ checking /\ task'[w].pc = "extracting_text" => UploadOf(w) = "full"
      /\ checking /\ task'[w].err = "FILE_NOT_FOUND" => missing

WorkerStep(w) == Pool!WorkerStep(w) /\ FileChecked(w) /\ UNCHANGED apiVars

\* Signals, crashes and time, as in WorkerPool.
WorkerEvent(w) == /\ Pool!HandleShutdown(w) \/ Pool!Crash(w) \/ Pool!Restart(w)
                  /\ UNCHANGED apiVars
TimePasses(j) == /\ Pool!LockGoesStale(j) \/ Pool!BackoffElapses(j)
                 /\ UNCHANGED apiVars

-----------------------------------------------------------------------------
Handle(r) == (InsertRow(r) \/ HandlerStep(r)) /\ WithinFaults
Work(w) == WorkerStep(w) /\ WithinFaults

Next == \/ \E r \in Requests : BeginUpload(r) \/ Handle(r)
        \/ \E p \in Processes : ApiCrash(p) /\ WithinFaults
        \/ \E w \in Workers : Work(w) \/ (WorkerEvent(w) /\ WithinFaults)
        \/ \E j \in JobIds : TimePasses(j)

\* The fairness of the parts, for the same reasons.
Fairness == /\ \A r \in Requests : WF_vars(Handle(r))
            /\ \A w \in Workers : WF_vars(Work(w))
            /\ \A j \in JobIds : WF_vars(TimePasses(j))

Spec == Init /\ [][Next]_vars /\ Fairness

-----------------------------------------------------------------------------
(* Properties *)

\* The row of an INSERT that was committed while its client was told 503: the
\* handler has removed the file of a job that is in the queue.
Stranded(r) == LostAcks /\ req[r].code = 503

\* A worker never claims a job before its upload is whole, and finds it there
\* whenever it looks, through crashes of the API and however often the job is
\* retried: FILE_NOT_FOUND is only ever recorded of a stranded job.
UploadThereForWorker ==
  \A r \in Inserted : ~Stranded(r) =>
    /\ jobs[Number[r]].error # "FILE_NOT_FOUND"
    /\ jobs[Number[r]].status = "processing" => files[r] = "full"

\* What a client was told to poll for comes: the job a 202 names is completed or
\* failed in the end. So is the job of a request whose process died before it
\* could answer, which its client finds again by its key.
EveryJobSettles ==
  \A r \in Requests :
    r \in Inserted ~> jobs[Number[r]].status \in Pool!Terminal

-----------------------------------------------------------------------------
(* Inductive strengthening *)

\* The jobs whose file is gone for good.
StrandedJobs == {Number[r] : r \in {s \in Inserted : Stranded(s)}}

\* FILE_NOT_FOUND is of a stranded job from the moment a worker raises it, and
\* stays so in the row.
FileErrorsInv ==
  /\ \A w \in Workers :
       task[w].pc \in Pool!Handlers /\ task[w].err = "FILE_NOT_FOUND"
         => task[w].job \in StrandedJobs
  /\ \A j \in JobIds : jobs[j].error = "FILE_NOT_FOUND" => j \in StrandedJobs
=============================================================================
