----------------------------- MODULE UploadApi ------------------------------
(***************************************************************************)
(* POST /documents (app/main.py, app/storage.py): the uploaded file, the   *)
(* row of document_jobs and the idempotency key are three pieces of state  *)
(* written one after the other, by handlers that share an event loop, in   *)
(* processes that share a volume and a database.                           *)
(*                                                                         *)
(* A request r is also its job_id: uuid4() gives each request its own, and *)
(* with it a file and a row of its own.                                    *)
(*                                                                         *)
(* A definition whose name holds "_" is a broken variant of the definition *)
(* that follows it, for the property that must catch it.                   *)
(***************************************************************************)
EXTENDS Naturals

CONSTANTS Requests,    \* requests, and the jobs and files they create
          Processes,   \* API server processes, one event loop each
          Keys,        \* idempotency keys
          Contents,    \* sha256 and annotation_tasks of an upload, as one value
          MaxFaults,   \* bound on crashes and failed disk or database calls
          LostAcks     \* may the INSERT's COMMIT be applied and still raise?

NoKey == "no key"
NoJob == "no job"

ASSUME RequestsAssumption == NoJob \notin Requests
ASSUME KeysAssumption == NoKey \notin Keys
ASSUME ContentsAssumption == NoJob \notin Contents
ASSUME UploadFaultsAssumption == MaxFaults \in Nat
ASSUME LostAcksAssumption == LostAcks \in BOOLEAN

VARIABLES req,     \* request -> where its handler is and what it was sent
          files,   \* request -> what is stored at its destination
          rows,    \* the requests whose row is committed
          faults   \* faults so far

vars == <<req, files, rows, faults>>

\* Where a handler runs without awaiting: from the end of save_upload on, no
\* other request of the process moves.
Synchronous == {"saved", "inserting", "conflict", "failing", "committed"}
InFlight == {"saving"} \cup Synchronous

\* A key as a client may spell it: with or without spaces around it, blank, or
\* not at all.
KeyTexts == [key : Keys \cup {NoKey}, spaces : BOOLEAN]
Absent == [key |-> NoKey, spaces |-> FALSE]

Codes == {0, 202, 400, 409, 413, 415, 500, 503}

Request == [pc      : {"unborn", "answered", "dropped"} \cup InFlight,
            proc    : Processes \cup {NoJob},
            key     : Keys \cup {NoKey},
            content : Contents \cup {NoJob},
            code    : Codes,
            job     : Requests \cup {NoJob}]

Unborn == [pc |-> "unborn", proc |-> NoJob, key |-> NoKey, content |-> NoJob,
           code |-> 0, job |-> NoJob]

Init == /\ req = [r \in Requests |-> Unborn]
        /\ files = [r \in Requests |-> "none"]
        /\ rows = {}
        /\ faults = 0

-----------------------------------------------------------------------------
Fault == faults < MaxFaults /\ faults' = faults + 1

\* A plain def handler, which FastAPI runs in a thread pool.
LoopFree_Threads(p) == TRUE

\* The event loop of p is not inside another handler.
LoopFree(p) == \A r \in Requests : req[r].proc = p => req[r].pc \notin Synchronous

Goto(r, pc) == req' = [req EXCEPT ![r].pc = pc]

Answer(r, code, job) ==
  req' = [req EXCEPT ![r] = [@ EXCEPT !.pc = "answered", !.code = code, !.job = job]]

Unlink(r) == files' = [files EXCEPT ![r] = "none"]

\* The committed rows with the key of r.
SameKeyRows(r) == {j \in rows : req[r].key # NoKey /\ req[j].key = req[r].key}

SameUpload(r, j) == req[j].content = req[r].content

\* The upload is not compared.
AnswerFromRows_AnyUpload(r) == \E j \in SameKeyRows(r) : Answer(r, 202, j)

\* 200 for a job that was there already.
AnswerFromRows_Ok(r) ==
  \/ \E j \in SameKeyRows(r) : SameUpload(r, j) /\ Answer(r, 200, j)
  \/ (\A j \in SameKeyRows(r) : ~SameUpload(r, j)) /\ Answer(r, 409, NoJob)

\* What both branches do with the row that has the key: 202 and its job for the
\* same sha256 and annotation_tasks, 409 otherwise.
AnswerFromRows(r) ==
  \/ \E j \in SameKeyRows(r) : SameUpload(r, j) /\ Answer(r, 202, j)
  \/ (\A j \in SameKeyRows(r) : ~SameUpload(r, j)) /\ Answer(r, 409, NoJob)

-----------------------------------------------------------------------------
\* resolve_idempotency_key: the header and the form field must be the same text
\* when both are sent, and the key is that text without the spaces around it.
Clash(header, form) == header # Absent /\ form # Absent /\ header # form

ResolvedKey(header, form) == IF header # Absent THEN header.key ELSE form.key

\* The handler up to its first await: a clash is answered, or the upload begins.
Started(p, header, form, content) ==
  [pc |-> IF Clash(header, form) THEN "answered" ELSE "saving",
   proc |-> p,
   key |-> ResolvedKey(header, form),
   content |-> content,
   code |-> IF Clash(header, form) THEN 400 ELSE 0,
   job |-> NoJob]

\* The handler starts: the key, the new job_id, and its destination opened.
Begin(r) ==
  /\ req[r].pc = "unborn"
  /\ \E p \in Processes, header, form \in KeyTexts, content \in Contents :
       /\ LoopFree(p)
       /\ req' = [req EXCEPT ![r] = Started(p, header, form, content)]
       /\ files' = IF Clash(header, form) THEN files ELSE [files EXCEPT ![r] = "partial"]
  /\ UNCHANGED <<rows, faults>>

\* save_upload raises: the partial file is removed, and only FileTooLargeError
\* has an answer of its own.
SaveFails(r) ==
  /\ req[r].pc = "saving" /\ LoopFree(req[r].proc)
  /\ Unlink(r)
  /\ \/ Answer(r, 413, NoJob) /\ UNCHANGED faults
     \/ Answer(r, 500, NoJob) /\ Fault
  /\ UNCHANGED rows

\* The last await of the handler returns.
SaveUpload(r) ==
  /\ req[r].pc = "saving" /\ LoopFree(req[r].proc)
  /\ files' = [files EXCEPT ![r] = "full"]
  /\ Goto(r, "saved")
  /\ UNCHANGED <<rows, faults>>

\* The rejected file is forgotten.
RejectType_KeepsFile(r) ==
  /\ req[r].pc = "saved"
  /\ Answer(r, 415, NoJob)
  /\ UNCHANGED <<files, rows, faults>>

\* validate_declared_content_type or detect_content_type raises: a refusal, or
\* what opening the file as an archive raises beyond BadZipFile and OSError, which
\* nothing catches.
RejectType(r) ==
  /\ req[r].pc = "saved"
  /\ \/ Answer(r, 415, NoJob) /\ Unlink(r)
     \/ Answer(r, 500, NoJob) /\ UNCHANGED files
  /\ UNCHANGED <<rows, faults>>

\* The key lookup ahead of the INSERT; nothing catches its database errors.
LookupKey(r) ==
  /\ req[r].pc = "saved"
  /\ \/ /\ SameKeyRows(r) = {}
        /\ Goto(r, "inserting")
        /\ UNCHANGED <<files, faults>>
     \/ /\ SameKeyRows(r) # {}
        /\ AnswerFromRows(r)
        /\ Unlink(r)
        /\ UNCHANGED faults
     \/ /\ req[r].key # NoKey /\ Fault
        /\ Answer(r, 500, NoJob)
        /\ UNCHANGED files
  /\ UNCHANGED rows

\* No unique constraint on idempotency_key.
InsertRow_NotUnique(r) ==
  /\ req[r].pc = "inserting"
  /\ rows' = rows \cup {r}
  /\ Goto(r, "committed")
  /\ UNCHANGED <<files, faults>>

\* db.commit() of the new row: it is stored, or another row has taken the key
\* since the lookup, or the call raises, before or after the database did it.
InsertRow(r) ==
  /\ req[r].pc = "inserting"
  /\ \/ /\ SameKeyRows(r) = {}
        /\ rows' = rows \cup {r}
        /\ Goto(r, "committed")
        /\ UNCHANGED <<files, faults>>
     \/ /\ SameKeyRows(r) # {}
        /\ Goto(r, "conflict")
        /\ Unlink(r)
        /\ UNCHANGED <<rows, faults>>
     \/ /\ Fault
        /\ rows' = rows \/ (LostAcks /\ SameKeyRows(r) = {} /\ rows' = rows \cup {r})
        /\ Goto(r, "failing")
        /\ UNCHANGED files

\* except SQLAlchemyError: the upload goes, whatever became of the row.
Unavailable(r) ==
  /\ req[r].pc = "failing"
  /\ Unlink(r)
  /\ Answer(r, 503, NoJob)
  /\ UNCHANGED <<rows, faults>>

\* The loser of the race is told the job it could not insert.
RereadKey_OwnJob(r) ==
  /\ req[r].pc = "conflict"
  /\ Answer(r, 202, r)
  /\ UNCHANGED <<files, rows, faults>>

\* The loser of the race is refused without a look at the winner.
RereadKey_NoLook(r) ==
  /\ req[r].pc = "conflict"
  /\ Answer(r, 409, NoJob)
  /\ UNCHANGED <<files, rows, faults>>

\* except IntegrityError: the row that has the key is read again.
RereadKey(r) ==
  /\ req[r].pc = "conflict"
  /\ \/ AnswerFromRows(r) /\ UNCHANGED faults
     \/ Fault /\ Answer(r, 500, NoJob)
  /\ UNCHANGED <<files, rows>>

\* The upload is cleaned up on every way out of the handler.
Respond_Unlinks(r) ==
  /\ req[r].pc = "committed"
  /\ Answer(r, 202, r)
  /\ Unlink(r)
  /\ UNCHANGED <<rows, faults>>

Respond(r) ==
  /\ req[r].pc = "committed"
  /\ Answer(r, 202, r)
  /\ UNCHANGED <<files, rows, faults>>

\* What the requests of a dead process have stored is removed.
Crash_CleansUp(p) ==
  LET died == {r \in Requests : req[r].proc = p /\ req[r].pc \in InFlight}
  IN  /\ Fault
      /\ req' = [r \in Requests |-> [req[r] EXCEPT !.pc = IF r \in died THEN "dropped" ELSE @]]
      /\ files' = [r \in Requests |-> IF r \in died THEN "none" ELSE files[r]]
      /\ UNCHANGED rows

\* A process dies with every request it was serving and is started again;
\* what it left in the volume stays there.
Crash(p) ==
  /\ Fault
  /\ req' = [r \in Requests |->
               IF req[r].proc = p /\ req[r].pc \in InFlight
               THEN [req[r] EXCEPT !.pc = "dropped"] ELSE req[r]]
  /\ UNCHANGED <<files, rows>>

-----------------------------------------------------------------------------
Handle(r) == \/ SaveFails(r) \/ SaveUpload(r) \/ RejectType(r) \/ LookupKey(r)
             \/ InsertRow(r) \/ Unavailable(r) \/ RereadKey(r) \/ Respond(r)

Next == \/ \E r \in Requests : Begin(r) \/ Handle(r)
        \/ \E p \in Processes : Crash(p)

\* The event loop runs a handler that can go on; nobody is made to upload.
Fairness == \A r \in Requests : WF_vars(Handle(r))

Spec == Init /\ [][Next]_vars /\ Fairness

-----------------------------------------------------------------------------
(* Properties *)

TypeOK == /\ req \in [Requests -> Request]
          /\ files \in [Requests -> {"none", "partial", "full"}]
          /\ rows \subseteq Requests
          /\ faults \in 0..MaxFaults

\* What a client sees: what it sent, and what it was told.
Asked == [r \in Requests |-> [key |-> req[r].key, content |-> req[r].content]]
Told == [r \in Requests |-> [code |-> req[r].code, job |-> req[r].job]]

Promise == INSTANCE IdempotentSubmit WITH asked <- Asked, ledger <- rows, answer <- Told

\* The promise of POST /documents: every behaviour is one of IdempotentSubmit,
\* with the rows as its ledger, whatever crashes, races and lost COMMITs come
\* between.
KeepsPromise == Promise!ASpec

\* Two uploads accepted under one key are told the same job, and were for the
\* same file and tasks, also when they raced in two processes.
SameKeySameJob ==
  \A r, s \in Requests :
    req[r].code = 202 /\ req[s].code = 202 /\ req[r].key = req[s].key /\ req[r].key # NoKey
    => req[r].job = req[s].job /\ req[r].content = req[s].content

\* A 202 names a job that is in the table, for what was uploaded.
AcceptedIsRecorded ==
  \A r \in Requests : req[r].code = 202 =>
    req[r].job \in rows /\ req[req[r].job].content = req[r].content

\* A 409 is only sent when the key stands for something else: a client that
\* retries the same upload never gets one.
ConflictIsReal ==
  \A r \in Requests : req[r].code = 409 =>
    \A j \in SameKeyRows(r) : req[j].content # req[r].content

\* The job a 202 names can be worked on: its upload is in the volume.
AcceptedHasFile ==
  \A r \in Requests : req[r].code = 202 => files[req[r].job] = "full"

\* A row never stands in the queue without its file, at no moment of any
\* handler: a worker may claim it as soon as it is committed. The one exception
\* is the row of a COMMIT that raised: its client was told 503.
RowHasFile == \A r \in rows : files[r] = "full" \/ (LostAcks /\ req[r].code = 503)

\* An answered request whose upload was not taken leaves no file behind, but
\* for an unexpected 500.
OrphansOnlyFromErrors ==
  \A r \in Requests :
    req[r].pc = "answered" /\ r \notin rows /\ files[r] # "none" => req[r].code = 500

\* The lookup ahead of the INSERT is enough within one event loop: what the
\* database has to stop is a race between two processes.
LookupDecides ==
  \A r \in Requests : req[r].pc = "conflict" =>
    \A j \in SameKeyRows(r) : req[j].proc # req[r].proc

-----------------------------------------------------------------------------
(* Inductive strengthening *)

\* A handler that runs knows what it was sent and has told nothing yet; one
\* that lost the race for a key has a row to read.
InOrder(r) ==
  /\ req[r].pc = "unborn" => req[r] = Unborn /\ r \notin rows
  /\ req[r].pc # "unborn" => req[r].content \in Contents
  /\ req[r].pc # "answered" => req[r].code = 0 /\ req[r].job = NoJob
  /\ req[r].pc = "committed" => r \in rows
  /\ req[r].pc = "conflict" => SameKeyRows(r) # {}

UploadInv == TypeOK /\ \A r \in Requests : InOrder(r)

\* What is stored for a request, by where its handler stands.
Stored(r) ==
  /\ req[r].pc \in {"unborn", "conflict"} => files[r] = "none"
  /\ req[r].pc \in {"saved", "inserting", "failing", "committed"} => files[r] = "full"
  /\ r \in rows => req[r].pc \in {"failing", "committed", "answered", "dropped"}
  /\ r \in rows /\ req[r].pc = "failing" => LostAcks

FileInv == UploadInv /\ (\A r \in Requests : Stored(r)) /\ RowHasFile /\ OrphansOnlyFromErrors

\* One handler at a time runs on an event loop.
LoopShared == \A r, s \in Requests :
  req[r].pc \in Synchronous /\ req[s].pc \in Synchronous /\ req[r].proc = req[s].proc => r = s

\* A key that was looked up and not found is free until the INSERT, but for
\* other processes.
KeyFreeHere(r) == req[r].pc \in {"inserting", "conflict"} =>
                    \A j \in SameKeyRows(r) : req[j].proc # req[r].proc

LoopInv == UploadInv /\ LoopShared /\ \A r \in Requests : KeyFreeHere(r)
=============================================================================
