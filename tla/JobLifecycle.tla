---------------------------- MODULE JobLifecycle -----------------------------
(***************************************************************************)
(* What a client that polls GET /jobs/{id} may see of a job, and what the  *)
(* operator may rely on: a job is tried at most MaxAttempts times, one try *)
(* after the other, and its outcome stays. Workers, locks, sweeps and      *)
(* COMMITs are not to be seen here; WorkerPool implements this as long as  *)
(* an attempt is shorter than the stale timeout.                           *)
(***************************************************************************)
EXTENDS Naturals

CONSTANTS Jobs,         \* job ids
          MaxAttempts,  \* document_jobs.max_attempts
          LostAcks      \* may the COMMIT that completes a job be heard as failed?

VARIABLE life   \* job -> its status, the tries made, and why it failed

Absent == [status |-> "absent", tries |-> 0, exhausted |-> FALSE]

LInit == life = [j \in Jobs |-> Absent]

Is(status, tries, exhausted) ==
  [status |-> status, tries |-> tries, exhausted |-> exhausted]

\* A job is accepted.
Submit(j) == life[j] = Absent /\ life' = [life EXCEPT ![j] = Is("queued", 0, FALSE)]

\* A try begins, if one is left.
Try(j) == /\ life[j].status = "queued" /\ life[j].tries < MaxAttempts
          /\ life' = [life EXCEPT ![j] = Is("processing", life[j].tries + 1, FALSE)]

\* A try ends: in success, in an error of its own, ...
Complete(j) == /\ life[j].status = "processing"
               /\ life' = [life EXCEPT ![j] = Is("completed", life[j].tries, FALSE)]

Fail(j) == /\ life[j].status = "processing"
           /\ life' = [life EXCEPT ![j] = Is("failed", life[j].tries, FALSE)]

\* ... or it has to be made again. A success that was not heard of is made again
\* as well.
MayGoOn(j) == life[j].status = "processing" \/ (LostAcks /\ life[j].status = "completed")

Requeue(j) == /\ MayGoOn(j) /\ life[j].tries < MaxAttempts
              /\ life' = [life EXCEPT ![j] = Is("queued", life[j].tries, FALSE)]

Exhaust(j) == /\ MayGoOn(j) /\ life[j].tries = MaxAttempts
              /\ life' = [life EXCEPT ![j] = Is("failed", life[j].tries, TRUE)]

LStep(j) == Submit(j) \/ Try(j) \/ Complete(j) \/ Fail(j) \/ Requeue(j) \/ Exhaust(j)

\* A sweep requeues and exhausts any number of jobs with one statement.
Swept(l) == IF l.status = "processing" /\ l.tries < MaxAttempts
            THEN Is("queued", l.tries, FALSE)
            ELSE IF l.status = "processing" THEN Is("failed", l.tries, TRUE) ELSE l

SweepSome == \E stale \in SUBSET Jobs :
               life' = [j \in Jobs |-> IF j \in stale THEN Swept(life[j]) ELSE life[j]]

LNext == SweepSome \/ \E j \in Jobs : LStep(j)

LSpec == LInit /\ [][LNext]_life
=============================================================================
