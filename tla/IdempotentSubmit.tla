-------------------------- MODULE IdempotentSubmit --------------------------
(***************************************************************************)
(* What POST /documents promises a client that retries, without files,     *)
(* processes or transactions: a ledger of jobs that only grows and holds   *)
(* each idempotency key once, and answers that agree with it.              *)
(***************************************************************************)
CONSTANTS Requests,   \* requests; a job has the identity of its first one
          Keys,       \* idempotency keys
          Contents    \* file and annotation_tasks, what a key is bound to

NoKey == "no key"
NoJob == "no job"
NoAnswer == [code |-> 0, job |-> NoJob]
Refused == {400, 413, 415, 500, 503}

VARIABLES asked,    \* request -> its key and content, once received
          ledger,   \* the requests whose job is recorded
          answer    \* request -> status code and job_id

avars == <<asked, ledger, answer>>

NotAsked == [key |-> NoKey, content |-> NoJob]

Open(r) == asked[r] # NotAsked /\ answer[r] = NoAnswer

SameKey(r, j) == asked[r].key # NoKey /\ asked[j].key = asked[r].key
Matches(r, j) == j = r \/ (SameKey(r, j) /\ asked[j].content = asked[r].content)

AInit == /\ asked = [r \in Requests |-> NotAsked]
         /\ ledger = {}
         /\ answer = [r \in Requests |-> NoAnswer]

\* A request arrives, and may be refused on the spot.
Ask(r) ==
  /\ asked[r] = NotAsked
  /\ \E key \in Keys \cup {NoKey}, content \in Contents :
       asked' = [asked EXCEPT ![r] = [key |-> key, content |-> content]]
  /\ \/ UNCHANGED answer
     \/ answer' = [answer EXCEPT ![r] = [code |-> 400, job |-> NoJob]]
  /\ UNCHANGED ledger

\* The job is recorded under a key nobody has used. Whoever asked may be refused
\* all the same, afterwards.
Record(r) ==
  /\ Open(r)
  /\ \A j \in ledger : ~SameKey(r, j)
  /\ ledger' = ledger \cup {r}
  /\ UNCHANGED <<asked, answer>>

Accept(r) ==
  /\ Open(r)
  /\ \E j \in ledger :
       /\ Matches(r, j)
       /\ answer' = [answer EXCEPT ![r] = [code |-> 202, job |-> j]]
  /\ UNCHANGED <<asked, ledger>>

Conflict(r) ==
  /\ Open(r)
  /\ \E j \in ledger : SameKey(r, j) /\ asked[j].content # asked[r].content
  /\ answer' = [answer EXCEPT ![r] = [code |-> 409, job |-> NoJob]]
  /\ UNCHANGED <<asked, ledger>>

Refuse(r) ==
  /\ Open(r)
  /\ \E code \in Refused : answer' = [answer EXCEPT ![r] = [code |-> code, job |-> NoJob]]
  /\ UNCHANGED <<asked, ledger>>

ANext == \E r \in Requests : Ask(r) \/ Record(r) \/ Accept(r) \/ Conflict(r) \/ Refuse(r)

ASpec == AInit /\ [][ANext]_avars

\* Two requests accepted under one key are told the same job, and were for the
\* same file and tasks.
SameKeySameJob ==
  \A r, s \in Requests :
    /\ answer[r].code = 202 /\ answer[s].code = 202 /\ SameKey(r, s)
    => answer[r].job = answer[s].job /\ asked[r].content = asked[s].content
=============================================================================
