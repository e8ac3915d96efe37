-------------------------- MODULE UploadApiProofs ---------------------------
(***************************************************************************)
(* The handlers of POST /documents keep the promise of IdempotentSubmit,   *)
(* and what they keep true of their answers, rows and files, for any       *)
(* requests, processes, keys and contents.                                 *)
(***************************************************************************)
EXTENDS UploadApi, TLAPS

\* The markers are no request, content or key.
LEMMA Distinct == /\ NoJob \notin Requests
                  /\ NoJob \notin Contents
                  /\ NoKey \notin Keys
  BY RequestsAssumption, ContentsAssumption, KeysAssumption

\* Changing one handler, to a well-formed state that keeps what it was sent,
\* leaves every other handler in order.
LEMMA OneMoves ==
  ASSUME UploadInv, NEW r \in Requests, NEW new \in Request,
         req' = [req EXCEPT ![r] = new],
         rows \subseteq rows', rows' \subseteq rows \cup {r},
         req[r].pc # "unborn" => new.key = req[r].key /\ new.content = req[r].content,
         files' \in [Requests -> {"none", "partial", "full"}], faults' \in 0..MaxFaults,
         new.pc # "unborn", new.content \in Contents,
         new.pc # "answered" => new.code = 0 /\ new.job = NoJob,
         new.pc = "committed" => r \in rows',
         new.pc = "conflict" => SameKeyRows(r) # {} /\ req[r].pc # "unborn"
  PROVE  UploadInv'
<1>1. /\ req' \in [Requests -> Request] /\ rows' \subseteq Requests
      /\ req'[r] = new
      /\ \A s \in Requests : s # r => req'[s] = req[s]
  BY DEF UploadInv, TypeOK
<1>2. TypeOK'
  BY <1>1 DEF TypeOK
<1>3. ASSUME NEW s \in Requests, SameKeyRows(s) # {}, req'[s].key = req[s].key
      PROVE  SameKeyRows(s)' # {}
  <2>1. PICK j \in rows : req[s].key # NoKey /\ req[j].key = req[s].key
    BY <1>3 DEF SameKeyRows
  <2>2. j \in Requests /\ req[j].pc # "unborn"
    BY DEF UploadInv, InOrder, TypeOK
  <2>3. req'[j].key = req[j].key
    BY <1>1, <2>2
  <2>4. QED
    BY <1>3, <2>1, <2>3 DEF SameKeyRows
<1>4. InOrder(r)'
  <2>1. new.pc = "conflict" => SameKeyRows(r)' # {}
    BY <1>1, <1>3
  <2>2. QED
    BY <1>1, <2>1 DEF InOrder
<1>5. ASSUME NEW s \in Requests, s # r PROVE InOrder(s)'
  <2>1. InOrder(s) /\ req'[s] = req[s] /\ (s \in rows' <=> s \in rows)
    BY <1>1, <1>5 DEF UploadInv
  <2>2. req[s].pc = "conflict" => SameKeyRows(s)' # {}
    BY <1>3, <2>1 DEF InOrder
  <2>3. QED
    BY <2>1, <2>2 DEF InOrder
<1>6. QED
  BY <1>2, <1>4, <1>5 DEF UploadInv

\* An answer, as the promise sees it.
LEMMA AnswerTold ==
  ASSUME UploadInv, NEW r \in Requests, NEW code \in Codes, NEW job \in Requests \cup {NoJob},
         Answer(r, code, job), req[r].pc \notin {"unborn", "answered", "dropped"}
  PROVE  /\ \E new \in Request :
              /\ req' = [req EXCEPT ![r] = new]
              /\ new.key = req[r].key /\ new.content = req[r].content /\ new.pc = "answered"
         /\ Asked' = Asked
         /\ Told' = [Told EXCEPT ![r] = [code |-> code, job |-> job]]
         /\ Promise!Open(r)
<1> DEFINE new == [req[r] EXCEPT !.pc = "answered", !.code = code, !.job = job]
<1>1. req \in [Requests -> Request] /\ req[r] \in Request /\ req' = [req EXCEPT ![r] = new]
  BY DEF UploadInv, TypeOK, Answer
<1>2. /\ new \in Request /\ new.key = req[r].key /\ new.content = req[r].content
      /\ new.pc = "answered" /\ new.code = code /\ new.job = job
  BY <1>1 DEF Request
<1> HIDE DEF new
<1>3. req'[r] = new /\ \A s \in Requests : s # r => req'[s] = req[s]
  BY <1>1
<1>4. Asked' = Asked
  BY <1>2, <1>3 DEF Asked
<1>5. Told' = [Told EXCEPT ![r] = [code |-> code, job |-> job]]
  BY <1>2, <1>3 DEF Told
<1>6. Promise!Open(r)
  <2>1. req[r].content \in Contents /\ req[r].code = 0 /\ req[r].job = NoJob
    BY DEF UploadInv, InOrder
  <2>2. QED
    BY <2>1, Distinct DEF Promise!Open, Asked, Told, Promise!NotAsked, Promise!NoAnswer,
                          Promise!NoJob, NoJob
<1>7. QED
  BY <1>1, <1>2, <1>4, <1>5, <1>6

\* A step of one handler that answers nothing, as the promise sees it.
LEMMA GotoTold ==
  ASSUME UploadInv, NEW r \in Requests, NEW pc \in Synchronous, Goto(r, pc),
         req[r].pc \in InFlight
  PROVE  /\ \E new \in Request :
              /\ req' = [req EXCEPT ![r] = new]
              /\ new.key = req[r].key /\ new.content = req[r].content /\ new.pc = pc
              /\ new.code = 0 /\ new.job = NoJob
         /\ Asked' = Asked
         /\ Told' = Told
<1> DEFINE new == [req[r] EXCEPT !.pc = pc]
<1>1. req \in [Requests -> Request] /\ req[r] \in Request /\ req' = [req EXCEPT ![r] = new]
  BY DEF UploadInv, TypeOK, Goto
<1>2. /\ new \in Request /\ new.key = req[r].key /\ new.content = req[r].content
      /\ new.pc = pc /\ new.code = req[r].code /\ new.job = req[r].job
  BY <1>1 DEF Request, InFlight
<1>3. req[r].code = 0 /\ req[r].job = NoJob
  BY DEF UploadInv, InOrder, InFlight, Synchronous
<1> HIDE DEF new
<1>4. req'[r] = new /\ \A s \in Requests : s # r => req'[s] = req[s]
  BY <1>1
<1>5. Asked' = Asked /\ Told' = Told
  BY <1>2, <1>4 DEF Asked, Told
<1>6. QED
  BY <1>1, <1>2, <1>3, <1>5

\* A refusal keeps the handlers in order and is one of the promise.
LEMMA Refusal ==
  ASSUME UploadInv, NEW r \in Requests, NEW code \in {413, 415, 500, 503},
         Answer(r, code, NoJob), req[r].pc \in InFlight, rows' = rows,
         files' \in [Requests -> {"none", "partial", "full"}], faults' \in 0..MaxFaults
  PROVE  UploadInv' /\ Promise!Refuse(r)
<1>1. req[r].pc \notin {"unborn", "answered", "dropped"}
  BY DEF InFlight, Synchronous
<1>2. req[r].content \in Contents
  BY <1>1 DEF UploadInv, InOrder
<1>3. code \in Codes /\ NoJob \in Requests \cup {NoJob}
  BY DEF Codes
<1>4. /\ \E new \in Request :
            /\ req' = [req EXCEPT ![r] = new]
            /\ new.key = req[r].key /\ new.content = req[r].content /\ new.pc = "answered"
      /\ Asked' = Asked
      /\ Told' = [Told EXCEPT ![r] = [code |-> code, job |-> NoJob]]
      /\ Promise!Open(r)
  BY <1>1, <1>3, AnswerTold
<1>5. UploadInv'
  <2>1. PICK new \in Request :
          /\ req' = [req EXCEPT ![r] = new]
          /\ new.key = req[r].key /\ new.content = req[r].content /\ new.pc = "answered"
    BY <1>4
  <2>2. new.pc # "unborn" /\ new.pc # "committed" /\ new.pc # "conflict"
    BY <2>1
  <2>3. QED
    BY <1>1, <1>2, <2>1, <2>2, OneMoves
<1>6. Promise!Refuse(r)
  <2>1. code \in Promise!Refused
    BY DEF Promise!Refused
  <2>2. Told' = [Told EXCEPT ![r] = [code |-> code, job |-> Promise!NoJob]]
    BY <1>4 DEF Promise!NoJob, NoJob
  <2>3. QED
    BY <1>4, <2>1, <2>2 DEF Promise!Refuse
<1>7. QED
  BY <1>5, <1>6

\* What a handler answers from the row that has its key is accepted, or a
\* conflict, by the promise.
LEMMA RowsTold ==
  ASSUME UploadInv, NEW r \in Requests, AnswerFromRows(r), SameKeyRows(r) # {},
         req[r].pc \in InFlight, rows' = rows,
         files' \in [Requests -> {"none", "partial", "full"}], faults' \in 0..MaxFaults
  PROVE  UploadInv' /\ (Promise!Accept(r) \/ Promise!Conflict(r))
<1>1. req[r].pc \notin {"unborn", "answered", "dropped"} /\ req[r].content \in Contents
  BY DEF UploadInv, InOrder, InFlight, Synchronous
<1>2. rows \subseteq Requests /\ 202 \in Codes /\ 409 \in Codes
  BY DEF UploadInv, TypeOK, Codes
<1>3. \A j \in SameKeyRows(r) : j \in rows /\ j \in Requests /\ Promise!SameKey(r, j)
  BY <1>2 DEF SameKeyRows, Promise!SameKey, Asked, Promise!NoKey, NoKey
<1>4. CASE \E j \in SameKeyRows(r) : SameUpload(r, j) /\ Answer(r, 202, j)
  <2>1. PICK j \in SameKeyRows(r) : SameUpload(r, j) /\ Answer(r, 202, j)
    BY <1>4
  <2>2. j \in Requests \cup {NoJob}
    BY <1>3
  <2>3. /\ \E new \in Request :
              /\ req' = [req EXCEPT ![r] = new]
              /\ new.key = req[r].key /\ new.content = req[r].content /\ new.pc = "answered"
        /\ Asked' = Asked
        /\ Told' = [Told EXCEPT ![r] = [code |-> 202, job |-> j]]
        /\ Promise!Open(r)
    BY <1>1, <1>2, <2>1, <2>2, AnswerTold
  <2>4. UploadInv'
    BY <1>1, <2>3, OneMoves
  <2>5. Promise!Matches(r, j)
    BY <1>3, <2>1 DEF Promise!Matches, SameUpload, Asked
  <2>6. Promise!Accept(r)
    BY <1>3, <2>3, <2>5 DEF Promise!Accept
  <2>7. QED
    BY <2>4, <2>6
<1>5. CASE (\A j \in SameKeyRows(r) : ~SameUpload(r, j)) /\ Answer(r, 409, NoJob)
  <2>1. /\ \E new \in Request :
              /\ req' = [req EXCEPT ![r] = new]
              /\ new.key = req[r].key /\ new.content = req[r].content /\ new.pc = "answered"
        /\ Asked' = Asked
        /\ Told' = [Told EXCEPT ![r] = [code |-> 409, job |-> NoJob]]
        /\ Promise!Open(r)
    BY <1>1, <1>2, <1>5, AnswerTold
  <2>2. UploadInv'
    BY <1>1, <2>1, OneMoves
  <2>3. PICK j \in SameKeyRows(r) : TRUE
    OBVIOUS
  <2>4. Asked[j].content # Asked[r].content
    BY <1>3, <1>5, <2>3 DEF SameUpload, Asked
  <2>5. Promise!Conflict(r)
    BY <1>3, <2>1, <2>3, <2>4 DEF Promise!Conflict, Promise!NoJob, NoJob
  <2>6. QED
    BY <2>2, <2>5
<1>6. QED
  BY <1>4, <1>5 DEF AnswerFromRows

\* The files and the faults keep their types in every step.
LEMMA FilesAndFaults ==
  ASSUME UploadInv, [Next]_vars
  PROVE  files' \in [Requests -> {"none", "partial", "full"}] /\ faults' \in 0..MaxFaults
<1>1. /\ files \in [Requests -> {"none", "partial", "full"}]
      /\ faults \in 0..MaxFaults /\ MaxFaults \in Nat
  BY UploadFaultsAssumption DEF UploadInv, TypeOK
<1>2. Fault => faults' \in 0..MaxFaults
  BY <1>1 DEF Fault
<1>3. ASSUME NEW r \in Requests, Unlink(r)
      PROVE  files' \in [Requests -> {"none", "partial", "full"}]
  BY <1>1, <1>3 DEF Unlink
<1>4. ASSUME NEW r \in Requests, Begin(r)
      PROVE  files' \in [Requests -> {"none", "partial", "full"}] /\ faults' = faults
  BY <1>1, <1>4 DEF Begin
<1>5. ASSUME NEW r \in Requests, Handle(r)
      PROVE  /\ files' \in [Requests -> {"none", "partial", "full"}]
             /\ faults' = faults \/ Fault
  <2>1. CASE SaveFails(r) \/ RejectType(r) \/ Unavailable(r)
    BY <1>1, <1>3, <2>1 DEF SaveFails, RejectType, Unavailable
  <2>2. CASE SaveUpload(r)
    BY <1>1, <2>2 DEF SaveUpload
  <2>3. CASE LookupKey(r) \/ InsertRow(r)
    BY <1>1, <1>3, <2>3 DEF LookupKey, InsertRow
  <2>4. CASE RereadKey(r) \/ Respond(r)
    BY <1>1, <2>4 DEF RereadKey, Respond
  <2>5. QED
    BY <1>5, <2>1, <2>2, <2>3, <2>4 DEF Handle
<1>6. ASSUME NEW p \in Processes, Crash(p)
      PROVE  files' = files /\ Fault
  BY <1>6 DEF Crash
<1>7. CASE UNCHANGED vars
  BY <1>1, <1>7 DEF vars
<1>8. QED
  BY <1>1, <1>2, <1>4, <1>5, <1>6, <1>7 DEF Next

\* A handler that starts is in order, and is a request of the promise.
LEMMA BeginStep ==
  ASSUME UploadInv, NEW r \in Requests, Begin(r),
         files' \in [Requests -> {"none", "partial", "full"}], faults' \in 0..MaxFaults
  PROVE  UploadInv' /\ Promise!Ask(r)
<1>1. PICK p \in Processes, header, form \in KeyTexts, content \in Contents :
        /\ LoopFree(p)
        /\ req' = [req EXCEPT ![r] = Started(p, header, form, content)]
        /\ files' = IF Clash(header, form) THEN files ELSE [files EXCEPT ![r] = "partial"]
  BY Zenon DEF Begin
<1> DEFINE new == Started(p, header, form, content)
<1>2. ResolvedKey(header, form) \in Keys \cup {NoKey}
  BY DEF ResolvedKey, KeyTexts
<1>3. /\ new \in Request /\ new.key \in Keys \cup {NoKey}
      /\ new.content = content /\ new.job = NoJob
      /\ new.pc \in {"answered", "saving"}
      /\ new.pc # "answered" => new.code = 0
      /\ new.code \in {0, 400}
  BY <1>2 DEF Started, Request, Codes, InFlight
<1>4. req' = [req EXCEPT ![r] = new]
  BY <1>1
<1> HIDE DEF new
<1>5. /\ req \in [Requests -> Request] /\ rows' = rows
      /\ req[r].pc = "unborn" /\ req[r] = Unborn
  BY DEF UploadInv, TypeOK, InOrder, Begin
<1>6. UploadInv'
  BY <1>3, <1>4, <1>5, OneMoves
<1>7. req'[r] = new /\ \A s \in Requests : s # r => req'[s] = req[s]
  BY <1>4, <1>5
<1>8. Asked' = [Asked EXCEPT ![r] = [key |-> new.key, content |-> content]]
  BY <1>3, <1>7 DEF Asked
<1>9. Told' = Told \/ Told' = [Told EXCEPT ![r] = [code |-> 400, job |-> NoJob]]
  <2>1. req[r].code = 0 /\ req[r].job = NoJob
    BY <1>5 DEF Unborn
  <2>2. CASE new.code = 0
    BY <1>3, <1>7, <2>1, <2>2 DEF Told
  <2>3. Told' = [Told EXCEPT ![r] = [code |-> new.code, job |-> new.job]]
    BY <1>7 DEF Told
  <2>4. QED
    BY <1>3, <2>2, <2>3
<1>10. Asked[r] = Promise!NotAsked
  <2>1. req[r].key = NoKey /\ req[r].content = NoJob
    BY <1>5 DEF Unborn
  <2>2. QED
    BY <2>1 DEF Asked, Promise!NotAsked, Promise!NoKey, Promise!NoJob, NoKey, NoJob
<1>11. QED
  BY <1>3, <1>5, <1>6, <1>8, <1>9, <1>10 DEF Promise!Ask, Promise!NoKey, Promise!NoJob, NoKey, NoJob

\* A step that answers nothing and writes no row is none of the promise.
LEMMA QuietStep ==
  ASSUME UploadInv, NEW r \in Requests, NEW pc \in Synchronous, Goto(r, pc),
         req[r].pc \in InFlight, rows' = rows, pc # "committed",
         pc = "conflict" => SameKeyRows(r) # {},
         files' \in [Requests -> {"none", "partial", "full"}], faults' \in 0..MaxFaults
  PROVE  UploadInv' /\ UNCHANGED Promise!avars
<1>1. PICK new \in Request :
        /\ req' = [req EXCEPT ![r] = new]
        /\ new.key = req[r].key /\ new.content = req[r].content /\ new.pc = pc
        /\ new.code = 0 /\ new.job = NoJob
  BY GotoTold
<1>2. Asked' = Asked /\ Told' = Told
  BY GotoTold
<1>3. req[r].pc # "unborn" /\ req[r].content \in Contents /\ pc # "unborn"
  BY DEF UploadInv, InOrder, InFlight, Synchronous
<1>4. UploadInv'
  BY <1>1, <1>3, OneMoves
<1>5. QED
  BY <1>2, <1>4 DEF Promise!avars

\* The INSERT records the job, whether or not its COMMIT is heard of, or does
\* nothing the promise sees.
LEMMA InsertStep ==
  ASSUME UploadInv, NEW r \in Requests, InsertRow(r),
         files' \in [Requests -> {"none", "partial", "full"}], faults' \in 0..MaxFaults
  PROVE  /\ UploadInv'
         /\ Promise!Record(r) \/ UNCHANGED Promise!avars
<1>1. /\ req[r].pc = "inserting" /\ req[r].pc \in InFlight /\ req[r].content \in Contents
      /\ req[r].pc \notin {"unborn", "answered", "dropped"}
      /\ rows \subseteq Requests
  BY DEF InsertRow, UploadInv, TypeOK, InOrder, InFlight, Synchronous
<1>2. ASSUME SameKeyRows(r) = {} PROVE \A j \in rows : ~Promise!SameKey(r, j)
  BY <1>1, <1>2 DEF SameKeyRows, Promise!SameKey, Asked, Promise!NoKey, NoKey
<1>3. ASSUME NEW pc \in {"committed", "failing"}, SameKeyRows(r) = {}, rows' = rows \cup {r},
             Goto(r, pc)
      PROVE  UploadInv' /\ Promise!Record(r)
  <2>1. pc \in Synchronous /\ pc # "unborn" /\ pc # "conflict"
    BY DEF Synchronous
  <2>2. PICK new \in Request :
          /\ req' = [req EXCEPT ![r] = new]
          /\ new.key = req[r].key /\ new.content = req[r].content /\ new.pc = pc
          /\ new.code = 0 /\ new.job = NoJob
    BY <1>1, <1>3, <2>1, GotoTold
  <2>3. Asked' = Asked /\ Told' = Told
    BY <1>1, <1>3, <2>1, GotoTold
  <2>4. UploadInv'
    BY <1>1, <1>3, <2>2, OneMoves
  <2>5. Promise!Open(r)
    <3>1. req[r].code = 0 /\ req[r].job = NoJob
      BY <1>1 DEF UploadInv, InOrder
    <3>2. QED
      BY <1>1, <3>1, Distinct DEF Promise!Open, Asked, Told, Promise!NotAsked,
                                  Promise!NoAnswer, Promise!NoJob, NoJob
  <2>6. Promise!Record(r)
    BY <1>2, <1>3, <2>3, <2>5 DEF Promise!Record
  <2>7. QED
    BY <2>4, <2>6
<1>4. CASE SameKeyRows(r) # {} /\ Goto(r, "conflict") /\ rows' = rows
  <2>1. "conflict" \in Synchronous
    BY DEF Synchronous
  <2>2. QED
    BY <1>1, <1>4, <2>1, QuietStep
<1>5. CASE rows' = rows /\ Goto(r, "failing")
  <2>1. "failing" \in Synchronous
    BY DEF Synchronous
  <2>2. QED
    BY <1>1, <1>5, <2>1, QuietStep
<1>6. QED
  BY <1>3, <1>4, <1>5 DEF InsertRow

\* Every other step of a handler.
LEMMA HandleStep ==
  ASSUME UploadInv, NEW r \in Requests, Handle(r),
         files' \in [Requests -> {"none", "partial", "full"}], faults' \in 0..MaxFaults
  PROVE  /\ UploadInv'
         /\ \/ Promise!Record(r) \/ Promise!Accept(r) \/ Promise!Conflict(r)
            \/ Promise!Refuse(r) \/ UNCHANGED Promise!avars
<1>1. req[r].pc \in InFlight
  BY DEF Handle, SaveFails, SaveUpload, RejectType, LookupKey, InsertRow, Unavailable,
         RereadKey, Respond, InFlight, Synchronous
<1>2. req[r].pc \notin {"unborn", "answered", "dropped"} /\ req[r].content \in Contents
  BY <1>1 DEF UploadInv, InOrder, InFlight, Synchronous
<1>3. CASE SaveFails(r)
  <2>1. rows' = rows /\ (Answer(r, 413, NoJob) \/ Answer(r, 500, NoJob))
    BY <1>3 DEF SaveFails
  <2>2. QED
    BY <1>1, <2>1, Refusal
<1>4. CASE SaveUpload(r)
  <2>1. rows' = rows /\ Goto(r, "saved") /\ "saved" \in Synchronous
    BY <1>4 DEF SaveUpload, Synchronous
  <2>2. QED
    BY <1>1, <2>1, QuietStep
<1>5. CASE RejectType(r)
  <2>1. rows' = rows /\ (Answer(r, 415, NoJob) \/ Answer(r, 500, NoJob))
    BY <1>5 DEF RejectType
  <2>2. QED
    BY <1>1, <2>1, Refusal
<1>6. CASE LookupKey(r)
  <2>1. /\ rows' = rows
        /\ \/ Goto(r, "inserting")
           \/ SameKeyRows(r) # {} /\ AnswerFromRows(r)
           \/ Answer(r, 500, NoJob)
    BY <1>6 DEF LookupKey
  <2>2. "inserting" \in Synchronous
    BY DEF Synchronous
  <2>3. CASE Goto(r, "inserting")
    BY <1>1, <2>1, <2>2, <2>3, QuietStep
  <2>4. CASE SameKeyRows(r) # {} /\ AnswerFromRows(r)
    BY <1>1, <2>1, <2>4, RowsTold
  <2>5. CASE Answer(r, 500, NoJob)
    BY <1>1, <2>1, <2>5, Refusal
  <2>6. QED
    BY <2>1, <2>3, <2>4, <2>5
<1>7. CASE InsertRow(r)
  BY <1>7, InsertStep
<1>8. CASE RereadKey(r)
  <2>1. rows' = rows /\ (AnswerFromRows(r) \/ Answer(r, 500, NoJob)) /\ SameKeyRows(r) # {}
    BY <1>8 DEF RereadKey, UploadInv, InOrder
  <2>2. QED
    BY <1>1, <2>1, RowsTold, Refusal
<1>9. CASE Respond(r)
  <2>1. rows' = rows /\ Answer(r, 202, r) /\ r \in rows
    BY <1>9 DEF Respond, UploadInv, InOrder
  <2>2. 202 \in Codes
    BY DEF Codes
  <2>3. /\ \E new \in Request :
              /\ req' = [req EXCEPT ![r] = new]
              /\ new.key = req[r].key /\ new.content = req[r].content /\ new.pc = "answered"
        /\ Asked' = Asked
        /\ Told' = [Told EXCEPT ![r] = [code |-> 202, job |-> r]]
        /\ Promise!Open(r)
    BY <1>2, <2>1, <2>2, AnswerTold
  <2>4. PICK new \in Request :
          /\ req' = [req EXCEPT ![r] = new]
          /\ new.key = req[r].key /\ new.content = req[r].content /\ new.pc = "answered"
    BY <2>3
  <2>5. UploadInv'
    BY <1>2, <2>1, <2>4, OneMoves
  <2>6. Promise!Accept(r)
    BY <2>1, <2>3 DEF Promise!Accept, Promise!Matches
  <2>7. QED
    BY <2>5, <2>6
<1>10. CASE Unavailable(r)
  <2>1. rows' = rows /\ Answer(r, 503, NoJob)
    BY <1>10 DEF Unavailable
  <2>2. QED
    BY <1>1, <2>1, Refusal
<1>11. QED
  BY <1>3, <1>4, <1>5, <1>6, <1>7, <1>8, <1>9, <1>10 DEF Handle

\* A process that dies tells nobody anything.
LEMMA CrashStep ==
  ASSUME UploadInv, NEW p \in Processes, Crash(p),
         files' \in [Requests -> {"none", "partial", "full"}], faults' \in 0..MaxFaults
  PROVE  UploadInv' /\ UNCHANGED Promise!avars
<1>1. /\ req \in [Requests -> Request] /\ rows \subseteq Requests /\ rows' = rows
      /\ \A r \in Requests :
           req'[r] = IF req[r].proc = p /\ req[r].pc \in InFlight
                     THEN [req[r] EXCEPT !.pc = "dropped"] ELSE req[r]
  BY DEF UploadInv, TypeOK, Crash
<1>2. ASSUME NEW r \in Requests
      PROVE  /\ req'[r] \in Request
             /\ req'[r].key = req[r].key /\ req'[r].content = req[r].content
             /\ req'[r].code = req[r].code /\ req'[r].job = req[r].job
             /\ \/ req'[r] = req[r]
                \/ req'[r].pc = "dropped" /\ req[r].pc \in InFlight
  <2>1. req[r] \in Request
    BY <1>1
  <2>2. CASE req[r].proc = p /\ req[r].pc \in InFlight
    BY <1>1, <2>1, <2>2 DEF Request
  <2>3. CASE ~(req[r].proc = p /\ req[r].pc \in InFlight)
    BY <1>1, <2>1, <2>3
  <2>4. QED
    BY <2>2, <2>3
<1>3. TypeOK'
  <2>1. req' \in [Requests -> Request]
    <3>1. req' = [r \in Requests |-> req'[r]]
      BY DEF Crash
    <3>2. QED
      BY <1>2, <3>1
  <2>2. QED
    BY <1>1, <2>1 DEF TypeOK
<1>4. ASSUME NEW r \in Requests PROVE InOrder(r)'
  <2>1. InOrder(r)
    BY DEF UploadInv
  <2>2. SameKeyRows(r)' = SameKeyRows(r)
    BY <1>1, <1>2 DEF SameKeyRows
  <2>3. CASE req'[r] = req[r]
    BY <1>1, <2>1, <2>2, <2>3 DEF InOrder
  <2>4. CASE req'[r].pc = "dropped" /\ req[r].pc \in InFlight
    BY <1>2, <2>1, <2>4 DEF InOrder, InFlight, Synchronous
  <2>5. QED
    BY <1>2, <2>3, <2>4
<1>5. Asked' = Asked /\ Told' = Told
  BY <1>2 DEF Asked, Told
<1>6. QED
  BY <1>1, <1>3, <1>4, <1>5 DEF UploadInv, Promise!avars

\* The initial states, and the steps, of the API are those of the promise.
LEMMA InitKept == Init => UploadInv /\ Promise!AInit
<1> SUFFICES ASSUME Init PROVE UploadInv /\ Promise!AInit
  OBVIOUS
<1>1. Unborn \in Request
  BY DEF Unborn, Request, Codes
<1>2. \A r \in Requests : req[r] = Unborn
  BY DEF Init
<1>3. TypeOK
  BY <1>1, UploadFaultsAssumption DEF Init, TypeOK
<1>4. \A r \in Requests : InOrder(r)
  BY <1>2 DEF Init, InOrder, Unborn
<1>5. Promise!AInit
  BY <1>2 DEF Init, Promise!AInit, Asked, Told, Unborn, Promise!NotAsked, Promise!NoAnswer,
              Promise!NoKey, Promise!NoJob, NoKey, NoJob
<1>6. QED
  BY <1>3, <1>4, <1>5 DEF UploadInv

\* Every step keeps the handlers in order, and is a step of the promise or none.
LEMMA StepKept == UploadInv /\ [Next]_vars => UploadInv' /\ [Promise!ANext]_(Promise!avars)
<1> SUFFICES ASSUME UploadInv, [Next]_vars
             PROVE  UploadInv' /\ [Promise!ANext]_(Promise!avars)
  OBVIOUS
<1>1. files' \in [Requests -> {"none", "partial", "full"}] /\ faults' \in 0..MaxFaults
  BY FilesAndFaults
<1>2. ASSUME NEW r \in Requests, Begin(r)
      PROVE  UploadInv' /\ Promise!ANext
  BY <1>1, <1>2, BeginStep DEF Promise!ANext
<1>3. ASSUME NEW r \in Requests, Handle(r)
      PROVE  UploadInv' /\ [Promise!ANext]_(Promise!avars)
  BY <1>1, <1>3, HandleStep DEF Promise!ANext
<1>4. ASSUME NEW p \in Processes, Crash(p)
      PROVE  UploadInv' /\ UNCHANGED Promise!avars
  BY <1>1, <1>4, CrashStep
<1>5. CASE UNCHANGED vars
  BY <1>5 DEF vars, UploadInv, TypeOK, InOrder, SameKeyRows, Promise!avars, Asked, Told
<1>6. QED
  BY <1>2, <1>3, <1>4, <1>5 DEF Next

\* The state of the API has its type.
THEOREM UploadTypes == Spec => []TypeOK
<1>1. UploadInv => TypeOK
  BY DEF UploadInv
<1>2. QED
  BY <1>1, InitKept, StepKept, PTL DEF Spec

\* POST /documents implements the promise: every behaviour of the handlers, with
\* their races, crashes and lost COMMITs, is one of IdempotentSubmit.
THEOREM UploadKeepsPromise == Spec => KeepsPromise
<1>1. QED
  BY InitKept, StepKept, PTL DEF Spec, KeepsPromise, Promise!ASpec

-----------------------------------------------------------------------------
(* The answers: what is proved of the promise holds of the handlers that   *)
(* keep it.                                                                *)

Proved == INSTANCE IdempotentSubmitProofs WITH asked <- Asked, ledger <- rows, answer <- Told

\* The promise the handlers implement is the one its proofs are about.
LEMMA SamePromise ==
  /\ Promise!AInit => Proved!AInit
  /\ [Promise!ANext]_(Promise!avars) => [Proved!ANext]_(Proved!avars)
<1>1. Promise!AInit => Proved!AInit
  BY DEF Promise!AInit, Proved!AInit, Promise!NotAsked, Proved!NotAsked, Promise!NoAnswer,
         Proved!NoAnswer, Promise!NoKey, Proved!NoKey, Promise!NoJob, Proved!NoJob
<1>2. QED
  BY <1>1 DEF Promise!ANext, Proved!ANext, Promise!avars, Proved!avars,
       Promise!Ask, Promise!Record, Promise!Accept, Promise!Conflict, Promise!Refuse,
       Proved!Ask, Proved!Record, Proved!Accept, Proved!Conflict, Proved!Refuse,
       Promise!Open, Proved!Open, Promise!SameKey, Proved!SameKey,
       Promise!Matches, Proved!Matches, Promise!Refused, Proved!Refused,
       Promise!NotAsked, Proved!NotAsked, Promise!NoAnswer,
       Proved!NoAnswer, Promise!NoKey, Proved!NoKey, Promise!NoJob, Proved!NoJob

\* The promise's ledger and answers agree in every state of the handlers.
LEMMA PromiseHeld == Spec => []Proved!PromiseInv
<1>1. Init => UploadInv /\ Proved!PromiseInv
  BY InitKept, SamePromise, Proved!PromiseInit
<1>2. (UploadInv /\ Proved!PromiseInv) /\ [Next]_vars => (UploadInv /\ Proved!PromiseInv)'
  BY StepKept, SamePromise, Proved!PromiseStep
<1>3. QED
  BY <1>1, <1>2, PTL DEF Spec

\* Two uploads accepted under one key are told one job, whatever handlers of
\* whatever processes answered them.
THEOREM OneKeyOneJob == Spec => []SameKeySameJob
<1>1. TypeOK /\ Proved!PromiseInv => SameKeySameJob
  <2> SUFFICES ASSUME TypeOK, Proved!PromiseInv, NEW r \in Requests, NEW s \in Requests,
                      req[r].code = 202, req[s].code = 202,
                      req[r].key = req[s].key, req[r].key # NoKey
               PROVE  req[r].job = req[s].job /\ req[r].content = req[s].content
    BY DEF SameKeySameJob
  <2>1. Told[r].code = 202 /\ Told[s].code = 202 /\ Proved!SameKey(r, s)
    BY DEF Told, Asked, Proved!SameKey, Proved!NoKey, NoKey
  <2>2. Told[r].job = Told[s].job /\ Asked[r].content = Asked[s].content
    BY <2>1, Proved!PromiseGood DEF Proved!SameKeySameJob
  <2>3. QED
    BY <2>2 DEF Told, Asked
<1>2. QED
  BY <1>1, UploadTypes, PromiseHeld, PTL

\* Every 202 of POST /documents names a job of the table that was made for the
\* same file and tasks.
THEOREM AcceptedJobs == Spec => []AcceptedIsRecorded
<1>1. TypeOK /\ Proved!PromiseInv => AcceptedIsRecorded
  <2> SUFFICES ASSUME TypeOK, Proved!PromiseInv, NEW r \in Requests, req[r].code = 202
               PROVE  req[r].job \in rows /\ req[req[r].job].content = req[r].content
    BY DEF AcceptedIsRecorded
  <2>1. Told[r].code = 202 /\ Told[r].job = req[r].job
    BY DEF Told
  <2>2. req[r].job \in rows /\ Proved!Matches(r, req[r].job)
    BY <2>1 DEF Proved!PromiseInv, Proved!AcceptedMatches
  <2>3. req[r].job \in Requests
    BY <2>2 DEF TypeOK
  <2>4. QED
    BY <2>2, <2>3 DEF Proved!Matches, Asked
<1>2. QED
  BY <1>1, UploadTypes, PromiseHeld, PTL

\* A client that sends the same upload again is never told 409: every row with
\* the key of a 409 is for something else, for the key has one row.
THEOREM ConflictsAreReal == Spec => []ConflictIsReal
<1>1. TypeOK /\ Proved!PromiseInv => ConflictIsReal
  <2> SUFFICES ASSUME TypeOK, Proved!PromiseInv, NEW r \in Requests, req[r].code = 409,
                      NEW j \in SameKeyRows(r)
               PROVE  req[j].content # req[r].content
    BY DEF ConflictIsReal
  <2>1. Told[r].code = 409
    BY DEF Told
  <2>2. PICK i \in rows : Proved!SameKey(r, i) /\ Asked[i].content # Asked[r].content
    BY <2>1 DEF Proved!PromiseInv, Proved!ConflictStands
  <2>3. j \in rows /\ j \in Requests /\ Proved!SameKey(r, j)
    BY DEF SameKeyRows, TypeOK, Proved!SameKey, Asked, Proved!NoKey, NoKey
  <2>4. Proved!SameKey(i, j)
    BY <2>2, <2>3 DEF Proved!SameKey
  <2>5. i = j
    BY <2>2, <2>3, <2>4 DEF Proved!PromiseInv, Proved!KeysUnique
  <2>6. QED
    BY <2>2, <2>3, <2>5 DEF Asked
<1>2. QED
  BY <1>1, UploadTypes, PromiseHeld, PTL

-----------------------------------------------------------------------------
(* The files: what is stored for a request at each point of its handler.   *)

\* An answer changes the state of its own request.
LEMMA AnswerMoves ==
  ASSUME UploadInv, NEW r \in Requests, NEW code, NEW job, Answer(r, code, job)
  PROVE  /\ req'[r].pc = "answered" /\ req'[r].code = code
         /\ req'[r].proc = req[r].proc /\ req'[r].key = req[r].key
         /\ req'[r].content = req[r].content
         /\ \A s \in Requests : s # r => req'[s] = req[s]
<1> DEFINE new == [req[r] EXCEPT !.pc = "answered", !.code = code, !.job = job]
<1>1. req \in [Requests -> Request] /\ req[r] \in Request /\ req' = [req EXCEPT ![r] = new]
  BY DEF UploadInv, TypeOK, Answer
<1>2. /\ new.pc = "answered" /\ new.code = code /\ new.proc = req[r].proc
      /\ new.key = req[r].key /\ new.content = req[r].content
  BY <1>1 DEF Request
<1> HIDE DEF new
<1>3. req'[r] = new /\ \A s \in Requests : s # r => req'[s] = req[s]
  BY <1>1
<1>4. QED
  BY <1>2, <1>3

\* And so does a step to another point of the handler.
LEMMA GotoMoves ==
  ASSUME UploadInv, NEW r \in Requests, NEW pc, Goto(r, pc)
  PROVE  /\ req'[r].pc = pc /\ req'[r].code = req[r].code
         /\ req'[r].proc = req[r].proc /\ req'[r].key = req[r].key
         /\ req'[r].content = req[r].content
         /\ \A s \in Requests : s # r => req'[s] = req[s]
<1> DEFINE new == [req[r] EXCEPT !.pc = pc]
<1>1. req \in [Requests -> Request] /\ req[r] \in Request /\ req' = [req EXCEPT ![r] = new]
  BY DEF UploadInv, TypeOK, Goto
<1>2. /\ new.pc = pc /\ new.code = req[r].code /\ new.proc = req[r].proc
      /\ new.key = req[r].key /\ new.content = req[r].content
  BY <1>1 DEF Request
<1> HIDE DEF new
<1>3. req'[r] = new /\ \A s \in Requests : s # r => req'[s] = req[s]
  BY <1>1
<1>4. QED
  BY <1>2, <1>3

\* The steps of a handler, by what becomes of its request, its file and its row.
Outcome(r) ==
  LET from == req[r].pc
      to == req'[r].pc
  IN  \/ /\ from = "saving" /\ to = "saved" /\ LoopFree(req[r].proc)
         /\ files'[r] = "full" /\ rows' = rows
      \/ /\ from \in {"saving", "saved"} /\ to = "answered" /\ rows' = rows
         /\ files'[r] = "none" \/ req'[r].code = 500
      \/ /\ from = "saved" /\ to = "inserting" /\ SameKeyRows(r) = {}
         /\ files' = files /\ rows' = rows
      \/ from = "inserting" /\ to = "committed" /\ files' = files /\ rows' = rows \cup {r}
      \/ from = "inserting" /\ to = "conflict" /\ files'[r] = "none" /\ rows' = rows
      \/ /\ from = "inserting" /\ to = "failing" /\ files' = files
         /\ rows' = rows \/ (LostAcks /\ rows' = rows \cup {r})
      \/ /\ from = "failing" /\ to = "answered" /\ files'[r] = "none"
         /\ req'[r].code = 503 /\ rows' = rows
      \/ from \in {"conflict", "committed"} /\ to = "answered" /\ files' = files /\ rows' = rows

\* A step of a handler has one of these outcomes, keeps what the request was and
\* where it runs, and touches no other request, file or row.
LEMMA HandlerOutcome ==
  ASSUME UploadInv, NEW r \in Requests, Handle(r)
  PROVE  /\ Outcome(r)
         /\ req'[r].proc = req[r].proc /\ req'[r].key = req[r].key
         /\ \A s \in Requests : s # r => req'[s] = req[s] /\ files'[s] = files[s]
         /\ rows \subseteq rows' /\ rows' \subseteq rows \cup {r}
<1>1. files \in [Requests -> {"none", "partial", "full"}]
  BY DEF UploadInv, TypeOK
<1>2. Unlink(r) => files'[r] = "none" /\ \A s \in Requests : s # r => files'[s] = files[s]
  BY <1>1 DEF Unlink
<1>3. CASE SaveFails(r)
  <2>1. /\ req[r].pc = "saving" /\ rows' = rows /\ Unlink(r)
        /\ Answer(r, 413, NoJob) \/ Answer(r, 500, NoJob)
    BY <1>3 DEF SaveFails
  <2>2. QED
    BY <1>2, <2>1, AnswerMoves DEF Outcome
<1>4. CASE SaveUpload(r)
  <2>1. /\ req[r].pc = "saving" /\ LoopFree(req[r].proc) /\ rows' = rows
        /\ files' = [files EXCEPT ![r] = "full"] /\ Goto(r, "saved")
    BY <1>4 DEF SaveUpload
  <2>2. files'[r] = "full" /\ \A s \in Requests : s # r => files'[s] = files[s]
    BY <1>1, <2>1
  <2>3. QED
    BY <2>1, <2>2, GotoMoves DEF Outcome
<1>5. CASE RejectType(r)
  <2>1. /\ req[r].pc = "saved" /\ rows' = rows
        /\ \/ Unlink(r) /\ Answer(r, 415, NoJob)
           \/ files' = files /\ Answer(r, 500, NoJob)
    BY <1>5 DEF RejectType
  <2>2. QED
    BY <1>2, <2>1, AnswerMoves DEF Outcome
<1>6. CASE LookupKey(r)
  <2>1. req[r].pc = "saved" /\ rows' = rows
    BY <1>6 DEF LookupKey
  <2>2. CASE SameKeyRows(r) = {} /\ Goto(r, "inserting") /\ files' = files
    BY <2>1, <2>2, GotoMoves DEF Outcome
  <2>3. CASE AnswerFromRows(r) /\ Unlink(r)
    <3>1. \E code, job : Answer(r, code, job)
      BY <2>3 DEF AnswerFromRows
    <3>2. QED
      BY <1>2, <2>1, <2>3, <3>1, AnswerMoves DEF Outcome
  <2>4. CASE Answer(r, 500, NoJob) /\ files' = files
    BY <2>1, <2>4, AnswerMoves DEF Outcome
  <2>5. QED
    BY <1>6, <2>2, <2>3, <2>4 DEF LookupKey
<1>7. CASE InsertRow(r)
  <2>1. req[r].pc = "inserting"
    BY <1>7 DEF InsertRow
  <2>2. CASE rows' = rows \cup {r} /\ Goto(r, "committed") /\ files' = files
    BY <2>1, <2>2, GotoMoves DEF Outcome
  <2>3. CASE Goto(r, "conflict") /\ Unlink(r) /\ rows' = rows
    BY <1>2, <2>1, <2>3, GotoMoves DEF Outcome
  <2>4. CASE /\ rows' = rows \/ (LostAcks /\ rows' = rows \cup {r})
             /\ files' = files /\ Goto(r, "failing")
    BY <2>1, <2>4, GotoMoves DEF Outcome
  <2>5. QED
    BY <1>7, <2>2, <2>3, <2>4 DEF InsertRow
<1>8. CASE RereadKey(r)
  <2>1. req[r].pc = "conflict" /\ rows' = rows /\ files' = files
    BY <1>8 DEF RereadKey
  <2>2. \E code, job : Answer(r, code, job)
    BY <1>8 DEF RereadKey, AnswerFromRows
  <2>3. QED
    BY <2>1, <2>2, AnswerMoves DEF Outcome
<1>9. CASE Respond(r)
  <2>1. req[r].pc = "committed" /\ rows' = rows /\ files' = files /\ Answer(r, 202, r)
    BY <1>9 DEF Respond
  <2>2. QED
    BY <2>1, AnswerMoves DEF Outcome
<1>10. CASE Unavailable(r)
  <2>1. req[r].pc = "failing" /\ rows' = rows /\ Unlink(r) /\ Answer(r, 503, NoJob)
    BY <1>10 DEF Unavailable
  <2>2. QED
    BY <1>2, <2>1, AnswerMoves DEF Outcome
<1>11. QED
  BY <1>3, <1>4, <1>5, <1>6, <1>7, <1>8, <1>9, <1>10 DEF Handle

\* What a request that begins, and a process that dies, leave behind.
LEMMA BeginOutcome ==
  ASSUME UploadInv, NEW r \in Requests, Begin(r)
  PROVE  /\ req[r].pc = "unborn" /\ rows' = rows /\ r \notin rows
         /\ \/ req'[r].pc = "saving"
            \/ req'[r].pc = "answered" /\ files' = files
         /\ \A s \in Requests : s # r => req'[s] = req[s] /\ files'[s] = files[s]
<1>1. PICK p \in Processes, header, form \in KeyTexts, content \in Contents :
        /\ LoopFree(p)
        /\ req' = [req EXCEPT ![r] = Started(p, header, form, content)]
        /\ files' = IF Clash(header, form) THEN files ELSE [files EXCEPT ![r] = "partial"]
  BY Zenon DEF Begin
<1>2. req[r].pc = "unborn" /\ rows' = rows /\ r \notin rows
  BY DEF Begin, UploadInv, InOrder
<1>3. req \in [Requests -> Request] /\ files \in [Requests -> {"none", "partial", "full"}]
  BY DEF UploadInv, TypeOK
<1>4. \A s \in Requests : s # r => req'[s] = req[s] /\ files'[s] = files[s]
  BY <1>1, <1>3
<1>5. req'[r].pc = "saving" \/ (req'[r].pc = "answered" /\ files' = files)
  BY <1>1, <1>3 DEF Started
<1>6. QED
  BY <1>2, <1>4, <1>5

LEMMA CrashOutcome ==
  ASSUME UploadInv, NEW p \in Processes, Crash(p)
  PROVE  /\ files' = files /\ rows' = rows
         /\ \A s \in Requests :
              /\ req'[s].key = req[s].key /\ req'[s].proc = req[s].proc
              /\ req'[s] = req[s] \/ (req'[s].pc = "dropped" /\ req'[s].code = req[s].code
                                       /\ req[s].pc \in InFlight)
<1>1. files' = files /\ rows' = rows
  BY DEF Crash
<1>2. ASSUME NEW s \in Requests
      PROVE  req'[s] = IF req[s].proc = p /\ req[s].pc \in InFlight
                       THEN [req[s] EXCEPT !.pc = "dropped"] ELSE req[s]
  BY DEF Crash
<1>3. ASSUME NEW s \in Requests PROVE req[s] \in Request
  BY DEF UploadInv, TypeOK
<1>4. QED
  BY <1>1, <1>2, <1>3 DEF Request

\* A request that no step touches stays as it is stored.
LEMMA UntouchedFile ==
  ASSUME NEW r \in Requests, Stored(r), req'[r] = req[r], files'[r] = files[r],
         r \in rows' <=> r \in rows
  PROVE  Stored(r)'
  BY DEF Stored

\* The file, the row and the point of the handler stay in step.
LEMMA FileStep == FileInv /\ [Next]_vars => FileInv'
<1> SUFFICES ASSUME FileInv, [Next]_vars PROVE FileInv'
  OBVIOUS
<1>1. UploadInv /\ UploadInv'
  BY StepKept DEF FileInv
<1>2. rows \subseteq Requests
  BY <1>1 DEF UploadInv, TypeOK
<1> DEFINE Good(r) == /\ Stored(r)
                      /\ r \in rows => files[r] = "full" \/ (LostAcks /\ req[r].code = 503)
                      /\ req[r].pc = "answered" /\ r \notin rows /\ files[r] # "none"
                           => req[r].code = 500
<1>3. \A r \in Requests : Good(r)
  BY <1>2 DEF FileInv, RowHasFile, OrphansOnlyFromErrors
<1>4. ASSUME NEW r \in Requests, req'[r] = req[r], files'[r] = files[r],
             r \in rows' <=> r \in rows
      PROVE  Good(r)'
  <2>1. Stored(r)'
    BY <1>3, <1>4, UntouchedFile
  <2>2. QED
    BY <1>3, <1>4, <2>1
<1>5. ASSUME NEW r \in Requests, Begin(r) PROVE \A s \in Requests : Good(s)'
  <2>1. /\ req[r].pc = "unborn" /\ rows' = rows /\ r \notin rows
        /\ \/ req'[r].pc = "saving"
           \/ req'[r].pc = "answered" /\ files' = files
        /\ \A s \in Requests : s # r => req'[s] = req[s] /\ files'[s] = files[s]
    BY <1>1, <1>5, BeginOutcome
  <2>2. files[r] = "none"
    BY <1>3, <2>1 DEF Stored
  <2>3. Good(r)'
    BY <2>1, <2>2 DEF Stored
  <2>4. QED
    BY <1>4, <2>1, <2>3
<1>6. ASSUME NEW r \in Requests, Handle(r) PROVE \A s \in Requests : Good(s)'
  <2>1. /\ Outcome(r)
        /\ \A s \in Requests : s # r => req'[s] = req[s] /\ files'[s] = files[s]
        /\ rows \subseteq rows' /\ rows' \subseteq rows \cup {r}
    BY <1>1, <1>6, HandlerOutcome
  <2>2. /\ req[r].pc \in {"saving", "saved", "inserting", "conflict"} => r \notin rows
        /\ req[r].pc \in {"saved", "inserting", "failing", "committed"} => files[r] = "full"
        /\ req[r].pc = "conflict" => files[r] = "none"
        /\ req[r].pc = "committed" => r \in rows
        /\ req[r].pc = "failing" /\ r \in rows => LostAcks
    BY <1>1, <1>3 DEF Stored, UploadInv, InOrder
  <2>3. Good(r)'
    BY <2>1, <2>2 DEF Outcome, Stored
  <2>4. QED
    BY <1>4, <2>1, <2>3
<1>7. ASSUME NEW p \in Processes, Crash(p) PROVE \A s \in Requests : Good(s)'
  <2>1. /\ files' = files /\ rows' = rows
        /\ \A s \in Requests :
              req'[s] = req[s] \/ (req'[s].pc = "dropped" /\ req'[s].code = req[s].code)
    BY <1>1, <1>7, CrashOutcome
  <2>2. ASSUME NEW s \in Requests, req'[s].pc = "dropped", req'[s].code = req[s].code
        PROVE  Good(s)'
    BY <1>3, <2>1, <2>2 DEF Stored
  <2>3. QED
    BY <1>4, <2>1, <2>2
<1>8. ASSUME UNCHANGED vars PROVE \A s \in Requests : Good(s)'
  <2>1. req' = req /\ files' = files /\ rows' = rows
    BY <1>8 DEF vars
  <2>2. QED
    BY <1>4, <2>1
<1>9. \A r \in Requests : Good(r)'
  <2> HIDE DEF Good
  <2>1. QED
    BY <1>5, <1>6, <1>7, <1>8 DEF Next
<1>10. rows' \subseteq Requests
  BY <1>1 DEF UploadInv, TypeOK
<1>11. QED
  BY <1>1, <1>9, <1>10 DEF FileInv, RowHasFile, OrphansOnlyFromErrors

LEMMA FileInit == Init => FileInv
<1> SUFFICES ASSUME Init PROVE FileInv
  OBVIOUS
<1>1. \A r \in Requests : req[r] = Unborn /\ files[r] = "none" /\ r \notin rows
  BY DEF Init
<1>2. QED
  BY <1>1, InitKept DEF FileInv, Stored, RowHasFile, OrphansOnlyFromErrors, Unborn, Init

LEMMA FileInvAlways == Spec => []FileInv
<1>1. QED
  BY FileInit, FileStep, PTL DEF Spec

\* A job never stands in the queue without its file, at no point of any handler
\* of POST /documents and whichever process dies, but for the row of a COMMIT
\* whose loss was reported.
THEOREM QueuedWithFile == Spec => []RowHasFile
<1>1. FileInv => RowHasFile
  BY DEF FileInv
<1>2. QED
  BY <1>1, FileInvAlways, PTL

\* A request that is answered without a job leaves no file in the volume, unless
\* the answer is an unexpected 500: every except branch unlinks it.
THEOREM FilesRemoved == Spec => []OrphansOnlyFromErrors
<1>1. FileInv => OrphansOnlyFromErrors
  BY DEF FileInv
<1>2. QED
  BY <1>1, FileInvAlways, PTL

-----------------------------------------------------------------------------
(* The event loop: from the end of save_upload on, a handler is not         *)
(* interrupted by one of its own process.                                  *)

\* Two requests whose points of the handler and process are what they were share
\* the event loop as they did, and one that leaves the loop gives it free.
LEMMA LoopStep == LoopInv /\ [Next]_vars => LoopInv'
<1> SUFFICES ASSUME LoopInv, [Next]_vars PROVE LoopInv'
  OBVIOUS
<1>1. UploadInv /\ UploadInv'
  BY StepKept DEF LoopInv
<1>2. rows \subseteq Requests /\ \A s \in rows : s \in Requests /\ req[s].pc # "unborn"
  BY <1>1 DEF UploadInv, TypeOK, InOrder
<1>3. ASSUME NEW r \in Requests, Begin(r) PROVE LoopShared' /\ \A s \in Requests : KeyFreeHere(s)'
  <2>1. /\ req[r].pc = "unborn" /\ rows' = rows
        /\ req'[r].pc \in {"saving", "answered"}
        /\ \A s \in Requests : s # r => req'[s] = req[s]
    BY <1>1, <1>3, BeginOutcome
  <2>2. LoopShared'
    BY <2>1 DEF LoopInv, LoopShared, Synchronous
  <2>3. ASSUME NEW s \in Requests, s # r PROVE SameKeyRows(s)' = SameKeyRows(s)
    BY <1>2, <2>1, <2>3 DEF SameKeyRows
  <2>4. ASSUME NEW s \in Requests PROVE KeyFreeHere(s)'
    BY <1>2, <2>1, <2>3 DEF LoopInv, KeyFreeHere, SameKeyRows
  <2>5. QED
    BY <2>2, <2>4
<1>4. ASSUME NEW r \in Requests, Handle(r) PROVE LoopShared' /\ \A s \in Requests : KeyFreeHere(s)'
  <2>1. /\ Outcome(r)
        /\ req'[r].proc = req[r].proc /\ req'[r].key = req[r].key
        /\ \A s \in Requests : s # r => req'[s] = req[s]
        /\ rows \subseteq rows' /\ rows' \subseteq rows \cup {r}
    BY <1>1, <1>4, HandlerOutcome
  <2>2. \/ req[r].pc \in Synchronous
        \/ LoopFree(req[r].proc)
        \/ req'[r].pc \notin Synchronous
    BY <2>1 DEF Outcome, Synchronous
  <2>3. LoopShared'
    BY <2>1, <2>2 DEF LoopInv, LoopShared, LoopFree
  <2>4. ASSUME NEW s \in Requests
        PROVE  \A j \in SameKeyRows(s)' : j \in SameKeyRows(s) \/ j = r
    BY <1>2, <2>1 DEF SameKeyRows
  <2>5. ASSUME NEW s \in Requests, s # r PROVE KeyFreeHere(s)'
    <3>1. r \in rows' => r \in rows \/ req[r].pc = "inserting"
      BY <2>1 DEF Outcome
    <3>2. r \in rows' /\ r \notin rows /\ req[s].pc \in {"inserting", "conflict"}
            => req[r].proc # req[s].proc
      BY <2>5, <3>1 DEF LoopInv, LoopShared, Synchronous
    <3>3. r \in rows /\ r \in SameKeyRows(s)' => r \in SameKeyRows(s)
      BY <2>1, <2>5 DEF SameKeyRows
    <3>4. QED
      BY <1>2, <2>1, <2>4, <2>5, <3>2, <3>3 DEF LoopInv, KeyFreeHere, SameKeyRows
  <2>6. KeyFreeHere(r)'
    <3>1. CASE req'[r].pc \notin {"inserting", "conflict"}
      BY <3>1 DEF KeyFreeHere
    <3>2. CASE req'[r].pc \in {"inserting", "conflict"}
      <4>1. /\ rows' = rows
            /\ req[r].pc = "inserting" \/ SameKeyRows(r) = {}
        BY <2>1, <3>2 DEF Outcome
      <4>2. SameKeyRows(r)' = SameKeyRows(r)
        BY <1>2, <2>1, <4>1 DEF SameKeyRows
      <4>3. \A j \in SameKeyRows(r) : req[j].proc # req[r].proc
        BY <4>1 DEF LoopInv, KeyFreeHere
      <4>4. QED
        BY <1>2, <2>1, <4>2, <4>3 DEF KeyFreeHere, SameKeyRows
    <3>3. QED
      BY <3>1, <3>2
  <2>7. QED
    BY <2>3, <2>5, <2>6
<1>5. ASSUME NEW p \in Processes, Crash(p) PROVE LoopShared' /\ \A s \in Requests : KeyFreeHere(s)'
  <2>1. /\ rows' = rows
        /\ \A s \in Requests :
              /\ req'[s].key = req[s].key /\ req'[s].proc = req[s].proc
              /\ req'[s].pc = req[s].pc \/ req'[s].pc = "dropped"
    BY <1>1, <1>5, CrashOutcome
  <2>2. LoopShared'
    BY <2>1 DEF LoopInv, LoopShared, Synchronous
  <2>3. \A s \in Requests : SameKeyRows(s)' = SameKeyRows(s)
    BY <1>2, <2>1 DEF SameKeyRows
  <2>4. \A s \in Requests : KeyFreeHere(s)'
    BY <1>2, <2>1, <2>3 DEF LoopInv, KeyFreeHere, SameKeyRows
  <2>5. QED
    BY <2>2, <2>4
<1>6. ASSUME UNCHANGED vars PROVE LoopShared' /\ \A s \in Requests : KeyFreeHere(s)'
  <2>1. req' = req /\ rows' = rows
    BY <1>6 DEF vars
  <2>2. \A s \in Requests : SameKeyRows(s)' = SameKeyRows(s)
    BY <2>1 DEF SameKeyRows
  <2>3. QED
    BY <2>1, <2>2 DEF LoopInv, LoopShared, KeyFreeHere
<1>7. QED
  BY <1>1, <1>3, <1>4, <1>5, <1>6 DEF Next, LoopInv

\* The lookup ahead of the INSERT decides within one event loop: a handler that
\* loses a race for its key lost it to another process.
THEOREM RacesCrossProcesses == Spec => []LookupDecides
<1>1. Init => LoopInv
  <2> SUFFICES ASSUME Init PROVE LoopInv
    OBVIOUS
  <2>1. \A r \in Requests : req[r].pc = "unborn"
    BY DEF Init, Unborn
  <2>2. QED
    BY <2>1, InitKept DEF LoopInv, LoopShared, KeyFreeHere, Synchronous
<1>2. LoopInv => LookupDecides
  BY DEF LoopInv, KeyFreeHere, LookupDecides
<1>3. QED
  BY <1>1, <1>2, LoopStep, PTL DEF Spec
=============================================================================
