----------------------- MODULE IdempotentSubmitProofs -----------------------
(***************************************************************************)
(* The promise of POST /documents keeps two uploads with one key together, *)
(* for any requests, keys and contents.                                    *)
(***************************************************************************)
EXTENDS IdempotentSubmit, TLAPS

\* The three variables are functions of the requests.
Shape == /\ asked = [r \in Requests |-> asked[r]]
         /\ ledger \subseteq Requests
         /\ answer = [r \in Requests |-> answer[r]]

\* A key has one job.
KeysUnique == \A r, j \in ledger : SameKey(r, j) => r = j

\* What is recorded or accepted has been asked for, once and for all.
Settled == \A r \in Requests : r \in ledger \/ answer[r].code = 202 => asked[r] # NotAsked

\* A 202 tells the job of the ledger that matches.
AcceptedMatches ==
  \A r \in Requests : answer[r].code = 202 =>
    answer[r].job \in ledger /\ Matches(r, answer[r].job)

\* A 409 was sent because the key stands for something else.
ConflictStands ==
  \A r \in Requests : answer[r].code = 409 =>
    asked[r] # NotAsked /\ \E j \in ledger : SameKey(r, j) /\ asked[j].content # asked[r].content

PromiseInv == Shape /\ KeysUnique /\ Settled /\ AcceptedMatches /\ ConflictStands

\* The ledger and the answers agree as long as their owners' questions stay the
\* same: no later step of POST /documents undoes what a 202 has said.
LEMMA PromiseStep == PromiseInv /\ [ANext]_avars => PromiseInv'
<1> SUFFICES ASSUME PromiseInv, [ANext]_avars PROVE PromiseInv'
  OBVIOUS
<1> USE DEF PromiseInv
<1>1. ASSUME NEW r \in Requests, Ask(r) PROVE PromiseInv'
  <2>1. PICK q : asked' = [asked EXCEPT ![r] = q]
    BY <1>1 DEF Ask
  <2>2. /\ asked[r] = NotAsked /\ ledger' = ledger /\ r \notin ledger
        /\ answer[r].code \notin {202, 409}
    BY <1>1 DEF Ask, Settled, ConflictStands
  <2>3. \A s \in Requests : answer'[s] = answer[s] \/ (s = r /\ answer'[s].code = 400)
    BY <1>1 DEF Ask, Shape
  <2>4. \A s \in Requests : s # r => asked'[s] = asked[s]
    BY <2>1 DEF Shape
  <2>5. Shape'
    BY <1>1, <2>1 DEF Shape, Ask
  <2>6. KeysUnique'
    BY <2>2, <2>4 DEF KeysUnique, SameKey, Shape
  <2>7. \A s \in Requests : answer'[s].code \in {202, 409} => s # r /\ answer'[s] = answer[s]
    BY <2>2, <2>3
  <2>8. Settled'
    BY <2>2, <2>4, <2>7 DEF Settled
  <2>9. AcceptedMatches'
    BY <2>2, <2>4, <2>7 DEF AcceptedMatches, Matches, SameKey, Shape
  <2>10. ConflictStands'
    BY <2>2, <2>4, <2>7 DEF ConflictStands, SameKey, Shape
  <2>11. QED
    BY <2>5, <2>6, <2>8, <2>9, <2>10
<1>2. ASSUME NEW r \in Requests, Record(r) PROVE PromiseInv'
  <2>1. /\ asked' = asked /\ ledger' = ledger \cup {r} /\ asked[r] # NotAsked
        /\ \A j \in ledger : ~SameKey(r, j)
    BY <1>2 DEF Record, Open
  <2>2. \A s \in Requests : answer'[s].code \in {202, 409} => answer'[s] = answer[s]
    BY <1>2 DEF Record, Shape
  <2>3. Shape'
    BY <1>2, <2>1 DEF Shape, Record
  <2>4. KeysUnique'
    BY <2>1 DEF KeysUnique, SameKey
  <2>5. Settled'
    BY <2>1, <2>2 DEF Settled
  <2>6. AcceptedMatches'
    BY <2>1, <2>2 DEF AcceptedMatches, Matches, SameKey
  <2>7. ConflictStands'
    BY <2>1, <2>2 DEF ConflictStands, SameKey
  <2>8. QED
    BY <2>3, <2>4, <2>5, <2>6, <2>7
<1>3. ASSUME NEW r \in Requests, Accept(r) PROVE PromiseInv'
  <2>1. PICK j \in ledger : /\ Matches(r, j)
                            /\ answer' = [answer EXCEPT ![r] = [code |-> 202, job |-> j]]
    BY <1>3 DEF Accept
  <2>2. asked' = asked /\ ledger' = ledger /\ asked[r] # NotAsked
    BY <1>3 DEF Accept, Open
  <2>3. Shape'
    BY <2>1, <2>2 DEF Shape
  <2>4. KeysUnique' /\ Settled'
    BY <2>1, <2>2 DEF KeysUnique, Settled, SameKey, Shape
  <2>5. AcceptedMatches'
    BY <2>1, <2>2 DEF AcceptedMatches, Matches, SameKey, Shape
  <2>6. ConflictStands'
    BY <2>1, <2>2 DEF ConflictStands, SameKey, Shape
  <2>7. QED
    BY <2>3, <2>4, <2>5, <2>6
<1>4. ASSUME NEW r \in Requests, Conflict(r) \/ Refuse(r) PROVE PromiseInv'
  <2>1. /\ asked' = asked /\ ledger' = ledger
        /\ \E code \in Refused \cup {409} :
             answer' = [answer EXCEPT ![r] = [code |-> code, job |-> NoJob]]
    BY <1>4 DEF Conflict, Refuse
  <2>2. \A s \in Requests : answer'[s].code = 202 => answer'[s] = answer[s]
    BY <2>1 DEF Shape, Refused
  <2>3. Shape'
    BY <2>1 DEF Shape
  <2>4. KeysUnique' /\ Settled' /\ AcceptedMatches'
    BY <2>1, <2>2 DEF KeysUnique, Settled, AcceptedMatches, Matches, SameKey
  <2>5. /\ asked[r] # NotAsked
        /\ answer'[r].code = 409 =>
             \E j \in ledger : SameKey(r, j) /\ asked[j].content # asked[r].content
    BY <1>4 DEF Conflict, Refuse, Refused, Open, Shape
  <2>6. \A s \in Requests : s # r => answer'[s] = answer[s]
    BY <2>1 DEF Shape
  <2>7. ConflictStands'
    BY <2>1, <2>5, <2>6 DEF ConflictStands, SameKey
  <2>8. QED
    BY <2>3, <2>4, <2>7
<1>5. CASE UNCHANGED avars
  <2>1. asked' = asked /\ ledger' = ledger /\ answer' = answer
    BY <1>5 DEF avars
  <2>2. Shape' /\ Settled'
    BY <2>1 DEF Shape, Settled
  <2>3. KeysUnique' /\ AcceptedMatches' /\ ConflictStands'
    BY <2>1 DEF KeysUnique, AcceptedMatches, ConflictStands, Matches, SameKey
  <2>4. QED
    BY <2>2, <2>3
<1>6. QED
  BY <1>1, <1>2, <1>3, <1>4, <1>5 DEF ANext

\* Nothing has been asked.
LEMMA PromiseInit == AInit => PromiseInv
  BY DEF AInit, PromiseInv, Shape, KeysUnique, Settled, AcceptedMatches, ConflictStands, NoAnswer

\* What the answers and the ledger have in common keeps the answers together.
LEMMA PromiseGood == PromiseInv => SameKeySameJob
<1> SUFFICES ASSUME PromiseInv, NEW r \in Requests, NEW s \in Requests,
                    answer[r].code = 202, answer[s].code = 202, SameKey(r, s)
             PROVE  answer[r].job = answer[s].job /\ asked[r].content = asked[s].content
  BY DEF SameKeySameJob
<1>1. /\ answer[r].job \in ledger /\ Matches(r, answer[r].job)
      /\ answer[s].job \in ledger /\ Matches(s, answer[s].job)
  BY DEF PromiseInv, AcceptedMatches
<1>2. SameKey(answer[r].job, answer[s].job)
  BY <1>1 DEF Matches, SameKey
<1>3. QED
  BY <1>1, <1>2 DEF PromiseInv, KeysUnique, Matches

\* Uploads accepted under one key are told one job, for one content, in every
\* behaviour the promise of POST /documents allows.
THEOREM PromiseIsIdempotent == ASpec => []SameKeySameJob
<1>1. QED
  BY PromiseInit, PromiseStep, PromiseGood, PTL DEF ASpec
=============================================================================
