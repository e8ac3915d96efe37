------------------------ MODULE AnnotationRunProofs -------------------------
(***************************************************************************)
(* What a call of Annotator.annotate makes of the model's citations, and   *)
(* how late it can be, for any document, any answer, and any number of     *)
(* calls, tries and ticks.                                                 *)
(***************************************************************************)
EXTENDS AnnotationRun, FiniteSetTheorems, TLAPS

-----------------------------------------------------------------------------
(* One citation: repair_citations and verify_citation. *)

\* A set of numbers that is not empty has a least member.
LEMMA LeastNumber ==
  ASSUME NEW S, S \subseteq Nat, S # {}
  PROVE  \E x \in S : \A y \in S : x <= y
<1>1. IsWellFoundedOn(OpToRel(<, Nat), Nat)
  BY NatLessThanWellFounded
<1>2. PICK x \in S : \A y \in S : ~(<<y, x>> \in OpToRel(<, Nat))
  BY <1>1, WFMin
<1>3. ASSUME NEW y \in S PROVE ~(y < x)
  BY <1>2 DEF OpToRel
<1>4. QED
  BY <1>3

\* Every set of positions can be put in increasing order: the first m of them
\* can, for each m, the next one taken last.
LEMMA AscendingOf ==
  ASSUME NEW n \in Nat, NEW S, S \subseteq 1..n
  PROVE  /\ Cardinality(S) \in Nat
         /\ Ascending(S) \in [1..Cardinality(S) -> S]
         /\ \A i, j \in 1..Cardinality(S) : i < j => Ascending(S)[i] < Ascending(S)[j]
<1> DEFINE Good(T) == \E s \in [1..Cardinality(T) -> T] : \A i, j \in DOMAIN s : i < j => s[i] < s[j]
           Upto(m) == S \cap 1..m
           Bad == {m \in 0..n : ~Good(Upto(m))}
<1>1. ASSUME NEW m \in 0..n PROVE IsFiniteSet(Upto(m)) /\ Cardinality(Upto(m)) \in Nat
  <2>1. IsFiniteSet(1..m)
    BY FS_Interval
  <2>2. IsFiniteSet(Upto(m))
    BY <2>1, FS_Subset
  <2>3. QED
    BY <2>2, FS_CardinalityType
<1>2. Good(Upto(0))
  <2>1. Upto(0) = {}
    OBVIOUS
  <2>2. Cardinality(Upto(0)) = 0
    BY <2>1, FS_EmptySet
  <2> DEFINE s == [i \in 1..0 |-> i]
  <2>3. s \in [1..Cardinality(Upto(0)) -> Upto(0)] /\ DOMAIN s = 1..0
    BY <2>2
  <2> HIDE DEF s, Upto
  <2>4. \A i, j \in DOMAIN s : i < j => s[i] < s[j]
    BY <2>3
  <2>5. QED
    BY <2>3, <2>4
<1>3. ASSUME NEW m \in 0..n, m # 0, Good(Upto(m - 1)) PROVE Good(Upto(m))
  <2>1. m - 1 \in 0..n /\ Upto(m - 1) \subseteq 1..(m - 1)
    BY <1>3
  <2>2. CASE m \notin S
    <3>1. Upto(m) = Upto(m - 1)
      BY <2>2
    <3>2. QED
      BY <1>3, <3>1
  <2>3. CASE m \in S
    <3> DEFINE c == Cardinality(Upto(m - 1))
    <3>1. /\ Upto(m) = Upto(m - 1) \cup {m} /\ m \notin Upto(m - 1)
      BY <2>3
    <3>2. c \in Nat /\ Cardinality(Upto(m)) = c + 1
      BY <1>1, <2>1, <3>1, FS_AddElement
    <3>3. PICK s \in [1..c -> Upto(m - 1)] : \A i, j \in DOMAIN s : i < j => s[i] < s[j]
      BY <1>3
    <3> HIDE DEF c
    <3> DEFINE t == [i \in 1..(c + 1) |-> IF i = c + 1 THEN m ELSE s[i]]
    <3>4. t \in [1..(c + 1) -> Upto(m)]
      BY <2>3, <3>1, <3>2, <3>3
    <3>5. ASSUME NEW i \in 1..(c + 1), NEW j \in 1..(c + 1), i < j PROVE t[i] < t[j]
      <4>1. i \in 1..c /\ s[i] \in 1..(m - 1) /\ t[i] = s[i]
        BY <2>1, <3>2, <3>3, <3>5
      <4>2. CASE j = c + 1
        BY <4>1, <4>2
      <4>3. CASE j \in 1..c
        BY <3>2, <3>3, <3>5, <4>1, <4>3
      <4>4. QED
        BY <3>2, <4>2, <4>3
    <3>6. QED
      BY <3>2, <3>4, <3>5
  <2>4. QED
    BY <2>2, <2>3
<1> HIDE DEF Good, Upto
<1>4. Bad = {}
  <2> SUFFICES ASSUME Bad # {} PROVE FALSE
    OBVIOUS
  <2> HIDE DEF Bad
  <2>1. PICK m \in Bad : \A k \in Bad : m <= k
    <3>1. Bad \subseteq Nat
      BY DEF Bad
    <3>2. QED
      BY <3>1, LeastNumber
  <2> USE DEF Bad
  <2>2. m \in 0..n /\ ~Good(Upto(m)) /\ m # 0
    BY <1>2
  <2>3. m - 1 \in 0..n /\ m - 1 \notin Bad
    BY <2>1, <2>2
  <2>4. QED
    BY <1>3, <2>2, <2>3
<1>5. Upto(n) = S
  BY DEF Upto
<1>6. Good(S) /\ Cardinality(S) \in Nat
  BY <1>1, <1>4, <1>5
<1>7. QED
  BY <1>6 DEF Good, Ascending

\* Repairing an answer leaves citations, whatever the model has put among them.
LEMMA RepairedType ==
  ASSUME NEW raw \in Answers
  PROVE  Repaired(raw) \in Seq(Citation)
<1>1. PICK n \in Nat : raw \in [1..n -> RawCitations]
  BY TimesAssumption DEF Answers
<1> DEFINE K == {i \in DOMAIN raw : raw[i].status # Junk}
           kept == Ascending(K)
           m == Cardinality(K)
<1>2. m \in Nat /\ kept \in [1..m -> K]
  BY <1>1, AscendingOf
<1> HIDE DEF m, kept
<1>3. /\ Objects(raw) = [i \in 1..m |-> raw[kept[i]]]
      /\ \A i \in 1..m : kept[i] \in 1..n /\ raw[kept[i]].status # Junk
  BY <1>1, <1>2 DEF Objects, kept
<1>4. ASSUME NEW i \in 1..m
      PROVE  Objects(raw)[i] \in Claim(Statuses \cup {"other"})
  <2>1. Objects(raw)[i] = raw[kept[i]] /\ raw[kept[i]] \in RawCitations
    BY <1>1, <1>3
  <2>2. raw[kept[i]] \in Claim(Statuses \cup {"other", Junk})
    BY <2>1, RawAssumption
  <2>3. QED
    BY <1>3, <2>1, <2>2 DEF Claim
<1> DEFINE fix(c) == IF c.status \in Statuses THEN c ELSE [c EXCEPT !.status = "unverified"]
<1>5. ASSUME NEW c \in Claim(Statuses \cup {"other"}) PROVE fix(c) \in Citation
  BY DEF Claim, Citation, Statuses
<1>6. Repaired(raw) = [i \in 1..m |-> fix(Objects(raw)[i])]
  BY <1>3 DEF Repaired
<1> HIDE DEF fix
<1>7. Repaired(raw) \in [1..m -> Citation]
  BY <1>4, <1>5, <1>6
<1>8. QED
  BY <1>2, <1>7

\* A citation names a place of the document.
LEMMA PlaceType ==
  ASSUME NEW c \in Citation
  PROVE  PlaceOf(c) \in Places /\ Source[PlaceOf(c)] \subseteq Snippets
<1>1. PlaceOf(c) \in Places
  BY PlacesAssumption DEF Citation, Claim, PlaceOf
<1>2. QED
  BY <1>1, SourceAssumption

\* A citation stays one, of the same quotation and place, whatever its status.
LEMMA StatusType ==
  ASSUME NEW c \in Citation, NEW status \in Statuses
  PROVE  LET v == [c EXCEPT !.status = status]
         IN  /\ v \in Citation /\ PlaceOf(v) = PlaceOf(c)
             /\ v.snippet = c.snippet /\ v.status = status
  BY DEF Citation, Claim, PlaceOf

\* What it is for a citation to be unverified.
LEMMA UnverifiedType ==
  ASSUME NEW c \in Citation
  PROVE  /\ Unverified(c) \in Citation /\ PlaceOf(Unverified(c)) = PlaceOf(c)
         /\ Unverified(c).snippet = c.snippet /\ Unverified(c).status = "unverified"
<1>1. "unverified" \in Statuses
  BY DEF Statuses
<1>2. QED
  BY <1>1, StatusType DEF Unverified

\* The verdict of verify_citation stands where the citation did; it is "verified"
\* when the quotation is there, and no quotation that is not is marked.
LEMMA VerdictIs ==
  ASSUME NEW c \in Citation, NEW v \in VerifyCitation(c)
  PROVE  /\ v \in Citation /\ PlaceOf(v) = PlaceOf(c)
         /\ v.status # "unverified" => v.snippet \in Source[PlaceOf(v)]
         /\ v.status # "revised" => v.snippet = c.snippet
         /\ c.snippet \in Source[PlaceOf(c)] => v.status # "unverified"
<1> DEFINE found == Source[PlaceOf(c)]
<1>1. found \subseteq Snippets /\ Blank \notin found
  BY PlaceType, SnippetsAssumption
<1> HIDE DEF found
<1>2. /\ Unverified(c) \in Citation /\ PlaceOf(Unverified(c)) = PlaceOf(c)
      /\ Unverified(c).snippet = c.snippet /\ Unverified(c).status = "unverified"
  BY UnverifiedType
<1>3. CASE c.snippet = Blank \/ found = {}
  <2>1. v = Unverified(c)
    BY <1>1, <1>3 DEF VerifyCitation, found
  <2>2. c.snippet \notin found
    BY <1>1, <1>3
  <2>3. QED
    BY <1>2, <2>1, <2>2 DEF found
<1>4. CASE c.snippet \in found
  <2>1. v = [c EXCEPT !.status = "verified"]
    BY <1>1, <1>4 DEF VerifyCitation, found
  <2>2. "verified" \in Statuses
    BY DEF Statuses
  <2>3. v \in Citation /\ PlaceOf(v) = PlaceOf(c) /\ v.snippet = c.snippet /\ v.status = "verified"
    BY <2>1, <2>2, StatusType
  <2>4. QED
    BY <1>4, <2>3 DEF found
<1>5. CASE ~(c.snippet = Blank \/ found = {}) /\ c.snippet \notin found
  <2>1. \/ v = Unverified(c)
        \/ \E w \in found : v = [c EXCEPT !.snippet = w, !.status = "revised"]
    BY <1>5 DEF VerifyCitation, found
  <2>2. CASE v = Unverified(c)
    BY <1>2, <1>5, <2>2 DEF found
  <2>3. ASSUME NEW w \in found, v = [c EXCEPT !.snippet = w, !.status = "revised"]
        PROVE  /\ v \in Citation /\ PlaceOf(v) = PlaceOf(c)
               /\ v.snippet \in found /\ v.status = "revised"
    <3>1. "revised" \in Statuses /\ w \in Snippets \cup {Blank}
      BY <1>1 DEF Statuses
    <3>2. /\ v \in Citation /\ PlaceOf(v) = PlaceOf(c)
          /\ v.snippet = w /\ v.status = "revised"
      BY <2>3, <3>1 DEF Citation, Claim, PlaceOf
    <3>3. QED
      BY <3>2
  <2>4. QED
    BY <1>5, <2>1, <2>2, <2>3 DEF found
<1>6. QED
  BY <1>3, <1>4, <1>5

-----------------------------------------------------------------------------
(* The time a call takes. *)

\* k waits of x each, from a moment x ahead of t, are over k - 1 times t after it.
LEMMA Retries ==
  ASSUME NEW k \in Nat \ {0}, NEW t \in Nat, NEW x \in Nat, x <= t
  PROVE  k * x \in Nat /\ (k - 1) * t \in Nat /\ k * x <= x + (k - 1) * t
<1>1. PICK j \in Nat : k = j + 1
  <2>1. k - 1 \in Nat /\ k = (k - 1) + 1
    OBVIOUS
  <2>2. QED
    BY <2>1
<1>2. k * x = j * x + x
  BY <1>1
<1>3. j * x <= j * t /\ j * x \in Nat /\ j * t \in Nat
  BY <1>1
<1>4. k - 1 = j
  BY <1>1
<1>5. QED
  BY <1>2, <1>3, <1>4

\* The waits of a call, in all its tries, and the pauses.
LEMMA WaitsOf ==
  ASSUME NEW n \in Nat
  PROVE  /\ ClientTries * Waits \in Nat \ {0} /\ ClientTries * Pause \in Nat
         /\ (ClientTries * Waits) * n \in Nat
         /\ ClientTries * (Waits * n) = (ClientTries * Waits) * n
         /\ ClientTries * (Waits * n + Pause) = (ClientTries * Waits) * n + ClientTries * Pause
<1>1. /\ ClientTries \in Nat /\ ClientTries > 0 /\ Waits \in Nat /\ Waits > 0 /\ Pause \in Nat
  BY TimesAssumption, WaitsAssumption
<1>2. /\ ClientTries * Waits \in Nat /\ ClientTries * Waits > 0 /\ ClientTries * Pause \in Nat
  BY <1>1
<1>3. ClientTries * (Waits * n) = (ClientTries * Waits) * n
  BY <1>1
<1>4. Waits * n \in Nat /\ (ClientTries * Waits) * n \in Nat
  BY <1>1, <1>2
<1>5. ClientTries * (Waits * n + Pause) = ClientTries * (Waits * n) + ClientTries * Pause
  BY <1>1, <1>4
<1>6. QED
  BY <1>2, <1>3, <1>4, <1>5

\* The overrun of a call holds both of its cases.
LEMMA OverrunIs ==
  /\ CallOverrun \in Nat
  /\ (ClientTries * Waits - 1) * Timeout + 1 + ClientTries * Pause <= CallOverrun
  /\ Pause + (ClientTries * Waits) * MinCall + ClientTries * Pause <= CallOverrun
<1> DEFINE k == ClientTries * Waits
           a == (k - 1) * Timeout + 1
           b == Pause + k * MinCall
<1>1. Timeout \in Nat /\ MinCall \in Nat /\ Pause \in Nat
  BY TimesAssumption
<1>2. /\ k \in Nat \ {0} /\ ClientTries * Pause \in Nat /\ k * MinCall \in Nat
      /\ ClientTries * (Waits * MinCall) = k * MinCall
  BY <1>1, WaitsOf
<1>3. (k - 1) * Timeout \in Nat
  <2>1. k - 1 \in Nat
    BY <1>2
  <2>2. QED
    BY <1>1, <2>1
<1>4. a \in Nat /\ b \in Nat
  BY <1>1, <1>2, <1>3
<1>5. CallOverrun = Larger(a, b) + ClientTries * Pause
  BY <1>2 DEF CallOverrun
<1> HIDE DEF a, b
<1>6. /\ CallOverrun \in Nat /\ a + ClientTries * Pause <= CallOverrun
      /\ b + ClientTries * Pause <= CallOverrun
  BY <1>2, <1>4, <1>5 DEF Larger
<1>7. QED
  BY <1>1, <1>2, <1>3, <1>6 DEF a, b

\* A call is given a time, and one that is made in a node entered ahead of the
\* deadline ends less than CallOverrun after it, however often the client sends
\* it and however many waits a try is made of.
LEMMA CallEnds ==
  ASSUME now \in Nat, NEW t \in now..(now + Pause)
  PROVE  /\ t \in Nat /\ CallTime(t) \in Nat
         /\ mode = "agent" /\ now < Timeout =>
              \A d \in 0..CallTime(t) : t + d < Timeout + CallOverrun
<1> DEFINE k == ClientTries * Waits
           p == ClientTries * Pause
<1>1. /\ Timeout \in Nat /\ Timeout > 0 /\ MinCall \in Nat /\ MinCall > 0 /\ Pause \in Nat
      /\ t \in Nat
  BY TimesAssumption
<1>2. CallLimit(t) \in Nat
  BY <1>1 DEF CallLimit
<1>3. /\ k \in Nat \ {0} /\ p \in Nat /\ k * CallLimit(t) \in Nat
      /\ CallTime(t) = k * CallLimit(t) + p
  BY <1>2, WaitsOf DEF CallTime
<1>4. /\ CallOverrun \in Nat /\ (k - 1) * Timeout + 1 + p <= CallOverrun
      /\ Pause + k * MinCall + p <= CallOverrun
  BY OverrunIs
<1> HIDE DEF k, p
<1>5. CallTime(t) \in Nat
  BY <1>3
<1>6. ASSUME mode = "agent", now < Timeout, NEW d \in 0..CallTime(t)
      PROVE  t + d < Timeout + CallOverrun
  <2>1. d \in Nat /\ d <= k * CallLimit(t) + p
    BY <1>3, <1>6
  <2>2. CASE t + MinCall <= Timeout
    <3>1. CallLimit(t) = Timeout - t
      BY <1>6, <2>2 DEF CallLimit
    <3> DEFINE x == Timeout - t
    <3>2. x \in Nat /\ x <= Timeout /\ t + x = Timeout
      BY <1>1, <2>2
    <3> HIDE DEF x
    <3>3. /\ k * x \in Nat /\ (k - 1) * Timeout \in Nat
          /\ k * x <= x + (k - 1) * Timeout
      BY <1>1, <1>3, <3>2, Retries
    <3>4. d <= k * x + p
      BY <2>1, <3>1 DEF x
    <3>5. QED
      BY <1>1, <1>3, <1>4, <2>1, <3>2, <3>3, <3>4
  <2>3. CASE ~(t + MinCall <= Timeout)
    <3>1. CallLimit(t) = MinCall
      BY <1>6, <2>3 DEF CallLimit
    <3>2. k * MinCall \in Nat /\ d <= k * MinCall + p
      BY <1>3, <2>1, <3>1
    <3>3. t < Timeout + Pause
      BY <1>1, <1>6
    <3>4. QED
      BY <1>1, <1>3, <1>4, <2>1, <3>2, <3>3
  <2>4. QED
    BY <2>2, <2>3
<1>7. QED
  BY <1>1, <1>5, <1>6

-----------------------------------------------------------------------------
(* The inductive invariant, step by step. *)

\* TypeOK, with its quantifier spelt out.
LEMMA Types ==
  TypeOK <=> /\ mode \in Modes
             /\ pc \in Nodes \cup {"mock", "single_call", "checking", "done", "failed"}
             /\ now \in Nat /\ calls \in 0..MaxCalls
             /\ draft \in Seq(Citation) /\ checked \in Seq(Citation) /\ result \in Seq(Citation)
             /\ warned \in BOOLEAN
             /\ error \in CallErrors \cup {"none"}
  BY Zenon DEF TypeOK

\* Every overrun is within the longest one.
LEMMA Overruns ==
  /\ CallOverrun \in Nat /\ LongestOverrun \in Nat
  /\ CallOverrun <= LongestOverrun
  /\ (MaxCalls + 2) * Pause \in Nat /\ (MaxCalls + 2) * Pause <= LongestOverrun
  /\ Pause \in Nat /\ Pause <= LongestOverrun /\ Timeout \in Nat /\ Timeout > 0
  /\ \A n \in 0..MaxCalls : (n + 1) * Pause \in Nat /\ (n + 2) * Pause <= (MaxCalls + 2) * Pause
                            /\ (n + 2) * Pause = (n + 1) * Pause + Pause
<1>1. Pause \in Nat /\ MaxCalls \in Nat /\ Timeout \in Nat /\ Timeout > 0
  BY TimesAssumption
<1>2. (MaxCalls + 2) * Pause \in Nat /\ Pause <= (MaxCalls + 2) * Pause
  <2>1. (MaxCalls + 2) * Pause = (MaxCalls + 1) * Pause + Pause
    BY <1>1
  <2>2. (MaxCalls + 1) * Pause \in Nat
    BY <1>1
  <2>3. QED
    BY <1>1, <2>1, <2>2
<1>3. /\ CallOverrun \in Nat /\ LongestOverrun \in Nat /\ CallOverrun <= LongestOverrun
      /\ (MaxCalls + 2) * Pause <= LongestOverrun
  <2>1. CallOverrun \in Nat
    BY OverrunIs
  <2>2. QED
    BY <1>2, <2>1 DEF LongestOverrun, Larger
<1>4. ASSUME NEW n \in 0..MaxCalls
      PROVE  /\ (n + 1) * Pause \in Nat /\ (n + 2) * Pause <= (MaxCalls + 2) * Pause
             /\ (n + 2) * Pause = (n + 1) * Pause + Pause
  <2>1. n \in Nat /\ MaxCalls - n \in Nat
    BY <1>1
  <2>2. (n + 1) * Pause \in Nat /\ (n + 2) * Pause = (n + 1) * Pause + Pause
    BY <1>1, <2>1
  <2>3. (MaxCalls + 2) * Pause = (n + 2) * Pause + (MaxCalls - n) * Pause
    BY <1>1, <2>1
  <2>4. (MaxCalls - n) * Pause \in Nat
    BY <1>1, <2>1
  <2>5. QED
    BY <1>1, <2>2, <2>3, <2>4
<1>5. QED
  BY <1>1, <1>2, <1>3, <1>4

LEMMA RunInit == Init => RunInv
<1> SUFFICES ASSUME Init PROVE RunInv
  OBVIOUS
<1>1. /\ mode \in Modes /\ now \in Nat /\ now <= Pause /\ Pause \in Nat /\ MaxCalls \in Nat
      /\ pc = IF mode = "agent" THEN "plan" ELSE mode
      /\ draft = <<>> /\ checked = <<>> /\ result = <<>> /\ calls = 0
      /\ warned = FALSE /\ error = "none"
  BY TimesAssumption DEF Init
<1>2. TypeOK
  <2>1. pc \in Nodes \cup {"mock", "single_call", "checking", "done", "failed"}
    BY <1>1 DEF Modes, Nodes
  <2>2. <<>> \in Seq(Citation) /\ calls \in 0..MaxCalls
    BY <1>1
  <2>3. warned \in BOOLEAN /\ error \in CallErrors \cup {"none"}
    BY <1>1
  <2>4. QED
    BY <1>1, <2>1, <2>2, <2>3, Types, Zenon
<1>3. Progress
  BY <1>1 DEF Progress, Modes, AgentPoints, Nodes
<1>4. Verdicts
  BY <1>1 DEF Verdicts
<1>5. OnTime
  BY <1>1 DEF OnTime
<1>6. QED
  BY <1>2, <1>3, <1>4, <1>5 DEF RunInv

\* Verdicts stand as long as nothing is checked or drafted.
LEMMA VerdictsKept ==
  ASSUME Verdicts, draft' = draft, checked' = checked, calls' = calls
  PROVE  Verdicts'
  BY DEF Verdicts, Checked

LEMMA DeadlineStep == RunInv /\ CheckDeadline => RunInv'
<1> SUFFICES ASSUME RunInv, CheckDeadline PROVE RunInv'
  OBVIOUS
<1>1. TypeOK /\ Progress /\ Verdicts /\ OnTime
  BY DEF RunInv
<1>2. /\ pc \in Nodes /\ pc' = "failed" /\ error' = "LLM_TIMEOUT"
      /\ mode' = mode /\ now' = now /\ draft' = draft /\ checked' = checked
      /\ calls' = calls /\ result' = result /\ warned' = warned
  BY DEF CheckDeadline, Raise
<1>3. TypeOK'
  BY <1>1, <1>2, Types DEF CallErrors, TypeOK
<1>4. Progress'
  BY <1>1, <1>2 DEF Progress, AgentPoints, Nodes
<1>5. Verdicts'
  BY <1>1, <1>2, VerdictsKept
<1>6. OnTime'
  <2>1. now \in Nat /\ Pause \in Nat /\ Timeout \in Nat /\ Timeout > 0
    BY <1>1, TimesAssumption DEF TypeOK
  <2>2. QED
    BY <1>1, <1>2, <2>1, Overruns DEF OnTime, Nodes
<1>7. QED
  BY <1>3, <1>4, <1>5, <1>6 DEF RunInv

LEMMA CallFailsStep == RunInv /\ CallFails => RunInv'
<1> SUFFICES ASSUME RunInv, CallFails PROVE RunInv'
  OBVIOUS
<1>1. TypeOK /\ Progress /\ Verdicts /\ OnTime
  BY DEF RunInv
<1>2. PICK code \in CallErrors, t \in now..(now + Pause) :
        \E d \in 0..CallTime(t) : now' = t + d /\ Raise(code)
  BY DEF CallFails
<1>d. PICK d \in 0..CallTime(t) : now' = t + d /\ Raise(code)
  BY <1>2
<1>3. /\ (pc = "act" /\ now < Timeout) \/ pc = "single_call"
      /\ pc' = "failed" /\ error' = code
      /\ mode' = mode /\ draft' = draft /\ checked' = checked
      /\ calls' = calls /\ result' = result /\ warned' = warned
  BY <1>d DEF CallFails, Enter, Raise
<1>n. now \in Nat
  BY <1>1 DEF TypeOK
<1>4. t \in Nat /\ CallTime(t) \in Nat /\ now' \in Nat /\ Timeout \in Nat
  BY <1>n, <1>d, CallEnds, TimesAssumption
<1>5. TypeOK'
  BY <1>1, <1>3, <1>4, Types DEF TypeOK
<1>6. Progress'
  BY <1>1, <1>3 DEF Progress, AgentPoints, Nodes
<1>7. Verdicts'
  BY <1>1, <1>3, VerdictsKept
<1>8. OnTime'
  <2>1. CASE pc = "single_call"
    BY <1>1, <1>3, <2>1 DEF OnTime, Progress
  <2>2. CASE mode = "agent" /\ now < Timeout
    <3>1. now' < Timeout + CallOverrun
      BY <1>n, <1>d, <2>2, CallEnds
    <3>2. QED
      BY <1>3, <1>4, <3>1, Overruns DEF OnTime
  <2>3. QED
    BY <1>1, <1>3, <2>1, <2>2 DEF Progress, AgentPoints, Nodes
<1>9. QED
  BY <1>5, <1>6, <1>7, <1>8 DEF RunInv

\* When a call that returns has returned.
LEMMA ReturnTime ==
  ASSUME now \in Nat, CallReturns
  PROVE  now' \in Nat /\ (mode = "agent" /\ now < Timeout => now' < Timeout + CallOverrun)
<1>0. PICK t \in now..(now + Pause) : \E d \in 0..CallTime(t) : now' = t + d
  BY DEF CallReturns
<1>1. PICK d \in 0..CallTime(t) : now' = t + d
  BY <1>0
<1>2. t \in Nat /\ CallTime(t) \in Nat
  BY CallEnds
<1>3. QED
  BY <1>1, <1>2, CallEnds

\* A call in single-call mode, and one that does nothing in mock mode.
LEMMA SingleCallStep == RunInv /\ SingleCall => RunInv'
<1> SUFFICES ASSUME RunInv, SingleCall PROVE RunInv'
  OBVIOUS
<1>1. TypeOK /\ Progress /\ Verdicts /\ OnTime
  BY DEF RunInv
<1>2. PICK raw \in Answers :
        /\ draft' = Repaired(raw)
        /\ result' = [i \in DOMAIN Repaired(raw) |-> Unverified(Repaired(raw)[i])]
        /\ warned' = (Repaired(raw) # <<>>)
  BY Zenon DEF SingleCall
<1>t. now' \in Nat
  BY <1>1, ReturnTime DEF SingleCall, TypeOK
<1>3. /\ pc = "single_call" /\ pc' = "done"
      /\ mode' = mode /\ checked' = checked /\ calls' = calls /\ error' = error
  BY DEF SingleCall
<1>4. /\ mode = "single_call" /\ checked = <<>> /\ calls = 0 /\ now' \in Nat
  BY <1>1, <1>3, <1>t DEF Progress
<1>5. draft' \in Seq(Citation)
  BY <1>2, RepairedType
<1>6. result' \in Seq(Citation)
  <2>1. result' = [i \in 1..Len(draft') |-> Unverified(draft'[i])]
    BY <1>2, <1>5
  <2>2. \A i \in 1..Len(draft') : Unverified(draft'[i]) \in Citation
    BY <1>5, UnverifiedType
  <2>3. Len(draft') \in Nat
    BY <1>5
  <2>4. QED
    BY <2>1, <2>2, <2>3
<1>7. TypeOK'
  <2>1. warned' \in BOOLEAN
    BY <1>2, Zenon
  <2>2. QED
    BY <1>1, <1>3, <1>4, <1>5, <1>6, <2>1, Types DEF TypeOK
<1>8. Progress'
  <2>1. warned' = (draft' # <<>>)
    BY <1>2, Zenon
  <2>2. result' = [i \in DOMAIN draft' |-> Unverified(draft'[i])]
    BY <1>2
  <2>3. QED
    BY <1>3, <1>4, <2>1, <2>2, Zenon DEF Progress, AgentPoints, Nodes
<1>9. Verdicts'
  BY <1>1, <1>3, <1>4, <1>5 DEF Verdicts
<1>10. OnTime'
  BY <1>3, <1>4 DEF OnTime
<1>11. QED
  BY <1>7, <1>8, <1>9, <1>10 DEF RunInv

LEMMA MockStep == RunInv /\ Mock => RunInv'
<1> SUFFICES ASSUME RunInv, Mock PROVE RunInv'
  OBVIOUS
<1>1. TypeOK /\ Progress /\ Verdicts /\ OnTime
  BY DEF RunInv
<1>2. /\ pc = "mock" /\ pc' = "done" /\ mode' = mode /\ now' = now /\ draft' = draft
      /\ checked' = checked /\ calls' = calls /\ result' = result /\ warned' = warned
      /\ error' = error
  BY DEF Mock
<1>3. mode = "mock" /\ draft = <<>> /\ result = <<>> /\ ~warned
  BY <1>1, <1>2 DEF Progress
<1>4. TypeOK'
  BY <1>1, <1>2, Types DEF TypeOK
<1>5. Progress'
  <2>1. warned' = (draft' # <<>>)
    BY <1>1, <1>2, <1>3, Zenon DEF TypeOK
  <2>2. result' = [i \in DOMAIN draft' |-> Unverified(draft'[i])]
    BY <1>2, <1>3
  <2>3. QED
    BY <1>2, <1>3, <2>1, <2>2, Zenon DEF Progress, AgentPoints, Nodes
<1>6. Verdicts'
  BY <1>1, <1>2, VerdictsKept
<1>7. OnTime'
  BY <1>2, <1>3 DEF OnTime
<1>8. QED
  BY <1>4, <1>5, <1>6, <1>7 DEF RunInv

LEMMA PlanStep == RunInv /\ Plan => RunInv'
<1> SUFFICES ASSUME RunInv, Plan PROVE RunInv'
  OBVIOUS
<1>1. TypeOK /\ Progress /\ Verdicts /\ OnTime
  BY DEF RunInv
<1>2. PICK d \in 0..Pause : now' = now + d
  BY DEF Plan, LocalStep
<1>3. /\ pc = "plan" /\ now < Timeout /\ pc' = "act" /\ mode' = mode /\ draft' = draft
      /\ checked' = checked /\ calls' = calls /\ result' = result /\ warned' = warned
      /\ error' = error
  BY DEF Plan, Enter
<1>4. now' \in Nat /\ now' < Timeout + Pause
  BY <1>1, <1>2, <1>3, TimesAssumption DEF TypeOK
<1>5. TypeOK'
  BY <1>1, <1>3, <1>4, Types DEF TypeOK, Nodes
<1>6. Progress'
  BY <1>1, <1>3 DEF Progress, AgentPoints, Nodes
<1>7. Verdicts'
  BY <1>1, <1>3, VerdictsKept
<1>8. OnTime'
  BY <1>3, <1>4 DEF OnTime
<1>9. QED
  BY <1>5, <1>6, <1>7, <1>8 DEF RunInv

LEMMA ActStep == RunInv /\ Act => RunInv'
<1> SUFFICES ASSUME RunInv, Act PROVE RunInv'
  OBVIOUS
<1>1. TypeOK /\ Progress /\ Verdicts /\ OnTime
  BY DEF RunInv
<1>2. PICK raw \in Answers : draft' = Repaired(raw)
  BY DEF Act
<1>3. /\ pc = "act" /\ now < Timeout /\ pc' = "verify" /\ mode' = mode
      /\ checked' = checked /\ calls' = calls /\ result' = result /\ warned' = warned
      /\ error' = error
  BY DEF Act, Enter
<1>4. mode = "agent" /\ checked = <<>> /\ calls = 0 /\ result = <<>>
  BY <1>1, <1>3 DEF Progress, AgentPoints, Nodes
<1>5. now \in Nat /\ now' \in Nat /\ now' < Timeout + CallOverrun
  BY <1>1, <1>3, <1>4, ReturnTime DEF Act, TypeOK
<1>6. draft' \in Seq(Citation)
  BY <1>2, RepairedType
<1>7. TypeOK'
  BY <1>1, <1>3, <1>5, <1>6, Types DEF TypeOK, Nodes
<1>8. Progress'
  BY <1>3, <1>4 DEF Progress, AgentPoints, Nodes
<1>9. Verdicts'
  BY <1>3, <1>4, <1>6 DEF Verdicts
<1>10. OnTime'
  BY <1>3, <1>5 DEF OnTime
<1>11. QED
  BY <1>7, <1>8, <1>9, <1>10 DEF RunInv

LEMMA VerifyStep == RunInv /\ Verify => RunInv'
<1> SUFFICES ASSUME RunInv, Verify PROVE RunInv'
  OBVIOUS
<1>1. TypeOK /\ Progress /\ Verdicts /\ OnTime
  BY DEF RunInv
<1>2. /\ pc = "verify" /\ now < Timeout /\ pc' = "checking" /\ mode' = mode
      /\ draft' = draft /\ checked' = checked /\ calls' = calls /\ result' = result
      /\ warned' = warned /\ error' = error
  BY DEF Verify, Enter
<1>t. now \in Nat /\ Pause \in Nat /\ now' \in Nat /\ now' <= now + Pause
  BY <1>1, TimesAssumption DEF Verify, LocalStep, TypeOK
<1>3. mode = "agent" /\ calls = 0 /\ result = <<>>
  BY <1>1, <1>2 DEF Progress, AgentPoints, Nodes
<1>4. TypeOK'
  BY <1>1, <1>2, <1>t, Types DEF TypeOK
<1>5. Progress'
  BY <1>2, <1>3 DEF Progress, AgentPoints, Nodes
<1>6. Verdicts'
  BY <1>1, <1>2, VerdictsKept
<1>7. OnTime'
  <2>1. (calls' + 1) * Pause = Pause
    BY <1>2, <1>3, <1>t
  <2>2. now' < Timeout + (calls' + 1) * Pause
    BY <1>2, <1>t, <2>1, Overruns
  <2>3. QED
    BY <1>2, <2>2 DEF OnTime
<1>8. QED
  BY <1>4, <1>5, <1>6, <1>7 DEF RunInv

\* One round of the loop: the next citation has a verdict of its own, or the cap
\* was met on the ones before it; the call took a pause at most.
LEMMA CheckStep == RunInv /\ CheckCitation => RunInv'
<1> SUFFICES ASSUME RunInv, CheckCitation PROVE RunInv'
  OBVIOUS
<1>1. TypeOK /\ Progress /\ Verdicts /\ OnTime
  BY DEF RunInv
<1>2. /\ pc = "checking" /\ Len(checked) < Len(draft) /\ pc' = pc /\ mode' = mode
      /\ draft' = draft /\ result' = result /\ warned' = warned /\ error' = error
  BY DEF CheckCitation
<1>3. /\ draft \in Seq(Citation) /\ checked \in Seq(Citation) /\ Len(checked) \in Nat
      /\ calls \in Nat /\ MaxCalls \in Nat /\ calls <= MaxCalls /\ now \in Nat
      /\ Pause \in Nat /\ Timeout \in Nat
  BY <1>1, Types, TimesAssumption
<1>n. PICK n \in Nat : n = Len(checked) + 1
  BY <1>3
<1> DEFINE c == draft[n]
<1>4. n \in 1..Len(draft) /\ c \in Citation
  BY <1>2, <1>3, <1>n
<1>5. PICK v \in Citation :
        /\ checked' = Append(checked, v)
        /\ \/ /\ calls < MaxCalls /\ calls' = calls + 1
              /\ v \in VerifyCitation(c)
              /\ now' \in Nat /\ now' <= now + Pause
           \/ /\ calls = MaxCalls /\ calls' = calls /\ now' = now
              /\ v = Unverified(c)
  <2>1. CASE /\ calls < MaxCalls /\ calls' = calls + 1
             /\ \E v \in VerifyCitation(c) : checked' = Append(checked, v)
             /\ LocalStep
    <3>1. PICK v \in VerifyCitation(c) : checked' = Append(checked, v)
      BY <2>1
    <3>2. v \in Citation
      BY <1>4, <3>1, VerdictIs
    <3>3. now' \in Nat /\ now' <= now + Pause
      BY <1>3, <2>1 DEF LocalStep
    <3>4. QED
      BY <2>1, <3>1, <3>2, <3>3
  <2>2. CASE calls >= MaxCalls /\ checked' = Append(checked, Unverified(c)) /\ UNCHANGED <<calls, now>>
    <3>1. Unverified(c) \in Citation /\ calls = MaxCalls
      BY <1>3, <1>4, <2>2, UnverifiedType
    <3>2. QED
      BY <2>2, <3>1
  <2>3. QED
    BY <1>n, <2>1, <2>2 DEF CheckCitation
<1> HIDE DEF c
<1>6. /\ checked' \in Seq(Citation) /\ Len(checked') = n /\ checked'[n] = v
      /\ \A i \in DOMAIN checked : i \in 1..Len(checked) /\ checked'[i] = checked[i]
      /\ DOMAIN checked' = 1..n
  BY <1>3, <1>5, <1>n
<1>7. calls' \in 0..MaxCalls /\ now' \in Nat
  BY <1>3, <1>5
<1>8. TypeOK'
  BY <1>1, <1>2, <1>6, <1>7, Types DEF TypeOK
<1>9. Progress'
  BY <1>1, <1>2 DEF Progress, AgentPoints, Nodes
<1>10. Verdicts'
  <2>1. calls <= Len(checked) /\ (calls = Len(checked) \/ calls = MaxCalls)
    BY <1>1 DEF Verdicts
  <2>2. /\ Len(checked') <= Len(draft') /\ calls' <= Len(checked')
        /\ calls' = Len(checked') \/ calls' = MaxCalls
    BY <1>2, <1>3, <1>4, <1>5, <1>6, <1>n, <2>1
  <2>3. Checked(n)'
    BY <1>2, <1>3, <1>5, <1>6, <1>n, <2>1 DEF Checked, c
  <2>4. ASSUME NEW i \in 1..Len(checked) PROVE Checked(i)'
    <3>1. Checked(i)
      BY <1>1, <1>3 DEF Verdicts
    <3>2. checked'[i] = checked[i]
      BY <1>3, <1>6
    <3>3. QED
      BY <1>2, <3>1, <3>2 DEF Checked
  <2>5. \A i \in DOMAIN checked' : i = n \/ i \in 1..Len(checked)
    BY <1>3, <1>6, <1>n
  <2>6. QED
    BY <2>2, <2>3, <2>4, <2>5 DEF Verdicts
<1>11. OnTime'
  <2>1. mode = "agent" /\ now < Timeout + (calls + 1) * Pause
    BY <1>1, <1>2 DEF OnTime, Progress, AgentPoints
  <2>2. (calls + 1 + 1) * Pause = (calls + 1) * Pause + Pause /\ (calls + 1) * Pause \in Nat
    BY <1>3
  <2>3. now' < Timeout + (calls' + 1) * Pause
    <3>1. CASE calls' = calls + 1 /\ now' \in Nat /\ now' <= now + Pause
      <4>1. (calls' + 1) * Pause = (calls + 1) * Pause + Pause
        BY <2>2, <3>1
      <4>2. QED
        BY <1>3, <2>1, <2>2, <3>1, <4>1
    <3>2. CASE calls' = calls /\ now' = now
      BY <2>1, <3>2
    <3>3. QED
      BY <1>5, <3>1, <3>2
  <2>4. QED
    BY <1>2, <2>3 DEF OnTime
<1>12. QED
  BY <1>8, <1>9, <1>10, <1>11 DEF RunInv

LEMMA EndVerifyStep == RunInv /\ EndVerify => RunInv'
<1> SUFFICES ASSUME RunInv, EndVerify PROVE RunInv'
  OBVIOUS
<1>1. TypeOK /\ Progress /\ Verdicts /\ OnTime
  BY DEF RunInv
<1>2. /\ pc = "checking" /\ Len(checked) = Len(draft) /\ pc' = "finalize"
      /\ result' = checked /\ mode' = mode /\ draft' = draft
      /\ checked' = checked /\ calls' = calls /\ warned' = warned /\ error' = error
  BY DEF EndVerify
<1>t. now \in Nat /\ Pause \in Nat /\ now' \in Nat /\ now' <= now + Pause
  BY <1>1, TimesAssumption DEF EndVerify, LocalStep, TypeOK
<1>3. mode = "agent"
  BY <1>1, <1>2 DEF Progress, AgentPoints
<1>4. TypeOK'
  BY <1>1, <1>2, <1>t, Types DEF TypeOK, Nodes
<1>5. Progress'
  BY <1>2, <1>3 DEF Progress, AgentPoints, Nodes
<1>6. Verdicts'
  BY <1>1, <1>2, VerdictsKept
<1>7. OnTime'
  <2>1. now < Timeout + (calls + 1) * Pause /\ calls \in 0..MaxCalls
    BY <1>1, <1>2, <1>3, Types DEF OnTime
  <2>2. now' < Timeout + (MaxCalls + 2) * Pause
    BY <1>t, <2>1, Overruns
  <2>3. QED
    BY <1>2, <2>2 DEF OnTime
<1>8. QED
  BY <1>4, <1>5, <1>6, <1>7 DEF RunInv

LEMMA FinalizeStep == RunInv /\ Finalize => RunInv'
<1> SUFFICES ASSUME RunInv, Finalize PROVE RunInv'
  OBVIOUS
<1>1. TypeOK /\ Progress /\ Verdicts /\ OnTime
  BY DEF RunInv
<1>2. /\ pc = "finalize" /\ now < Timeout /\ pc' = "done" /\ mode' = mode
      /\ draft' = draft /\ checked' = checked /\ calls' = calls /\ result' = result
      /\ warned' = warned /\ error' = error
  BY DEF Finalize, Enter
<1>t. now \in Nat /\ Pause \in Nat /\ Timeout \in Nat /\ now' \in Nat /\ now' < Timeout + Pause
  BY <1>1, <1>2, TimesAssumption DEF Finalize, LocalStep, TypeOK
<1>3. mode = "agent" /\ result = checked /\ Len(checked) = Len(draft)
  BY <1>1, <1>2 DEF Progress, AgentPoints, Nodes
<1>4. TypeOK'
  BY <1>1, <1>2, <1>t, Types DEF TypeOK
<1>5. Progress'
  BY <1>2, <1>3 DEF Progress, AgentPoints, Nodes
<1>6. Verdicts'
  BY <1>1, <1>2, VerdictsKept
<1>7. OnTime'
  BY <1>2, <1>t DEF OnTime
<1>8. QED
  BY <1>4, <1>5, <1>6, <1>7 DEF RunInv

LEMMA RunNext == RunInv /\ [Next]_vars => RunInv'
<1> SUFFICES ASSUME RunInv, [Next]_vars PROVE RunInv'
  OBVIOUS
<1>1. CASE UNCHANGED vars
  <2>1. /\ pc' = pc /\ mode' = mode /\ now' = now /\ draft' = draft /\ checked' = checked
        /\ calls' = calls /\ result' = result /\ warned' = warned /\ error' = error
    BY <1>1 DEF vars
  <2>2. TypeOK'
    BY <2>1 DEF RunInv, TypeOK
  <2>3. Progress'
    BY <2>1 DEF RunInv, Progress
  <2>4. Verdicts'
    BY <2>1, VerdictsKept DEF RunInv
  <2>5. OnTime'
    BY <2>1 DEF RunInv, OnTime
  <2>6. QED
    BY <2>2, <2>3, <2>4, <2>5 DEF RunInv
<1>2. QED
  BY <1>1, DeadlineStep, CallFailsStep, SingleCallStep, MockStep, PlanStep, ActStep,
     VerifyStep, CheckStep, EndVerifyStep, FinalizeStep DEF Next

LEMMA RunInvAlways == Spec => []RunInv
<1>1. QED
  BY RunInit, RunNext, PTL DEF Spec

-----------------------------------------------------------------------------
(* What the runs promise. *)

\* What a verdict on the i-th citation says of the i-th result.
LEMMA VerdictsSay ==
  ASSUME RunInv, NEW i \in DOMAIN checked
  PROVE  /\ i \in 1..Len(draft) /\ draft[i] \in Citation /\ checked[i] \in Citation
         /\ PlaceOf(checked[i]) = PlaceOf(draft[i])
         /\ checked[i].status # "unverified" => checked[i].snippet \in Source[PlaceOf(checked[i])]
         /\ checked[i].status # "revised" => checked[i].snippet = draft[i].snippet
         /\ draft[i].snippet \in Source[PlaceOf(draft[i])] /\ checked[i].status = "unverified"
              => i > MaxCalls
<1>1. /\ draft \in Seq(Citation) /\ checked \in Seq(Citation)
      /\ Len(checked) <= Len(draft) /\ Checked(i)
  BY Types DEF RunInv, Verdicts
<1>2. i \in 1..Len(draft) /\ draft[i] \in Citation
  BY <1>1
<1>3. CASE checked[i] \in VerifyCitation(draft[i])
  BY <1>2, <1>3, VerdictIs
<1>4. CASE checked[i] = Unverified(draft[i]) /\ i > MaxCalls
  BY <1>2, <1>4, UnverifiedType
<1>5. QED
  BY <1>1, <1>3, <1>4 DEF Checked

\* And what the result of the other modes is.
LEMMA UncheckedSay ==
  ASSUME RunInv, pc = "done", mode # "agent"
  PROVE  /\ Len(result) = Len(draft) /\ warned = (draft # <<>>)
         /\ \A i \in DOMAIN result :
              /\ result[i].status = "unverified"
              /\ PlaceOf(result[i]) = PlaceOf(draft[i]) /\ result[i].snippet = draft[i].snippet
<1>1. warned = (draft # <<>>)
  BY Zenon DEF RunInv, Progress
<1>2. draft \in Seq(Citation) /\ result = [i \in DOMAIN draft |-> Unverified(draft[i])]
  BY Types, Zenon DEF RunInv, Progress
<1>3. /\ DOMAIN draft = 1..Len(draft) /\ Len(draft) \in Nat
      /\ \A i \in DOMAIN draft : draft[i] \in Citation
  BY <1>2
<1>4. Len(result) = Len(draft)
  BY <1>2, <1>3
<1>5. ASSUME NEW i \in DOMAIN result
      PROVE  /\ result[i].status = "unverified"
             /\ PlaceOf(result[i]) = PlaceOf(draft[i]) /\ result[i].snippet = draft[i].snippet
  <2>1. result[i] = Unverified(draft[i]) /\ draft[i] \in Citation
    BY <1>2, <1>3
  <2>2. QED
    BY <2>1, UnverifiedType
<1>6. QED
  BY <1>1, <1>4, <1>5

\* Wherever there is a result, it is what was checked, or it comes from a mode
\* that checks nothing, or it is empty.
LEMMA ResultIs ==
  ASSUME RunInv
  PROVE  \/ result = <<>>
         \/ mode = "agent" /\ result = checked
         \/ pc = "done" /\ mode # "agent"
<1>1. pc \in {"plan", "act", "verify", "finalize", "mock", "single_call", "checking", "done", "failed"}
  BY Types DEF RunInv, Nodes
<1>2. QED
  BY <1>1 DEF RunInv, Progress, AgentPoints, Nodes

\* The state of a run has its type: what repair leaves, and every verdict on it,
\* is a citation.
THEOREM RunTypes == Spec => []TypeOK
<1>1. RunInv => TypeOK
  BY DEF RunInv
<1>2. QED
  BY <1>1, RunInvAlways, PTL

\* No citation is returned as verified or revised unless its quotation is in the
\* source at the place it names, for any document and any claim of the model.
THEOREM MarksAreGrounded == Spec => []MarkedIsGrounded
<1>1. RunInv => MarkedIsGrounded
  <2> SUFFICES ASSUME RunInv, NEW i \in DOMAIN result, result[i].status # "unverified"
               PROVE  mode = "agent" /\ result[i].snippet \in Source[PlaceOf(result[i])]
    BY DEF MarkedIsGrounded
  <2>1. result # <<>> /\ ~(pc = "done" /\ mode # "agent")
    BY UncheckedSay
  <2>2. mode = "agent" /\ result = checked
    BY <2>1, ResultIs
  <2>3. QED
    BY <2>2, VerdictsSay
<1>2. QED
  BY <1>1, RunInvAlways, PTL

\* Outside agent mode every citation of a result is unverified, and a result
\* with citations carries the warning.
THEOREM UncheckedIsWarned == Spec => []SingleCallIsWarned
<1>1. RunInv => SingleCallIsWarned
  <2> SUFFICES ASSUME RunInv, pc = "done", mode # "agent", result # <<>>
               PROVE  warned /\ \A i \in DOMAIN result : result[i].status = "unverified"
    BY DEF SingleCallIsWarned
  <2>1. \A i \in DOMAIN result : result[i].status = "unverified"
    BY UncheckedSay
  <2>2. warned = (draft # <<>>)
    BY UncheckedSay, Zenon
  <2>3. draft # <<>>
    <3>1. draft \in Seq(Citation) /\ result \in Seq(Citation) /\ Len(result) = Len(draft)
      BY Types, UncheckedSay DEF RunInv
    <3>2. QED
      BY <3>1
  <2>4. warned
    BY <2>2, <2>3, Zenon
  <2>5. QED
    BY <2>1, <2>4
<1>2. QED
  BY <1>1, RunInvAlways, PTL

\* Verification drops, adds and moves no citation of the validated answer.
THEOREM CitationsStay == Spec => []NothingDropped
<1>1. RunInv => NothingDropped
  <2> SUFFICES ASSUME RunInv, pc = "done"
               PROVE  /\ Len(result) = Len(draft)
                      /\ \A i \in DOMAIN result :
                           /\ PlaceOf(result[i]) = PlaceOf(draft[i])
                           /\ result[i].status # "revised" => result[i].snippet = draft[i].snippet
    BY DEF NothingDropped
  <2>1. CASE mode = "agent"
    <3>1. result = checked /\ Len(checked) = Len(draft)
      BY <2>1 DEF RunInv, Progress
    <3>2. QED
      BY <3>1, VerdictsSay
  <2>2. CASE mode # "agent"
    BY <2>2, UncheckedSay
  <2>3. QED
    BY <2>1, <2>2
<1>2. QED
  BY <1>1, RunInvAlways, PTL

\* The cap on the tool calls leaves only citations behind the first MaxCalls
\* unchecked.
THEOREM CapSparesTheFirst == Spec => []CapSkipsOnlyTheTail
<1>1. RunInv => CapSkipsOnlyTheTail
  <2> SUFFICES ASSUME RunInv, pc = "done", mode = "agent", NEW i \in DOMAIN result,
                      draft[i].snippet \in Source[PlaceOf(draft[i])],
                      result[i].status = "unverified"
               PROVE  i > MaxCalls
    BY DEF CapSkipsOnlyTheTail
  <2>1. result = checked
    BY DEF RunInv, Progress
  <2>2. QED
    BY <2>1, VerdictsSay
<1>2. QED
  BY <1>1, RunInvAlways, PTL

\* No agent run is later than one node that was entered in time can make it, for
\* any timeout, cap and pause, and any number of tries and of waits in a try.
THEOREM OverrunIsBounded == Spec => []OverrunBounded
<1>1. RunInv => OverrunBounded
  <2> SUFFICES ASSUME RunInv, mode = "agent" PROVE now < Timeout + LongestOverrun
    BY DEF OverrunBounded
  <2>1. pc \in {"plan", "act", "verify", "finalize", "checking", "done", "failed", "mock", "single_call"}
    BY Types DEF RunInv, Nodes
  <2>2. now \in Nat /\ calls \in 0..MaxCalls
    BY Types DEF RunInv
  <2>3. (calls + 1) * Pause <= LongestOverrun /\ (calls + 1) * Pause \in Nat
    BY <2>2, Overruns
  <2>4. pc # "mock" /\ pc # "single_call"
    BY DEF RunInv, Progress
  <2>5. OnTime
    BY DEF RunInv
  <2>6. QED
    BY <2>1, <2>2, <2>3, <2>4, <2>5, Overruns DEF OnTime
<1>2. QED
  BY <1>1, RunInvAlways, PTL
=============================================================================
