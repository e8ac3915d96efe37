--------------------------- MODULE DocumentProofs ---------------------------
(***************************************************************************)
(* Theorems about Document, for any uploads, contents, limits, windows and *)
(* claims: an upload is kept whole or not at all, nothing of a document is *)
(* lost without a word of it, a column has the type of its values, and the *)
(* lookup of a quotation does what Citations lets it do and gives up none  *)
(* that has a close match.                                                 *)
(***************************************************************************)
EXTENDS Document, SequenceTheorems, FiniteSetTheorems, WellFoundedInduction, TLAPS

-----------------------------------------------------------------------------
(* Sequences *)

\* A set of numbers that is not empty has a least member.
LEMMA LeastNumber ==
  ASSUME NEW S, S \subseteq Nat, S # {}
  PROVE  \E x \in S : \A y \in S : x <= y
<1>1. IsWellFoundedOn(OpToRel(<, Nat), Nat)
  BY NatLessThanWellFounded
<1>2. PICK x \in S : \A y \in S : ~(<<y, x>> \in OpToRel(<, Nat))
  BY <1>1, WFMin
<1>3. ASSUME NEW y \in S PROVE ~(y < x)
  BY <1>2 DEF OpToRel
<1>4. QED
  BY <1>3

\* What holds of 1 and of the next number with each number holds up to n.
LEMMA UpTo ==
  ASSUME NEW n \in Nat, NEW G, n >= 1 => 1 \in G,
         \A m \in 1..(n - 1) : m \in G => m + 1 \in G
  PROVE  1..n \subseteq G
<1> DEFINE Bad == {m \in 1..n : m \notin G}
<1>1. SUFFICES ASSUME Bad # {} PROVE FALSE
  OBVIOUS
<1>2. PICK m \in Bad : \A k \in Bad : m <= k
  <2>1. Bad \subseteq Nat
    OBVIOUS
  <2> HIDE DEF Bad
  <2>2. QED
    BY <1>1, <2>1, LeastNumber
<1>3. m \in 1..n /\ m \notin G /\ m # 1
  OBVIOUS
<1>4. m - 1 \in 1..(n - 1) /\ m - 1 \notin Bad
  BY <1>2, <1>3
<1>5. m - 1 \in G /\ (m - 1) + 1 = m
  BY <1>3, <1>4
<1>6. QED
  BY <1>3, <1>4, <1>5

\* The elements of two sequences after one another.
LEMMA Joined ==
  ASSUME NEW S, NEW s \in Seq(S), NEW t \in Seq(S)
  PROVE  s \o t \in Seq(S) /\ ToSet(s \o t) = ToSet(s) \cup ToSet(t)
<1> DEFINE m == Len(s)
           n == Len(t)
<1>1. /\ m \in Nat /\ DOMAIN s = 1..m
      /\ n \in Nat /\ DOMAIN t = 1..n
  BY LenProperties
<1>2. /\ s \o t \in Seq(S) /\ Len(s \o t) = m + n
      /\ \A i \in 1..(m + n) : (s \o t)[i] = IF i <= m THEN s[i] ELSE t[i - m]
  BY ConcatProperties
<1>3. DOMAIN (s \o t) = 1..(m + n)
  BY <1>2, LenProperties
<1> HIDE DEF m, n
<1>4. ASSUME NEW x \in ToSet(s \o t) PROVE x \in ToSet(s) \cup ToSet(t)
  <2>1. PICK i \in 1..(m + n) : x = (s \o t)[i]
    BY <1>3 DEF ToSet
  <2>2. CASE i <= m
    BY <1>1, <1>2, <2>1, <2>2 DEF ToSet
  <2>3. CASE i > m
    <3>1. i - m \in 1..n /\ x = t[i - m]
      BY <1>1, <1>2, <2>1, <2>3
    <3>2. QED
      BY <1>1, <3>1 DEF ToSet
  <2>4. QED
    BY <1>1, <2>2, <2>3
<1>5. ASSUME NEW x \in ToSet(s) PROVE x \in ToSet(s \o t)
  <2>1. PICK i \in 1..m : x = s[i]
    BY <1>1 DEF ToSet
  <2>2. i \in 1..(m + n) /\ (s \o t)[i] = x
    BY <1>1, <1>2, <2>1
  <2>3. QED
    BY <1>3, <2>2 DEF ToSet
<1>6. ASSUME NEW x \in ToSet(t) PROVE x \in ToSet(s \o t)
  <2>1. PICK i \in 1..n : x = t[i]
    BY <1>1 DEF ToSet
  <2>2. m + i \in 1..(m + n) /\ ~(m + i <= m) /\ (m + i) - m = i
    BY <1>1
  <2>3. (s \o t)[m + i] = x
    BY <1>2, <2>1, <2>2
  <2>4. QED
    BY <1>3, <2>2, <2>3 DEF ToSet
<1>7. QED
  BY <1>2, <1>4, <1>5, <1>6

\* FlattenSeq: what it has put together of the first i sequences.
Flat(seqs, flat) ==
  flat = [i \in 1..Len(seqs) |-> IF i = 1 THEN seqs[i] ELSE flat[i - 1] \o seqs[i]]

LEMMA FlatExists ==
  ASSUME NEW S, NEW seqs \in Seq(Seq(S)), Len(seqs) # 0
  PROVE  \E flat : Flat(seqs, flat)
<1> DEFINE n == Len(seqs)
           Next1(i, g) == IF i = 1 THEN seqs[i] ELSE g[i - 1] \o seqs[i]
           Upto(m, g) == \A i \in 1..m : g[i] = Next1(i, g)
           Good(m) == \E g \in [1..m -> Seq(S)] : Upto(m, g)
           G == {m \in 1..n : Good(m)}
<1>1. n \in Nat /\ n >= 1 /\ \A i \in 1..n : seqs[i] \in Seq(S)
  <2>1. n \in Nat
    BY LenProperties
  <2>2. \A i \in 1..n : seqs[i] \in Seq(S)
    BY ElementOfSeq
  <2>3. QED
    BY <2>1, <2>2
<1> HIDE DEF n
<1>2. Good(1)
  <2> DEFINE g == [i \in 1..1 |-> seqs[i]]
  <2>1. g \in [1..1 -> Seq(S)] /\ Upto(1, g)
    BY <1>1
  <2> HIDE DEF g, Upto
  <2>2. QED
    BY <2>1
<1>3. ASSUME NEW m \in 1..(n - 1), Good(m) PROVE Good(m + 1)
  <2>0. m \in Nat \ {0} /\ m + 1 \in 1..n /\ m + 1 # 1 /\ (m + 1) - 1 = m /\ m # m + 1
    BY <1>1
  <2>1. PICK g \in [1..m -> Seq(S)] : Upto(m, g)
    BY <1>3
  <2> DEFINE h == [i \in 1..(m + 1) |-> IF i = m + 1 THEN g[m] \o seqs[i] ELSE g[i]]
  <2>2. g[m] \o seqs[m + 1] \in Seq(S)
    <3>1. g[m] \in Seq(S) /\ seqs[m + 1] \in Seq(S)
      BY <1>1, <2>0
    <3>2. QED
      BY <3>1, ConcatProperties
  <2>3. h \in [1..(m + 1) -> Seq(S)]
    BY <2>0, <2>2
  <2>4. \A i \in 1..m : h[i] = g[i] /\ i \in 1..(m + 1)
    BY <2>0
  <2>5. h[m + 1] = g[m] \o seqs[m + 1]
    BY <2>0
  <2> HIDE DEF h
  <2>6. h[m + 1] = Next1(m + 1, h)
    <3>1. m \in 1..m
      BY <2>0
    <3>2. h[(m + 1) - 1] = g[m]
      BY Zenon, <2>0, <2>4, <3>1
    <3>3. QED
      BY Zenon, <2>0, <2>5, <3>2
  <2>7. ASSUME NEW i \in 1..m PROVE h[i] = Next1(i, h)
    <3>1. g[i] = Next1(i, g)
      BY <2>1
    <3>2. i # 1 => i - 1 \in 1..m
      BY <2>0
    <3>3. QED
      BY <2>4, <3>1, <3>2
  <2>8. \A i \in 1..(m + 1) : i = m + 1 \/ i \in 1..m
    BY <2>0
  <2> HIDE DEF Next1
  <2>9. Upto(m + 1, h)
    BY <2>6, <2>7, <2>8
  <2> HIDE DEF Upto
  <2>10. QED
    BY <2>3, <2>9
<1> HIDE DEF Good
<1>4. Good(n)
  <2>1. 1 \in G /\ \A m \in 1..(n - 1) : m \in G => m + 1 \in G
    BY <1>1, <1>2, <1>3
  <2> HIDE DEF G
  <2>2. 1..n \subseteq G
    BY <1>1, <2>1, UpTo
  <2>3. n \in 1..n
    BY <1>1
  <2>4. QED
    BY <2>2, <2>3 DEF G
<1>5. PICK g \in [1..n -> Seq(S)] : Upto(n, g)
  BY <1>4 DEF Good
<1>6. g = [i \in 1..n |-> IF i = 1 THEN seqs[i] ELSE g[i - 1] \o seqs[i]]
  BY <1>5
<1>7. QED
  BY <1>6 DEF Flat, n

\* FlattenSeq gives a sequence of what the sequences hold, and all of that.
LEMMA Flattened ==
  ASSUME NEW S, NEW seqs \in Seq(Seq(S))
  PROVE  /\ FlattenSeq(seqs) \in Seq(S)
         /\ ToSet(FlattenSeq(seqs)) = UNION {ToSet(seqs[i]) : i \in DOMAIN seqs}
<1>1. CASE Len(seqs) = 0
  BY <1>1 DEF FlattenSeq, ToSet
<1>2. CASE Len(seqs) # 0
  <2> DEFINE flat == CHOOSE f : Flat(seqs, f)
  <2>1. Flat(seqs, flat)
    BY <1>2, FlatExists
  <2>2. FlattenSeq(seqs) = flat[Len(seqs)]
    BY <1>2 DEF FlattenSeq, Flat
  <2> HIDE DEF flat
  <2> DEFINE n == Len(seqs)
             Of(i) == UNION {ToSet(seqs[k]) : k \in 1..i}
             G == {i \in 1..n : flat[i] \in Seq(S) /\ ToSet(flat[i]) = Of(i)}
  <2>3. n \in Nat /\ n >= 1 /\ \A i \in 1..n : seqs[i] \in Seq(S)
    <3>1. n \in Nat
      BY LenProperties
    <3>2. \A i \in 1..n : seqs[i] \in Seq(S)
      BY ElementOfSeq
    <3>3. QED
      BY <1>2, <3>1, <3>2
  <2>4. DOMAIN seqs = 1..n
    BY LenProperties
  <2> HIDE DEF n
  <2>5. 1 \in G
    <3>1. flat[1] = seqs[1]
      BY <2>1, <2>3 DEF Flat, n
    <3>2. Of(1) = ToSet(seqs[1])
      OBVIOUS
    <3>3. 1 \in 1..n /\ flat[1] \in Seq(S)
      BY <2>3, <3>1
    <3>4. QED
      BY Zenon, <3>1, <3>2, <3>3
  <2>6. ASSUME NEW m \in 1..(n - 1), m \in G PROVE m + 1 \in G
    <3>1. m + 1 \in 1..n /\ m + 1 # 1 /\ (m + 1) - 1 = m
      BY <2>3
    <3>2. flat[m + 1] = flat[m] \o seqs[m + 1]
      BY <2>1, <3>1 DEF Flat, n
    <3>3. flat[m] \in Seq(S) /\ seqs[m + 1] \in Seq(S) /\ ToSet(flat[m]) = Of(m)
      BY <2>3, <2>6, <3>1
    <3>4. flat[m + 1] \in Seq(S) /\ ToSet(flat[m + 1]) = ToSet(flat[m]) \cup ToSet(seqs[m + 1])
      BY <3>2, <3>3, Joined
    <3>5. Of(m + 1) = Of(m) \cup ToSet(seqs[m + 1])
      <4>1. 1..(m + 1) = 1..m \cup {m + 1}
        BY <2>3
      <4>2. QED
        BY <4>1
    <3>6. QED
      BY <3>1, <3>3, <3>4, <3>5
  <2> HIDE DEF G
  <2>7. n \in G
    <3>1. 1..n \subseteq G
      BY <2>3, <2>5, <2>6, UpTo
    <3>2. n \in 1..n
      BY <2>3
    <3>3. QED
      BY <3>1, <3>2
  <2>8. FlattenSeq(seqs) \in Seq(S) /\ ToSet(FlattenSeq(seqs)) = Of(n)
    BY <2>2, <2>7 DEF G, n
  <2>9. QED
    BY <2>4, <2>8
<1>3. QED
  BY <1>1, <1>2

\* Pieces of at most one element make up no more than there are pieces.
LEMMA FlatNoLonger ==
  ASSUME NEW S, NEW seqs \in Seq(Seq(S)), \A i \in DOMAIN seqs : Len(seqs[i]) <= 1
  PROVE  Len(FlattenSeq(seqs)) <= Len(seqs)
<1>1. CASE Len(seqs) = 0
  BY <1>1 DEF FlattenSeq
<1>2. CASE Len(seqs) # 0
  <2> DEFINE flat == CHOOSE f : Flat(seqs, f)
  <2>1. Flat(seqs, flat)
    BY <1>2, FlatExists
  <2>2. FlattenSeq(seqs) = flat[Len(seqs)]
    BY <1>2 DEF FlattenSeq, Flat
  <2> HIDE DEF flat
  <2> DEFINE n == Len(seqs)
             G == {i \in 1..n : flat[i] \in Seq(S) /\ Len(flat[i]) <= i}
  <2>3. n \in Nat /\ DOMAIN seqs = 1..n
    BY LenProperties
  <2>4. \A i \in 1..n : seqs[i] \in Seq(S) /\ Len(seqs[i]) \in Nat /\ Len(seqs[i]) <= 1
    BY <2>3, ElementOfSeq, LenProperties
  <2>5. n >= 1
    BY <1>2, <2>3
  <2> HIDE DEF n
  <2>6. 1 \in G
    <3>1. flat[1] = seqs[1] /\ 1 \in 1..n
      BY <2>1, <2>3, <2>5 DEF Flat, n
    <3>2. QED
      BY <2>4, <3>1
  <2>7. ASSUME NEW m \in 1..(n - 1), m \in G PROVE m + 1 \in G
    <3>1. m + 1 \in 1..n /\ m + 1 # 1 /\ (m + 1) - 1 = m /\ m \in Nat
      BY <2>3
    <3>2. flat[m + 1] = flat[m] \o seqs[m + 1]
      BY <2>1, <3>1 DEF Flat, n
    <3>3. flat[m] \in Seq(S) /\ Len(flat[m]) \in Nat /\ Len(flat[m]) <= m
      BY <2>7, LenProperties
    <3>4. /\ flat[m] \o seqs[m + 1] \in Seq(S)
          /\ Len(flat[m] \o seqs[m + 1]) = Len(flat[m]) + Len(seqs[m + 1])
      BY <2>4, <3>1, <3>3, ConcatProperties
    <3>5. Len(seqs[m + 1]) \in Nat /\ Len(seqs[m + 1]) <= 1
      BY <2>4, <3>1
    <3>6. Len(flat[m + 1]) <= m + 1
      <4>1. \A a, b \in Nat : a <= m /\ b <= 1 => a + b <= m + 1
        BY <3>1
      <4>2. Len(flat[m]) + Len(seqs[m + 1]) <= m + 1
        BY Zenon, <3>3, <3>5, <4>1
      <4>3. QED
        BY Zenon, <3>2, <3>4, <4>2
    <3>7. QED
      BY <3>1, <3>2, <3>4, <3>6
  <2> HIDE DEF G
  <2>8. 1..n \subseteq G
    BY <2>3, <2>6, <2>7, UpTo
  <2>9. n \in G
    BY <2>3, <2>5, <2>8
  <2>10. QED
    BY <2>2, <2>9 DEF G, n
<1>3. QED
  BY <1>1, <1>2

\* Parts of a sequence.
LEMMA PartOf ==
  ASSUME NEW S, NEW s \in Seq(S), NEW k \in Nat, NEW n \in Nat, k <= Len(s)
  PROVE  /\ Part(s, k, n) \in Seq(S)
         /\ Len(Part(s, k, n)) = IF k + n < Len(s) THEN n ELSE Len(s) - k
         /\ \A i \in 1..Len(Part(s, k, n)) : Part(s, k, n)[i] = s[k + i]
<1> DEFINE last == IF k + n < Len(s) THEN k + n ELSE Len(s)
<1>1. /\ Len(s) \in Nat /\ last \in Int /\ k + 1 \in Int /\ last <= Len(s)
      /\ \A i \in (k + 1)..last : s[i] \in S
  <2>1. Len(s) \in Nat
    BY LenProperties
  <2>2. last \in Int /\ last <= Len(s)
    BY <2>1
  <2> HIDE DEF last
  <2>3. \A i \in (k + 1)..last : i \in 1..Len(s)
    BY <2>1, <2>2
  <2>4. QED
    BY <2>1, <2>2, <2>3, ElementOfSeq
<1>2. Part(s, k, n) = SubSeq(s, k + 1, last)
  BY DEF Part
<1>3. last - (k + 1) + 1 = last - k /\ (k + 1 <= last <=> last - k > 0)
  BY <1>1
<1>4. last - k = IF k + n < Len(s) THEN n ELSE Len(s) - k
  BY <1>1
<1>5. last - k >= 0
  BY <1>1
<1> HIDE DEF last
<1>6. /\ SubSeq(s, k + 1, last) \in Seq(S)
      /\ Len(SubSeq(s, k + 1, last)) = last - k
      /\ \A i \in 1..(last - k) : SubSeq(s, k + 1, last)[i] = s[(k + 1) + i - 1]
  BY <1>1, <1>3, <1>5, SubSeqProperties
<1>7. \A i \in 1..(last - k) : (k + 1) + i - 1 = k + i
  BY <1>1
<1>8. QED
  BY <1>2, <1>4, <1>6, <1>7

LEMMA StartOf ==
  ASSUME NEW S, NEW s \in Seq(S), NEW n \in Nat
  PROVE  /\ Part(s, 0, n) \in Seq(S)
         /\ Len(Part(s, 0, n)) = IF n < Len(s) THEN n ELSE Len(s)
         /\ \A i \in 1..Len(Part(s, 0, n)) : Part(s, 0, n)[i] = s[i]
<1>1. Len(s) \in Nat /\ 0 \in Nat /\ 0 <= Len(s)
  BY LenProperties
<1>2. /\ Part(s, 0, n) \in Seq(S)
      /\ Len(Part(s, 0, n)) = IF 0 + n < Len(s) THEN n ELSE Len(s) - 0
      /\ \A i \in 1..Len(Part(s, 0, n)) : Part(s, 0, n)[i] = s[0 + i]
  BY <1>1, PartOf
<1>3. 0 + n = n /\ Len(s) - 0 = Len(s) /\ \A i \in 1..Len(Part(s, 0, n)) : 0 + i = i
  BY <1>1
<1>4. QED
  BY <1>2, <1>3

\* A part and the part after it make up one.
LEMMA PartsJoin ==
  ASSUME NEW S, NEW s \in Seq(S), NEW k \in 0..Len(s), NEW n \in Nat
  PROVE  Part(s, 0, k) \o Part(s, k, n) = Part(s, 0, k + Len(Part(s, k, n)))
<1> DEFINE p == Part(s, 0, k)
           q == Part(s, k, n)
           m == Len(q)
           r == Part(s, 0, k + m)
<1>1. Len(s) \in Nat /\ k \in Nat /\ k <= Len(s)
  BY LenProperties
<1>2. /\ p \in Seq(S) /\ Len(p) = k /\ \A i \in 1..k : p[i] = s[i]
  BY <1>1, StartOf
<1>3. /\ q \in Seq(S) /\ m = (IF k + n < Len(s) THEN n ELSE Len(s) - k)
      /\ \A i \in 1..m : q[i] = s[k + i]
  BY <1>1, PartOf
<1>4. m \in Nat /\ k + m \in Nat /\ k + m <= Len(s)
  BY <1>1, <1>3
<1> HIDE DEF q, m
<1>5. r \in Seq(S) /\ Len(r) = k + m /\ \A i \in 1..(k + m) : r[i] = s[i]
  BY <1>1, <1>4, StartOf
<1> HIDE DEF p, r
<1>6. /\ p \o q \in Seq(S) /\ Len(p \o q) = k + m
      /\ \A i \in 1..(k + m) : (p \o q)[i] = IF i <= k THEN p[i] ELSE q[i - k]
  BY <1>2, <1>3, ConcatProperties DEF m
<1>7. ASSUME NEW i \in 1..(k + m) PROVE (p \o q)[i] = r[i]
  <2>0. i \in Nat /\ (i <= k \/ i > k)
    BY <1>1, <1>4
  <2>1. CASE i <= k
    <3>1. i \in 1..k
      BY <1>1, <1>4, <2>1
    <3>2. QED
      BY <1>2, <1>5, <1>6, <2>1, <3>1
  <2>2. CASE i > k
    <3>1. i - k \in 1..m /\ k + (i - k) = i
      BY <1>1, <1>4, <2>2
    <3>2. QED
      BY <1>1, <1>3, <1>5, <1>6, <2>2, <3>1
  <2>3. QED
    BY <2>0, <2>1, <2>2
<1>8. p \o q = r
  BY <1>5, <1>6, <1>7, SeqEqual
<1>9. QED
  BY <1>8 DEF p, q, r, m

\* The sample of what is stored is kept up by the first bytes of each chunk.
LEMMA SampleKept ==
  ASSUME NEW S, NEW s \in Seq(S), NEW c \in Seq(S), NEW h \in Nat
  PROVE  Part(s \o c, 0, h) = IF Len(Part(s, 0, h)) < h
                              THEN Part(s, 0, h) \o Part(c, 0, h - Len(Part(s, 0, h)))
                              ELSE Part(s, 0, h)
<1> DEFINE m == Len(s)
           n == Len(c)
           p == Part(s, 0, h)
           t == s \o c
           r == Part(t, 0, h)
<1>1. m \in Nat /\ n \in Nat
  BY LenProperties
<1>2. t \in Seq(S) /\ Len(t) = m + n
      /\ \A i \in 1..(m + n) : t[i] = IF i <= m THEN s[i] ELSE c[i - m]
  BY ConcatProperties
<1>3. p \in Seq(S) /\ Len(p) = (IF h < m THEN h ELSE m)
      /\ \A i \in 1..Len(p) : p[i] = s[i]
  BY <1>1, StartOf
<1> HIDE DEF p, t
<1>4. r \in Seq(S) /\ Len(r) = (IF h < m + n THEN h ELSE m + n)
      /\ \A i \in 1..Len(r) : r[i] = t[i]
  BY <1>1, <1>2, StartOf
<1> HIDE DEF r, m, n
<1>5. CASE Len(p) < h
  <2> DEFINE q == Part(c, 0, h - m)
  <2>1. Len(p) = m /\ m <= h /\ h - m \in Nat
    BY <1>1, <1>3, <1>5
  <2>2. q \in Seq(S) /\ Len(q) = (IF h - m < n THEN h - m ELSE n)
        /\ \A i \in 1..Len(q) : q[i] = c[i]
    BY <1>1, <2>1, StartOf DEF n
  <2> HIDE DEF q
  <2>3. /\ p \o q \in Seq(S) /\ Len(p \o q) = m + Len(q)
        /\ \A i \in 1..(m + Len(q)) : (p \o q)[i] = IF i <= m THEN p[i] ELSE q[i - m]
    BY <1>3, <2>1, <2>2, ConcatProperties
  <2>4. Len(r) = m + Len(q) /\ Len(r) \in Nat /\ Len(q) \in Nat /\ Len(r) <= m + n
    BY <1>1, <1>4, <2>1, <2>2
  <2>5. ASSUME NEW i \in 1..Len(r) PROVE (p \o q)[i] = r[i]
    <3>1. r[i] = IF i <= m THEN s[i] ELSE c[i - m]
      BY <1>1, <1>2, <1>4, <2>4
    <3>2. CASE i <= m
      BY <1>1, <1>3, <2>1, <2>3, <2>4, <3>1, <3>2
    <3>3. CASE i > m
      <4>1. i - m \in 1..Len(q) /\ ~(i <= m)
        BY <1>1, <2>4, <3>3
      <4>2. QED
        BY <2>2, <2>3, <2>4, <3>1, <4>1
    <3>4. i <= m \/ i > m
      BY <1>1, <2>4
    <3>5. QED
      BY <3>2, <3>3, <3>4
  <2>6. p \o q = r
    BY <1>4, <2>3, <2>4, <2>5, SeqEqual
  <2>7. QED
    BY <1>5, <2>1, <2>6 DEF p, q, r, t
<1>6. CASE ~(Len(p) < h)
  <2>1. Len(p) = h /\ h <= m /\ Len(r) = h
    BY <1>1, <1>3, <1>4, <1>6
  <2>2. ASSUME NEW i \in 1..h PROVE r[i] = p[i]
    <3>1. i \in 1..(m + n) /\ i <= m
      BY <1>1, <2>1
    <3>2. QED
      BY <1>2, <1>3, <1>4, <2>1, <3>1
  <2>3. r = p
    BY <1>3, <1>4, <2>1, <2>2, SeqEqual
  <2>4. QED
    BY <1>6, <2>3 DEF p, r, t
<1>7. QED
  BY <1>5, <1>6

-----------------------------------------------------------------------------
(* The intake of an upload *)

LEMMA IntakeStart == IntakeInit => IntakeInv
<1>1. SUFFICES ASSUME IntakeInit PROVE IntakeInv
  OBVIOUS
<1>2. /\ file \in Files /\ read = 0 /\ stored = <<>> /\ header = <<>> /\ intake = "saving"
      /\ file.bytes \in Seq(Bytes) /\ MaxFileSize \in Nat /\ HeaderSize \in Nat
      /\ header \in Seq(Bytes)
  BY <1>1, FilesAssumption, SizesAssumption, EmptySeq DEF IntakeInit
<1>3. "saving" \notin Refusals /\ "saving" \notin Types \cup Whole
  BY DEF Refusals, Types, Whole
<1>4. Len(file.bytes) \in Nat
  BY <1>2, LenProperties
<1>5. Part(file.bytes, 0, 0) = <<>>
  <2>1. /\ Part(file.bytes, 0, 0) \in Seq(Bytes)
        /\ Len(Part(file.bytes, 0, 0)) = IF 0 < Len(file.bytes) THEN 0 ELSE Len(file.bytes)
    <3>1. 0 \in Nat
      OBVIOUS
    <3>2. QED
      BY <1>2, <3>1, StartOf
  <2>2. QED
    BY <1>4, <2>1, EmptySeq
<1>6. Part(<<>>, 0, HeaderSize) = <<>>
  <2>1. <<>> \in Seq(Bytes) /\ Len(<<>>) = 0
    BY EmptySeq
  <2>2. ASSUME NEW e \in Seq(Bytes), Len(e) = 0 PROVE Part(e, 0, HeaderSize) = <<>>
    <3>1. /\ Part(e, 0, HeaderSize) \in Seq(Bytes)
          /\ Len(Part(e, 0, HeaderSize)) = IF HeaderSize < Len(e) THEN HeaderSize ELSE Len(e)
      BY <1>2, StartOf
    <3>2. QED
      BY <1>2, <2>2, <3>1, EmptySeq
  <2>3. QED
    BY <2>1, <2>2
<1>7. QED
  BY <1>2, <1>3, <1>4, <1>5, <1>6 DEF IntakeInv

\* One more chunk is stored, and sampled.
LEMMA ChunkStored ==
  ASSUME IntakeInv, intake = "saving", Chunk # <<>>,
         read' = read + Len(Chunk), read' <= MaxFileSize,
         stored' = stored \o Chunk, header' = Sampled(Chunk),
         UNCHANGED <<file, intake>>
  PROVE  IntakeInv'
<1> DEFINE s == file.bytes
<1>1. /\ file \in Files /\ s \in Seq(Bytes) /\ Len(s) \in Nat
      /\ ChunkSize \in Nat /\ HeaderSize \in Nat
  BY FilesAssumption, SizesAssumption, LenProperties DEF IntakeInv
<1>2. intake \notin Refusals /\ intake \notin Types \cup Whole
  BY DEF Refusals, Types, Whole
<1>3. /\ read \in 0..Len(s) /\ stored = Part(s, 0, read)
      /\ header = Part(stored, 0, HeaderSize)
  BY <1>2 DEF IntakeInv
<1>4. /\ Chunk \in Seq(Bytes) /\ Len(Chunk) \in Nat /\ read + Len(Chunk) \in 0..Len(s)
  <2>1. /\ Part(s, read, ChunkSize) \in Seq(Bytes)
        /\ Len(Part(s, read, ChunkSize)) =
             IF read + ChunkSize < Len(s) THEN ChunkSize ELSE Len(s) - read
    BY <1>1, <1>3, PartOf
  <2>2. Chunk = Part(s, read, ChunkSize)
    BY DEF Chunk
  <2>3. QED
    BY <1>1, <1>3, <2>1, <2>2
<1>5. stored' = Part(s, 0, read')
  BY <1>1, <1>3, PartsJoin DEF Chunk
<1>6. stored \in Seq(Bytes)
  BY <1>1, <1>3, StartOf
<1>7. header' = Part(stored', 0, HeaderSize)
  BY <1>1, <1>3, <1>4, <1>6, SampleKept DEF Sampled
<1>8. header' \in Seq(Bytes)
  <2>1. stored' \in Seq(Bytes)
    BY <1>4, <1>6, ConcatProperties
  <2>2. QED
    BY <1>1, <1>7, <2>1, StartOf
<1>9. QED
  BY <1>1, <1>2, <1>4, <1>5, <1>7, <1>8 DEF IntakeInv

LEMMA IntakeStep ==
  ASSUME IntakeInv, IntakeNext \/ UNCHANGED intakeVars
  PROVE  IntakeInv' /\ file' = file
<1>0. /\ "saving" \notin Types \cup Refusals \cup Whole
      /\ Whole \cap (Types \cup Refusals) = {}
      /\ Types \cap Refusals = {}
      /\ {"saved", "unexpected"} = Whole
  BY DEF Types, Refusals, Whole
<1>1. ASSUME NEW why \in Refusals, Refuse(why), file' = file, header' = header,
             read' \in 0..Len(file.bytes)
      PROVE  IntakeInv'
  BY <1>0, <1>1 DEF Refuse, IntakeInv
<1>2. CASE ReadChunk
  <2>1. read' \in 0..Len(file.bytes)
    <3>1. /\ file.bytes \in Seq(Bytes) /\ Len(file.bytes) \in Nat
          /\ read \in Nat /\ read <= Len(file.bytes) /\ ChunkSize \in Nat
      BY <1>2, FilesAssumption, SizesAssumption, LenProperties DEF IntakeInv
    <3>2. Len(Part(file.bytes, read, ChunkSize)) =
            IF read + ChunkSize < Len(file.bytes) THEN ChunkSize ELSE Len(file.bytes) - read
      BY <3>1, PartOf
    <3>3. read' = read + Len(Part(file.bytes, read, ChunkSize))
      BY <1>2 DEF ReadChunk, Chunk
    <3>4. QED
      BY <3>1, <3>2, <3>3
  <2>2. CASE read' > MaxFileSize
    <3>1. Refuse("too large") /\ file' = file /\ header' = header
      BY <1>2, <2>2 DEF ReadChunk
    <3>2. QED
      BY <1>1, <2>1, <3>1 DEF Refusals
  <2>3. CASE ~(read' > MaxFileSize)
    <3>1. read' <= MaxFileSize
      BY <2>1, <2>3, SizesAssumption
    <3>2. QED
      BY <1>2, <2>3, <3>1, ChunkStored DEF ReadChunk
  <2>4. QED
    BY <1>2, <2>2, <2>3 DEF ReadChunk
<1>3. CASE ReadFails
  BY <1>1, <1>3 DEF ReadFails, Refusals, IntakeInv
<1>4. CASE EndOfUpload
  <2>1. /\ intake = "saving" /\ Chunk = <<>> /\ intake' = "saved"
        /\ UNCHANGED <<file, read, stored, header>>
    BY <1>4 DEF EndOfUpload
  <2>2. /\ file.bytes \in Seq(Bytes) /\ read \in 0..Len(file.bytes)
        /\ ChunkSize \in Nat \ {0} /\ Len(file.bytes) \in Nat
    BY <1>0, <2>1, FilesAssumption, SizesAssumption, LenProperties DEF IntakeInv
  <2>3. Len(Chunk) = IF read + ChunkSize < Len(file.bytes) THEN ChunkSize
                     ELSE Len(file.bytes) - read
    <3>1. read \in Nat /\ ChunkSize \in Nat /\ read <= Len(file.bytes)
      BY <2>2
    <3>2. \A s \in Seq(Bytes), k \in Nat, n \in Nat :
            k <= Len(s) =>
              Len(Part(s, k, n)) = IF k + n < Len(s) THEN n ELSE Len(s) - k
      BY PartOf
    <3>3. Len(Part(file.bytes, read, ChunkSize)) =
            IF read + ChunkSize < Len(file.bytes) THEN ChunkSize ELSE Len(file.bytes) - read
      BY <2>2, <3>1, <3>2
    <3>4. QED
      BY <3>3 DEF Chunk
  <2>4. Len(Chunk) = 0
    BY <2>1, EmptySeq
  <2>5. read = Len(file.bytes)
    BY <2>2, <2>3, <2>4
  <2>6. QED
    BY <1>0, <2>1, <2>5 DEF IntakeInv
<1>5. CASE DetectType
  <2> DEFINE taken == DeclaredFits /\ DetectedType # "unsupported"
  <2>0. DetectedType \in Types \cup {"unexpected", "unsupported"} /\ "unsupported" \notin Types
    BY DEF DetectedType, Types
  <2>1. CASE taken /\ DetectedType \in Types
    <3>1. /\ intake = "saved" /\ intake' = DetectedType /\ DetectedType \in Types
          /\ UNCHANGED <<file, read, stored, header>>
      BY <1>5, <2>1 DEF DetectType
    <3>2. file.suffix = CASE DetectedType = "pdf" -> ".pdf"
                          [] DetectedType = "xlsx" -> ".xlsx"
                          [] DetectedType = "csv" -> ".csv"
      BY <3>1 DEF DetectedType, Types
    <3>3. QED
      BY <1>0, <3>1, <3>2 DEF IntakeInv
  <2>2. CASE taken /\ DetectedType = "unexpected"
    <3>1. /\ intake = "saved" /\ intake' = "unexpected"
          /\ UNCHANGED <<file, read, stored, header>>
      BY <1>5, <2>2 DEF DetectType
    <3>2. QED
      BY <1>0, <3>1 DEF IntakeInv
  <2>3. CASE ~taken
    BY <1>1, <1>5, <2>3 DEF DetectType, Refusals, IntakeInv
  <2>4. QED
    BY <1>5, <2>0, <2>1, <2>2, <2>3 DEF DetectType
<1>6. CASE UNCHANGED intakeVars
  BY <1>6 DEF intakeVars, IntakeInv
<1>7. QED
  BY <1>2, <1>3, <1>4, <1>5, <1>6 DEF IntakeNext, ReadChunk, ReadFails, EndOfUpload, DetectType, intakeVars

-----------------------------------------------------------------------------
(* An upload is kept whole or not at all *)

LEMMA IntakeHolds == Spec => []IntakeInv
<1>1. Init => IntakeInv
  BY IntakeStart DEF Init
<1>2. IntakeInv /\ [Next]_vars => IntakeInv'
  <2>1. [Next]_vars => IntakeNext \/ UNCHANGED intakeVars
    BY DEF Next, vars, intakeVars, ExtractDocument, ExtractionFails,
           BuildAgentPrompt, BuildSingleCallPrompt, CheckCitation
  <2>2. QED
    BY <2>1, IntakeStep
<1>3. QED
  BY <1>1, <1>2, PTL DEF Spec

\* What is taken of an upload is all of it.
LEMMA IntakeKeeps == IntakeInv => KeptWholeOrNotAtAll
<1>1. SUFFICES ASSUME IntakeInv PROVE KeptWholeOrNotAtAll
  OBVIOUS
<1>2. /\ "saving" \notin Types \cup Refusals \cup Whole
      /\ Whole \cap (Types \cup Refusals) = {}
      /\ Types \cap Refusals = {}
      /\ {"saved", "unexpected"} = Whole
  BY DEF Types, Refusals, Whole
<1>3. file.bytes \in Seq(Bytes) /\ Len(file.bytes) \in Nat /\ MaxFileSize \in Nat
  BY <1>1, FilesAssumption, SizesAssumption, LenProperties DEF IntakeInv
<1>4. ASSUME intake \notin Refusals
      PROVE  /\ stored \in Seq(Bytes) /\ Len(stored) = read /\ read <= MaxFileSize
             /\ read \in Nat /\ header = Part(stored, 0, HeaderSize)
             /\ \A i \in 1..read : stored[i] = file.bytes[i]
  <2>1. /\ read \in Nat /\ read <= Len(file.bytes) /\ read <= MaxFileSize
        /\ stored = Part(file.bytes, 0, read) /\ header = Part(stored, 0, HeaderSize)
    BY <1>1, <1>3, <1>4 DEF IntakeInv
  <2>2. /\ Part(file.bytes, 0, read) \in Seq(Bytes)
        /\ Len(Part(file.bytes, 0, read)) = IF read < Len(file.bytes) THEN read ELSE Len(file.bytes)
        /\ \A i \in 1..Len(Part(file.bytes, 0, read)) : Part(file.bytes, 0, read)[i] = file.bytes[i]
    BY <1>3, <2>1, StartOf
  <2>3. QED
    BY <1>3, <2>1, <2>2
<1>5. ASSUME intake \in Types \cup Whole PROVE stored = file.bytes
  <2>1. intake \notin Refusals /\ read = Len(file.bytes)
    BY <1>1, <1>2, <1>5 DEF IntakeInv
  <2>2. QED
    BY <1>3, <1>4, <2>1, SeqEqual
<1>6. intake \in Refusals => stored = Nothing
  BY <1>1 DEF IntakeInv
<1>7. QED
  BY <1>2, <1>4, <1>5, <1>6 DEF KeptWholeOrNotAtAll

\* save_upload and detect_content_type: whatever the upload, the size of the
\* chunks and the limits, an upload that is taken is in the volume as it was sent
\* and was judged by its own first bytes, and one that is refused has left
\* nothing there.
THEOREM KeptWhole == Spec => []KeptWholeOrNotAtAll
<1>1. QED
  BY IntakeHolds, IntakeKeeps, PTL

-----------------------------------------------------------------------------
(* The worker's part *)

LEMMA WorkStep ==
  ASSUME IntakeInv, WorkInv, [Next]_vars
  PROVE  WorkInv'
<1>1. CASE IntakeNext /\ UNCHANGED workVars
  <2>1. stage = "upload" /\ stage' = "upload"
    <3>1. intake \notin Types
      BY <1>1 DEF IntakeNext, ReadChunk, ReadFails, EndOfUpload, DetectType, Types
    <3>2. QED
      BY <1>1, <3>1 DEF WorkInv, workVars
  <2>2. UNCHANGED <<ext, context, cut, cited, checked>>
    BY <1>1 DEF workVars
  <2>3. QED
    BY <2>1, <2>2 DEF WorkInv, Prompted, AgentPrompted
<1>2. ASSUME UNCHANGED intakeVars PROVE Extractions' = Extractions /\ Claims[file]' = Claims[file]
  BY <1>2 DEF Extractions, intakeVars
<1>3. CASE ExtractDocument
  BY <1>2, <1>3 DEF ExtractDocument, WorkInv, Prompted, AgentPrompted, intakeVars
<1>4. CASE ExtractionFails
  BY <1>4 DEF ExtractionFails, WorkInv, Prompted, AgentPrompted, intakeVars
<1>5. CASE BuildAgentPrompt \/ BuildSingleCallPrompt
  BY <1>2, <1>5 DEF BuildAgentPrompt, BuildSingleCallPrompt, WorkInv, Prompted, AgentPrompted, intakeVars
<1>6. CASE CheckCitation
  BY <1>2, <1>6 DEF CheckCitation, WorkInv, Prompted, AgentPrompted, intakeVars
<1>7. CASE UNCHANGED vars
  <2>1. UNCHANGED intakeVars /\ UNCHANGED workVars
    BY <1>7 DEF vars, intakeVars, workVars
  <2>2. QED
    BY <1>2, <2>1 DEF WorkInv, Prompted, AgentPrompted, intakeVars, workVars
<1>8. QED
  BY <1>1, <1>3, <1>4, <1>5, <1>6, <1>7 DEF Next

LEMMA WorkHolds == Spec => [](IntakeInv /\ WorkInv)
<1>1. Init => WorkInv
  BY DEF Init, WorkInv, Prompted, AgentPrompted
<1>2. IntakeInv /\ WorkInv /\ [Next]_vars => WorkInv'
  BY WorkStep
<1>3. QED
  BY <1>1, <1>2, IntakeHolds, PTL DEF Spec

-----------------------------------------------------------------------------
(* Words of a text *)

\* What a text is made of: the words, names and cells of a file and the words of
\* the layout.
Words == STRING \cup {Bar, Label, Empty}
Tables == Seq(Seq(Words))
Sheets == Seq([name : Words, rows : Tables, declared : Nat])

LEMMA WiderSeq ==
  ASSUME NEW S, NEW T, S \subseteq T
  PROVE  Seq(S) \subseteq Seq(T)
<1>1. SUFFICES ASSUME NEW s \in Seq(S) PROVE s \in Seq(T)
  OBVIOUS
<1>2. PICK n \in Nat : s \in [1..n -> S]
  BY SeqDef
<1>3. s \in [1..n -> T]
  BY <1>2
<1>4. QED
  BY <1>3, SeqDef

LEMMA LayoutWords == Bar \in Words /\ Label \in Words /\ Empty \in Words
  BY Zenon DEF Words

LEMMA ContentOfFiles ==
  ASSUME NEW f \in Files
  PROVE  /\ f.suffix \in {".pdf", ".csv"} => f.content \in Tables
         /\ f.suffix = ".xlsx" => f.content \in Sheets
<1>1. STRING \subseteq Words
  BY Zenon DEF Words
<1>2. Seq(STRING) \subseteq Seq(Words)
  BY Zenon, <1>1, WiderSeq
<1>3. Rows \subseteq Tables
  BY Zenon, <1>2, WiderSeq DEF Rows, Tables
<1>4. [name : STRING, rows : Rows, declared : Nat] \subseteq [name : Words, rows : Tables, declared : Nat]
  BY Zenon, <1>1, <1>3
<1>5. Seq([name : STRING, rows : Rows, declared : Nat]) \subseteq Sheets
  BY Zenon, <1>4, WiderSeq DEF Sheets
<1>6. QED
  BY Zenon, <1>3, <1>5, ContentAssumption

LEMMA SameLength ==
  ASSUME NEW S, NEW T, NEW s \in Seq(S), NEW f \in [DOMAIN s -> T]
  PROVE  f \in Seq(T) /\ DOMAIN f = DOMAIN s /\ Len(f) = Len(s)
<1>1. Len(s) \in Nat /\ DOMAIN s = 1..Len(s)
  BY LenProperties
<1>2. f \in Seq(T)
  BY <1>1, SeqDef
<1>3. Len(f) \in Nat /\ DOMAIN f = 1..Len(f)
  BY <1>2, LenProperties
<1>4. QED
  BY <1>1, <1>2, <1>3

LEMMA FirstOfSeq ==
  ASSUME NEW S, NEW s \in Seq(S), NEW n \in Nat
  PROVE  /\ FirstOf(s, n) \in Seq(S)
         /\ Len(FirstOf(s, n)) = IF n < Len(s) THEN n ELSE Len(s)
         /\ \A i \in 1..Len(FirstOf(s, n)) : FirstOf(s, n)[i] = s[i]
         /\ ~(Len(s) > n) => FirstOf(s, n) = s
         /\ ToSet(FirstOf(s, n)) \subseteq ToSet(s)
<1>1. Len(s) \in Nat /\ DOMAIN s = 1..Len(s)
  BY LenProperties
<1>2. FirstOf(s, n) = Part(s, 0, n)
  BY <1>1 DEF FirstOf, Part
<1>3. /\ FirstOf(s, n) \in Seq(S)
      /\ Len(FirstOf(s, n)) = IF n < Len(s) THEN n ELSE Len(s)
      /\ \A i \in 1..Len(FirstOf(s, n)) : FirstOf(s, n)[i] = s[i]
  BY <1>2, StartOf
<1>4. ~(Len(s) > n) => FirstOf(s, n) = s
  BY <1>1, <1>3, SeqEqual
<1>5. DOMAIN FirstOf(s, n) = 1..Len(FirstOf(s, n)) /\ Len(FirstOf(s, n)) <= Len(s)
  BY <1>1, <1>3, LenProperties
<1>6. ToSet(FirstOf(s, n)) \subseteq ToSet(s)
  <2>1. 1..Len(FirstOf(s, n)) \subseteq 1..Len(s)
    BY <1>1, <1>3, <1>5
  <2>2. QED
    BY <1>1, <1>3, <1>5, <2>1 DEF ToSet
<1>7. QED
  BY <1>3, <1>4, <1>6

LEMMA KeptSeq ==
  ASSUME NEW S, NEW s \in Seq(S), NEW keep
  PROVE  /\ Kept(s, keep) \in Seq(S)
         /\ Len(Kept(s, keep)) <= Len(s)
         /\ ToSet(Kept(s, keep)) = {s[i] : i \in DOMAIN s \cap keep}
<1> DEFINE f == [i \in DOMAIN s |-> IF i \in keep THEN <<s[i]>> ELSE <<>>]
<1>1. \A i \in DOMAIN s : s[i] \in S
  BY ElementOfSeq, LenProperties
<1>2. f \in [DOMAIN s -> Seq(S)]
  BY <1>1
<1>3. \A i \in DOMAIN s : ToSet(f[i]) = IF i \in keep THEN {s[i]} ELSE {}
  <2>1. \A x : ToSet(<<x>>) = {x}
    BY DEF ToSet
  <2>2. ToSet(<<>>) = {}
    BY DEF ToSet
  <2>3. QED
    BY <2>1, <2>2
<1>3a. \A i \in DOMAIN s : Len(f[i]) <= 1
  OBVIOUS
<1> HIDE DEF f
<1>4. f \in Seq(Seq(S)) /\ DOMAIN f = DOMAIN s /\ Len(f) = Len(s)
  BY <1>2, SameLength
<1>4a. Len(FlattenSeq(f)) <= Len(s)
  BY <1>3a, <1>4, FlatNoLonger
<1>5. FlattenSeq(f) \in Seq(S) /\ ToSet(FlattenSeq(f)) = UNION {ToSet(f[i]) : i \in DOMAIN s}
  BY <1>4, Flattened
<1>6. UNION {ToSet(f[i]) : i \in DOMAIN s} = {s[i] : i \in DOMAIN s \cap keep}
  BY <1>3
<1>7. QED
  BY <1>4a, <1>5, <1>6 DEF Kept, f

\* What a row shows are its cells, but for the empty ones.
LEMMA RowWords ==
  ASSUME NEW row \in Seq(Words)
  PROVE  RowText(row) \in Seq(Words) /\ ToSet(row) \ {Empty} \subseteq ToSet(RowText(row))
<1> DEFINE bar(i) == IF i = 1 THEN <<>> ELSE <<Bar>>
           cell(i) == IF row[i] = Empty THEN <<>> ELSE <<row[i]>>
           f == [i \in DOMAIN row |-> bar(i) \o cell(i)]
<1>1. \A i \in DOMAIN row : row[i] \in Words
  BY ElementOfSeq, LenProperties
<1>2. \A i \in DOMAIN row : bar(i) \in Seq(Words) /\ cell(i) \in Seq(Words)
  BY <1>1, LayoutWords
<1>3. \A i \in DOMAIN row : row[i] # Empty => row[i] \in ToSet(cell(i))
  BY DEF ToSet
<1> HIDE DEF bar, cell
<1>4. ASSUME NEW i \in DOMAIN row
      PROVE  /\ f[i] \in Seq(Words)
             /\ ToSet(f[i]) = ToSet(bar(i)) \cup ToSet(cell(i))
  BY <1>2, Joined
<1>5. f \in [DOMAIN row -> Seq(Words)]
  BY <1>4
<1> HIDE DEF f
<1>6. f \in Seq(Seq(Words)) /\ DOMAIN f = DOMAIN row
  BY <1>5, SameLength
<1>7. /\ FlattenSeq(f) \in Seq(Words)
      /\ ToSet(FlattenSeq(f)) = UNION {ToSet(f[i]) : i \in DOMAIN row}
  BY <1>6, Flattened
<1>8. ToSet(row) \ {Empty} \subseteq ToSet(FlattenSeq(f))
  <2>1. ASSUME NEW x \in ToSet(row), x # Empty PROVE x \in ToSet(FlattenSeq(f))
    <3>1. PICK i \in DOMAIN row : x = row[i]
      BY DEF ToSet
    <3>2. x \in ToSet(f[i])
      BY <1>3, <1>4, <2>1, <3>1
    <3>3. QED
      BY <1>7, <3>2
  <2>2. QED
    BY <2>1
<1>9. RowText(row) = FlattenSeq(f)
  BY DEF RowText, f, bar, cell
<1>10. QED
  BY <1>7, <1>8, <1>9

LEMMA CellOf ==
  ASSUME NEW rows, NEW x
  PROVE  x \in CellsIn(rows) <=> x # Empty /\ \E i \in DOMAIN rows : x \in ToSet(rows[i])
<1>1. x \in CellsIn(rows) <=> x # Empty /\ \E row \in ToSet(rows) : x \in ToSet(row)
  BY DEF CellsIn
<1>2. \A row : row \in ToSet(rows) <=> \E i \in DOMAIN rows : row = rows[i]
  BY Zenon DEF ToSet
<1>3. QED
  BY Zenon, <1>1, <1>2

LEMMA RowsWords ==
  ASSUME NEW rows \in Tables
  PROVE  RowsText(rows) \in Seq(Words) /\ CellsIn(rows) \subseteq ToSet(RowsText(rows))
<1> DEFINE f == [i \in DOMAIN rows |-> RowText(rows[i])]
<1>1. rows \in Seq(Seq(Words)) /\ \A i \in DOMAIN rows : rows[i] \in Seq(Words)
  BY ElementOfSeq, LenProperties DEF Tables
<1>2. ASSUME NEW i \in DOMAIN rows
      PROVE  f[i] \in Seq(Words) /\ ToSet(rows[i]) \ {Empty} \subseteq ToSet(f[i])
  BY <1>1, RowWords
<1>3. f \in [DOMAIN rows -> Seq(Words)]
  BY <1>2
<1> HIDE DEF f
<1>4. f \in Seq(Seq(Words)) /\ DOMAIN f = DOMAIN rows
  BY <1>1, <1>3, SameLength
<1>5. /\ FlattenSeq(f) \in Seq(Words)
      /\ ToSet(FlattenSeq(f)) = UNION {ToSet(f[i]) : i \in DOMAIN rows}
  BY <1>4, Flattened
<1>6. ASSUME NEW x \in CellsIn(rows) PROVE x \in ToSet(FlattenSeq(f))
  <2>1. PICK i \in DOMAIN rows : x \in ToSet(rows[i]) \ {Empty}
    BY CellOf
  <2>2. QED
    BY <1>2, <1>5, <2>1
<1>7. RowsText(rows) = FlattenSeq(f)
  BY DEF RowsText, f
<1>8. QED
  BY <1>5, <1>6, <1>7

LEMMA HeadWords ==
  ASSUME NEW headers \in Seq(Words)
  PROVE  /\ HeadText(headers) \in Seq(Words)
         /\ ToSet(headers) \ {Empty} \subseteq ToSet(HeadText(headers))
<1>1. /\ Kept(headers, Filled(headers)) \in Seq(Words)
      /\ ToSet(Kept(headers, Filled(headers)))
           = {headers[i] : i \in DOMAIN headers \cap Filled(headers)}
  BY KeptSeq
<1>2. <<Label>> \in Seq(Words)
  BY LayoutWords
<1> DEFINE kept == Kept(headers, Filled(headers))
<1>3. /\ HeadText(headers) \in Seq(Words)
      /\ ToSet(HeadText(headers)) = ToSet(<<Label>>) \cup ToSet(kept)
  <2>1. <<Label>> \o kept \in Seq(Words) /\ ToSet(<<Label>> \o kept) = ToSet(<<Label>>) \cup ToSet(kept)
    <3> HIDE DEF kept
    <3>1. kept \in Seq(Words)
      BY <1>1 DEF kept
    <3>2. QED
      BY <1>2, <3>1, Joined
  <2>2. QED
    BY <2>1 DEF HeadText
<1>4. ASSUME NEW x \in ToSet(headers), x # Empty PROVE x \in ToSet(HeadText(headers))
  <2>1. PICK i \in DOMAIN headers : x = headers[i]
    BY DEF ToSet
  <2>2. i \in Filled(headers)
    BY <1>4, <2>1 DEF Filled
  <2>3. QED
    BY <1>1, <1>3, <2>1, <2>2
<1>5. QED
  BY <1>3, <1>4

\* Only rows without a cell are left out.
LEMMA NotBlankRows ==
  ASSUME NEW rows \in Tables
  PROVE  /\ NotBlank(rows) \in Tables /\ Len(NotBlank(rows)) <= Len(rows)
         /\ CellsIn(NotBlank(rows)) = CellsIn(rows)
<1> DEFINE keep == {i \in DOMAIN rows : Filled(rows[i]) # {}}
<1>1. rows \in Seq(Seq(Words))
  BY DEF Tables
<1>2. /\ Kept(rows, keep) \in Seq(Seq(Words)) /\ Len(Kept(rows, keep)) <= Len(rows)
      /\ ToSet(Kept(rows, keep)) = {rows[i] : i \in DOMAIN rows \cap keep}
  BY <1>1, KeptSeq
<1>3. NotBlank(rows) = Kept(rows, keep)
  BY DEF NotBlank
<1>4. ToSet(NotBlank(rows)) \subseteq ToSet(rows)
  BY <1>2, <1>3 DEF ToSet
<1>5. ASSUME NEW x \in CellsIn(rows) PROVE x \in CellsIn(NotBlank(rows))
  <2>1. PICK i \in DOMAIN rows : x \in ToSet(rows[i]) /\ x # Empty
    BY CellOf
  <2>2. PICK j \in DOMAIN rows[i] : x = rows[i][j]
    BY <2>1 DEF ToSet
  <2>3. j \in Filled(rows[i])
    BY <2>1, <2>2 DEF Filled
  <2>4. rows[i] \in ToSet(NotBlank(rows))
    BY <1>2, <1>3, <2>3
  <2>5. QED
    <3>1. x \in UNION {ToSet(row) : row \in ToSet(NotBlank(rows))}
      BY <2>1, <2>4
    <3>2. QED
      BY Zenon, <2>1, <3>1 DEF CellsIn
<1>6. CellsIn(NotBlank(rows)) \subseteq CellsIn(rows)
  BY <1>4 DEF CellsIn
<1>7. QED
  BY <1>2, <1>3, <1>5, <1>6 DEF Tables

LEMMA RenderedWords ==
  ASSUME NEW headers \in Seq(Words), NEW rows \in Tables
  PROVE  /\ RenderedRows(headers, rows) \in Seq(Words)
         /\ (ToSet(headers) \ {Empty}) \cup CellsIn(rows) \subseteq ToSet(RenderedRows(headers, rows))
<1>1. NotBlank(rows) \in Tables /\ CellsIn(NotBlank(rows)) = CellsIn(rows)
  BY NotBlankRows
<1>2. /\ RowsText(NotBlank(rows)) \in Seq(Words)
      /\ CellsIn(rows) \subseteq ToSet(RowsText(NotBlank(rows)))
  BY <1>1, RowsWords
<1>3. HeadText(headers) \in Seq(Words) /\ ToSet(headers) \ {Empty} \subseteq ToSet(HeadText(headers))
  BY HeadWords
<1>4. /\ RenderedRows(headers, rows) \in Seq(Words)
      /\ ToSet(RenderedRows(headers, rows))
           = ToSet(HeadText(headers)) \cup ToSet(RowsText(NotBlank(rows)))
  BY <1>2, <1>3, Joined DEF RenderedRows
<1>5. QED
  BY <1>2, <1>3, <1>4

-----------------------------------------------------------------------------
(* What the extractors leave out *)

\* A text that is cut is warned of.
LEMMA CutIsWarnedOf ==
  ASSUME NEW text \in Seq(Words), NEW pages, NEW sheets, NEW warnings
  PROVE  LET e == Extraction(text, pages, sheets, warnings)
         IN  /\ e.text \in Seq(Words) /\ Len(e.text) <= MaxText
             /\ e.pages = pages /\ e.sheets = sheets
             /\ warnings \subseteq e.warnings
             /\ e.warnings = {} => e.text = text
<1> DEFINE e == Extraction(text, pages, sheets, warnings)
<1>1. /\ FirstOf(text, MaxText) \in Seq(Words)
      /\ Len(FirstOf(text, MaxText)) = IF MaxText < Len(text) THEN MaxText ELSE Len(text)
      /\ ~(Len(text) > MaxText) => FirstOf(text, MaxText) = text
  BY LimitsAssumption, FirstOfSeq
<1>2. Len(text) \in Nat /\ MaxText \in Nat
  BY LenProperties, LimitsAssumption
<1>3. /\ e.text = FirstOf(text, MaxText) /\ e.pages = pages /\ e.sheets = sheets
      /\ e.warnings = warnings \cup IF Len(text) > MaxText THEN {"truncated"} ELSE {}
  BY DEF Extraction, Truncated
<1> HIDE DEF e
<1>4. e.warnings = {} => ~(Len(text) > MaxText)
  BY <1>3
<1>5. QED
  BY <1>1, <1>2, <1>3, <1>4 DEF e

LEMMA PdfWords ==
  ASSUME NEW pages \in Tables
  PROVE  LET e == ExtractPdf(pages)
         IN  /\ e.text \in Seq(Words) /\ Len(e.text) <= MaxText
             /\ e.pages = pages /\ e.sheets = <<>>
             /\ e.warnings = {} => \A i \in DOMAIN pages : ToSet(pages[i]) \subseteq ToSet(e.text)
<1> DEFINE part(i) == IF pages[i] = <<>> THEN <<>> ELSE <<Label>> \o pages[i]
           f == [i \in DOMAIN pages |-> part(i)]
           text == FlattenSeq(f)
<1>1. pages \in Seq(Seq(Words)) /\ \A i \in DOMAIN pages : pages[i] \in Seq(Words)
  BY ElementOfSeq, LenProperties DEF Tables
<1>2. ASSUME NEW i \in DOMAIN pages
      PROVE  part(i) \in Seq(Words) /\ ToSet(pages[i]) \subseteq ToSet(part(i))
  <2>1. <<Label>> \in Seq(Words) /\ <<>> \in Seq(Words)
    BY LayoutWords
  <2>2. /\ <<Label>> \o pages[i] \in Seq(Words)
        /\ ToSet(<<Label>> \o pages[i]) = ToSet(<<Label>>) \cup ToSet(pages[i])
    BY <1>1, <2>1, Joined
  <2>3. QED
    BY <2>1, <2>2
<1> HIDE DEF part
<1>3. f \in [DOMAIN pages -> Seq(Words)] /\ \A i \in DOMAIN pages : f[i] = part(i)
  BY <1>2
<1>4. f \in Seq(Seq(Words)) /\ DOMAIN f = DOMAIN pages
  BY <1>1, <1>3, SameLength
<1> HIDE DEF f
<1>5. text \in Seq(Words) /\ ToSet(text) = UNION {ToSet(f[i]) : i \in DOMAIN pages}
  BY <1>4, Flattened
<1>6. \A i \in DOMAIN pages : ToSet(pages[i]) \subseteq ToSet(text)
  BY <1>2, <1>3, <1>5
<1> HIDE DEF text
<1>7. ExtractPdf(pages) = Extraction(text, pages, <<>>, {})
  BY DEF ExtractPdf, text, f, part
<1>8. QED
  BY <1>5, <1>6, <1>7, CutIsWarnedOf

LEMMA AfterHeader ==
  ASSUME NEW rows \in Tables, rows # <<>>
  PROVE  /\ rows[1] \in Seq(Words) /\ Tail(rows) \in Tables
         /\ CellsIn(rows) \subseteq (ToSet(rows[1]) \ {Empty}) \cup CellsIn(Tail(rows))
<1>1. /\ rows \in Seq(Seq(Words)) /\ Len(rows) \in Nat /\ Len(rows) # 0
      /\ DOMAIN rows = 1..Len(rows)
  BY EmptySeq, LenProperties DEF Tables
<1>2. rows[1] \in Seq(Words)
  BY <1>1, ElementOfSeq
<1>3. /\ Tail(rows) \in Seq(Seq(Words)) /\ Len(Tail(rows)) = Len(rows) - 1
      /\ \A i \in 1..Len(Tail(rows)) : Tail(rows)[i] = rows[i + 1]
  BY <1>1, HeadTailProperties
<1>4. DOMAIN Tail(rows) = 1..(Len(rows) - 1)
  BY <1>3, LenProperties
<1>5. ASSUME NEW x \in CellsIn(rows), x \notin ToSet(rows[1]) PROVE x \in CellsIn(Tail(rows))
  <2>1. PICK i \in DOMAIN rows : x \in ToSet(rows[i]) /\ x # Empty
    BY CellOf
  <2>2. i - 1 \in DOMAIN Tail(rows) /\ (i - 1) + 1 = i
    BY <1>1, <1>4, <1>5, <2>1
  <2>3. Tail(rows)[i - 1] = rows[i]
    BY <1>3, <1>4, <2>2
  <2>4. QED
    BY <2>1, <2>2, <2>3, CellOf
<1>6. \A x \in CellsIn(rows) : x # Empty
  BY CellOf
<1>7. QED
  BY <1>2, <1>3, <1>5, <1>6 DEF Tables

LEMMA CsvWords ==
  ASSUME NEW name, NEW all \in Tables, NEW h \in BOOLEAN
  PROVE  LET e == ExtractCsv(name, all, h)
         IN  /\ e.text \in Seq(Words) /\ Len(e.text) <= MaxText
             /\ e.pages = <<>> /\ Len(e.sheets) = 1
             /\ e.sheets[1].headers \in Seq(Words) /\ e.sheets[1].sample \in Tables
             /\ Len(e.sheets[1].sample) <= MaxRows
             /\ e.warnings = {} => CellsIn(all) \subseteq ToSet(e.text)
<1> DEFINE rows == FirstOf(all, MaxRows)
           headed == h /\ rows # <<>>
           headers == IF headed THEN rows[1] ELSE <<>>
           data == IF headers # <<>> THEN Tail(rows) ELSE rows
           sheet == [name |-> name, rowCount |-> Len(all), headers |-> headers,
                     sample |-> data, types |-> ColumnTypes(headers, data)]
           text == RenderedRows(headers, data)
           e == Extraction(text, <<>>, <<sheet>>, SampleWarning(sheet))
<1>0. MaxRows \in Nat
  BY LimitsAssumption
<1>1. /\ rows \in Tables /\ Len(rows) <= MaxRows /\ Len(rows) \in Nat
      /\ ~(Len(all) > MaxRows) => rows = all
  <2>1. /\ rows \in Seq(Seq(Words)) /\ Len(rows) = (IF MaxRows < Len(all) THEN MaxRows ELSE Len(all))
        /\ ~(Len(all) > MaxRows) => rows = all
    BY <1>0, FirstOfSeq DEF Tables
  <2>2. Len(all) \in Nat
    BY LenProperties DEF Tables
  <2>3. QED
    BY <1>0, <2>1, <2>2 DEF Tables
<1> HIDE DEF rows
<1>2. rows # <<>> => /\ Tail(rows) \in Tables /\ Len(Tail(rows)) = Len(rows) - 1
  <2>1. rows \in Seq(Seq(Words))
    BY <1>1 DEF Tables
  <2>2. QED
    BY <2>1, AfterHeader, HeadTailProperties, <1>1
<1>3. /\ headers \in Seq(Words) /\ data \in Tables /\ Len(data) <= MaxRows
      /\ CellsIn(rows) \subseteq (ToSet(headers) \ {Empty}) \cup CellsIn(data)
  <2>1. CASE headers # <<>>
    <3>1. rows # <<>> /\ headers = rows[1] /\ data = Tail(rows)
      BY <2>1
    <3>2. /\ rows[1] \in Seq(Words) /\ Tail(rows) \in Tables
          /\ CellsIn(rows) \subseteq (ToSet(rows[1]) \ {Empty}) \cup CellsIn(Tail(rows))
      BY <1>1, <3>1, AfterHeader
    <3>3. Len(Tail(rows)) <= MaxRows
      BY <1>0, <1>1, <1>2, <3>1
    <3>4. QED
      BY <3>1, <3>2, <3>3
  <2>2. CASE headers = <<>>
    <3>1. data = rows
      BY <2>2
    <3>2. <<>> \in Seq(Words)
      BY EmptySeq
    <3> HIDE DEF headers, data
    <3>3. headers \in Seq(Words)
      BY <2>2, <3>2
    <3>4. QED
      BY <1>1, <3>1, <3>3
  <2>3. QED
    BY <2>1, <2>2
<1> HIDE DEF headers, data
<1>4. /\ text \in Seq(Words)
      /\ (ToSet(headers) \ {Empty}) \cup CellsIn(data) \subseteq ToSet(text)
  BY <1>3, RenderedWords
<1> HIDE DEF text
<1>5. /\ sheet.rowCount = Len(all) /\ sheet.headers = headers /\ sheet.sample = data
      /\ SampleWarning(sheet) = IF Len(all) > MaxRows THEN {"sampled"} ELSE {}
  BY DEF SampleWarning, SampledOnly
<1> HIDE DEF sheet
<1>6. /\ e.text \in Seq(Words) /\ Len(e.text) <= MaxText
      /\ e.pages = <<>> /\ e.sheets = <<sheet>>
      /\ SampleWarning(sheet) \subseteq e.warnings
      /\ e.warnings = {} => e.text = text
  BY <1>4, CutIsWarnedOf
<1> HIDE DEF e
<1>7. e.warnings = {} => CellsIn(all) \subseteq ToSet(e.text)
  BY <1>1, <1>3, <1>4, <1>5, <1>6
<1>8. Len(e.sheets) = 1 /\ e.sheets[1] = sheet
  BY <1>6
<1>9. e = ExtractCsv(name, all, h)
  BY DEF ExtractCsv, e, text, sheet, data, headers, rows
<1>10. QED
  BY <1>3, <1>5, <1>6, <1>7, <1>8, <1>9

LEMMA SheetWords ==
  ASSUME NEW sheet \in [name : Words, rows : Tables, declared : Nat]
  PROVE  LET r == SheetOf(sheet)
         IN  /\ r.headers \in Seq(Words) /\ r.sample \in Tables /\ Len(r.sample) <= MaxRows
             /\ ~Understated(sheet) /\ SampleWarning(r) = {} =>
                  CellsIn(sheet.rows) \subseteq CellsIn(r.sample)
<1> DEFINE first == FirstOf(sheet.rows, MaxRows)
           sample == NotBlank(first)
           r == SheetOf(sheet)
<1>1. sheet.rows \in Seq(Seq(Words)) /\ Len(sheet.rows) \in Nat /\ MaxRows \in Nat
  BY LimitsAssumption, LenProperties DEF Tables
<1>2. /\ first \in Tables /\ Len(first) <= MaxRows /\ Len(first) \in Nat
      /\ ~(Len(sheet.rows) > MaxRows) => first = sheet.rows
  <2>1. /\ first \in Seq(Seq(Words))
        /\ Len(first) = IF MaxRows < Len(sheet.rows) THEN MaxRows ELSE Len(sheet.rows)
        /\ ~(Len(sheet.rows) > MaxRows) => first = sheet.rows
    BY <1>1, FirstOfSeq
  <2>2. QED
    BY <1>1, <2>1 DEF Tables
<1> HIDE DEF first
<1>3. sample \in Tables /\ Len(sample) <= MaxRows /\ CellsIn(sample) = CellsIn(first)
  <2>1. sample \in Tables /\ Len(sample) <= Len(first) /\ CellsIn(sample) = CellsIn(first)
    BY <1>2, NotBlankRows
  <2>2. Len(sample) \in Nat
    BY <2>1, LenProperties DEF Tables
  <2>3. QED
    BY <1>1, <1>2, <2>1, <2>2
<1> HIDE DEF sample
<1>4. /\ r.sample = sample
      /\ r.headers = IF sample = <<>> THEN <<>> ELSE sample[1]
      /\ r.rowCount = sheet.declared
  BY DEF SheetOf, sample, first
<1> HIDE DEF r
<1>5. r.headers \in Seq(Words)
  <2>1. CASE sample = <<>>
    BY <1>4, <2>1, EmptySeq
  <2>2. CASE sample # <<>>
    BY <1>3, <1>4, <2>2, AfterHeader
  <2>3. QED
    BY <2>1, <2>2
<1>6. ~Understated(sheet) /\ SampleWarning(r) = {} =>
         CellsIn(sheet.rows) \subseteq CellsIn(r.sample)
  <2>1. sheet.declared \in Nat
    OBVIOUS
  <2>2. QED
    BY <1>1, <1>2, <1>3, <1>4, <2>1 DEF SampleWarning, SampledOnly, Understated
<1>7. QED
  BY <1>3, <1>4, <1>5, <1>6 DEF r

LEMMA XlsxWords ==
  ASSUME NEW sheets \in Sheets
  PROVE  LET e == ExtractXlsx(sheets)
         IN  /\ e.text \in Seq(Words) /\ Len(e.text) <= MaxText
             /\ e.pages = <<>> /\ DOMAIN e.sheets = DOMAIN sheets
             /\ \A i \in DOMAIN sheets :
                  /\ e.sheets[i].headers \in Seq(Words) /\ e.sheets[i].sample \in Tables
                  /\ Len(e.sheets[i].sample) <= MaxRows
             /\ e.warnings = {} => \A i \in DOMAIN sheets :
                                    ~Understated(sheets[i]) =>
                                      CellsIn(sheets[i].rows) \subseteq ToSet(e.text)
<1> DEFINE r == [i \in DOMAIN sheets |-> SheetOf(sheets[i])]
           f == [i \in DOMAIN r |-> RenderedRows(r[i].headers, r[i].sample)]
           text == FlattenSeq(f)
           warnings == UNION {SampleWarning(r[i]) : i \in DOMAIN r}
           e == Extraction(text, <<>>, r, warnings)
<1>1. \A i \in DOMAIN sheets : sheets[i] \in [name : Words, rows : Tables, declared : Nat]
  BY ElementOfSeq, LenProperties DEF Sheets
<1>2. DOMAIN r = DOMAIN sheets /\ \A i \in DOMAIN sheets : r[i] = SheetOf(sheets[i])
  OBVIOUS
<1> HIDE DEF r
<1>3. ASSUME NEW i \in DOMAIN sheets
      PROVE  /\ r[i].headers \in Seq(Words) /\ r[i].sample \in Tables /\ Len(r[i].sample) <= MaxRows
             /\ ~Understated(sheets[i]) /\ SampleWarning(r[i]) = {} =>
                  CellsIn(sheets[i].rows) \subseteq CellsIn(r[i].sample)
  BY <1>1, <1>2, SheetWords
<1>4. ASSUME NEW i \in DOMAIN sheets
      PROVE  f[i] \in Seq(Words) /\ CellsIn(r[i].sample) \subseteq ToSet(f[i])
  BY <1>2, <1>3, RenderedWords
<1>5. f \in [DOMAIN sheets -> Seq(Words)]
  BY <1>2, <1>4
<1> HIDE DEF f
<1>6. f \in Seq(Seq(Words)) /\ DOMAIN f = DOMAIN sheets
  BY <1>5, SameLength DEF Sheets
<1>7. text \in Seq(Words) /\ ToSet(text) = UNION {ToSet(f[i]) : i \in DOMAIN sheets}
  BY <1>6, Flattened
<1> HIDE DEF text, warnings
<1>8. /\ e.text \in Seq(Words) /\ Len(e.text) <= MaxText
      /\ e.pages = <<>> /\ e.sheets = r
      /\ warnings \subseteq e.warnings
      /\ e.warnings = {} => e.text = text
  BY <1>7, CutIsWarnedOf
<1> HIDE DEF e
<1>9. ASSUME e.warnings = {}, NEW i \in DOMAIN sheets, ~Understated(sheets[i])
      PROVE  CellsIn(sheets[i].rows) \subseteq ToSet(e.text)
  <2>1. SampleWarning(r[i]) = {}
    BY <1>2, <1>8, <1>9 DEF warnings
  <2>2. CellsIn(sheets[i].rows) \subseteq ToSet(f[i])
    BY <1>3, <1>4, <1>9, <2>1
  <2>3. QED
    BY <1>7, <1>8, <1>9, <2>2
<1>10. e = ExtractXlsx(sheets)
  BY DEF ExtractXlsx, e, text, warnings, f, r
<1>11. QED
  BY <1>2, <1>3, <1>8, <1>9, <1>10

-----------------------------------------------------------------------------
(* Nothing of a document is lost without a word of it *)

\* What the worker may have extracted of an upload.
LEMMA ExtractionIs ==
  ASSUME IntakeInv, intake \in Types, NEW e \in Extractions
  PROVE  /\ e.text \in Seq(Words) /\ Len(e.text) <= MaxText
         /\ e.pages \in Tables /\ DOMAIN e.sheets \subseteq Nat
         /\ \A i \in DOMAIN e.sheets :
              /\ e.sheets[i].headers \in Seq(Words) /\ e.sheets[i].sample \in Tables
              /\ Len(e.sheets[i].sample) <= MaxRows
         /\ e.warnings = {} => WordsOf(file) \subseteq ToSet(e.text)
<1>1. file \in Files
  BY DEF IntakeInv
<1>2. <<>> \in Tables /\ DOMAIN <<>> \subseteq Nat
  BY EmptySeq DEF Tables
<1>3. CASE intake = "pdf"
  <2>1. file.suffix = ".pdf" /\ file.content \in Tables /\ e = ExtractPdf(file.content)
    BY <1>1, <1>3, ContentOfFiles DEF IntakeInv, Types, Extractions
  <2>2. /\ e.text \in Seq(Words) /\ Len(e.text) <= MaxText
        /\ e.pages = file.content /\ e.sheets = <<>>
        /\ e.warnings = {} =>
             \A i \in DOMAIN file.content : ToSet(file.content[i]) \subseteq ToSet(e.text)
    BY <2>1, PdfWords
  <2>3. WordsOf(file) = UNION {ToSet(page) : page \in ToSet(file.content)}
    BY <2>1 DEF WordsOf
  <2>4. WordsOf(file) = UNION {ToSet(file.content[i]) : i \in DOMAIN file.content}
    BY <2>3 DEF ToSet
  <2>5. QED
    BY <1>2, <2>1, <2>2, <2>4
<1>4. CASE intake = "csv"
  <2>1. file.suffix = ".csv" /\ file.content \in Tables
    BY <1>1, <1>4, ContentOfFiles DEF IntakeInv, Types
  <2>2. PICK h \in BOOLEAN : e = ExtractCsv("upload.csv", file.content, h)
    BY <1>4 DEF Extractions
  <2>3. /\ e.text \in Seq(Words) /\ Len(e.text) <= MaxText
        /\ e.pages = <<>> /\ Len(e.sheets) = 1
        /\ e.sheets[1].headers \in Seq(Words) /\ e.sheets[1].sample \in Tables
        /\ Len(e.sheets[1].sample) <= MaxRows
        /\ e.warnings = {} => CellsIn(file.content) \subseteq ToSet(e.text)
    BY <2>1, <2>2, CsvWords
  <2>4. WordsOf(file) = CellsIn(file.content)
    BY <2>1 DEF WordsOf
  <2>5. DOMAIN e.sheets = {1}
    BY <2>2 DEF ExtractCsv, Extraction
  <2>6. QED
    BY <1>2, <2>3, <2>4, <2>5
<1>5. CASE intake = "xlsx"
  <2>1. file.suffix = ".xlsx" /\ file.content \in Sheets /\ e = ExtractXlsx(file.content)
    BY <1>1, <1>5, ContentOfFiles DEF IntakeInv, Types, Extractions
  <2> DEFINE sheets == file.content
  <2>2. /\ e.text \in Seq(Words) /\ Len(e.text) <= MaxText
        /\ e.pages = <<>> /\ DOMAIN e.sheets = DOMAIN sheets
        /\ \A i \in DOMAIN sheets :
             /\ e.sheets[i].headers \in Seq(Words) /\ e.sheets[i].sample \in Tables
             /\ Len(e.sheets[i].sample) <= MaxRows
        /\ e.warnings = {} => \A i \in DOMAIN sheets :
                               ~Understated(sheets[i]) =>
                                      CellsIn(sheets[i].rows) \subseteq ToSet(e.text)
    BY <2>1, XlsxWords
  <2>3. ASSUME e.warnings = {} PROVE WordsOf(file) \subseteq ToSet(e.text)
    <3>1. WordsOf(file) = UNION {CellsIn(s.rows) : s \in {s \in ToSet(sheets) : ~Understated(s)}}
      BY <2>1 DEF WordsOf
    <3>2. \A s \in ToSet(sheets) : ~Understated(s) => CellsIn(s.rows) \subseteq ToSet(e.text)
      BY <2>2, <2>3 DEF ToSet
    <3>3. QED
      BY <3>1, <3>2
  <2>4. DOMAIN sheets \subseteq Nat
    <3>1. sheets \in Sheets
      BY <2>1
    <3>2. QED
      BY <3>1, LenProperties DEF Sheets
  <2>5. QED
    BY <1>2, <2>2, <2>3, <2>4
<1>6. QED
  BY <1>3, <1>4, <1>5 DEF Types

\* extract_document, truncate_text: for a document of any size and any limits,
\* whatever word the extraction leaves out of its text it warns of, as long as that
\* word is not on a worksheet that has more rows than the sample and declares no
\* more than the sample holds (Understated): such rows the code leaves out without
\* a warning. What a prompt leaves out is another matter (TruncationIsWarned).
THEOREM LossesAreWarned == Spec => []LossIsWarned
<1>1. IntakeInv /\ WorkInv => LossIsWarned
  <2>1. SUFFICES ASSUME IntakeInv, WorkInv, Extracted, ext.warnings = {}
                 PROVE  WordsOf(file) \subseteq ToSet(ext.text)
    BY DEF LossIsWarned
  <2>2. intake \in Types /\ ext \in Extractions
    BY <2>1 DEF WorkInv, Extracted, Prompted, AgentPrompted
  <2>3. QED
    BY <2>1, <2>2, ExtractionIs
<1>2. QED
  BY <1>1, WorkHolds, PTL

-----------------------------------------------------------------------------
(* The inferred types of columns *)

\* Rows have a greatest width.
LEMMA WidthIsANumber ==
  ASSUME NEW rows \in Tables, rows # <<>>
  PROVE  Widest(rows) \in Nat
<1> DEFINE n == Len(rows)
           Bound(m, u) == \A k \in 1..m : Len(rows[k]) <= u
           G == {m \in 1..n : \E u \in Nat : Bound(m, u)}
           widths == {Len(row) : row \in ToSet(rows)}
<1>1. /\ n \in Nat /\ n >= 1 /\ DOMAIN rows = 1..n
      /\ \A k \in 1..n : Len(rows[k]) \in Nat
  <2>1. rows \in Seq(Seq(Words))
    BY DEF Tables
  <2>2. n \in Nat /\ DOMAIN rows = 1..n /\ n # 0
    BY <2>1, EmptySeq, LenProperties
  <2>3. \A k \in 1..n : rows[k] \in Seq(Words)
    BY <2>1, ElementOfSeq
  <2>4. QED
    BY <2>2, <2>3, LenProperties
<1> HIDE DEF n
<1>2. 1 \in G
  BY <1>1
<1>3. ASSUME NEW m \in 1..(n - 1), m \in G PROVE m + 1 \in G
  <2>1. PICK u \in Nat : Bound(m, u)
    BY <1>3
  <2>2. m + 1 \in 1..n /\ m \in Nat
    BY <1>1
  <2>3. Len(rows[m + 1]) \in Nat
    BY <1>1, <2>2
  <2> DEFINE top == IF Len(rows[m + 1]) <= u THEN u ELSE Len(rows[m + 1])
  <2>4. top \in Nat /\ u <= top /\ Len(rows[m + 1]) <= top
    BY <2>3
  <2> HIDE DEF top
  <2>5. ASSUME NEW k \in 1..(m + 1) PROVE Len(rows[k]) <= top
    <3>1. k = m + 1 \/ k \in 1..m
      BY <2>2
    <3>2. CASE k = m + 1
      BY <2>4, <3>2
    <3>3. CASE k \in 1..m
      <4>1. Len(rows[k]) <= u /\ Len(rows[k]) \in Nat
        BY <1>1, <2>1, <2>2, <3>3
      <4>2. QED
        BY <2>4, <4>1
    <3>4. QED
      BY <3>1, <3>2, <3>3
  <2>6. QED
    BY <2>2, <2>4, <2>5
<1>4. n \in G
  <2> HIDE DEF G
  <2>1. 1..n \subseteq G
    BY <1>1, <1>2, <1>3, UpTo
  <2>2. QED
    BY <1>1, <2>1
<1>5. widths \subseteq Nat /\ widths # {} /\ \A w \in widths : \E k \in 1..n : w = Len(rows[k])
  <2>1. widths = {Len(rows[k]) : k \in 1..n}
    BY <1>1 DEF ToSet
  <2> HIDE DEF widths
  <2>2. 1 \in 1..n
    BY <1>1
  <2>3. QED
    BY <1>1, <2>1, <2>2
<1> HIDE DEF widths
<1>6. PICK bound \in Nat : \A w \in widths : w <= bound
  BY <1>4, <1>5
<1> DEFINE gaps == {bound - w : w \in widths}
<1>7. PICK w \in widths : \A v \in widths : bound - w <= bound - v
  <2>1. \A v \in widths : bound - v \in Nat
    BY <1>5, <1>6
  <2>2. gaps \subseteq Nat /\ gaps # {}
    BY <1>5, <2>1
  <2>3. PICK g \in gaps : \A h \in gaps : g <= h
    <3> HIDE DEF gaps
    <3>1. QED
      BY <2>2, LeastNumber
  <2>4. QED
    BY <2>3
<1>8. w \in widths /\ \A v \in widths : w >= v
  BY <1>5, <1>7
<1>9. Max(widths) \in widths
  BY <1>8 DEF Max
<1>10. QED
  BY <1>5, <1>9 DEF Widest, widths

\* The inferred type is one that all the values have.
LEMMA TypeFits ==
  ASSUME NEW values, NEW v \in values
  PROVE  InferType(values) = "string" \/ InferType(values) \in Parses[v]
<1> DEFINE passed == {i \in DOMAIN Tests : \A x \in values : Tests[i] \in Parses[x]}
<1>1. passed \subseteq Nat
  BY DEF Tests
<1>2. CASE passed = {}
  <2>1. InferType(values) = "string"
    BY <1>2 DEF InferType
  <2>2. QED
    BY <2>1
<1>3. CASE passed # {}
  <2>1. InferType(values) = Tests[Min(passed)]
    BY <1>3 DEF InferType
  <2>2. Min(passed) \in passed
    <3> HIDE DEF passed
    <3>1. \E i \in passed : \A j \in passed : i <= j
      BY <1>1, <1>3, LeastNumber
    <3>2. QED
      BY <3>1 DEF Min
  <2>3. QED
    BY <2>1, <2>2
<1>4. QED
  BY <1>2, <1>3

\* A column whose name is its own has the type inferred of its own values.
LEMMA OwnType ==
  ASSUME NEW headers, NEW rows \in Tables, rows # <<>>, NEW i \in 1..Widest(rows),
         \A k \in 1..Widest(rows) : ColumnName(headers, k) = ColumnName(headers, i) => k = i
  PROVE  LET types == ColumnTypes(headers, rows)
         IN  /\ ColumnName(headers, i) \in DOMAIN types
             /\ types[ColumnName(headers, i)] = InferType(Column(rows, i))
<1> DEFINE columns == 1..Widest(rows)
           name(k) == ColumnName(headers, k)
           named(n) == {k \in columns : name(k) = n}
<1>1. i \in columns /\ i \in Int
  BY WidthIsANumber
<1>2. named(name(i)) = {i}
  BY <1>1
<1>3. Max({i}) = i
  BY <1>1 DEF Max
<1>4. ColumnTypes(headers, rows) =
        [n \in {name(k) : k \in columns} |-> InferType(Column(rows, Max(named(n))))]
  BY DEF ColumnTypes
<1> HIDE DEF columns, name, named
<1>5. name(i) \in {name(k) : k \in columns}
  BY <1>1
<1>6. QED
  BY <1>2, <1>3, <1>4, <1>5 DEF name

\* infer_column_types, infer_type: for rows of any length, with or without a header
\* row, and whatever the tests of a value, the type given to a column with a name of
\* its own is "string" or one that every value of it passes.
THEOREM TypesFit == Spec => []ColumnTypesFit
<1>1. ASSUME IntakeInv, WorkInv, intake = "csv", Prompted
      PROVE  ColumnTypesFit
  <2> DEFINE sheet == ext.sheets[1]
             rows == sheet.sample
             name(i) == ColumnName(sheet.headers, i)
             width == IF rows = <<>> THEN 0 ELSE Max({Len(r) : r \in ToSet(rows)})
  <2>1. PICK h \in BOOLEAN : ext = ExtractCsv("upload.csv", file.content, h)
    BY <1>1 DEF WorkInv, Prompted, AgentPrompted, Extractions
  <2>2. rows \in Tables
    <3>1. file \in Files /\ file.suffix = ".csv"
      BY <1>1 DEF IntakeInv, Types
    <3>2. file.content \in Tables
      BY <3>1, ContentOfFiles
    <3>3. QED
      BY <2>1, <3>2, CsvWords
  <2>3. sheet.types = ColumnTypes(sheet.headers, rows)
    BY <2>1 DEF ExtractCsv, Extraction
  <2> HIDE DEF sheet
  <2>4. ASSUME NEW i \in 1..width, \A k \in 1..width : name(k) = name(i) => k = i
        PROVE  /\ name(i) \in DOMAIN sheet.types
               /\ \A row \in ToSet(rows) :
                    i <= Len(row) /\ row[i] # Empty =>
                      sheet.types[name(i)] = "string" \/ sheet.types[name(i)] \in Parses[row[i]]
    <3>1. rows # <<>>
      BY <2>4
    <3>2. width = Widest(rows)
      BY <3>1 DEF Widest
    <3> HIDE DEF rows, width
    <3>3. /\ name(i) \in DOMAIN sheet.types
          /\ sheet.types[name(i)] = InferType(Column(rows, i))
      BY <2>2, <2>3, <2>4, <3>1, <3>2, OwnType
    <3>4. ASSUME NEW row \in ToSet(rows), i <= Len(row), row[i] # Empty
          PROVE  row[i] \in Column(rows, i)
      BY <3>4 DEF Column
    <3>5. QED
      BY <3>3, <3>4, TypeFits
  <2>5. QED
    BY <2>4 DEF ColumnTypesFit, sheet
<1>2. IntakeInv /\ WorkInv => ColumnTypesFit
  BY <1>1 DEF ColumnTypesFit
<1>3. QED
  BY <1>2, WorkHolds, PTL

-----------------------------------------------------------------------------
(* The lookup of a citation *)

LEMMA FiniteWords ==
  ASSUME NEW S, NEW s \in Seq(S)
  PROVE  IsFiniteSet(ToSet(s)) /\ IsFiniteSet(Terms(s))
<1>1. Len(s) \in Nat /\ DOMAIN s = 1..Len(s) /\ s = [i \in 1..Len(s) |-> s[i]]
  BY LenProperties
<1>2. s \in Surjection(1..Len(s), ToSet(s))
  BY <1>1 DEF Surjection, ToSet
<1>3. IsFiniteSet(1..Len(s))
  <2>1. 1 \in Int /\ Len(s) \in Int
    BY <1>1
  <2>2. QED
    BY <2>1, FS_Interval
<1>4. IsFiniteSet(ToSet(s))
  BY <1>2, <1>3, FS_Surjection
<1>5. QED
  BY <1>4, FS_Subset DEF Terms

\* More words hold no fewer terms.
LEMMA ScoreGrows ==
  ASSUME NEW terms, IsFiniteSet(terms), NEW part, NEW whole, ToSet(part) \subseteq ToSet(whole)
  PROVE  /\ Score(terms, part) \in Nat /\ Score(terms, whole) \in Nat
         /\ Score(terms, part) <= Score(terms, whole)
         /\ Score(terms, whole) <= Cardinality(terms) /\ Cardinality(terms) \in Nat
<1>1. terms \cap Terms(part) \in SUBSET (terms \cap Terms(whole))
  BY DEF Terms
<1>2. /\ IsFiniteSet(terms \cap Terms(part)) /\ IsFiniteSet(terms \cap Terms(whole))
      /\ Cardinality(terms \cap Terms(whole)) <= Cardinality(terms)
  BY FS_Intersection
<1>3. Cardinality(terms \cap Terms(part)) <= Cardinality(terms \cap Terms(whole))
  BY <1>1, <1>2, FS_Subset
<1>4. QED
  BY <1>2, <1>3, FS_CardinalityType DEF Score

LEMMA EnoughIsANumber ==
  ASSUME NEW terms, Cardinality(terms) \in Nat
  PROVE  CloseEnough(terms) \in Nat /\ CloseEnough(terms) >= 2
<1> DEFINE half == Cardinality(terms) \div 2
           S == {2, half}
           max == CHOOSE x \in S : \A y \in S : x >= y
<1>1. half \in Nat
  OBVIOUS
<1> HIDE DEF half
<1>2. \E x \in S : \A y \in S : x >= y
  BY <1>1
<1>3. max \in S /\ max >= 2
  BY <1>2
<1>4. CloseEnough(terms) = max
  BY DEF CloseEnough, Max, half
<1> HIDE DEF max
<1>5. QED
  BY <1>1, <1>3, <1>4

\* The windows of a text begin at its first word, and a step apart.
LEMMA WindowBefore ==
  ASSUME NEW S, NEW source \in Seq(S), NEW k \in 0..(Len(source) - 1)
  PROVE  \E w \in WindowStarts(source) : w <= k /\ k < w + WindowStep
<1>1. WindowStep \in Nat \ {0} /\ k \in Nat /\ Len(source) \in Nat
  BY LimitsAssumption, LenProperties
<1> DEFINE q == k \div WindowStep
           w == q * WindowStep
<1>2. q \in Nat /\ k = w + (k % WindowStep) /\ k % WindowStep \in 0..(WindowStep - 1)
  BY <1>1
<1>3. w % WindowStep = 0 /\ w \in Nat
  <2>1. q \in Nat
    BY <1>2
  <2> HIDE DEF q
  <2>2. QED
    BY <1>1, <2>1
<1> HIDE DEF w
<1>4. w <= k /\ k < w + WindowStep
  <2>1. \A r \in 0..(WindowStep - 1) : k = w + r => w <= k /\ k < w + WindowStep
    BY <1>1, <1>3
  <2>2. QED
    BY <1>2, <2>1
<1>5. w \in WindowStarts(source)
  BY <1>1, <1>3, <1>4 DEF WindowStarts
<1>6. QED
  BY <1>4, <1>5

LEMMA WindowOf ==
  ASSUME NEW S, NEW source \in Seq(S), NEW w \in 0..(Len(source) - 1)
  PROVE  /\ WindowAt(source, w) \in Seq(S)
         /\ Len(WindowAt(source, w)) = IF Window < Len(source) - w THEN Window ELSE Len(source) - w
         /\ \A i \in 1..Len(WindowAt(source, w)) : WindowAt(source, w)[i] = source[w + i]
<1> DEFINE rest == SubSeq(source, w + 1, Len(source))
<1>1. Len(source) \in Nat /\ w \in Nat /\ w < Len(source) /\ Window \in Nat
  BY LimitsAssumption, LenProperties
<1>2. rest = Part(source, w, Len(source))
  <2>1. w + Len(source) < Len(source) => w + Len(source) = Len(source)
    BY <1>1
  <2>2. QED
    BY <2>1 DEF Part
<1>3. w <= Len(source) /\ ~(w + Len(source) < Len(source))
  BY <1>1
<1>4. /\ rest \in Seq(S) /\ Len(rest) = Len(source) - w
      /\ \A i \in 1..Len(rest) : rest[i] = source[w + i]
  <2> HIDE DEF rest
  <2>1. ASSUME NEW n \in Nat, ~(w + n < Len(source))
        PROVE  /\ Part(source, w, n) \in Seq(S)
               /\ Len(Part(source, w, n)) = Len(source) - w
               /\ \A i \in 1..Len(Part(source, w, n)) : Part(source, w, n)[i] = source[w + i]
    BY <1>1, <1>3, <2>1, PartOf
  <2>2. QED
    BY <1>1, <1>2, <1>3, <2>1
<1> HIDE DEF rest
<1>5. /\ FirstOf(rest, Window) \in Seq(S)
      /\ Len(FirstOf(rest, Window)) = IF Window < Len(rest) THEN Window ELSE Len(rest)
      /\ \A i \in 1..Len(FirstOf(rest, Window)) : FirstOf(rest, Window)[i] = rest[i]
  BY <1>1, <1>4, FirstOfSeq
<1>6. WindowAt(source, w) = FirstOf(rest, Window)
  BY DEF WindowAt, rest
<1>7. Len(FirstOf(rest, Window)) \in Nat /\ Len(FirstOf(rest, Window)) <= Len(rest)
  BY <1>1, <1>4, <1>5
<1>8. QED
  BY <1>1, <1>4, <1>5, <1>6, <1>7

\* A run that is one word longer than the overlap of two windows, or shorter, is
\* within one of them.
LEMMA RunInAWindow ==
  ASSUME NEW S, NEW source \in Seq(S), NEW n \in 1..(Window - WindowStep + 1),
         NEW run \in Runs(source, n)
  PROVE  \E w \in WindowStarts(source) : ToSet(run) \subseteq ToSet(WindowAt(source, w))
<1>1. /\ Len(source) \in Nat /\ n \in Nat /\ n >= 1 /\ n <= Window - WindowStep + 1
      /\ Window \in Nat /\ WindowStep \in Nat \ {0} /\ WindowStep <= Window
  BY LimitsAssumption, LenProperties
<1>2. PICK k \in 1..(1 + Len(source) - n) : run = SubSeq(source, k, k + n - 1)
  BY DEF Runs
<1>3. k \in Nat /\ k >= 1 /\ k + n - 1 <= Len(source) /\ k - 1 \in 0..(Len(source) - 1)
  BY <1>1
<1>4. PICK w \in WindowStarts(source) : w <= k - 1 /\ k - 1 < w + WindowStep
  BY <1>3, WindowBefore
<1>5. w \in 0..(Len(source) - 1) /\ w \in Nat
  BY DEF WindowStarts
<1> DEFINE window == WindowAt(source, w)
           m == Len(window)
<1>6. /\ window \in Seq(S) /\ m = (IF Window < Len(source) - w THEN Window ELSE Len(source) - w)
      /\ \A i \in 1..m : window[i] = source[w + i]
  BY <1>5, WindowOf
<1>7. m \in Nat /\ DOMAIN window = 1..m
  BY <1>6, LenProperties
<1> HIDE DEF window, m
<1>8. k + n - 1 - w <= m
  BY <1>1, <1>3, <1>4, <1>5, <1>6
<1>9. /\ DOMAIN run = 1..n
      /\ \A i \in 1..n : run[i] = source[k + i - 1]
  <2>1. \A i \in k..(k + n - 1) : source[i] \in S
    <3>1. \A i \in k..(k + n - 1) : i \in 1..Len(source)
      BY <1>1, <1>3
    <3>2. QED
      BY <3>1, ElementOfSeq
  <2>2. k + n - 1 \in Int /\ (k + n - 1) - k + 1 = n /\ k <= k + n - 1
    BY <1>1, <1>3
  <2>3. /\ run \in Seq(S) /\ Len(run) = n
        /\ \A i \in 1..n : run[i] = source[k + i - 1]
    BY <1>2, <1>3, <2>1, <2>2, SubSeqProperties
  <2>4. QED
    BY <2>3, LenProperties
<1>10. ASSUME NEW i \in 1..n PROVE run[i] \in ToSet(window)
  <2>1. k + i - 1 - w \in 1..m /\ w + (k + i - 1 - w) = k + i - 1
    BY <1>1, <1>3, <1>4, <1>5, <1>7, <1>8
  <2>2. window[k + i - 1 - w] = run[i]
    BY <1>6, <1>9, <2>1
  <2>3. QED
    BY <1>7, <2>1, <2>2 DEF ToSet
<1>11. ToSet(run) \subseteq ToSet(window)
  BY <1>9, <1>10 DEF ToSet
<1>12. QED
  BY <1>11 DEF window

Best(terms, source, i) ==
  \A j \in WindowStarts(source) :
    \/ Score(terms, WindowAt(source, j)) < Score(terms, WindowAt(source, i))
    \/ Score(terms, WindowAt(source, j)) = Score(terms, WindowAt(source, i)) /\ i <= j

\* Of the windows of a text that is not empty one is the best.
LEMMA BestExists ==
  ASSUME NEW S, NEW source \in Seq(S), source # <<>>, NEW terms, IsFiniteSet(terms)
  PROVE  \E i \in WindowStarts(source) : Best(terms, source, i)
<1> DEFINE starts == WindowStarts(source)
           score(i) == Score(terms, WindowAt(source, i))
           all == Cardinality(terms)
           gap(i) == all - score(i)
           gaps == {gap(i) : i \in starts}
<1>1. ASSUME NEW i \in starts PROVE score(i) \in Nat /\ score(i) <= all /\ all \in Nat
  BY ScoreGrows
<1>2. starts \subseteq Nat /\ starts # {}
  <2>1. Len(source) \in Nat /\ Len(source) # 0
    BY EmptySeq, LenProperties
  <2>2. 0 \in 0..(Len(source) - 1)
    BY <2>1
  <2>3. \E w \in starts : TRUE
    BY <2>2, WindowBefore
  <2>4. starts \subseteq Nat
    BY DEF WindowStarts
  <2>5. QED
    BY <2>3, <2>4
<1> HIDE DEF starts, score, all
<1>3. gaps \subseteq Nat /\ gaps # {}
  <2>1. \A i \in starts : gap(i) \in Nat
    BY <1>1
  <2> HIDE DEF gap
  <2>2. QED
    BY <1>2, <2>1
<1>4. PICK least \in gaps : \A g \in gaps : least <= g
  <2> HIDE DEF gaps
  <2>1. QED
    BY <1>3, LeastNumber
<1> DEFINE closest == {i \in starts : gap(i) = least}
<1>5. closest \subseteq Nat /\ closest # {}
  BY <1>2, <1>4
<1>6. PICK i \in closest : \A j \in closest : i <= j
  <2> HIDE DEF closest
  <2>1. QED
    BY <1>5, LeastNumber
<1>7. ASSUME NEW j \in starts PROVE score(j) < score(i) \/ (score(j) = score(i) /\ i <= j)
  <2>1. i \in starts /\ gap(i) = least /\ gap(i) <= gap(j)
    BY <1>4, <1>6
  <2>2. score(j) <= score(i)
    BY <1>1, <2>1
  <2>3. score(j) = score(i) => i <= j
    BY <1>6, <2>1
  <2>4. QED
    BY <1>1, <2>1, <2>2, <2>3
<1>8. QED
  BY <1>6, <1>7 DEF Best, score, starts

\* The best window is taken if it is close enough, and no other is closer.
LEMMA ClosestIsBest ==
  ASSUME NEW S, NEW source \in Seq(S), source # <<>>, NEW snippet, IsFiniteSet(Terms(snippet))
  PROVE  \E i \in WindowStarts(source) :
           /\ \A j \in WindowStarts(source) :
                Score(Terms(snippet), WindowAt(source, j)) <= Score(Terms(snippet), WindowAt(source, i))
           /\ ClosestWindow(snippet, source) =
                IF Score(Terms(snippet), WindowAt(source, i)) >= CloseEnough(Terms(snippet))
                THEN FirstOf(WindowAt(source, i), MaxSnippet) ELSE <<>>
<1> DEFINE terms == Terms(snippet)
           best == CHOOSE i \in WindowStarts(source) : Best(terms, source, i)
<1>1. best \in WindowStarts(source) /\ Best(terms, source, best)
  BY BestExists
<1>2. ClosestWindow(snippet, source) =
        IF Score(terms, WindowAt(source, best)) >= CloseEnough(terms)
        THEN FirstOf(WindowAt(source, best), MaxSnippet) ELSE <<>>
  BY DEF ClosestWindow, Best
<1> HIDE DEF best, terms
<1>3. \A j \in WindowStarts(source) : Score(terms, WindowAt(source, j)) \in Nat
  BY ScoreGrows DEF terms
<1>4. \A j \in WindowStarts(source) :
         Score(terms, WindowAt(source, j)) <= Score(terms, WindowAt(source, best))
  BY <1>1, <1>3 DEF Best
<1>5. QED
  BY <1>1, <1>2, <1>4 DEF terms

\* What a replaced quotation is cut from: the first words of a window.
LEMMA WindowIsRun ==
  ASSUME NEW S, NEW source \in Seq(S), NEW w \in WindowStarts(source)
  PROVE  LET cutting == FirstOf(WindowAt(source, w), MaxSnippet)
         IN  cutting \in Seq(S) /\ Occurs(cutting, source)
<1> DEFINE window == WindowAt(source, w)
           c == FirstOf(window, MaxSnippet)
           n == Len(c)
<1>1. /\ Len(source) \in Nat /\ w \in 0..(Len(source) - 1) /\ w \in Nat
      /\ MaxSnippet \in Nat \ {0} /\ Window \in Nat \ {0}
  BY LimitsAssumption, LenProperties DEF WindowStarts
<1>2. /\ window \in Seq(S)
      /\ Len(window) = IF Window < Len(source) - w THEN Window ELSE Len(source) - w
      /\ \A i \in 1..Len(window) : window[i] = source[w + i]
  BY <1>1, WindowOf
<1> HIDE DEF window
<1>3. /\ c \in Seq(S)
      /\ Len(c) = IF MaxSnippet < Len(window) THEN MaxSnippet ELSE Len(window)
      /\ \A i \in 1..Len(c) : c[i] = window[i]
  BY <1>1, <1>2, FirstOfSeq
<1> HIDE DEF c
<1>4. n \in Nat /\ n >= 1 /\ n <= Len(window) /\ w + n <= Len(source)
  BY <1>1, <1>2, <1>3
<1> HIDE DEF n
<1>5. \A i \in 1..n : c[i] = source[w + i]
  BY <1>2, <1>3, <1>4 DEF n
<1> DEFINE r == SubSeq(source, w + 1, w + 1 + n - 1)
<1>6. /\ r \in Seq(S) /\ Len(r) = n
      /\ \A i \in 1..n : r[i] = source[w + i]
  <2>1. \A i \in (w + 1)..(w + 1 + n - 1) : source[i] \in S
    <3>1. \A i \in (w + 1)..(w + 1 + n - 1) : i \in 1..Len(source)
      BY <1>1, <1>4
    <3>2. QED
      BY <3>1, ElementOfSeq
  <2>2. /\ w + 1 \in Int /\ w + 1 + n - 1 \in Int /\ w + 1 <= w + 1 + n - 1
        /\ (w + 1 + n - 1) - (w + 1) + 1 = n
    BY <1>1, <1>4
  <2>3. /\ r \in Seq(S) /\ Len(r) = n
        /\ \A i \in 1..n : r[i] = source[(w + 1) + i - 1]
    BY <2>1, <2>2, SubSeqProperties
  <2>4. \A i \in 1..n : (w + 1) + i - 1 = w + i
    BY <1>1, <1>4
  <2>5. QED
    BY <2>3, <2>4
<1> HIDE DEF r
<1>7. r = c
  BY <1>3, <1>5, <1>6, SeqEqual DEF n
<1>8. c \in Runs(source, n)
  <2>1. w + 1 \in 1..(1 + Len(source) - n)
    BY <1>1, <1>4
  <2>2. QED
    BY <1>7, <2>1 DEF Runs, r
<1>9. c # <<>>
  BY <1>4, EmptySeq DEF n
<1>10. QED
  BY <1>3, <1>8, <1>9 DEF Occurs, c, n, window

LEMMA PageIsText ==
  ASSUME NEW e, e.pages \in Tables, NEW page
  PROVE  PageText(e, page) \in Seq(Words)
<1> DEFINE f == [i \in DOMAIN e.pages |-> IF ToString(i) = page THEN e.pages[i] ELSE <<>>]
<1>1. e.pages \in Seq(Seq(Words)) /\ <<>> \in Seq(Words)
  BY EmptySeq DEF Tables
<1>2. \A i \in DOMAIN e.pages : e.pages[i] \in Seq(Words)
  BY <1>1, ElementOfSeq, LenProperties
<1>3. f \in [DOMAIN e.pages -> Seq(Words)]
  BY <1>1, <1>2
<1> HIDE DEF f
<1>4. f \in Seq(Seq(Words))
  BY <1>1, <1>3, SameLength
<1>5. FlattenSeq(f) \in Seq(Words)
  BY <1>4, Flattened
<1>6. QED
  BY <1>5 DEF PageText, f

LEMMA SheetIsText ==
  ASSUME NEW e, DOMAIN e.sheets \subseteq Nat, NEW name,
         \A i \in DOMAIN e.sheets : e.sheets[i].headers \in Seq(Words) /\ e.sheets[i].sample \in Tables
  PROVE  SheetText(e, name) \in Seq(Words)
<1> DEFINE named == {i \in DOMAIN e.sheets : e.sheets[i].name = name}
           first == Min(named)
           sheet == e.sheets[first]
<1>1. CASE named = {}
  BY <1>1, EmptySeq DEF SheetText
<1>2. CASE named # {}
  <2>1. \E i \in named : \A j \in named : i <= j
    <3>1. named \subseteq Nat
      OBVIOUS
    <3> HIDE DEF named
    <3>2. QED
      BY <1>2, <3>1, LeastNumber
  <2>2. first \in named
    <3> HIDE DEF named
    <3>1. QED
      BY <2>1 DEF Min
  <2>3. sheet.headers \in Seq(Words) /\ sheet.sample \in Tables
    BY <2>2
  <2>4. SheetText(e, name) = HeadText(sheet.headers) \o RowsText(sheet.sample)
    BY <1>2 DEF SheetText
  <2> HIDE DEF sheet
  <2>5. HeadText(sheet.headers) \in Seq(Words) /\ RowsText(sheet.sample) \in Seq(Words)
    BY <2>3, HeadWords, RowsWords
  <2>6. QED
    BY <2>4, <2>5, ConcatProperties
<1>3. QED
  BY <1>1, <1>2

\* Where a citation is looked up is a text, whatever place it names.
LEMMA SourceIsText ==
  ASSUME IntakeInv, WorkInv, ext \in Extractions, intake \in Types, NEW c
  PROVE  SourceFor(ext, c) \in Seq(Words)
<1>1. /\ ext.text \in Seq(Words)
      /\ ext.pages \in Tables /\ DOMAIN ext.sheets \subseteq Nat
      /\ \A i \in DOMAIN ext.sheets :
           ext.sheets[i].headers \in Seq(Words) /\ ext.sheets[i].sample \in Tables
  BY ExtractionIs
<1>2. PageText(ext, c.page) \in Seq(Words) /\ SheetText(ext, c.sheet) \in Seq(Words)
  BY <1>1, PageIsText, SheetIsText
<1>3. QED
  BY <1>1, <1>2 DEF SourceFor

\* A quotation that is looked up, and what comes of it.
LEMMA LookedUp ==
  ASSUME IntakeInv, WorkInv, stage = "checked"
  PROVE  LET source == SourceFor(ext, cited)
             revised == ClosestWindow(cited.snippet, source)
             found == Occurs(cited.snippet, source)
         IN  /\ source \in Seq(Words) /\ cited.snippet \in Seq(Words)
             /\ checked.page = cited.page /\ checked.sheet = cited.sheet
             /\ found => checked.status = "verified" /\ checked.snippet = cited.snippet
             /\ ~found /\ revised # <<>> => checked.status = "revised" /\ checked.snippet = revised
             /\ ~found /\ revised = <<>> => checked.status = "unverified" /\ checked.snippet = cited.snippet
<1> DEFINE source == SourceFor(ext, cited)
           revised == ClosestWindow(cited.snippet, source)
           found == Occurs(cited.snippet, source)
           Claim == [page : STRING, sheet : STRING, snippet : Seq(STRING),
                     status : {"verified", "revised", "unverified"}]
<1>1. /\ intake \in Types /\ ext \in Extractions /\ file \in Files
      /\ cited \in Claims[file] /\ checked = VerifyCitation(ext, cited)
  BY DEF WorkInv, IntakeInv
<1>2. source \in Seq(Words)
  BY <1>1, SourceIsText
<1>3. cited \in Claim
  BY Zenon, <1>1, ClaimsAssumption
<1>4. cited.snippet \in Seq(STRING)
  BY Zenon, <1>3
<1>5. cited.snippet \in Seq(Words)
  <2>1. STRING \subseteq Words
    BY Zenon DEF Words
  <2>2. QED
    BY Zenon, <1>4, <2>1, WiderSeq
<1>6. cited = [page |-> cited.page, sheet |-> cited.sheet, snippet |-> cited.snippet,
               status |-> cited.status]
  BY Zenon, <1>3
<1>7. checked = CASE found -> [cited EXCEPT !.status = "verified"]
                  [] ~found /\ revised # <<>> ->
                       [cited EXCEPT !.snippet = revised, !.status = "revised"]
                  [] OTHER -> [cited EXCEPT !.status = "unverified"]
  BY <1>1 DEF VerifyCitation
<1> HIDE DEF source, revised, found
<1>8. ASSUME NEW status
      PROVE  LET r == [cited EXCEPT !.status = status]
             IN  /\ r.status = status /\ r.snippet = cited.snippet
                 /\ r.page = cited.page /\ r.sheet = cited.sheet
  BY <1>6
<1>9. LET r == [cited EXCEPT !.snippet = revised, !.status = "revised"]
      IN  /\ r.status = "revised" /\ r.snippet = revised
          /\ r.page = cited.page /\ r.sheet = cited.sheet
  BY <1>6
<1>10. CASE found
  BY <1>7, <1>8, <1>10, <1>2, <1>5 DEF source, revised, found
<1>11. CASE ~found /\ revised # <<>>
  BY <1>7, <1>9, <1>11, <1>2, <1>5 DEF source, revised, found
<1>12. CASE ~found /\ revised = <<>>
  BY <1>7, <1>8, <1>12, <1>2, <1>5 DEF source, revised, found
<1>13. QED
  BY <1>10, <1>11, <1>12

\* closest_source_window: whatever the text, the window and the step, a quotation
\* given up has no run of words with enough of its terms that is at most a word
\* longer than the overlap of two windows: no such run can fall between windows.
THEOREM CloseMatches == Spec => []CloseMatchIsFound
<1>1. ASSUME IntakeInv, WorkInv, stage = "checked", checked.status = "unverified",
             NEW n \in 1..(Window - WindowStep + 1),
             NEW run \in Runs(SourceFor(ext, cited), n)
      PROVE  Score(Terms(cited.snippet), run) < CloseEnough(Terms(cited.snippet))
  <2> DEFINE source == SourceFor(ext, cited)
             terms == Terms(cited.snippet)
  <2>1. /\ source \in Seq(Words) /\ cited.snippet \in Seq(Words)
        /\ ClosestWindow(cited.snippet, source) = <<>>
    BY <1>1, LookedUp
  <2> HIDE DEF source
  <2>2. IsFiniteSet(terms)
    BY <2>1, FiniteWords
  <2>3. source # <<>>
    <3>1. PICK k \in 1..(1 + Len(source) - n) : TRUE
      BY <1>1 DEF Runs, source
    <3>2. Len(source) \in Nat /\ Len(source) >= 1
      BY <2>1, <3>1, LenProperties
    <3>3. QED
      BY <3>2, EmptySeq
  <2>4. PICK w \in WindowStarts(source) : ToSet(run) \subseteq ToSet(WindowAt(source, w))
    <3>1. run \in Runs(source, n)
      BY <1>1 DEF source
    <3>2. QED
      BY <2>1, <3>1, RunInAWindow
  <2> HIDE DEF terms
  <2>5. PICK i \in WindowStarts(source) :
          /\ \A j \in WindowStarts(source) :
               Score(terms, WindowAt(source, j)) <= Score(terms, WindowAt(source, i))
          /\ ClosestWindow(cited.snippet, source) =
               IF Score(terms, WindowAt(source, i)) >= CloseEnough(terms)
               THEN FirstOf(WindowAt(source, i), MaxSnippet) ELSE <<>>
    BY <2>1, <2>2, <2>3, ClosestIsBest DEF terms
  <2>6. FirstOf(WindowAt(source, i), MaxSnippet) # <<>>
    BY <2>1, WindowIsRun DEF Occurs
  <2>7. ~(Score(terms, WindowAt(source, i)) >= CloseEnough(terms))
    BY <2>1, <2>5, <2>6
  <2>8. /\ Score(terms, run) \in Nat /\ Cardinality(terms) \in Nat
        /\ Score(terms, WindowAt(source, w)) \in Nat
        /\ Score(terms, run) <= Score(terms, WindowAt(source, w))
    BY <2>2, <2>4, ScoreGrows
  <2>9. Score(terms, WindowAt(source, i)) \in Nat
    BY <2>2, ScoreGrows
  <2>10. CloseEnough(terms) \in Nat
    BY <2>8, EnoughIsANumber
  <2>11. Score(terms, run) < CloseEnough(terms)
    BY <2>5, <2>7, <2>8, <2>9, <2>10
  <2>12. QED
    BY <2>11 DEF terms
<1>2. IntakeInv /\ WorkInv => CloseMatchIsFound
  BY <1>1 DEF CloseMatchIsFound
<1>3. QED
  BY <1>2, WorkHolds, PTL

\* What replaces a quotation is a run of the source.
LEMMA RevisedIsRun ==
  ASSUME NEW source \in Seq(Words), NEW snippet \in Seq(Words),
         ClosestWindow(snippet, source) # <<>>
  PROVE  /\ ClosestWindow(snippet, source) \in Seq(Words)
         /\ Occurs(ClosestWindow(snippet, source), source)
<1>1. source # <<>>
  BY DEF ClosestWindow
<1>2. IsFiniteSet(Terms(snippet))
  BY FiniteWords
<1>3. PICK i \in WindowStarts(source) :
        ClosestWindow(snippet, source) = FirstOf(WindowAt(source, i), MaxSnippet)
  BY <1>1, <1>2, ClosestIsBest
<1>4. QED
  BY <1>3, WindowIsRun

\* A quotation without a word has no close match.
LEMMA NothingIsClose ==
  ASSUME NEW source \in Seq(Words)
  PROVE  ClosestWindow(<<>>, source) = <<>>
<1>1. Terms(<<>>) = {}
  BY DEF Terms, ToSet
<1>2. IsFiniteSet({}) /\ Cardinality({}) = 0
  BY FS_EmptySet
<1>3. \A words : Score({}, words) = 0
  BY <1>2 DEF Score
<1>4. CloseEnough({}) \in Nat /\ CloseEnough({}) >= 2
  BY <1>2, EnoughIsANumber
<1>5. CASE source = <<>>
  BY <1>5 DEF ClosestWindow
<1>6. CASE source # <<>>
  <2>1. PICK i \in WindowStarts(source) :
          ClosestWindow(<<>>, source) =
            IF Score(Terms(<<>>), WindowAt(source, i)) >= CloseEnough(Terms(<<>>))
            THEN FirstOf(WindowAt(source, i), MaxSnippet) ELSE <<>>
    BY <1>1, <1>2, <1>6, ClosestIsBest
  <2>2. ~(Score(Terms(<<>>), WindowAt(source, i)) >= CloseEnough(Terms(<<>>)))
    <3>1. ~(0 >= CloseEnough({}))
      BY <1>4
    <3>2. QED
      BY Zenon, <1>1, <1>3, <3>1
  <2>3. QED
    BY <2>1, <2>2
<1>7. QED
  BY <1>5, <1>6

\* A quotation occurs in a source if it is one of its runs.
LEMMA OccursAsRun ==
  ASSUME NEW source \in Seq(Words), NEW x \in Seq(Words)
  PROVE  Occurs(x, source) <=> x \in AllRuns(source)
<1>1. Len(source) \in Nat /\ Len(x) \in Nat /\ (x # <<>> <=> Len(x) # 0)
  BY EmptySeq, LenProperties
<1>2. ASSUME Occurs(x, source) PROVE x \in AllRuns(source)
  <2>1. x # <<>> /\ x \in Runs(source, Len(x))
    BY <1>2 DEF Occurs
  <2>2. PICK i \in 1..(1 + Len(source) - Len(x)) : TRUE
    BY <2>1 DEF Runs
  <2>3. Len(x) \in 1..Len(source)
    BY <1>1, <2>1, <2>2
  <2>4. QED
    BY <2>1, <2>3 DEF AllRuns
<1>3. ASSUME x \in AllRuns(source) PROVE Occurs(x, source)
  <2>1. PICK n \in 1..Len(source) : x \in Runs(source, n)
    BY <1>3 DEF AllRuns
  <2>2. PICK i \in 1..(1 + Len(source) - n) : x = SubSeq(source, i, i + n - 1)
    BY <2>1 DEF Runs
  <2>3. \A j \in i..(i + n - 1) : source[j] \in Words
    <3>1. \A j \in i..(i + n - 1) : j \in 1..Len(source)
      BY <1>1
    <3>2. QED
      BY <3>1, ElementOfSeq
  <2>4. i \in Int /\ i + n - 1 \in Int /\ (i + n - 1) - i + 1 = n /\ i <= i + n - 1
    BY <1>1
  <2>5. Len(x) = n
    BY <2>2, <2>3, <2>4, SubSeqProperties
  <2>6. QED
    BY <1>1, <2>1, <2>5 DEF Occurs
<1>4. QED
  BY <1>2, <1>3

\* verify_citation, source_for_citation, closest_source_window: of any document the
\* lookup makes of a citation what Citations lets it make, so that what is proved
\* of the annotators with Citations holds with the lookup in their place.
THEOREM LookupRefines == Spec => []LookupAsAbstracted
<1>1. ASSUME IntakeInv, WorkInv, stage = "checked"
      PROVE  checked \in Abstract!VerifyCitation(cited)
  <2> DEFINE source == SourceFor(ext, cited)
             revised == ClosestWindow(cited.snippet, source)
             found == Occurs(cited.snippet, source)
             place == Abstract!PlaceOf(cited)
             runs == AllRuns(source)
  <2>1. source \in Seq(Words) /\ cited.snippet \in Seq(Words)
    BY <1>1, LookedUp
  <2>2. checked = CASE found -> [cited EXCEPT !.status = "verified"]
                    [] ~found /\ revised # <<>> ->
                         [cited EXCEPT !.snippet = revised, !.status = "revised"]
                    [] OTHER -> [cited EXCEPT !.status = "unverified"]
    BY <1>1 DEF WorkInv, VerifyCitation
  <2>3. place \in Named
    BY DEF Abstract!PlaceOf, Abstract!WholeText, Abstract!NoPlace, Named
  <2>4. [p \in Named |-> runs][place] = runs
    BY <2>3
  <2>5. Abstract!VerifyCitation(cited) =
          CASE cited.snippet = <<>> \/ runs = {} -> {[cited EXCEPT !.status = "unverified"]}
            [] cited.snippet \in runs -> {[cited EXCEPT !.status = "verified"]}
            [] OTHER -> {[cited EXCEPT !.status = "unverified"]} \cup
                        {[cited EXCEPT !.snippet = w, !.status = "revised"] : w \in runs}
    BY <2>4 DEF Abstract!VerifyCitation, Abstract!Unverified
  <2> HIDE DEF source, revised, place
  <2>6. found <=> cited.snippet \in runs
    BY <2>1, OccursAsRun
  <2>7. revised # <<>> => revised \in runs
    BY <2>1, RevisedIsRun, OccursAsRun DEF revised
  <2>8. cited.snippet = <<>> => ~found /\ revised = <<>>
    BY <2>1, NothingIsClose DEF Occurs, revised
  <2> HIDE DEF found, runs
  <2>9. CASE cited.snippet = <<>> \/ runs = {}
    BY <2>2, <2>5, <2>6, <2>7, <2>8, <2>9
  <2>10. CASE ~(cited.snippet = <<>> \/ runs = {}) /\ found
    BY <2>2, <2>5, <2>6, <2>10
  <2>11. CASE ~(cited.snippet = <<>> \/ runs = {}) /\ ~found
    BY <2>2, <2>5, <2>6, <2>7, <2>11
  <2>12. QED
    BY <2>9, <2>10, <2>11
<1>2. IntakeInv /\ WorkInv => LookupAsAbstracted
  BY <1>1 DEF LookupAsAbstracted
<1>3. QED
  BY <1>2, WorkHolds, PTL

\* verify_citation, source_for_citation: a quotation that is verified, and one that
\* replaces what the model wrote, is a run of words of the very page, sheet or text
\* the citation names; else the citation is as the model made it and unverified.
Grounded ==
  stage = "checked" =>
    /\ checked.page = cited.page /\ checked.sheet = cited.sheet
    /\ checked.status \in {"verified", "revised"} => Occurs(checked.snippet, SourceFor(ext, cited))
    /\ checked.status \notin {"verified", "revised"} =>
         checked.status = "unverified" /\ checked.snippet = cited.snippet

THEOREM CitationsAreGrounded == Spec => []Grounded
<1>1. ASSUME IntakeInv, WorkInv, stage = "checked" PROVE Grounded
  <2> DEFINE source == SourceFor(ext, cited)
             revised == ClosestWindow(cited.snippet, source)
             found == Occurs(cited.snippet, source)
  <2>1. /\ source \in Seq(Words) /\ cited.snippet \in Seq(Words)
        /\ checked.page = cited.page /\ checked.sheet = cited.sheet
        /\ found => checked.status = "verified" /\ checked.snippet = cited.snippet
        /\ ~found /\ revised # <<>> => checked.status = "revised" /\ checked.snippet = revised
        /\ ~found /\ revised = <<>> => checked.status = "unverified" /\ checked.snippet = cited.snippet
    BY <1>1, LookedUp
  <2>2. revised # <<>> => Occurs(revised, source)
    BY <2>1, RevisedIsRun
  <2> HIDE DEF source, revised, found
  <2>3. checked.status \in {"verified", "revised"} => Occurs(checked.snippet, source)
    BY <2>1, <2>2 DEF found
  <2>4. QED
    BY <2>1, <2>3 DEF Grounded, source
<1>2. IntakeInv /\ WorkInv => Grounded
  BY <1>1 DEF Grounded
<1>3. QED
  BY <1>2, WorkHolds, PTL

-----------------------------------------------------------------------------
(* Types *)

LEMMA DocumentTypes == IntakeInv /\ WorkInv => TypeOK
<1>1. SUFFICES ASSUME IntakeInv, WorkInv PROVE TypeOK
  OBVIOUS
<1>2. /\ file \in Files /\ read \in 0..Len(file.bytes) /\ header \in Seq(Bytes)
      /\ intake \in {"saving"} \cup Whole \cup Types \cup Refusals
  BY <1>1 DEF IntakeInv
<1>3. stored = Nothing \/ stored \in Seq(Bytes)
  <2>1. CASE intake \in Refusals
    BY <1>1, <2>1 DEF IntakeInv
  <2>2. CASE intake \notin Refusals
    <3>1. stored = Part(file.bytes, 0, read) /\ read \in Nat /\ file.bytes \in Seq(Bytes)
      BY <1>1, <1>2, <2>2, FilesAssumption DEF IntakeInv
    <3>2. QED
      BY <3>1, StartOf
  <2>3. QED
    BY <2>1, <2>2
<1>4. MaxText \in Nat /\ MaxPrompt \in Nat /\ MaxRows \in Nat
  BY LimitsAssumption
<1>5. /\ ext.text \in Seq(Words) /\ Len(ext.text) <= MaxText
      /\ \A i \in DOMAIN ext.sheets : Len(ext.sheets[i].sample) <= MaxRows
  <2>1. CASE stage \in {"upload", "failed"}
    <3>1. ext = Extraction(<<>>, <<>>, <<>>, {}) /\ <<>> \in Seq(Words)
      BY <1>1, <2>1, EmptySeq DEF WorkInv, NoExtraction
    <3>2. ext.text \in Seq(Words) /\ Len(ext.text) <= MaxText /\ ext.sheets = <<>>
      <4>1. ASSUME NEW text \in Seq(Words), NEW e, e = Extraction(text, <<>>, <<>>, {})
            PROVE  e.text \in Seq(Words) /\ Len(e.text) <= MaxText /\ e.sheets = <<>>
        BY <4>1, CutIsWarnedOf
      <4>2. QED
        BY <3>1, <4>1
    <3>3. QED
      BY <3>2
  <2>2. CASE stage \notin {"upload", "failed"}
    BY <1>1, <2>2, ExtractionIs DEF WorkInv
  <2>3. QED
    BY <2>1, <2>2
<1>6. Len(context) <= MaxPrompt
  <2>1. CASE Prompted
    <3>1. context = FirstOf(ext.text, MaxPrompt)
      BY <1>1, <2>1 DEF WorkInv
    <3>2. /\ Len(context) = IF MaxPrompt < Len(ext.text) THEN MaxPrompt ELSE Len(ext.text)
          /\ Len(ext.text) \in Nat
      BY <1>4, <1>5, <3>1, FirstOfSeq, LenProperties
    <3>3. QED
      BY <1>4, <3>2
  <2>2. CASE ~Prompted
    <3>1. context = <<>>
      BY <1>1, <2>2 DEF WorkInv
    <3>2. Len(<<>>) = 0 /\ 0 <= MaxPrompt
      BY <1>4
    <3>3. QED
      BY Zenon, <3>1, <3>2
  <2>3. QED
    BY <2>1, <2>2
<1>7. \A c \in {cited, checked} : c.status \in {"verified", "revised", "unverified"}
  <2>1. CASE stage = "checked"
    <3>1. checked.status \in {"verified", "revised", "unverified"}
      BY <1>1, <2>1, LookedUp
    <3>2. cited \in Claims[file]
      BY <1>1, <2>1 DEF WorkInv
    <3>3. cited.status \in {"verified", "revised", "unverified"}
      BY Zenon, <1>2, <3>2, ClaimsAssumption
    <3>4. QED
      BY <3>1, <3>3
  <2>2. CASE stage # "checked"
    BY <1>1, <2>2 DEF WorkInv, NoCitation
  <2>3. QED
    BY <2>1, <2>2
<1>8. stage \in {"upload", "extracted", "failed", "sent", "prompted", "checked"}
  BY <1>1 DEF WorkInv
<1>9. cut \in BOOLEAN
  BY Zenon, <1>1 DEF WorkInv
<1>10. QED
  BY <1>2, <1>3, <1>5, <1>6, <1>7, <1>8, <1>9 DEF TypeOK

\* Every variable keeps its type, and every text, sample and prompt its limit, for
\* any uploads, claims and limits.
THEOREM Typed == Spec => []TypeOK
<1>1. QED
  BY DocumentTypes, WorkHolds, PTL
=============================================================================
