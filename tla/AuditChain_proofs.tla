-------------------------- MODULE AuditChain_proofs --------------------------
(***************************************************************************)
(* Facts about the hash chain, for every set of records and timestamps.    *)
(***************************************************************************)
EXTENDS AuditChain, NaturalsInduction, WellFoundedInduction, TLAPS

\* Every set of naturals that has an element has a least one.
LEMMA LeastNat ==
  ASSUME NEW S \in SUBSET Nat, NEW s \in S
  PROVE  \E m \in S : \A k \in S : m <= k
<1>1. IsWellFoundedOn(OpToRel(<, Nat), Nat)
  BY NatLessThanWellFounded
<1>2. PICK m \in S : \A k \in S : ~(<<k, m>> \in OpToRel(<, Nat))
  BY <1>1, WFMin, Zenon
<1>3. ASSUME NEW k \in S PROVE m <= k
  <2>1. k \in Nat /\ m \in Nat
    OBVIOUS
  <2>2. (k < m) => <<k, m>> \in OpToRel(<, Nat)
    BY <2>1 DEF OpToRel
  <2>3. ~(k < m)
    BY <1>2, <2>2, Zenon
  <2> QED BY <2>1, <2>3
<1> QED BY <1>3

\* What Append seals from a well-typed head is an entry.
LEMMA SealType ==
  ASSUME NEW i \in Nat, NEW ts \in Timestamps, NEW r \in Records, NEW h \in Hash
  PROVE  Seal(i, ts, r, h) \in Entry
<1>1. sha256Hex(r) \in PayloadHash
  BY DEF PayloadHash
<1>2. [index |-> i, ts |-> ts, payload |-> sha256Hex(r)] \in Commitment
  BY <1>1 DEF Commitment
<1>3. EntryHash(i, ts, sha256Hex(r), h) \in Hash
  BY <1>2 DEF EntryHash, Hash
<1> QED BY <1>1, <1>3 DEF Seal, Entry

\* The hash of an entry determines everything it commits to.
LEMMA EntryHashInjective ==
  ASSUME NEW g \in Hash, NEW h \in Hash, NEW c \in Commitment, NEW d \in Commitment,
         Append(g, c) = Append(h, d)
  PROVE  g = h /\ c = d
<1>1. Len(g) = Len(h)
  BY DEF Hash
<1>2. c = d
  BY <1>1 DEF Hash
<1>3. \A i \in 1..Len(g) : g[i] = h[i]
  BY <1>1 DEF Hash
<1> QED BY <1>1, <1>2, <1>3 DEF Hash

\* Whether a line verifies depends on the line and its predecessor only.
LEMMA LineOkLocal ==
  ASSUME NEW a \in Seq(Line), NEW b \in Seq(Line), NEW i \in Nat \ {0},
         i <= Len(a), i <= Len(b), a[i] = b[i], i > 1 => a[i - 1] = b[i - 1]
  PROVE  LineOk(a, i) <=> LineOk(b, i)
BY DEF LineOk, HashBefore

\* Appending to a file never repairs it: its prefix is checked as before.
LEMMA ChainedPrefix ==
  ASSUME NEW l \in Seq(Line), NEW e \in Line, Chained(Append(l, e))
  PROVE  Chained(l)
<1> SUFFICES ASSUME NEW i \in 1..Len(l) PROVE LineOk(l, i)
  BY DEF Chained
<1>1. /\ Append(l, e) \in Seq(Line)
      /\ Len(Append(l, e)) = Len(l) + 1
      /\ \A j \in 1..Len(l) : Append(l, e)[j] = l[j]
  OBVIOUS
<1>2. LineOk(Append(l, e), i)
  BY <1>1 DEF Chained
<1>3. i \in Nat \ {0} /\ i <= Len(l) /\ i <= Len(Append(l, e))
  BY <1>1
<1>4. Append(l, e)[i] = l[i] /\ (i > 1 => Append(l, e)[i - 1] = l[i - 1])
  BY <1>1
<1> DEFINE m == Append(l, e)
<1>5. m \in Seq(Line) /\ LineOk(m, i) /\ i <= Len(m) /\ m[i] = l[i] /\ (i > 1 => m[i - 1] = l[i - 1])
  BY <1>1, <1>2, <1>3, <1>4
<1> HIDE DEF m
<1> QED BY <1>3, <1>5, LineOkLocal

\* A line glued to an unterminated one is never part of a valid chain.
LEMMA GarbageBreaks ==
  ASSUME NEW l \in Seq(Line), Len(l) > 0
  PROVE  ~Chained([l EXCEPT ![Len(l)] = Garbage])
BY DEF Chained, LineOk

\* Sealing the successor of the last line of a valid chain keeps it valid.
LEMMA SealExtends ==
  ASSUME NEW l \in Seq(Line), Chained(l), NEW ts \in Timestamps, NEW r \in Records,
         HashBefore(l, Len(l) + 1) \in Hash
  PROVE  Chained(Append(l, Seal(Len(l) + 1, ts, r, HashBefore(l, Len(l) + 1))))
<1> DEFINE e == Seal(Len(l) + 1, ts, r, HashBefore(l, Len(l) + 1))
           m == Append(l, e)
<1>1. e \in Entry
  BY SealType
<1>2. /\ m \in Seq(Line)
      /\ Len(m) = Len(l) + 1
      /\ \A j \in 1..Len(l) : m[j] = l[j]
      /\ m[Len(l) + 1] = e
  BY <1>1 DEF Line
<1>3. ASSUME NEW i \in 1..Len(l) PROVE LineOk(m, i)
  <2> HIDE DEF m
  <2>1. i \in Nat \ {0} /\ i <= Len(l) /\ i <= Len(m)
    BY <1>2
  <2>2. m[i] = l[i] /\ (i > 1 => m[i - 1] = l[i - 1])
    BY <1>2
  <2>3. LineOk(l, i)
    BY DEF Chained
  <2> QED BY <1>2, <2>1, <2>2, <2>3, LineOkLocal
<1>4. LineOk(m, Len(l) + 1)
  <2>1. HashBefore(m, Len(l) + 1) = HashBefore(l, Len(l) + 1)
    BY <1>2 DEF HashBefore
  <2>2. e # Garbage
    BY <1>1, GarbageAssumption
  <2> HIDE DEF m
  <2> QED BY <1>2, <2>1, <2>2 DEF LineOk, Seal
<1>5. Chained(m)
  <2> HIDE DEF m
  <2> QED BY <1>2, <1>3, <1>4 DEF Chained
<1> QED BY <1>5

\* The head of a valid chain is a well-typed hash.
LEMMA HeadType ==
  ASSUME NEW l \in Seq(Line), Chained(l)
  PROVE  HashBefore(l, Len(l) + 1) \in Hash
<1>1. CASE Len(l) = 0
  BY <1>1 DEF HashBefore, GENESIS, Hash
<1>2. CASE Len(l) > 0
  <2>1. l[Len(l)] \in Entry
    BY <1>2 DEF Chained, LineOk, Line
  <2> QED BY <1>2, <2>1 DEF HashBefore, Entry
<1> QED BY <1>1, <1>2

\* VerifiedLen of a valid chain is its length.
LEMMA VerifiedLenChained ==
  ASSUME NEW l \in Seq(Line), Chained(l)
  PROVE  VerifiedLen(l) = Len(l)
BY DEF VerifiedLen

\* Verification of a file that does not verify stops before its first bad line.
LEMMA FirstBadLine ==
  ASSUME NEW l \in Seq(Line), ~Chained(l)
  PROVE  \E n \in 0..(Len(l) - 1) : ~LineOk(l, n + 1) /\ \A i \in 1..n : LineOk(l, i)
<1> DEFINE Bad == {i \in 1..Len(l) : ~LineOk(l, i)}
<1>1. PICK b \in Bad : TRUE
  BY DEF Chained
<1>2. Bad \in SUBSET Nat
  OBVIOUS
<1>3. PICK m \in Bad : \A k \in Bad : m <= k
  <2> HIDE DEF Bad
  <2> QED BY <1>1, <1>2, LeastNat
<1>4. m \in 1..Len(l) /\ ~LineOk(l, m)
  OBVIOUS
<1>5. \A i \in 1..(m - 1) : LineOk(l, i)
  <2> SUFFICES ASSUME NEW i \in 1..(m - 1), ~LineOk(l, i) PROVE FALSE
    OBVIOUS
  <2>1. i \in Bad /\ ~(m <= i)
    BY <1>4
  <2> QED BY <1>3, <2>1
<1>6. m - 1 \in 0..(Len(l) - 1) /\ (m - 1) + 1 = m
  BY <1>4
<1> QED BY <1>4, <1>5, <1>6

\* The count a failed verification reports is the number of lines before it.
LEMMA VerifiedLenDamaged ==
  ASSUME NEW l \in Seq(Line), NEW n \in 0..(Len(l) - 1),
         ~LineOk(l, n + 1), \A i \in 1..n : LineOk(l, i)
  PROVE  VerifiedLen(l) = n
<1> DEFINE P(k) == ~LineOk(l, k + 1) /\ \A i \in 1..k : LineOk(l, i)
<1>1. ~Chained(l)
  BY DEF Chained
<1>2. P(n)
  OBVIOUS
<1>3. ASSUME NEW k \in 0..(Len(l) - 1), P(k) PROVE k = n
  <2>1. k + 1 \in 1..n => LineOk(l, k + 1)
    OBVIOUS
  <2>2. n + 1 \in 1..k => LineOk(l, n + 1)
    BY <1>3
  <2>3. ~(k < n) /\ ~(n < k)
    BY <1>3, <2>1, <2>2
  <2> QED BY <2>3
<1>4. VerifiedLen(l) = CHOOSE k \in 0..(Len(l) - 1) : P(k)
  BY <1>1 DEF VerifiedLen
<1> HIDE DEF P
<1> QED BY <1>2, <1>3, <1>4

\* A prefix of a sequence, element by element.
LEMMA PrefixAt ==
  ASSUME NEW l \in Seq(Line), NEW n \in 0..Len(l)
  PROVE  /\ SubSeq(l, 1, n) \in Seq(Line)
         /\ Len(SubSeq(l, 1, n)) = n
         /\ \A i \in 1..n : SubSeq(l, 1, n)[i] = l[i]
OBVIOUS

\* Two files that agree up to the first bad line have the same verified prefix.
LEMMA SameVerifiedPrefix ==
  ASSUME NEW a \in Seq(Line), NEW b \in Seq(Line), NEW n \in Nat, n < Len(a), n < Len(b),
         ~LineOk(a, n + 1), ~LineOk(b, n + 1),
         \A i \in 1..n : LineOk(a, i), \A i \in 1..n : a[i] = b[i]
  PROVE  VerifiedPrefix(b) = VerifiedPrefix(a)
<1>1. ASSUME NEW i \in 1..n PROVE LineOk(b, i)
  <2>1. i \in Nat \ {0} /\ i <= Len(a) /\ i <= Len(b)
    OBVIOUS
  <2>2. a[i] = b[i] /\ (i > 1 => a[i - 1] = b[i - 1])
    OBVIOUS
  <2> QED BY <2>1, <2>2, LineOkLocal
<1>2. n \in 0..(Len(a) - 1) /\ n \in 0..(Len(b) - 1) /\ n \in 0..Len(a) /\ n \in 0..Len(b)
  OBVIOUS
<1>3. VerifiedLen(a) = n
  BY <1>2, VerifiedLenDamaged
<1>4. VerifiedLen(b) = n
  BY <1>1, <1>2, VerifiedLenDamaged
<1> DEFINE x == SubSeq(a, 1, n)
           y == SubSeq(b, 1, n)
<1>5. /\ x \in Seq(Line) /\ Len(x) = n /\ \A i \in 1..n : x[i] = a[i]
      /\ y \in Seq(Line) /\ Len(y) = n /\ \A i \in 1..n : y[i] = b[i]
  BY <1>2, PrefixAt
<1>6. x = y
  <2> HIDE DEF x, y
  <2> QED BY <1>5
<1> QED BY <1>3, <1>4, <1>6 DEF VerifiedPrefix

\* All of a file that verifies is its verified prefix.
LEMMA VerifiedPrefixChained ==
  ASSUME NEW l \in Seq(Line), Chained(l)
  PROVE  VerifiedPrefix(l) = l
<1>1. VerifiedPrefix(l) = SubSeq(l, 1, Len(l))
  BY VerifiedLenChained DEF VerifiedPrefix
<1> DEFINE x == SubSeq(l, 1, Len(l))
<1>2. x \in Seq(Line) /\ Len(x) = Len(l) /\ \A i \in 1..Len(l) : x[i] = l[i]
  BY PrefixAt
<1>3. x = l
  <2> HIDE DEF x
  <2> QED BY <1>2
<1> QED BY <1>1, <1>3

\* A line added to a damaged file, or glued to its last one, leaves the verified
\* prefix alone.
LEMMA DamagedPrefixKept ==
  ASSUME NEW l \in Seq(Line), ~Chained(l), NEW e \in Line, NEW m,
         m = Append(l, e) \/ (Len(l) > 0 /\ m = [l EXCEPT ![Len(l)] = Garbage])
  PROVE  ~Chained(m) /\ VerifiedPrefix(m) = VerifiedPrefix(l)
<1>1. PICK n \in 0..(Len(l) - 1) : ~LineOk(l, n + 1) /\ \A i \in 1..n : LineOk(l, i)
  BY FirstBadLine
<1>2. Garbage \in Line
  BY DEF Line
<1>3. /\ m \in Seq(Line) /\ Len(m) >= Len(l)
      /\ \A i \in 1..(Len(l) - 1) : m[i] = l[i]
      /\ m[Len(l)] \in {l[Len(l)], Garbage}
  BY <1>1, <1>2
<1>4. ~LineOk(m, n + 1)
  <2>1. CASE m[n + 1] = l[n + 1]
    <3>1. n + 1 \in Nat \ {0} /\ n + 1 <= Len(l) /\ n + 1 <= Len(m)
      BY <1>3
    <3>2. n + 1 > 1 => l[n + 1 - 1] = m[n + 1 - 1]
      BY <1>3
    <3> QED BY <1>1, <1>3, <2>1, <3>1, <3>2, LineOkLocal
  <2>2. CASE m[n + 1] = Garbage
    BY <2>2 DEF LineOk
  <2> QED BY <1>3, <2>1, <2>2
<1>5. n \in Nat /\ n < Len(l) /\ n < Len(m) /\ \A i \in 1..n : l[i] = m[i]
  BY <1>3
<1>6. VerifiedPrefix(m) = VerifiedPrefix(l)
  BY <1>1, <1>3, <1>4, <1>5, SameVerifiedPrefix
<1>7. ~Chained(m)
  <2>1. n + 1 \in 1..Len(m)
    BY <1>5
  <2> QED BY <1>4, <2>1 DEF Chained
<1> QED BY <1>6, <1>7

\* A partial line ends a file that verifies up to it.
LEMMA PartAfterChain ==
  ASSUME NEW l \in Seq(Line), Chained(l)
  PROVE  /\ ~Chained(Append(l, Garbage))
         /\ VerifiedPrefix(Append(l, Garbage)) = l
<1> DEFINE m == Append(l, Garbage)
           n == Len(l)
<1>1. Garbage \in Line
  BY DEF Line
<1>2. /\ m \in Seq(Line) /\ Len(m) = n + 1 /\ m[n + 1] = Garbage
      /\ \A i \in 1..n : m[i] = l[i] /\ n \in Nat
  BY <1>1
<1> HIDE DEF m
<1>3. ~LineOk(m, n + 1)
  BY <1>2 DEF LineOk
<1>4. ASSUME NEW i \in 1..n PROVE LineOk(m, i)
  <2>1. LineOk(l, i)
    BY DEF Chained
  <2>2. i \in Nat \ {0} /\ i <= Len(l) /\ i <= Len(m)
    BY <1>2
  <2>3. l[i] = m[i] /\ (i > 1 => l[i - 1] = m[i - 1])
    BY <1>2
  <2> QED BY <1>2, <2>1, <2>2, <2>3, LineOkLocal
<1>5. n \in 0..(Len(m) - 1) /\ n \in 0..Len(m)
  BY <1>2
<1>6. VerifiedLen(m) = n
  BY <1>2, <1>3, <1>4, <1>5, VerifiedLenDamaged
<1> DEFINE x == SubSeq(m, 1, n)
<1>7. x \in Seq(Line) /\ Len(x) = n /\ \A i \in 1..n : x[i] = l[i]
  BY <1>2, <1>5, PrefixAt
<1>8. x = l
  <2> HIDE DEF x
  <2> QED BY <1>7
<1>9. VerifiedPrefix(m) = l
  BY <1>6, <1>8 DEF VerifiedPrefix
<1>10. ~Chained(m)
  BY <1>2, <1>3 DEF Chained
<1> QED BY <1>9, <1>10 DEF m

\* A write glued to the last line of a file that verifies takes that line, and
\* no other, from what can be verified.
LEMMA GlueTakesLast ==
  ASSUME NEW l \in Seq(Line), Chained(l), Len(l) > 0
  PROVE  VerifiedPrefix([l EXCEPT ![Len(l)] = Garbage]) = SubSeq(l, 1, Len(l) - 1)
<1> DEFINE m == [l EXCEPT ![Len(l)] = Garbage]
           n == Len(l) - 1
<1>1. Garbage \in Line
  BY DEF Line
<1>2. /\ m \in Seq(Line) /\ Len(m) = n + 1 /\ m[n + 1] = Garbage
      /\ \A i \in 1..n : m[i] = l[i]
      /\ n \in Nat
  BY <1>1
<1> HIDE DEF m
<1>3. ~LineOk(m, n + 1)
  BY <1>2 DEF LineOk
<1>4. ASSUME NEW i \in 1..n PROVE LineOk(m, i)
  <2>1. LineOk(l, i)
    BY DEF Chained
  <2>2. i \in Nat \ {0} /\ i <= Len(l) /\ i <= Len(m)
    BY <1>2
  <2>3. l[i] = m[i] /\ (i > 1 => l[i - 1] = m[i - 1])
    BY <1>2
  <2> QED BY <1>2, <2>1, <2>2, <2>3, LineOkLocal
<1>5. n \in 0..(Len(m) - 1) /\ n \in 0..Len(m) /\ n \in 0..Len(l)
  BY <1>2
<1>6. VerifiedLen(m) = n
  BY <1>2, <1>3, <1>4, <1>5, VerifiedLenDamaged
<1> DEFINE x == SubSeq(m, 1, n)
           y == SubSeq(l, 1, n)
<1>7. /\ x \in Seq(Line) /\ Len(x) = n /\ \A i \in 1..n : x[i] = m[i]
      /\ y \in Seq(Line) /\ Len(y) = n /\ \A i \in 1..n : y[i] = l[i]
  BY <1>2, <1>5, PrefixAt
<1>8. x = y
  <2> HIDE DEF x, y
  <2> QED BY <1>2, <1>7
<1> QED BY <1>6, <1>8 DEF VerifiedPrefix, m

(***************************************************************************)
(* The two numbers /v1/verify reports, the count of entries and the hash   *)
(* of the last one, pin the whole log: two files that verify with the same *)
(* count and the same last hash hold the same entries.                     *)
(***************************************************************************)
THEOREM HeadPinsLog ==
  ASSUME NEW a \in Seq(Line), NEW b \in Seq(Line),
         Chained(a), Chained(b), Len(a) = Len(b),
         HashBefore(a, Len(a) + 1) = HashBefore(b, Len(b) + 1)
  PROVE  a = b
<1> DEFINE n == Len(a)
           Differ == {k \in Nat : k < n /\ a[n - k].entryHash # b[n - k].entryHash}
<1>1. n \in Nat /\ Len(b) = n
  OBVIOUS
<1>2. ASSUME NEW i \in 1..n
      PROVE  /\ a[i] \in Entry /\ LineOk(a, i)
             /\ b[i] \in Entry /\ LineOk(b, i)
  BY <1>1 DEF Chained, LineOk, Line
<1>3. ASSUME NEW i \in 1..n, a[i].entryHash = b[i].entryHash
      PROVE  a[i] = b[i]
  <2> DEFINE ca == [index |-> a[i].index, ts |-> a[i].ts, payload |-> sha256Hex(a[i].record)]
             cb == [index |-> b[i].index, ts |-> b[i].ts, payload |-> sha256Hex(b[i].record)]
  <2>1. /\ a[i] \in Entry /\ b[i] \in Entry
        /\ sha256Hex(a[i].record) = a[i].payloadHash
        /\ sha256Hex(b[i].record) = b[i].payloadHash
    BY <1>2 DEF LineOk
  <2>2. ca \in Commitment /\ cb \in Commitment
    BY <2>1 DEF Entry, Commitment
  <2>3. Append(a[i].prevHash, ca) = Append(b[i].prevHash, cb)
    <3>1. LineOk(a, i) /\ LineOk(b, i)
      BY <1>2
    <3>2. a[i].entryHash = Append(a[i].prevHash, ca)
      BY <3>1 DEF LineOk, EntryHash
    <3>3. b[i].entryHash = Append(b[i].prevHash, cb)
      BY <3>1 DEF LineOk, EntryHash
    <3> QED BY <1>3, <3>2, <3>3
  <2>4. a[i].prevHash \in Hash /\ b[i].prevHash \in Hash
    BY <2>1 DEF Entry
  <2>5. a[i].prevHash = b[i].prevHash /\ ca = cb
    <3> HIDE DEF ca, cb
    <3>1. \A g, h \in Hash : \A c, d \in Commitment : Append(g, c) = Append(h, d) => g = h /\ c = d
      BY EntryHashInjective
    <3>2. PICK g, h, c, d : g = a[i].prevHash /\ h = b[i].prevHash /\ c = ca /\ d = cb
      OBVIOUS
    <3>3. g \in Hash /\ h \in Hash /\ c \in Commitment /\ d \in Commitment /\ Append(g, c) = Append(h, d)
      BY <2>2, <2>3, <2>4, <3>2
    <3>4. g = h /\ c = d
      BY <3>1, <3>3
    <3> QED BY <3>2, <3>4
  <2>6. a[i].record = b[i].record
    BY <2>5 DEF sha256Hex
  <2> QED BY <1>3, <2>1, <2>5, <2>6 DEF Entry
<1>4. Differ = {}
  <2> SUFFICES ASSUME NEW k0 \in Differ PROVE FALSE
    OBVIOUS
  <2>1. Differ \in SUBSET Nat
    OBVIOUS
  <2>2. PICK k \in Differ : \A j \in Differ : k <= j
    <3> HIDE DEF Differ
    <3> QED BY <2>1, LeastNat
  <2>3. k \in Nat /\ k < n /\ a[n - k].entryHash # b[n - k].entryHash
    OBVIOUS
  <2>4. k # 0
    BY <1>1, <2>3 DEF HashBefore
  <2>5. k - 1 \notin Differ /\ k - 1 \in Nat
    <3>1. k - 1 \in Nat /\ ~(k <= k - 1)
      BY <2>3, <2>4
    <3> QED BY <2>2, <3>1
  <2>6. a[n - (k - 1)].entryHash = b[n - (k - 1)].entryHash
    BY <1>1, <2>3, <2>5
  <2> DEFINE i == n - k + 1
  <2>7. i \in 1..n /\ i > 1 /\ i - 1 = n - k /\ i = n - (k - 1)
    BY <1>1, <2>3, <2>4
  <2>8. a[i] = b[i]
    BY <1>3, <2>6, <2>7
  <2>9. a[i].prevHash = a[i - 1].entryHash /\ b[i].prevHash = b[i - 1].entryHash
    <3> HIDE DEF i
    <3>1. LineOk(a, i) /\ LineOk(b, i) /\ i # 1
      BY <1>2, <2>7
    <3> QED BY <3>1 DEF LineOk, HashBefore
  <2> QED BY <2>3, <2>7, <2>8, <2>9
<1>5. ASSUME NEW i \in 1..n PROVE a[i] = b[i]
  <2>1. n - i \in Nat /\ n - i < n /\ n - (n - i) = i
    BY <1>1
  <2>2. a[i].entryHash = b[i].entryHash
    BY <1>4, <2>1
  <2> QED BY <1>3, <2>2
<1> QED BY <1>1, <1>5
=============================================================================
