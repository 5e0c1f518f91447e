-------------------------- MODULE InstanceLogProofs --------------------------
(***************************************************************************)
(* The instance journal is never misread, for any number of processes,     *)
(* records, generations and faults.                                        *)
(*                                                                         *)
(* The argument: a writer repairs the tail before it appends and numbers   *)
(* from above everything it sees under the lock, so that a generation is   *)
(* numbered upwards and only its end may be torn (Ordered).  A compaction  *)
(* keeps a selection of records in their order (Nth), and a generation     *)
(* that was rotated away is never written again, so what the reader has    *)
(* folded of one is still its beginning (FoldSound).                       *)
(***************************************************************************)
EXTENDS InstanceLog, FiniteSetTheorems, WellFoundedInduction, TLAPS

-----------------------------------------------------------------------------
(* Numbers and positions.                                                  *)

\* Fields of a record.
LEMMA RecordFields ==
    ASSUME NEW r \in Records
    PROVE  r.seq \in Nat /\ r.id \in Nat
  BY InstanceLogAssumption DEF Records

\* Positions of a sequence.
LEMMA SeqFacts ==
    ASSUME NEW S, NEW a \in Seq(S)
    PROVE  /\ Len(a) \in Nat /\ DOMAIN a = 1 .. Len(a)
           /\ \A i \in DOMAIN a : a[i] \in S /\ i \in Nat /\ i >= 1 /\ i <= Len(a)
  OBVIOUS

\* The first n of a sequence.
LEMMA PrefixFacts ==
    ASSUME NEW S, NEW a \in Seq(S), NEW n \in 0 .. Len(a)
    PROVE  /\ SubSeq(a, 1, n) \in Seq(S) /\ Len(SubSeq(a, 1, n)) = n /\ n \in Nat
           /\ \A i \in 1 .. n : i \in DOMAIN a /\ SubSeq(a, 1, n)[i] = a[i]
  OBVIOUS

\* Records followed by others.
LEMMA ConcatRecords ==
    ASSUME NEW a \in Seq(Records), NEW b \in Seq(Records)
    PROVE  /\ DOMAIN (a \o b) = 1 .. (Len(a) + Len(b))
           /\ \A i \in DOMAIN a : (a \o b)[i] = a[i]
           /\ \A i \in 1 .. Len(b) : (a \o b)[Len(a) + i] = b[i]
  OBVIOUS

\* The largest number of a set, once it is known.
LEMMA MaxIs ==
    ASSUME NEW S \in SUBSET Int, NEW m \in S, \A y \in S : y <= m
    PROVE  Max(S) = m
  <1>1. \A y \in S : m >= y
    OBVIOUS
  <1>2. \A x \in S : (\A y \in S : x >= y) => x = m
    OBVIOUS
  <1> QED
    BY <1>1, <1>2, Zenon DEF Max

\* A nonempty set of naturals has a least one.
LEMMA LeastExists ==
    ASSUME NEW S \in SUBSET Nat, S # {}
    PROVE  \E x \in S : \A y \in S : x <= y
  <1>1. PICK x \in S : \A y \in S : ~ (<<y, x>> \in OpToRel(<, Nat))
    BY NatLessThanWellFounded, WFMin, Zenon
  <1>2. \A y \in S : ~ (y < x)
    BY <1>1, Zenon DEF OpToRel
  <1> QED
    BY <1>2

\* A bounded nonempty set of naturals has a largest one.
LEMMA MaxExists ==
    ASSUME NEW S \in SUBSET Nat, S # {}, NEW b \in Nat, \A y \in S : y <= b
    PROVE  Max(S) \in S /\ \A y \in S : y <= Max(S)
  <1> DEFINE T == {b - y : y \in S}
  <1>1. T \in SUBSET Nat /\ T # {}
    <2>1. \A y \in S : b - y \in Nat
      OBVIOUS
    <2> QED
      BY <2>1, Zenon
  <1>2. PICK x \in T : \A y \in T : x <= y
    BY <1>1, LeastExists, Zenon
  <1>3. PICK m \in S : x = b - m
    OBVIOUS
  <1>4. \A y \in S : y <= m
    <2> SUFFICES ASSUME NEW y \in S PROVE y <= m
      OBVIOUS
    <2>1. b - m <= b - y
      BY <1>2, <1>3, Zenon
    <2> QED
      BY <2>1
  <1>5. Max(S) = m
    BY <1>4, MaxIs
  <1> QED
    BY <1>4, <1>5, Zenon

\* How many of a set of positions are no later than m.
UpTo(S, m) == {j \in S : j <= m}

\* A set of positions of a file is finite, and so is each of its parts.
LEMMA PositionsFinite ==
    ASSUME NEW n \in Nat, NEW S \in SUBSET (1 .. n)
    PROVE  /\ IsFiniteSet(S) /\ Cardinality(S) \in Nat
           /\ \A m \in Nat : IsFiniteSet(UpTo(S, m)) /\ Cardinality(UpTo(S, m)) \in Nat
  <1>1. IsFiniteSet(1 .. n)
    BY FS_Interval
  <1>2. ASSUME NEW R \in SUBSET (1 .. n) PROVE IsFiniteSet(R) /\ Cardinality(R) \in Nat
    BY <1>1, FS_Subset, FS_CardinalityType, Zenon
  <1>3. \A m \in Nat : UpTo(S, m) \in SUBSET (1 .. n)
    BY Zenon DEF UpTo
  <1> QED
    BY <1>2, <1>3, Zenon

\* There is a k-th position, for each k up to their number.
LEMMA NthIn ==
    ASSUME NEW n \in Nat, NEW S \in SUBSET (1 .. n), NEW k \in 1 .. Cardinality(S)
    PROVE  Nth(S, k) \in S /\ Cardinality(UpTo(S, Nth(S, k))) = k
  <1> DEFINE T == {m \in Nat : Cardinality(UpTo(S, m)) >= k}
  <1>0. \A j \in S : j \in Nat /\ 1 <= j /\ j <= n
    OBVIOUS
  <1>1. k \in Nat /\ k >= 1 /\ k <= Cardinality(S)
    BY PositionsFinite
  <1>2. T \in SUBSET Nat /\ T # {}
    <2>1. UpTo(S, n) = S
      BY <1>0, Zenon DEF UpTo
    <2>2. n \in T
      BY <1>1, <2>1, Zenon
    <2> QED
      BY <2>2, Zenon
  <1>3. PICK m \in T : \A y \in T : m <= y
    BY <1>2, LeastExists, Zenon
  <1>4. m \in Nat /\ Cardinality(UpTo(S, m)) >= k
    BY <1>3, Zenon
  <1>5. m # 0
    <2>1. UpTo(S, 0) = {}
      <3>1. \A j \in S : ~ (j <= 0)
        BY <1>0
      <3> QED
        BY <3>1, Zenon DEF UpTo
    <2>2. Cardinality({}) = 0
      BY FS_EmptySet, Zenon
    <2> QED
      BY <1>1, <1>4, <2>1, <2>2
  <1>6. m - 1 \in Nat /\ m - 1 \notin T
    BY <1>3, <1>4, <1>5
  <1>7. Cardinality(UpTo(S, m - 1)) \in Nat /\ Cardinality(UpTo(S, m - 1)) < k
    <2>1. Cardinality(UpTo(S, m - 1)) \in Nat
      BY <1>6, PositionsFinite, Zenon
    <2> QED
      BY <1>1, <1>6, <2>1
  <1>8. m \in S
    <2> SUFFICES ASSUME m \notin S PROVE FALSE
      OBVIOUS
    <2>1. UpTo(S, m) = UpTo(S, m - 1)
      <3>1. \A j \in S : (j <= m => j <= m - 1) /\ (j <= m - 1 => j <= m)
        BY <1>0, <1>4
      <3> QED
        BY <3>1, Zenon DEF UpTo
    <2> QED
      BY <1>1, <1>4, <1>7, <2>1
  <1>9. Cardinality(UpTo(S, m)) = Cardinality(UpTo(S, m - 1)) + 1
    <2>1. UpTo(S, m) = UpTo(S, m - 1) \cup {m} /\ m \notin UpTo(S, m - 1)
      <3>1. /\ \A j \in S : (j <= m => j <= m - 1 \/ j = m) /\ (j <= m - 1 => j <= m)
            /\ m <= m /\ ~ (m <= m - 1)
        BY <1>0, <1>4
      <3> QED
        BY <1>8, <3>1, Zenon DEF UpTo
    <2>2. IsFiniteSet(UpTo(S, m - 1))
      BY <1>6, PositionsFinite, Zenon
    <2> QED
      BY <2>1, <2>2, FS_AddElement, Zenon
  <1>10. Cardinality(UpTo(S, m)) = k
    BY <1>1, <1>4, <1>7, <1>9
  <1> QED
    BY <1>8, <1>10, Zenon DEF Nth, UpTo

\* A later position has more positions before it.
LEMMA CountAscends ==
    ASSUME NEW n \in Nat, NEW S \in SUBSET (1 .. n), NEW i \in S, NEW j \in S, i < j
    PROVE  Cardinality(UpTo(S, i)) < Cardinality(UpTo(S, j))
  <1>0. \A k \in S : k \in Nat
    OBVIOUS
  <1>1. UpTo(S, i) \subseteq UpTo(S, j) /\ UpTo(S, i) # UpTo(S, j)
    <2>1. (\A k \in S : k <= i => k <= j) /\ j <= j /\ ~ (j <= i)
      BY <1>0
    <2> QED
      BY <2>1, Zenon DEF UpTo
  <1>2. IsFiniteSet(UpTo(S, j)) /\ IsFiniteSet(UpTo(S, i))
    BY <1>0, PositionsFinite, Zenon
  <1>3. /\ Cardinality(UpTo(S, i)) <= Cardinality(UpTo(S, j))
        /\ Cardinality(UpTo(S, i)) = Cardinality(UpTo(S, j)) => UpTo(S, i) = UpTo(S, j)
    BY <1>1, <1>2, FS_Subset, Zenon
  <1> QED
    BY <1>1, <1>2, <1>3, FS_CardinalityType

\* The positions are listed in order, and none is left out.
LEMMA NthAscends ==
    ASSUME NEW n \in Nat, NEW S \in SUBSET (1 .. n)
    PROVE  /\ \A k, l \in 1 .. Cardinality(S) : k < l => Nth(S, k) < Nth(S, l)
           /\ \A i \in S : \E k \in 1 .. Cardinality(S) : Nth(S, k) = i
  <1>0. \A j \in S : j \in Nat
    OBVIOUS
  <1>1. ASSUME NEW k \in 1 .. Cardinality(S), NEW l \in 1 .. Cardinality(S), k < l
        PROVE  Nth(S, k) < Nth(S, l)
    <2>1. /\ Nth(S, k) \in S /\ Cardinality(UpTo(S, Nth(S, k))) = k
          /\ Nth(S, l) \in S /\ Cardinality(UpTo(S, Nth(S, l))) = l
      BY NthIn, Zenon
    <2>2. k \in Nat /\ l \in Nat /\ k # l /\ ~ (l < k)
      BY <1>1, PositionsFinite
    <2>3. Nth(S, k) # Nth(S, l)
      BY <2>1, <2>2, Zenon
    <2>4. ~ (Nth(S, l) < Nth(S, k))
      BY <2>1, <2>2, CountAscends, Zenon
    <2> QED
      <3>1. Nth(S, k) \in Nat /\ Nth(S, l) \in Nat
        BY <1>0, <2>1, Zenon
      <3> QED
        BY <2>3, <2>4, <3>1
  <1>2. ASSUME NEW i \in S PROVE \E k \in 1 .. Cardinality(S) : Nth(S, k) = i
    <2> DEFINE k == Cardinality(UpTo(S, i))
    <2>1. /\ IsFiniteSet(S) /\ IsFiniteSet(UpTo(S, i)) /\ Cardinality(S) \in Nat /\ k \in Nat
      BY <1>0, PositionsFinite, Zenon
    <2>2. UpTo(S, i) \subseteq S /\ i \in UpTo(S, i)
      BY <1>0 DEF UpTo
    <2>3. k <= Cardinality(S) /\ k # 0
      BY <2>1, <2>2, FS_Subset, FS_EmptySet, Zenon
    <2>4. k \in 1 .. Cardinality(S)
      BY <2>1, <2>3
    <2>5. Nth(S, k) \in S /\ Cardinality(UpTo(S, Nth(S, k))) = k
      BY <2>4, NthIn, Zenon
    <2>6. ~ (Nth(S, k) < i) /\ ~ (i < Nth(S, k))
      <3>1. ~ (k < k)
        BY <2>1
      <3> QED
        BY <2>5, <3>1, CountAscends, Zenon
    <2>7. Nth(S, k) = i
      <3>1. Nth(S, k) \in Nat /\ i \in Nat
        BY <1>0, <2>5, Zenon
      <3> QED
        BY <2>6, <3>1
    <2> QED
      BY <2>4, <2>7, Zenon
  <1> QED
    BY <1>1, <1>2, Zenon

-----------------------------------------------------------------------------
(* Files.                                                                  *)

\* A record written halfway is a record of the file.
LEMMA TornTyped == TornRecord \in Records /\ TornRecord.kind = "torn"
  BY InstanceLogAssumption DEF TornRecord, Record, Records

\* The complete records of a file are a prefix of it.
LEMMA WholePrefix ==
    ASSUME NEW f \in Seq(Records)
    PROVE  /\ Whole(f) \in Seq(Records) /\ Len(Whole(f)) \in Nat
           /\ DOMAIN Whole(f) = 1 .. Len(Whole(f)) /\ Len(Whole(f)) <= Len(f)
           /\ \A i \in DOMAIN Whole(f) : Whole(f)[i] = f[i] /\ Whole(f)[i] \in Records
           /\ Whole(f) = f \/ (Whole(f) = SubSeq(f, 1, Len(f) - 1) /\ f # <<>> /\ f[Len(f)] = TornRecord)
  <1>1. CASE Torn(f)
    <2>1. Whole(f) = SubSeq(f, 1, Len(f) - 1) /\ f # <<>> /\ f[Len(f)] = TornRecord
      BY <1>1, Zenon DEF Whole, Torn
    <2>2. Len(f) \in Nat /\ Len(f) # 0
      BY <2>1
    <2> QED
      BY <1>1, <2>1, <2>2 DEF Whole
  <1>2. CASE ~Torn(f)
    BY <1>2 DEF Whole
  <1> QED
    BY <1>1, <1>2, Zenon

\* The records of a file are those at its positions.
LEMMA InRange ==
    ASSUME NEW s, NEW r
    PROVE  r \in Range(s) <=> \E i \in DOMAIN s : s[i] = r
  BY Zenon DEF Range

\* A file that ends in a complete record is complete, and a torn record after it
\* does not hide it.
LEMMA WholeOf ==
    ASSUME NEW w \in Seq(Records), \A i \in DOMAIN w : w[i].kind # "torn"
    PROVE  /\ Whole(w) = w /\ w \o <<>> = w
           /\ w \o <<TornRecord>> \in Seq(Records) /\ Whole(w \o <<TornRecord>>) = w
  <1>1. Whole(w) = w
    <2>1. ~Torn(w)
      <3> SUFFICES ASSUME w # <<>> PROVE w[Len(w)] # TornRecord
        BY Zenon DEF Torn
      <3>1. Len(w) \in DOMAIN w
        OBVIOUS
      <3> QED
        BY <3>1, TornTyped, Zenon
    <2> QED
      BY <2>1, Zenon DEF Whole
  <1> DEFINE f == w \o <<TornRecord>>
  <1>2. /\ f \in Seq(Records) /\ Len(f) = Len(w) + 1 /\ f[Len(f)] = TornRecord
        /\ f # <<>> /\ Len(w) \in Nat
    BY TornTyped
  <1>3. SubSeq(f, 1, Len(w)) = w
    BY TornTyped
  <1>4. Whole(f) = w
    <2>1. Torn(f)
      BY <1>2, Zenon DEF Torn
    <2>2. Len(f) - 1 = Len(w)
      BY <1>2
    <2> QED
      BY <1>3, <2>1, <2>2, Zenon DEF Whole
  <1>5. w \o <<>> = w
    OBVIOUS
  <1> QED
    BY <1>1, <1>2, <1>4, <1>5, Zenon

\* What a writer leaves: the complete records, and those it wrote whole.
LEMMA WholeWritten ==
    ASSUME NEW f \in Seq(Records), \A i \in DOMAIN Whole(f) : Whole(f)[i].kind # "torn",
           NEW recs \in Seq(Records), \A i \in DOMAIN recs : recs[i].kind # "torn",
           NEW n \in 0 .. Len(recs), NEW o
    PROVE  /\ Written(f, recs, n, o) \in Seq(Records)
           /\ Whole(Written(f, recs, n, o)) = Whole(f) \o SubSeq(recs, 1, n)
  <1> DEFINE w == Whole(f) \o SubSeq(recs, 1, n)
  <1>1. Whole(f) \in Seq(Records)
    BY WholePrefix, Zenon
  <1>2. SubSeq(recs, 1, n) \in Seq(Records) /\ Len(SubSeq(recs, 1, n)) = n
    OBVIOUS
  <1>3. \A i \in DOMAIN SubSeq(recs, 1, n) : SubSeq(recs, 1, n)[i].kind # "torn"
    OBVIOUS
  <1>4. w \in Seq(Records) /\ \A i \in DOMAIN w : w[i].kind # "torn"
    <2> HIDE DEF w
    <2> DEFINE a == Whole(f)  b == SubSeq(recs, 1, n)
    <2>1. w = a \o b
      BY Zenon DEF w
    <2>2. a \in Seq(Records) /\ b \in Seq(Records)
      BY <1>1, <1>2, Zenon
    <2>3. (\A i \in DOMAIN a : a[i].kind # "torn") /\ (\A i \in DOMAIN b : b[i].kind # "torn")
      BY <1>3, Zenon
    <2> HIDE DEF a, b
    <2> QED
      BY <2>1, <2>2, <2>3
  <1> HIDE DEF w
  <1>5. Written(f, recs, n, o) = w \o (IF o = "torn" THEN <<TornRecord>> ELSE <<>>)
    BY Zenon DEF Written, Base, w
  <1>6. Written(f, recs, n, o) \in Seq(Records) /\ Whole(Written(f, recs, n, o)) = w
    BY <1>4, <1>5, WholeOf, Zenon
  <1> QED
    BY <1>6, Zenon DEF w

-----------------------------------------------------------------------------
(* Numbering.                                                              *)

\* The tail of an ordered file shows its highest sequence.
LEMMA HighestTop ==
    ASSUME NEW f \in Seq(Records), NEW last, Ordered(Whole(f), last)
    PROVE  /\ Highest(f) \in Nat
           /\ \A r \in Range(Whole(f)) : r.seq <= Highest(f)
           /\ Highest(f) = 0 \/ \E r \in Range(Whole(f)) : r.seq = Highest(f)
  <1> DEFINE w == Whole(f)
             S == {0} \cup {r.seq : r \in Range(w)}
  <1>1. /\ Len(w) \in Nat /\ DOMAIN w = 1 .. Len(w) /\ Ordered(w, last)
        /\ \A i \in DOMAIN w : w[i] \in Records
    BY WholePrefix, Zenon
  <1>2. Highest(f) = Max(S)
    BY Zenon DEF Highest
  <1> HIDE DEF w
  <1>3. \A i \in DOMAIN w : w[i].seq \in Nat
    BY <1>1, Zenon DEF Records
  <1>4. ASSUME NEW x \in S PROVE x = 0 \/ \E i \in DOMAIN w : x = w[i].seq
    <2> SUFFICES ASSUME x # 0 PROVE \E i \in DOMAIN w : x = w[i].seq
      OBVIOUS
    <2>1. PICK r \in Range(w) : x = r.seq
      OBVIOUS
    <2>2. PICK i \in DOMAIN w : w[i] = r
      BY InRange, Zenon
    <2> QED
      BY <2>1, <2>2, Zenon
  <1>5. \A i \in DOMAIN w : w[i].seq \in S /\ w[i] \in Range(w)
    BY InRange, Zenon
  <1>6. 0 \in S
    OBVIOUS
  <1> HIDE DEF S
  <1>7. S \in SUBSET Nat
    BY <1>3, <1>4
  <1>8. CASE Len(w) = 0
    <2>1. \A x \in S : x <= 0
      BY <1>1, <1>4, <1>8
    <2>2. Max(S) = 0
      BY <1>6, <1>7, <2>1, MaxIs
    <2> QED
      BY <1>1, <1>2, <1>8, <2>2, InRange DEF w
  <1>9. CASE Len(w) # 0
    <2>1. Len(w) \in DOMAIN w
      BY <1>1, <1>9
    <2>2. \A i \in DOMAIN w : i = Len(w) \/ i < Len(w)
      BY <1>1
    <2>3. \A i \in DOMAIN w : w[i].seq <= w[Len(w)].seq
      BY <1>1, <1>3, <2>1, <2>2 DEF Ordered
    <2>4. \A x \in S : x <= w[Len(w)].seq
      BY <1>3, <1>4, <2>1, <2>3
    <2>5. Max(S) = w[Len(w)].seq
      <3>1. S \in SUBSET Int /\ w[Len(w)].seq \in S
        BY <1>5, <1>7, <2>1
      <3> QED
        BY <2>4, <3>1, MaxIs, Zenon
    <2>6. \A r \in Range(w) : r.seq <= w[Len(w)].seq
      BY <2>3, InRange, Zenon
    <2> QED
      BY <1>2, <1>3, <1>5, <2>1, <2>5, <2>6, Zenon DEF w
  <1> QED
    BY <1>8, <1>9, Zenon

\* What one writer commits: numbered from `top', with at most one event in it,
\* which is newer than the `last' ones before it.
Batch(recs, top, last, new) ==
    /\ \A i \in DOMAIN recs :
          recs[i].seq = top + i /\ recs[i].kind # "torn" /\ recs[i].id <= new
    /\ \A i, j \in DOMAIN recs :
          recs[i].kind = "trigger.fired" =>
             recs[i].id > last /\ (recs[j].kind = "trigger.fired" => i = j)

\* A file that is extended by a batch above all it holds stays ordered.
LEMMA OrderedExtended ==
    ASSUME NEW w \in Seq(Records), NEW last \in Nat, Ordered(w, last),
           NEW top \in Nat, \A i \in DOMAIN w : w[i].seq <= top,
           NEW recs \in Seq(Records), NEW new \in Nat, last <= new,
           Batch(recs, top, last, new), NEW n \in 0 .. Len(recs)
    PROVE  Ordered(w \o SubSeq(recs, 1, n), new)
  <1> DEFINE b == SubSeq(recs, 1, n)
             x == w \o b
  <1>1. /\ Len(w) \in Nat /\ DOMAIN w = 1 .. Len(w) /\ DOMAIN recs = 1 .. Len(recs)
        /\ \A i \in DOMAIN w : w[i] \in Records
        /\ \A i \in DOMAIN recs : recs[i] \in Records
    BY SeqFacts, Zenon
  <1>2. /\ \A i \in DOMAIN w : w[i].seq \in Nat /\ w[i].id \in Nat
        /\ \A i \in DOMAIN recs : recs[i].seq \in Nat /\ recs[i].id \in Nat
    BY <1>1, RecordFields, Zenon
  <1>3. /\ b \in Seq(Records) /\ Len(b) = n /\ n \in Nat
        /\ \A i \in 1 .. n : i \in DOMAIN recs /\ b[i] = recs[i]
    BY PrefixFacts, Zenon
  <1> HIDE DEF b
  <1>4. /\ DOMAIN x = 1 .. (Len(w) + n)
        /\ \A i \in DOMAIN w : x[i] = w[i]
        /\ \A i \in 1 .. n : x[Len(w) + i] = b[i]
    <2>1. /\ DOMAIN x = 1 .. (Len(w) + Len(b)) /\ \A i \in DOMAIN w : x[i] = w[i]
          /\ \A i \in 1 .. Len(b) : x[Len(w) + i] = b[i]
      BY <1>3, ConcatRecords, Zenon
    <2> HIDE DEF x
    <2> QED
      BY <1>3, <2>1, Zenon
  <1>5. \A i \in DOMAIN x : i \in DOMAIN w \/ \E k \in 1 .. n : i = Len(w) + k
    <2> SUFFICES ASSUME NEW i \in 1 .. (Len(w) + n), ~ (i \in 1 .. Len(w))
                 PROVE  \E k \in 1 .. n : i = Len(w) + k
      BY <1>1, <1>4, Zenon
    <2>1. i - Len(w) \in 1 .. n /\ i = Len(w) + (i - Len(w))
      BY <1>1, <1>3
    <2> QED
      BY <2>1, Zenon
  <1>6. \A k \in 1 .. n : k \in DOMAIN recs /\ x[Len(w) + k] = recs[k]
    BY <1>3, <1>4, Zenon
  <1> HIDE DEF x
  <1>7. ASSUME NEW i \in DOMAIN x
        PROVE  x[i].kind # "torn" /\ x[i].seq > 0 /\ x[i].id <= new
    <2>1. CASE i \in DOMAIN w
      BY <1>2, <1>4, <2>1 DEF Ordered
    <2>2. ASSUME NEW k \in 1 .. n, i = Len(w) + k
          PROVE  x[i].kind # "torn" /\ x[i].seq > 0 /\ x[i].id <= new
      <3>1. x[i] = recs[k] /\ k \in DOMAIN recs
        BY <1>6, <2>2, Zenon
      <3>2. recs[k].seq = top + k /\ recs[k].kind # "torn" /\ recs[k].id <= new
        BY <3>1, Zenon DEF Batch
      <3> QED
        BY <3>1, <3>2
    <2> QED
      BY <1>5, <2>1, <2>2, Zenon
  <1>8. ASSUME NEW i \in DOMAIN x, NEW j \in DOMAIN x, i < j
        PROVE  /\ x[i].seq < x[j].seq
               /\ x[i].kind = "trigger.fired" /\ x[j].kind = "trigger.fired"
                  => x[i].id < x[j].id
    <2>1. CASE i \in DOMAIN w /\ j \in DOMAIN w
      BY <1>4, <1>8, <2>1, Zenon DEF Ordered
    <2>2. ASSUME i \in DOMAIN w, NEW l \in 1 .. n, j = Len(w) + l
          PROVE  /\ x[i].seq < x[j].seq
                 /\ x[i].kind = "trigger.fired" /\ x[j].kind = "trigger.fired"
                    => x[i].id < x[j].id
      <3>1. x[i] = w[i] /\ x[j] = recs[l] /\ l \in DOMAIN recs
        BY <1>4, <1>6, <2>2, Zenon
      <3>2. w[i].seq <= top /\ recs[l].seq = top + l /\ w[i].seq \in Nat /\ l >= 1 /\ l \in Nat
        BY <1>2, <2>2, <3>1 DEF Batch
      <3>3. /\ w[i].id \in Nat /\ recs[l].id \in Nat /\ w[i].id <= last
            /\ recs[l].kind = "trigger.fired" => recs[l].id > last
        BY <1>2, <2>2, <3>1, Zenon DEF Batch, Ordered
      <3>4. \A a, m \in Nat : a <= top /\ m >= 1 => a < top + m
        OBVIOUS
      <3>5. \A a, c \in Nat : a <= last /\ c > last => a < c
        OBVIOUS
      <3> QED
        BY <3>1, <3>2, <3>3, <3>4, <3>5, Zenon
    <2>3. ASSUME NEW k \in 1 .. n, i = Len(w) + k, j \in DOMAIN w
          PROVE  FALSE
      <3> DEFINE m == Len(w)
      <3>1. m \in Nat /\ j \in 1 .. m /\ i = m + k /\ i < j
        BY <1>1, <1>8, <2>3, Zenon
      <3> HIDE DEF m
      <3> QED
        BY <1>3, <3>1
    <2>4. ASSUME NEW k \in 1 .. n, i = Len(w) + k, NEW l \in 1 .. n, j = Len(w) + l
          PROVE  /\ x[i].seq < x[j].seq
                 /\ x[i].kind = "trigger.fired" /\ x[j].kind = "trigger.fired"
                    => x[i].id < x[j].id
      <3>1. x[i] = recs[k] /\ x[j] = recs[l] /\ k \in DOMAIN recs /\ l \in DOMAIN recs
        BY <1>6, <2>4, Zenon
      <3>2. k \in Nat /\ l \in Nat /\ k < l
        BY <1>1, <1>3, <1>8, <2>4
      <3>3. /\ recs[k].seq = top + k /\ recs[l].seq = top + l
            /\ recs[k].kind = "trigger.fired" /\ recs[l].kind = "trigger.fired" => k = l
        BY <3>1, Zenon DEF Batch
      <3> QED
        BY <3>1, <3>2, <3>3
    <2> QED
      BY <1>5, <2>1, <2>2, <2>3, <2>4, Zenon
  <1>9. Ordered(x, new)
    BY <1>7, <1>8, Zenon DEF Ordered
  <1> QED
    BY <1>9, Zenon DEF x, b

\* A compacted generation is ordered, and holds the records that were not dropped.
LEMMA KeptFacts ==
    ASSUME NEW f \in Seq(Records), NEW last, Ordered(Whole(f), last), NEW out
    PROVE  /\ Kept(f, out) \in Seq(Records)
           /\ Ordered(Whole(Kept(f, out)), last)
           /\ Range(Whole(Kept(f, out))) = {Whole(f)[i] : i \in DOMAIN Whole(f) \ out}
  <1> DEFINE w == Whole(f)
             keep == DOMAIN w \ out
             c == Cardinality(keep)
             kp == [k \in 1 .. c |-> w[Nth(keep, k)]]
  <1>1. /\ Len(w) \in Nat /\ DOMAIN w = 1 .. Len(w) /\ Ordered(w, last)
        /\ \A i \in DOMAIN w : w[i] \in Records
    BY WholePrefix, Zenon
  <1>2. Kept(f, out) = kp \o (IF Torn(f) THEN <<TornRecord>> ELSE <<>>)
    BY Zenon DEF Kept
  <1> HIDE DEF w
  <1>3. keep \in SUBSET (1 .. Len(w))
    BY <1>1, Zenon
  <1> HIDE DEF keep
  <1>4. /\ c \in Nat
        /\ \A k \in 1 .. c : Nth(keep, k) \in keep
        /\ \A k, l \in 1 .. c : k < l => Nth(keep, k) < Nth(keep, l)
        /\ \A i \in keep : \E k \in 1 .. c : Nth(keep, k) = i
    BY <1>1, <1>3, PositionsFinite, NthIn, NthAscends, Zenon
  <1>5. keep \subseteq DOMAIN w
    BY Zenon DEF keep
  <1> HIDE DEF c
  <1>6. DOMAIN kp = 1 .. c /\ \A k \in 1 .. c : kp[k] = w[Nth(keep, k)] /\ Nth(keep, k) \in DOMAIN w
    BY <1>4, <1>5, Zenon
  <1>7. kp \in Seq(Records)
    BY <1>1, <1>4, <1>5
  <1> HIDE DEF kp
  <1>8. Ordered(kp, last)
    <2>1. ASSUME NEW k \in DOMAIN kp
          PROVE  kp[k].kind # "torn" /\ kp[k].seq > 0 /\ kp[k].id <= last
      BY <1>1, <1>6, <2>1, Zenon DEF Ordered
    <2>2. ASSUME NEW k \in DOMAIN kp, NEW l \in DOMAIN kp, k < l
          PROVE  /\ kp[k].seq < kp[l].seq
                 /\ kp[k].kind = "trigger.fired" /\ kp[l].kind = "trigger.fired"
                    => kp[k].id < kp[l].id
      <3>1. Nth(keep, k) < Nth(keep, l)
        BY <1>4, <1>6, <2>2, Zenon
      <3> QED
        BY <1>1, <1>6, <3>1, Zenon DEF Ordered
    <2> QED
      BY <2>1, <2>2, Zenon DEF Ordered
  <1>9. \A k \in DOMAIN kp : kp[k].kind # "torn"
    BY <1>8, Zenon DEF Ordered
  <1>10. Kept(f, out) \in Seq(Records) /\ Whole(Kept(f, out)) = kp
    BY <1>2, <1>7, <1>9, WholeOf, Zenon
  <1>11. Range(kp) = {w[i] : i \in keep}
    <2>1. ASSUME NEW r \in Range(kp) PROVE r \in {w[i] : i \in keep}
      <3>1. PICK k \in DOMAIN kp : kp[k] = r
        BY InRange, Zenon
      <3> QED
        BY <1>4, <1>6, <3>1, Zenon
    <2>2. ASSUME NEW i \in keep PROVE w[i] \in Range(kp)
      <3>1. PICK k \in 1 .. c : Nth(keep, k) = i
        BY <1>4, Zenon
      <3>2. kp[k] = w[i] /\ k \in DOMAIN kp
        BY <1>6, <3>1, Zenon
      <3> QED
        BY <3>2, InRange, Zenon
    <2> QED
      BY <2>1, <2>2, Zenon
  <1> QED
    BY <1>8, <1>10, <1>11, Zenon DEF w, keep

\* A trigger of a file is one of its complete records.
LEMMA TriggersWhole ==
    ASSUME NEW f \in Seq(Records)
    PROVE  /\ Range(Whole(f)) \subseteq Range(f) /\ Range(Whole(f)) \subseteq Records
           /\ \A s \in Range(f) : s.kind = "trigger.fired" => s \in Range(Whole(f))
  <1>1. /\ DOMAIN Whole(f) \subseteq DOMAIN f
        /\ \A i \in DOMAIN Whole(f) : Whole(f)[i] = f[i] /\ Whole(f)[i] \in Records
    BY WholePrefix
  <1>2. ASSUME NEW s \in Range(f), s.kind = "trigger.fired" PROVE s \in Range(Whole(f))
    <2>1. PICK i \in DOMAIN f : f[i] = s
      BY InRange, Zenon
    <2>2. CASE Whole(f) = f
      BY <2>2, Zenon
    <2>3. CASE Whole(f) = SubSeq(f, 1, Len(f) - 1) /\ f # <<>> /\ f[Len(f)] = TornRecord
      <3>1. i # Len(f)
        BY <1>2, <2>1, <2>3, TornTyped, Zenon
      <3>2. i \in DOMAIN Whole(f)
        BY <2>3, <3>1
      <3> QED
        BY <1>1, <2>1, <3>2, InRange, Zenon
    <2> QED
      BY <2>2, <2>3, WholePrefix, Zenon
  <1>3. ASSUME NEW r \in Range(Whole(f)) PROVE r \in Range(f) /\ r \in Records
    <2>1. PICK i \in DOMAIN Whole(f) : Whole(f)[i] = r
      BY InRange, Zenon
    <2> QED
      BY <1>1, <2>1, InRange, Zenon
  <1> QED
    BY <1>2, <1>3, Zenon

-----------------------------------------------------------------------------
(* What the operations do to the journal.                                  *)

\* The records of an extended file are its own and those of the extension.
LEMMA RecordsExtended ==
    ASSUME NEW w \in Seq(Records), NEW b \in Seq(Records)
    PROVE  Range(w \o b) = Range(w) \cup Range(b)
  <1> DEFINE x == w \o b
  <1>1. /\ Len(w) \in Nat /\ Len(b) \in Nat
        /\ DOMAIN w = 1 .. Len(w) /\ DOMAIN b = 1 .. Len(b)
    OBVIOUS
  <1>2. Len(x) = Len(w) + Len(b) /\ DOMAIN x = 1 .. (Len(w) + Len(b))
    OBVIOUS
  <1>3. \A i \in DOMAIN w : i \in DOMAIN x /\ x[i] = w[i]
    BY <1>1, <1>2
  <1>4. \A i \in DOMAIN b : Len(w) + i \in DOMAIN x /\ x[Len(w) + i] = b[i]
    BY <1>1, <1>2
  <1>5. ASSUME NEW i \in DOMAIN x PROVE x[i] \in Range(w) \cup Range(b)
    <2>1. CASE i \in DOMAIN w
      BY <1>3, <2>1, InRange, Zenon
    <2>2. CASE i \notin DOMAIN w
      <3>1. i - Len(w) \in DOMAIN b /\ i = Len(w) + (i - Len(w))
        BY <1>1, <1>2, <2>2
      <3>2. x[i] = b[i - Len(w)]
        BY <1>4, <3>1, Zenon
      <3> HIDE DEF x
      <3> QED
        BY <3>1, <3>2, InRange, Zenon
    <2> QED
      BY <2>1, <2>2, Zenon
  <1> HIDE DEF x
  <1>6. Range(x) \subseteq Range(w) \cup Range(b)
    BY <1>5, InRange, Zenon
  <1>7. Range(w) \subseteq Range(x) /\ Range(b) \subseteq Range(x)
    <2>1. ASSUME NEW r \in Range(w) PROVE r \in Range(x)
      <3>1. PICK i \in DOMAIN w : w[i] = r
        BY InRange, Zenon
      <3>2. i \in DOMAIN x /\ x[i] = r
        BY <1>3, <3>1, Zenon
      <3> QED
        BY <3>2, InRange, Zenon
    <2>2. ASSUME NEW r \in Range(b) PROVE r \in Range(x)
      <3>1. PICK i \in DOMAIN b : b[i] = r
        BY InRange, Zenon
      <3>2. Len(w) + i \in DOMAIN x /\ x[Len(w) + i] = r
        BY <1>4, <3>1, Zenon
      <3> QED
        BY <3>2, InRange, Zenon
    <2> QED
      BY <2>1, <2>2, Zenon
  <1> QED
    BY <1>6, <1>7, Zenon DEF x

\* Events handed to Append later leave a file ordered.
LEMMA OrderedLater ==
    ASSUME NEW w \in Seq(Records), NEW last \in Nat, NEW new \in Nat, last <= new,
           Ordered(w, last)
    PROVE  Ordered(w, new)
  <1>1. \A i \in DOMAIN w : w[i].id \in Nat
    <2>1. \A i \in DOMAIN w : w[i] \in Records
      OBVIOUS
    <2> QED
      BY <2>1 DEF Records
  <1>2. \A i \in DOMAIN w : w[i].id <= new
    BY <1>1 DEF Ordered
  <1> QED
    BY <1>2, Zenon DEF Ordered

\* What is known of the current generation.
LEMMA CurrentFacts ==
    ASSUME LogInv
    PROVE  /\ pointer \in DOMAIN files /\ pointer \in Nat /\ offered \in Nat
           /\ Current \in Seq(Records) /\ Ordered(Whole(Current), offered)
           /\ Highest(Current) \in Nat
           /\ \A r \in RecordsOf(pointer) : r \in Records /\ r.seq <= Highest(Current)
           /\ Highest(Current) = 0 \/ \E r \in RecordsOf(pointer) : r.seq = Highest(Current)
  <1>1. pointer \in DOMAIN files /\ Current \in Seq(Records) /\ Ordered(Whole(Current), offered)
    BY Zenon DEF LogInv, TypeOK, Current
  <1>2. pointer \in Nat /\ offered \in Nat
    BY InstanceLogAssumption DEF LogInv, TypeOK, Gens
  <1> QED
    BY <1>1, <1>2, HighestTop, TriggersWhole, Zenon DEF RecordsOf, Current

\* A writer that numbers its records above the highest extends the current
\* generation, keeps it ordered, and leaves the other generations alone.
LEMMA WriteFacts ==
    ASSUME LogInv, NEW recs \in Seq(Records), NEW top \in Nat, Highest(Current) <= top,
           NEW new \in Nat, offered <= new, Batch(recs, top, offered, new),
           NEW n \in 0 .. Len(recs), NEW o, pointer' = pointer,
           files' = [files EXCEPT ![pointer] = Written(Current, recs, n, o)]
    PROVE  /\ DOMAIN files' = DOMAIN files
           /\ \A g \in DOMAIN files :
                 /\ files'[g] \in Seq(Records) /\ Ordered(Whole(files'[g]), new)
                 /\ g # pointer => files'[g] = files[g]
           /\ RecordsOf(pointer) \subseteq RecordsOf(pointer)'
           /\ \A r \in RecordsOf(pointer)' \ RecordsOf(pointer) : r.seq > top
           /\ n = Len(recs) => \A i \in DOMAIN recs : recs[i] \in RecordsOf(pointer)'
  <1> DEFINE w == Whole(Current)
             b == SubSeq(recs, 1, n)
  <1>1. /\ pointer \in DOMAIN files /\ offered \in Nat
        /\ Current \in Seq(Records) /\ Ordered(w, offered) /\ w \in Seq(Records)
        /\ Highest(Current) \in Nat
        /\ \A r \in RecordsOf(pointer) : r \in Records /\ r.seq <= Highest(Current)
    BY CurrentFacts, WholePrefix, Zenon
  <1>2. RecordsOf(pointer) = Range(w)
    BY Zenon DEF RecordsOf, Current
  <1>3. \A i \in DOMAIN w : w[i].seq <= top
    <2> SUFFICES ASSUME NEW i \in DOMAIN w PROVE w[i].seq <= top
      OBVIOUS
    <2>0. w[i] \in Range(w)
      BY InRange, Zenon
    <2>1. w[i] \in Records /\ w[i].seq <= Highest(Current)
      BY <1>1, <1>2, <2>0, Zenon
    <2>2. w[i].seq \in Nat
      BY <2>1, Zenon DEF Records
    <2> HIDE DEF w
    <2> QED
      BY <1>1, <2>1, <2>2
  <1>4. \A i \in DOMAIN recs : recs[i].kind # "torn" /\ recs[i].seq = top + i
    BY Zenon DEF Batch
  <1>5. \A i \in DOMAIN w : w[i].kind # "torn"
    BY <1>1, Zenon DEF Ordered
  <1>6. /\ Written(Current, recs, n, o) \in Seq(Records)
        /\ Whole(Written(Current, recs, n, o)) = w \o b
    <2>1. /\ Current \in Seq(Records)
          /\ \A i \in DOMAIN Whole(Current) : Whole(Current)[i].kind # "torn"
          /\ \A i \in DOMAIN recs : recs[i].kind # "torn"
      BY <1>1, <1>4, <1>5, Zenon
    <2> QED
      BY <2>1, WholeWritten, Zenon
  <1>7. Ordered(w \o b, new)
    BY <1>1, <1>3, OrderedExtended, Zenon
  <1>8. /\ DOMAIN files' = DOMAIN files
        /\ files'[pointer] = Written(Current, recs, n, o)
        /\ \A g \in DOMAIN files : g # pointer => files'[g] = files[g]
    BY <1>1, Zenon
  <1>9. b \in Seq(Records) /\ \A i \in DOMAIN b : i \in DOMAIN recs /\ b[i] = recs[i]
    OBVIOUS
  <1>10. RecordsOf(pointer)' = Range(w) \cup Range(b)
    BY <1>1, <1>6, <1>8, <1>9, RecordsExtended, Zenon DEF RecordsOf
  <1>11. ASSUME NEW g \in DOMAIN files
         PROVE  /\ files'[g] \in Seq(Records) /\ Ordered(Whole(files'[g]), new)
                /\ g # pointer => files'[g] = files[g]
    <2>1. CASE g = pointer
      BY <1>6, <1>7, <1>8, <2>1, Zenon
    <2>2. CASE g # pointer
      <3>1. files[g] \in Seq(Records) /\ Ordered(Whole(files[g]), offered)
        BY Zenon DEF LogInv, TypeOK
      <3>2. Whole(files[g]) \in Seq(Records)
        BY <3>1, WholePrefix, Zenon
      <3> QED
        BY <1>1, <1>8, <2>2, <3>1, <3>2, OrderedLater, Zenon
    <2> QED
      BY <2>1, <2>2, Zenon
  <1>12. ASSUME NEW r \in Range(b) PROVE r.seq > top
    <2>1. PICK i \in DOMAIN b : b[i] = r
      BY InRange, Zenon
    <2>2. i \in DOMAIN recs /\ r.seq = top + i
      BY <1>4, <1>9, <2>1, Zenon
    <2>3. i \in Nat /\ i >= 1
      BY <2>2
    <2> QED
      BY <2>2, <2>3
  <1>13. n = Len(recs) => \A i \in DOMAIN recs : recs[i] \in Range(b)
    <2> SUFFICES ASSUME n = Len(recs) PROVE \A i \in DOMAIN recs : recs[i] \in Range(b)
      OBVIOUS
    <2>1. \A i \in DOMAIN recs : i \in DOMAIN b
      OBVIOUS
    <2> QED
      BY <1>9, <2>1, InRange, Zenon
  <1> QED
    BY <1>2, <1>8, <1>10, <1>11, <1>12, <1>13, Zenon

\* A write above the highest sequence disturbs neither the fold nor the watermark.
LEMMA WriteKeeps ==
    ASSUME LogInv, NEW recs \in Seq(Records), NEW top \in Nat, Highest(Current) <= top,
           NEW new \in Nat, offered <= new, Batch(recs, top, offered, new),
           NEW n \in 0 .. Len(recs), NEW o,
           files' = [files EXCEPT ![pointer] = Written(Current, recs, n, o)],
           UNCHANGED <<retention, pointer, fold>>
    PROVE  FoldSound' /\ HighestKept'
  <1>1. /\ DOMAIN files' = DOMAIN files /\ pointer' = pointer /\ fold' = fold
        /\ \A g \in DOMAIN files :
              /\ files'[g] \in Seq(Records) /\ Ordered(Whole(files'[g]), new)
              /\ g # pointer => files'[g] = files[g]
        /\ RecordsOf(pointer) \subseteq RecordsOf(pointer)'
        /\ \A r \in RecordsOf(pointer)' \ RecordsOf(pointer) : r.seq > top
    BY WriteFacts, Zenon
  <1>2. /\ pointer \in DOMAIN files /\ Highest(Current) \in Nat
        /\ \A r \in RecordsOf(pointer) : r \in Records /\ r.seq <= Highest(Current)
        /\ Highest(Current) = 0 \/ \E r \in RecordsOf(pointer) : r.seq = Highest(Current)
    BY CurrentFacts, Zenon
  <1>3. \A r \in RecordsOf(pointer)' : r.seq \in Nat
    <2>1. RecordsOf(pointer)' \subseteq Records
      BY <1>1, <1>2, TriggersWhole, Zenon DEF RecordsOf
    <2> QED
      BY <2>1, Zenon DEF Records
  <1>4. \A r \in RecordsOf(pointer)' : r \in RecordsOf(pointer) \/ r.seq > Highest(Current)
    BY <1>1, <1>2, <1>3
  <1>5. ASSUME NEW g \in DOMAIN files, g # pointer PROVE RecordsOf(g)' = RecordsOf(g)
    BY <1>1, <1>5, Zenon DEF RecordsOf
  <1>6. FoldSound'
    <2>1. CASE fold.gen # pointer
      <3>1. fold.gen \in DOMAIN files => RecordsOf(fold.gen)' = RecordsOf(fold.gen)
        BY <1>1, <2>1, Zenon DEF RecordsOf
      <3>2. FoldSound
        BY Zenon DEF LogInv
      <3>3. CASE fold.gen \in DOMAIN files
        <4> DEFINE R == RecordsOf(fold.gen)
        <4>1. RecordsOf(fold.gen)' = R
          BY <3>1, <3>3, Zenon
        <4>2. /\ fold.seen = {r \in R : r.seq <= fold.seq}
              /\ fold.seq = 0 \/ \E r \in R : r.seq = fold.seq
              /\ fold.step = "check" /\ fold.path = fold.gen =>
                    /\ fold.got \subseteq {r \in R : r.seq > fold.seq}
                    /\ \A r \in R \ fold.got : \A s \in fold.got :
                          r.seq > fold.seq => r.seq > s.seq
          BY <3>2, <3>3, Zenon DEF FoldSound
        <4> HIDE DEF R
        <4> QED
          BY <1>1, <3>2, <4>1, <4>2, Zenon DEF FoldSound
      <3>4. CASE fold.gen \notin DOMAIN files
        BY <1>1, <3>2, <3>4, Zenon DEF FoldSound
      <3> QED
        BY <3>3, <3>4, Zenon
    <2>2. CASE fold.gen = pointer
      <3>1. /\ RecordsOf(fold.gen)' = RecordsOf(pointer)'
            /\ RecordsOf(fold.gen) = RecordsOf(pointer)
        BY <1>1, <2>2, Zenon DEF RecordsOf
      <3>2. FoldSound /\ fold.seq \in Nat
        BY Zenon DEF LogInv, TypeOK
      <3>3. fold.seq <= Highest(Current)
        BY <1>2, <2>2, <3>1, <3>2 DEF FoldSound
      <3>4. \A r \in RecordsOf(pointer)' : r \in RecordsOf(pointer) \/ r.seq > fold.seq
        BY <1>2, <1>3, <1>4, <3>2, <3>3
      <3>5. fold.seen = {r \in RecordsOf(pointer)' : r.seq <= fold.seq}
        <4>1. fold.seen = {r \in RecordsOf(pointer) : r.seq <= fold.seq}
          BY <1>2, <2>2, <3>1, <3>2, Zenon DEF FoldSound
        <4>2. \A r \in RecordsOf(pointer)' : r.seq <= fold.seq => r \in RecordsOf(pointer)
          BY <1>3, <3>2, <3>4
        <4> QED
          BY <1>1, <4>1, <4>2, Zenon
      <3>6. fold.seq = 0 \/ \E r \in RecordsOf(pointer)' : r.seq = fold.seq
        BY <1>1, <1>2, <2>2, <3>1, <3>2, Zenon DEF FoldSound
      <3>7. ASSUME fold.step = "check", fold.path = fold.gen
            PROVE  /\ fold.got \subseteq {r \in RecordsOf(pointer)' : r.seq > fold.seq}
                   /\ \A r \in RecordsOf(pointer)' \ fold.got : \A s \in fold.got :
                         r.seq > fold.seq => r.seq > s.seq
        <4>1. /\ fold.got \subseteq {r \in RecordsOf(pointer) : r.seq > fold.seq}
              /\ \A r \in RecordsOf(pointer) \ fold.got : \A s \in fold.got :
                    r.seq > fold.seq => r.seq > s.seq
          BY <1>2, <2>2, <3>1, <3>2, <3>7, Zenon DEF FoldSound
        <4>2. \A s \in fold.got : s.seq <= Highest(Current) /\ s.seq \in Nat
          BY <1>1, <1>2, <1>3, <4>1, Zenon
        <4>3. ASSUME NEW r \in RecordsOf(pointer)' \ fold.got, NEW s \in fold.got,
                     r.seq > fold.seq
              PROVE  r.seq > s.seq
          <5>1. CASE r \in RecordsOf(pointer)
            BY <4>1, <4>3, <5>1, Zenon
          <5>2. CASE r.seq > Highest(Current)
            BY <1>2, <1>3, <4>2, <5>2
          <5> QED
            BY <1>4, <5>1, <5>2, Zenon
        <4> QED
          BY <1>1, <4>1, <4>3, Zenon
      <3> QED
        BY <1>1, <2>2, <3>1, <3>2, <3>5, <3>6, <3>7, Zenon DEF FoldSound
    <2> QED
      BY <2>1, <2>2, Zenon
  <1>7. HighestKept'
    <2> SUFFICES ASSUME ~retention, NEW g \in DOMAIN files, NEW r \in RecordsOf(g)'
                 PROVE  r.seq <= Highest(Current)'
      BY <1>1, Zenon DEF HighestKept
    <2>1. /\ Highest(Current)' \in Nat /\ \A s \in RecordsOf(pointer)' : s.seq <= Highest(Current)'
      BY <1>1, <1>2, HighestTop, Zenon DEF RecordsOf, Current
    <2>2. Highest(Current) <= Highest(Current)'
      BY <1>1, <1>2, <2>1
    <2>3. CASE g = pointer
      BY <1>1, <2>1, <2>3, Zenon DEF RecordsOf
    <2>4. CASE g # pointer
      <3>1. r \in RecordsOf(g)
        BY <1>5, <2>4, Zenon
      <3>2. r.seq <= Highest(Current)
        BY <3>1, Zenon DEF LogInv, HighestKept
      <3>3. r.seq \in Nat
        <4>1. files[g] \in Seq(Records)
          BY Zenon DEF LogInv, TypeOK
        <4>2. r \in Records
          BY <3>1, <4>1, TriggersWhole, Zenon DEF RecordsOf
        <4> QED
          BY <4>2, Zenon DEF Records
      <3> QED
        BY <1>2, <2>1, <2>2, <3>2, <3>3
    <2> QED
      BY <2>3, <2>4, Zenon
  <1> QED
    BY <1>6, <1>7, Zenon

\* What CommittedKept asks of a file, and the same of its complete records.
CommittedIn(ack, drop, f) ==
    \A r \in ack :
        /\ r.id \in drop \/ r \in Range(Whole(f))
        /\ r.kind = "trigger.fired" =>
              \E s \in Range(f) : s.kind = "trigger.fired" /\ s.id >= r.id
Committed(ack, drop, R) ==
    \A r \in ack :
        /\ r.id \in drop \/ r \in R
        /\ r.kind = "trigger.fired" => \E s \in R : s.kind = "trigger.fired" /\ s.id >= r.id

\* A torn record commits nothing.
LEMMA CommittedWhole ==
    ASSUME NEW f \in Seq(Records), NEW ack, NEW drop
    PROVE  /\ CommittedIn(ack, drop, f) => Committed(ack, drop, Range(Whole(f)))
           /\ Committed(ack, drop, Range(Whole(f))) => CommittedIn(ack, drop, f)
  <1>1. /\ Range(Whole(f)) \subseteq Range(f)
        /\ \A s \in Range(f) : s.kind = "trigger.fired" => s \in Range(Whole(f))
    BY TriggersWhole, Zenon
  <1>2. CommittedIn(ack, drop, f) => Committed(ack, drop, Range(Whole(f)))
    BY <1>1, Zenon DEF Committed, CommittedIn
  <1>3. Committed(ack, drop, Range(Whole(f))) => CommittedIn(ack, drop, f)
    BY <1>1, Zenon DEF Committed, CommittedIn
  <1> QED
    BY <1>2, <1>3, Zenon

\* A repair marker is a batch of its own.
LEMMA RepairBatch ==
    ASSUME NEW f, NEW top \in Nat, NEW last \in Nat
    PROVE  /\ Repair(f, top) \in Seq(Records) /\ Len(Repair(f, top)) \in {0, 1}
           /\ Batch(Repair(f, top), top, last, last)
  <1>1. Record(0, top + 1, "repaired") \in Records
    BY InstanceLogAssumption DEF Record, Records
  <1>2. CASE Torn(f)
    <2> DEFINE m == Record(0, top + 1, "repaired")
    <2>1. Repair(f, top) = <<m>>
      BY <1>2, Zenon DEF Repair
    <2>2. m.seq = top + 1 /\ m.kind = "repaired" /\ m.id = 0
      BY Zenon DEF Record
    <2>3. <<m>> \in Seq(Records) /\ Len(<<m>>) = 1 /\ DOMAIN <<m>> = {1} /\ <<m>>[1] = m
      BY <1>1
    <2> HIDE DEF m
    <2>4. Batch(<<m>>, top, last, last)
      <3>1. \A i \in DOMAIN <<m>> : i = 1
        BY <2>3, Zenon
      <3>2. m.id <= last /\ m.kind # "torn" /\ m.kind # "trigger.fired"
        BY <2>2
      <3> QED
        BY <2>2, <2>3, <3>1, <3>2, Zenon DEF Batch
    <2> QED
      BY <2>1, <2>3, <2>4, Zenon
  <1>3. CASE ~Torn(f)
    <2>1. Repair(f, top) = <<>>
      BY <1>3, Zenon DEF Repair
    <2>2. <<>> \in Seq(Records) /\ Len(<<>>) = 0 /\ DOMAIN <<>> = {}
      OBVIOUS
    <2> QED
      BY <2>1, <2>2, Zenon DEF Batch
  <1> QED
    BY <1>2, <1>3, Zenon

\* An event, after the repair marker if there is one, is a batch.
EventOf(f, top, last, kind) == Record(last + 1, top + Len(Repair(f, top)) + 1, kind)
BatchOf(f, top, last, kind) == Append(Repair(f, top), EventOf(f, top, last, kind))

LEMMA EventBatch ==
    ASSUME NEW f, NEW top \in Nat, NEW last \in Nat, last + 1 \in 0 .. MaxRecords,
           NEW kind \in Kinds
    PROVE  /\ BatchOf(f, top, last, kind) \in Seq(Records)
           /\ Len(BatchOf(f, top, last, kind)) \in 1 .. 2
           /\ BatchOf(f, top, last, kind)[Len(BatchOf(f, top, last, kind))] = EventOf(f, top, last, kind)
           /\ BatchOf(f, top, last, kind)[Len(BatchOf(f, top, last, kind))]
                 = EventOf(f, top, last, kind)
           /\ Batch(BatchOf(f, top, last, kind), top, last, last + 1)
  <1> DEFINE mark == Repair(f, top)
             e == EventOf(f, top, last, kind)
  <1>0. e = Record(last + 1, top + Len(mark) + 1, kind)
    BY Zenon DEF EventOf
  <1> HIDE DEF e
  <1>1. /\ mark \in Seq(Records) /\ Len(mark) \in {0, 1} /\ Batch(mark, top, last, last)
    BY RepairBatch, Zenon
  <1>2. /\ e \in Records /\ e.seq = top + Len(mark) + 1 /\ e.kind = kind /\ e.id = last + 1
    BY <1>0, <1>1 DEF Record, Records
  <1> DEFINE x == Append(mark, e)
  <1>3. /\ x \in Seq(Records) /\ Len(x) = Len(mark) + 1 /\ x[Len(mark) + 1] = e
        /\ DOMAIN x = 1 .. (Len(mark) + 1)
        /\ \A i \in DOMAIN mark : x[i] = mark[i]
    BY <1>1, <1>2
  <1>4. x[Len(x)] = e
    BY <1>3, Zenon
  <1> HIDE DEF x
  <1>5. \A i \in DOMAIN x : i \in DOMAIN mark \/ i = Len(mark) + 1
    BY <1>1, <1>3
  <1>6. ASSUME NEW i \in DOMAIN mark
        PROVE  mark[i].seq = top + i /\ mark[i].kind # "torn" /\ mark[i].id <= last
    BY <1>1, Zenon DEF Batch
  <1>7. \A i \in DOMAIN mark : mark[i].kind = "repaired" /\ mark[i].id = 0
    BY DEF Repair, Record
  <1>8. ASSUME NEW i \in DOMAIN x
        PROVE  x[i].seq = top + i /\ x[i].kind # "torn" /\ x[i].id <= last + 1
    <2>1. CASE i \in DOMAIN mark
      <3>1. x[i] = mark[i] /\ mark[i].id = 0
        BY <1>3, <1>7, <2>1, Zenon
      <3> QED
        BY <1>6, <2>1, <3>1
    <2>2. CASE i = Len(mark) + 1
      BY <1>1, <1>2, <1>3, <2>2 DEF Kinds
    <2> QED
      BY <1>5, <2>1, <2>2, Zenon
  <1>9. ASSUME NEW i \in DOMAIN x, NEW j \in DOMAIN x, x[i].kind = "trigger.fired"
        PROVE  x[i].id > last /\ (x[j].kind = "trigger.fired" => i = j)
    <2>1. ASSUME NEW k \in DOMAIN x, x[k].kind = "trigger.fired" PROVE k = Len(mark) + 1
      BY <1>3, <1>5, <1>7, <2>1, Zenon
    <2>2. i = Len(mark) + 1 /\ (x[j].kind = "trigger.fired" => j = Len(mark) + 1)
      BY <1>9, <2>1, Zenon
    <2>3. x[i].id > last
      BY <1>2, <1>3, <2>2
    <2> QED
      BY <2>2, <2>3, Zenon
  <1>10. Batch(x, top, last, last + 1)
    BY <1>8, <1>9, Zenon DEF Batch
  <1>11. Len(x) \in 1 .. 2 /\ x[Len(x)] = e
    BY <1>1, <1>3
  <1> QED
    BY <1>2, <1>3, <1>4, <1>10, <1>11, Zenon DEF x, e, BatchOf

\* The step of NoSequenceReused.
FreshSequences ==
    ~retention => \A r \in Range(Whole(files'[pointer'])) \ Readable :
                     \A s \in Readable : r.seq > s.seq

\* A write above the highest sequence keeps the invariant, whoever is told of it,
\* and reuses no sequence.
LEMMA WriteInv ==
    ASSUME LogInv, NEW recs \in Seq(Records), NEW top \in Nat, Highest(Current) <= top,
           offered' \in 0 .. MaxRecords, offered <= offered',
           Batch(recs, top, offered, offered'),
           NEW n \in 0 .. Len(recs), NEW o,
           files' = [files EXCEPT ![pointer] = Written(Current, recs, n, o)],
           handle' \in [Procs -> {Closed} \cup [gen : Gens, seq : Nat]],
           faults' \in 0 .. MaxFaults,
           \A r \in acked' : r \in acked \/ (n = Len(recs) /\ \E i \in DOMAIN recs : r = recs[i]),
           UNCHANGED <<retention, pointer, fold, dropped>>
    PROVE  LogInv' /\ FreshSequences
  <1>1. /\ pointer \in DOMAIN files /\ offered \in Nat /\ Highest(Current) \in Nat
        /\ Current \in Seq(Records)
    BY CurrentFacts, Zenon
  <1>2. offered' \in Nat
    OBVIOUS
  <1>3. /\ DOMAIN files' = DOMAIN files /\ pointer' = pointer /\ fold' = fold
        /\ retention' = retention /\ dropped' = dropped
        /\ \A g \in DOMAIN files :
              /\ files'[g] \in Seq(Records) /\ Ordered(Whole(files'[g]), offered')
              /\ g # pointer => files'[g] = files[g]
        /\ RecordsOf(pointer) \subseteq RecordsOf(pointer)'
        /\ \A r \in RecordsOf(pointer)' \ RecordsOf(pointer) : r.seq > top
        /\ n = Len(recs) => \A i \in DOMAIN recs : recs[i] \in RecordsOf(pointer)'
    BY <1>2, WriteFacts, Zenon
  <1>4. FoldSound' /\ HighestKept'
    BY <1>2, WriteKeeps, Zenon
  <1>5. \A r \in acked' : r \in acked \/ r \in RecordsOf(pointer)'
    BY <1>3, Zenon
  <1>6. RecordsOf(pointer)' = Range(Whole(files'[pointer])) /\ RecordsOf(pointer)' \subseteq Records
    BY <1>1, <1>3, TriggersWhole, Zenon DEF RecordsOf
  <1>7. TypeOK'
    <2>1. acked' \subseteq Records
      BY <1>5, <1>6, Zenon DEF LogInv, TypeOK
    <2>2. dropped' \subseteq 0 .. offered'
      <3>1. dropped \subseteq 0 .. offered
        BY Zenon DEF LogInv, TypeOK
      <3> QED
        BY <1>1, <1>2, <1>3, <3>1
    <2> QED
      BY <1>3, <2>1, <2>2, Zenon DEF LogInv, TypeOK
  <1>8. CommittedKept'
    <2>1. Committed(acked, dropped, RecordsOf(pointer))
      <3>1. CommittedIn(acked, dropped, Current)
        BY Zenon DEF LogInv, CommittedKept, CommittedIn
      <3> QED
        BY <1>1, <3>1, CommittedWhole, Zenon DEF RecordsOf, Current
    <2>2. Committed(acked', dropped', RecordsOf(pointer)')
      <3>1. ASSUME NEW r \in acked'
            PROVE  /\ r.id \in dropped' \/ r \in RecordsOf(pointer)'
                   /\ r.kind = "trigger.fired" =>
                         \E s \in RecordsOf(pointer)' : s.kind = "trigger.fired" /\ s.id >= r.id
        <4>1. CASE r \in acked
          BY <1>3, <2>1, <4>1, Zenon DEF Committed
        <4>2. CASE r \in RecordsOf(pointer)'
          <5>1. r.id >= r.id
            BY <1>6, <4>2 DEF Records
          <5> QED
            BY <4>2, <5>1, Zenon
        <4> QED
          BY <1>5, <4>1, <4>2, Zenon
      <3> QED
        BY <3>1, Zenon DEF Committed
    <2>3. files'[pointer] \in Seq(Records)
      BY <1>1, <1>3, Zenon
    <2>4. Current' = files'[pointer]
      BY <1>3, Zenon DEF Current
    <2>5. CommittedIn(acked', dropped', files'[pointer])
      BY <1>6, <2>2, <2>3, CommittedWhole, Zenon
    <2> QED
      BY <2>4, <2>5, Zenon DEF CommittedKept, CommittedIn
  <1>9. FreshSequences
    <2> SUFFICES ASSUME ~retention, NEW r \in RecordsOf(pointer)', r \notin Readable,
                        NEW s \in Readable
                 PROVE  r.seq > s.seq
      BY <1>3, <1>6, Zenon DEF FreshSequences
    <2>1. PICK g \in DOMAIN files : s \in RecordsOf(g)
      BY Zenon DEF Readable, RecordsOf
    <2>2. s.seq <= Highest(Current)
      BY <2>1, Zenon DEF LogInv, HighestKept
    <2>3. r \notin RecordsOf(pointer)
      BY <1>1, Zenon DEF Readable, RecordsOf
    <2>4. r.seq > top
      BY <1>3, <2>3, Zenon
    <2>5. r.seq \in Nat /\ s.seq \in Nat
      <3>1. files[g] \in Seq(Records)
        BY Zenon DEF LogInv, TypeOK
      <3>2. s \in Records
        BY <2>1, <3>1, TriggersWhole, Zenon DEF RecordsOf
      <3> QED
        BY <1>6, <3>2, Zenon DEF Records
    <2> QED
      BY <1>1, <2>2, <2>4, <2>5
  <1> QED
    BY <1>3, <1>4, <1>7, <1>8, <1>9, Zenon DEF LogInv

\* OpenInstanceLog numbers its repair marker after the tail.
LEMMA OpenKeeps ==
    ASSUME LogInv, NEW p \in Procs, Open(p)
    PROVE  LogInv' /\ FreshSequences
  <1> DEFINE top == Highest(Current)
             recs == Repair(Current, top)
  <1>1. PICK n \in 0 .. Len(recs), o \in Outcomes :
            /\ files' = [files EXCEPT ![pointer] = Written(Current, recs, n, o)]
            /\ IF o = "ok"
               THEN /\ handle' = [handle EXCEPT
                                    ![p] = [gen |-> pointer, seq |-> top + Len(recs)]]
                    /\ UNCHANGED faults
               ELSE Fault /\ UNCHANGED handle
    BY Zenon DEF Open, SetCurrent
  <1>2. UNCHANGED <<retention, pointer, fold, offered, acked, dropped>>
    BY Zenon DEF Open
  <1>3. top \in Nat /\ offered \in Nat /\ pointer \in DOMAIN files
    BY CurrentFacts, Zenon
  <1> HIDE DEF top
  <1>4. recs \in Seq(Records) /\ Len(recs) \in Nat /\ Batch(recs, top, offered, offered)
    <2>1. \A x : x \in {0, 1} => x \in Nat
      OBVIOUS
    <2> QED
      BY <1>3, <2>1, RepairBatch, Zenon
  <1> HIDE DEF recs
  <1>5. handle' \in [Procs -> {Closed} \cup [gen : Gens, seq : Nat]]
    <2>1. handle \in [Procs -> {Closed} \cup [gen : Gens, seq : Nat]] /\ pointer \in Gens
      BY <1>3, Zenon DEF LogInv, TypeOK
    <2>2. [gen |-> pointer, seq |-> top + Len(recs)] \in [gen : Gens, seq : Nat]
      BY <1>3, <1>4, <2>1
    <2> QED
      BY <1>1, <2>1, <2>2, Zenon
  <1>6. faults' \in 0 .. MaxFaults
    BY <1>1, InstanceLogAssumption DEF LogInv, TypeOK, Fault
  <1>7. /\ offered' \in 0 .. MaxRecords /\ offered' = offered /\ acked' = acked
    BY <1>2, Zenon DEF LogInv, TypeOK
  <1>8. Highest(Current) <= top /\ offered <= offered'
    BY <1>3, <1>7 DEF top
  <1> QED
    BY <1>1, <1>2, <1>3, <1>4, <1>5, <1>6, <1>7, <1>8, WriteInv, Zenon

\* An append numbers its records after the tail and after its own handle.
LEMMA TopFacts ==
    ASSUME LogInv, NEW p \in Procs
    PROVE  Top(p) \in Nat /\ Highest(Current) <= Top(p)
  <1>1. Highest(Current) \in Nat
    BY CurrentFacts, Zenon
  <1>2. handle[p].seq \in Nat
    <2>1. handle[p] \in {Closed} \cup [gen : Gens, seq : Nat]
      BY Zenon DEF LogInv, TypeOK
    <2> QED
      BY <2>1 DEF Closed
  <1> DEFINE a == Highest(Current)  b == handle[p].seq
  <1>3. a \in Nat /\ b \in Nat /\ Top(p) = Max({a, b})
    BY <1>1, <1>2, Zenon DEF Top
  <1> HIDE DEF a, b
  <1>4. CASE a <= b
    <2>1. Max({a, b}) = b
      BY <1>3, <1>4, MaxIs
    <2> QED
      BY <1>3, <1>4, <2>1, Zenon DEF a
  <1>5. CASE b <= a
    <2>1. Max({a, b}) = a
      BY <1>3, <1>5, MaxIs
    <2> QED
      BY <1>3, <2>1 DEF a
  <1> QED
    BY <1>3, <1>4, <1>5

\* InstanceLog.Append writes above the highest sequence of the generation that
\* the pointer names.
LEMMA AppendKeeps ==
    ASSUME LogInv, NEW p \in Procs, NEW kind \in Kinds, AppendEvent(p, kind)
    PROVE  LogInv' /\ FreshSequences
  <1> DEFINE top == Top(p)
             recs == BatchOf(Current, top, offered, kind)
             e == EventOf(Current, top, offered, kind)
  <1>1. PICK n \in 0 .. Len(recs), o \in Outcomes :
            /\ Reaches(recs, n, o)
            /\ files' = [files EXCEPT ![pointer] = Written(@, recs, n, o)]
            /\ handle' = [handle EXCEPT
                            ![p] = [gen |-> pointer, seq |-> top + Min({n + 1, Len(recs)})]]
            /\ IF o = "ok" THEN acked' = acked \cup {recs[Len(recs)]} /\ UNCHANGED faults
                           ELSE Fault /\ UNCHANGED acked
    BY Zenon DEF AppendEvent, AppendTo, Active, Current, BatchOf, EventOf
  <1>2. /\ offered < MaxRecords /\ offered' = offered + 1
        /\ UNCHANGED <<retention, pointer, fold, dropped>>
    BY Zenon DEF AppendEvent
  <1>3. /\ top \in Nat /\ Highest(Current) <= top /\ offered \in Nat /\ pointer \in DOMAIN files
    BY TopFacts, CurrentFacts, Zenon
  <1> HIDE DEF top
  <1>4. offered + 1 \in 0 .. MaxRecords /\ offered <= offered + 1
    BY <1>2, <1>3, InstanceLogAssumption
  <1>5. /\ recs \in Seq(Records) /\ Len(recs) \in 1 .. 2
        /\ recs[Len(recs)] = e /\ Batch(recs, top, offered, offered + 1)
    BY <1>3, <1>4, EventBatch, Zenon
  <1> HIDE DEF recs, e
  <1>6. files' = [files EXCEPT ![pointer] = Written(Current, recs, n, o)]
    BY <1>1, Zenon DEF Current
  <1>7. handle' \in [Procs -> {Closed} \cup [gen : Gens, seq : Nat]]
    <2>1. handle \in [Procs -> {Closed} \cup [gen : Gens, seq : Nat]] /\ pointer \in Gens
      BY <1>3, Zenon DEF LogInv, TypeOK
    <2>2. Min({n + 1, Len(recs)}) \in Nat
      <3> DEFINE a == n + 1  b == Len(recs)
      <3>1. a \in Nat /\ b \in Nat
        BY <1>5
      <3> HIDE DEF a, b
      <3>2. \E x \in {a, b} : \A y \in {a, b} : x <= y
        BY <3>1
      <3>3. Min({a, b}) \in {a, b}
        BY <3>2, Zenon DEF Min
      <3> QED
        BY <3>1, <3>3, Zenon DEF a, b
    <2>3. [gen |-> pointer, seq |-> top + Min({n + 1, Len(recs)})] \in [gen : Gens, seq : Nat]
      BY <1>3, <2>1, <2>2
    <2> QED
      BY <1>1, <2>1, <2>3, Zenon
  <1>8. faults' \in 0 .. MaxFaults
    BY <1>1, InstanceLogAssumption DEF LogInv, TypeOK, Fault
  <1>9. ASSUME NEW r \in acked'
        PROVE  r \in acked \/ (n = Len(recs) /\ \E i \in DOMAIN recs : r = recs[i])
    <2>1. CASE o = "ok"
      <3>1. n = Len(recs)
        BY <1>1, <2>1, Zenon DEF Reaches
      <3>2. Len(recs) \in DOMAIN recs
        <4>1. recs \in Seq(Records) /\ Len(recs) \in 1 .. 2
          BY <1>5, Zenon
        <4>2. \A k \in 1 .. 2 : k \in 1 .. k
          OBVIOUS
        <4> QED
          BY <4>1, <4>2, SeqFacts, Zenon
      <3> QED
        BY <1>1, <1>5, <2>1, <3>1, <3>2, Zenon
    <2>2. CASE o # "ok"
      BY <1>1, <2>2, Zenon
    <2> QED
      BY <2>1, <2>2, Zenon
  <1> QED
    BY <1>2, <1>3, <1>4, <1>5, <1>6, <1>7, <1>8, <1>9, WriteInv, Zenon

\* What installCompactedGeneration leaves on disk, wherever it stops: the next
\* generation or none, and generations that are as they were.
LEMMA InstallFacts ==
    ASSUME LogInv, NEW p \in Procs, NEW out, Install(p, out)
    PROVE  /\ pointer + 1 \in Gens /\ pointer + 1 \in Nat
           /\ DOMAIN files' \subseteq DOMAIN files \cup {pointer + 1}
           /\ \A g \in DOMAIN files' :
                 files'[g] = IF g = pointer + 1 THEN Kept(Current, out) ELSE files[g]
           /\ pointer' \in DOMAIN files'
           /\ \/ pointer' = pointer /\ dropped' = dropped
              \/ /\ pointer' = pointer + 1
                 /\ dropped' = dropped \cup {Current[i].id : i \in out}
           /\ handle' \in [Procs -> {Closed} \cup [gen : Gens, seq : Nat]]
           /\ faults' \in 0 .. MaxFaults
           /\ UNCHANGED <<retention, fold, offered, acked>>
  <1> DEFINE next == pointer + 1
             grown == [g \in DOMAIN files \cup {next} |->
                          IF g = next THEN Kept(Current, out) ELSE files[g]]
  <1>1. /\ \/ /\ Fault
              /\ files' = grown
              /\ UNCHANGED <<pointer, handle, dropped>>
           \/ /\ pointer' = next
              /\ dropped' = dropped \cup {Current[i].id : i \in out}
              /\ \/ /\ \E gone \in {{}, Stale(next)} :
                         files' = Restrict(grown, DOMAIN grown \ gone)
                    /\ handle' = IF handle[p] = Closed THEN handle
                                 ELSE [handle EXCEPT ![p].gen = next]
                    /\ UNCHANGED faults
                 \/ /\ Fault
                    /\ files' = grown
                    /\ UNCHANGED handle
        /\ UNCHANGED <<retention, fold, offered, acked>>
    BY Zenon DEF Install
  <1>2. pointer \in DOMAIN files /\ pointer \in Nat
    BY CurrentFacts, Zenon
  <1>3. next \in Gens /\ next \in Nat /\ next # pointer
    BY <1>2, InstanceLogAssumption DEF Install, Gens
  <1>4. handle \in [Procs -> {Closed} \cup [gen : Gens, seq : Nat]]
    BY Zenon DEF LogInv, TypeOK
  <1>5. handle' \in [Procs -> {Closed} \cup [gen : Gens, seq : Nat]]
    <2>1. CASE UNCHANGED handle
      BY <1>4, <2>1, Zenon
    <2>2. CASE handle[p] # Closed /\ handle' = [handle EXCEPT ![p].gen = next]
      <3>1. handle[p] \in [gen : Gens, seq : Nat]
        BY <1>4, <2>2, Zenon
      <3>2. [handle[p] EXCEPT !.gen = next] \in [gen : Gens, seq : Nat]
        BY <1>3, <3>1, Zenon
      <3> QED
        BY <1>4, <2>2, <3>2, Zenon
    <2> QED
      BY <1>1, <2>1, <2>2, Zenon
  <1>6. faults' \in 0 .. MaxFaults
    BY <1>1, InstanceLogAssumption DEF LogInv, TypeOK, Fault
  <1>7. /\ DOMAIN grown = DOMAIN files \cup {next}
        /\ \A g \in DOMAIN grown : grown[g] = IF g = next THEN Kept(Current, out) ELSE files[g]
    BY Zenon
  <1> HIDE DEF grown
  <1>8. \E gone \in {{}, Stale(next)} :
           DOMAIN files' = DOMAIN grown \ gone /\ \A g \in DOMAIN files' : files'[g] = grown[g]
    <2>1. CASE files' = grown
      BY <2>1, Zenon
    <2>2. CASE \E gone \in {{}, Stale(next)} : files' = Restrict(grown, DOMAIN grown \ gone)
      BY <2>2, Zenon DEF Restrict
    <2> QED
      BY <1>1, <2>1, <2>2, Zenon
  <1>9. pointer' \in DOMAIN files'
    <2>1. CASE pointer' = pointer /\ files' = grown
      BY <1>2, <1>7, <2>1, Zenon
    <2>2. CASE pointer' = next
      <3>1. next \notin Stale(next)
        BY <1>3 DEF Stale
      <3> QED
        BY <1>7, <1>8, <2>2, <3>1, Zenon
    <2> QED
      BY <1>1, <2>1, <2>2, Zenon
  <1> QED
    BY <1>1, <1>3, <1>5, <1>6, <1>7, <1>8, <1>9, Zenon

\* A compaction that keeps a trigger no older than any it drops, and the highest
\* sequence while there is no retention, keeps the invariant.
LEMMA InstallKeeps ==
    ASSUME LogInv, NEW p \in Procs, NEW out, Install(p, out),
           out \subseteq DOMAIN Whole(Current),
           \A s \in RecordsOf(pointer) : s.kind = "trigger.fired" =>
              \E i \in DOMAIN Whole(Current) \ out :
                 Whole(Current)[i].kind = "trigger.fired" /\ Whole(Current)[i].id >= s.id,
           ~retention => \/ Highest(Current) = 0
                         \/ \E i \in DOMAIN Whole(Current) \ out :
                               Whole(Current)[i].seq = Highest(Current)
    PROVE  LogInv' /\ FreshSequences
  <1> DEFINE next == pointer + 1
             w == Whole(Current)
             K == Kept(Current, out)
  <1>1. /\ next \in Gens /\ next \in Nat
        /\ DOMAIN files' \subseteq DOMAIN files \cup {next}
        /\ \A g \in DOMAIN files' : files'[g] = IF g = next THEN K ELSE files[g]
        /\ pointer' \in DOMAIN files'
        /\ \/ pointer' = pointer /\ dropped' = dropped
           \/ pointer' = next /\ dropped' = dropped \cup {Current[i].id : i \in out}
        /\ handle' \in [Procs -> {Closed} \cup [gen : Gens, seq : Nat]]
        /\ faults' \in 0 .. MaxFaults
        /\ UNCHANGED <<retention, fold, offered, acked>>
    BY InstallFacts, Zenon
  <1>2. /\ pointer \in DOMAIN files /\ pointer \in Nat /\ offered \in Nat
        /\ Current \in Seq(Records) /\ Ordered(w, offered) /\ Highest(Current) \in Nat
        /\ \A r \in RecordsOf(pointer) : r \in Records /\ r.seq <= Highest(Current)
    BY CurrentFacts, Zenon
  <1>3. K \in Seq(Records) /\ Ordered(Whole(K), offered)
        /\ Range(Whole(K)) = {w[i] : i \in DOMAIN w \ out}
    BY <1>2, KeptFacts, Zenon
  <1>4. RecordsOf(pointer) = Range(w)
    BY Zenon DEF RecordsOf, Current
  <1>5. Range(Whole(K)) \subseteq RecordsOf(pointer)
    BY <1>3, <1>4, InRange, Zenon
  <1>6. next # pointer /\ pointer < next /\ pointer <= pointer' /\ pointer' \in Nat
    BY <1>1, <1>2
  <1>7. ASSUME NEW g \in DOMAIN files'
        PROVE  /\ files'[g] \in Seq(Records) /\ Ordered(Whole(files'[g]), offered)
               /\ g # next => g \in DOMAIN files /\ RecordsOf(g)' = RecordsOf(g)
               /\ g = next => RecordsOf(g)' = Range(Whole(K))
    <2>1. CASE g = next
      BY <1>1, <1>3, <2>1, Zenon DEF RecordsOf
    <2>2. CASE g # next
      BY <1>1, <2>2, Zenon DEF LogInv, TypeOK, RecordsOf
    <2> QED
      BY <2>1, <2>2, Zenon
  <1>8. \/ pointer' = pointer /\ dropped' = dropped /\ RecordsOf(pointer)' = RecordsOf(pointer)
           /\ Current' = Current
        \/ pointer' = next /\ dropped' = dropped \cup {Current[i].id : i \in out}
           /\ RecordsOf(pointer)' = Range(Whole(K)) /\ Current' = K
    BY <1>1, <1>6, Zenon DEF RecordsOf, Current
  <1> HIDE DEF next, w, K
  <1>9. TypeOK'
    <2>1. DOMAIN files' \subseteq Gens
      BY <1>1, Zenon DEF LogInv, TypeOK
    <2>2. dropped' \subseteq 0 .. offered
      <3>1. dropped \subseteq 0 .. offered
        BY Zenon DEF LogInv, TypeOK
      <3>2. ASSUME NEW i \in out PROVE Current[i].id \in 0 .. offered
        <4>1. i \in DOMAIN w /\ w[i] = Current[i] /\ w[i] \in Records
          BY <1>2, WholePrefix, Zenon DEF w
        <4>2. w[i].id <= offered
          BY <1>2, <4>1, Zenon DEF Ordered
        <4>3. w[i].id \in Nat
          BY <4>1 DEF Records
        <4> QED
          BY <1>2, <4>1, <4>2, <4>3
      <3>3. {Current[i].id : i \in out} \subseteq 0 .. offered
        BY <3>2, Zenon
      <3>4. dropped' = dropped \/ dropped' = dropped \cup {Current[i].id : i \in out}
        BY <1>8, Zenon
      <3> QED
        BY <3>1, <3>3, <3>4, Zenon
    <2> QED
      BY <1>1, <1>7, <2>1, <2>2, Zenon DEF LogInv, TypeOK
  <1>10. CommittedKept'
    <2>1. Committed(acked, dropped, RecordsOf(pointer))
      <3>1. CommittedIn(acked, dropped, Current)
        BY Zenon DEF LogInv, CommittedKept, CommittedIn
      <3> QED
        BY <1>2, <3>1, CommittedWhole, Zenon DEF RecordsOf, Current
    <2>2. ASSUME NEW r \in acked
          PROVE  /\ r.id \in dropped' \/ r \in RecordsOf(pointer)'
                 /\ r.kind = "trigger.fired" =>
                       \E s \in RecordsOf(pointer)' : s.kind = "trigger.fired" /\ s.id >= r.id
      <3>1. /\ r.id \in dropped \/ r \in RecordsOf(pointer)
            /\ r.kind = "trigger.fired" =>
                  \E s \in RecordsOf(pointer) : s.kind = "trigger.fired" /\ s.id >= r.id
        BY <2>1, <2>2, Zenon DEF Committed
      <3>2. CASE dropped' = dropped /\ RecordsOf(pointer)' = RecordsOf(pointer)
        BY <3>1, <3>2, Zenon
      <3>3. CASE /\ dropped' = dropped \cup {Current[i].id : i \in out}
                 /\ RecordsOf(pointer)' = Range(Whole(K))
        <4>1. r.id \in dropped' \/ r \in RecordsOf(pointer)'
          <5>1. CASE r \in RecordsOf(pointer)
            <6>1. PICK i \in DOMAIN w : w[i] = r
              BY <1>4, <5>1, InRange, Zenon
            <6>2. w[i] = Current[i]
              BY <1>2, WholePrefix, Zenon DEF w
            <6>3. CASE i \in out
              BY <3>3, <6>1, <6>2, <6>3, Zenon
            <6>4. CASE i \notin out
              BY <1>3, <3>3, <6>1, <6>4, Zenon
            <6> QED
              BY <6>3, <6>4, Zenon
          <5> QED
            BY <3>1, <3>3, <5>1, Zenon
        <4>2. ASSUME r.kind = "trigger.fired"
              PROVE  \E s \in RecordsOf(pointer)' : s.kind = "trigger.fired" /\ s.id >= r.id
          <5>1. PICK s \in RecordsOf(pointer) : s.kind = "trigger.fired" /\ s.id >= r.id
            BY <3>1, <4>2, Zenon
          <5>2. PICK i \in DOMAIN w \ out : w[i].kind = "trigger.fired" /\ w[i].id >= s.id
            BY <5>1, Zenon DEF w
          <5>3. w[i] \in RecordsOf(pointer)' /\ w[i] \in RecordsOf(pointer)
            BY <1>3, <1>5, <3>3, Zenon
          <5>4. r.id \in Nat /\ s.id \in Nat /\ w[i].id \in Nat
            <6>1. r \in Records /\ s \in Records /\ w[i] \in Records
              BY <1>2, <2>2, <5>3, Zenon DEF LogInv, TypeOK
            <6> QED
              BY <6>1 DEF Records
          <5>5. w[i].id >= r.id
            BY <5>1, <5>2, <5>4
          <5> QED
            BY <5>2, <5>3, <5>5, Zenon
        <4> QED
          BY <4>1, <4>2, Zenon
      <3> QED
        BY <1>8, <3>2, <3>3, Zenon
    <2>3. Committed(acked', dropped', RecordsOf(pointer)')
      BY <1>1, <2>2, Zenon DEF Committed
    <2>4. Current' \in Seq(Records) /\ RecordsOf(pointer)' = Range(Whole(Current'))
      BY <1>2, <1>3, <1>8, Zenon DEF RecordsOf, Current
    <2>5. CommittedIn(acked', dropped', Current')
      BY <2>3, <2>4, CommittedWhole, Zenon
    <2> QED
      BY <2>5, Zenon DEF CommittedKept, CommittedIn
  <1>11. FoldSound'
    <2>1. FoldSound /\ fold' = fold
      BY <1>1, Zenon DEF LogInv
    <2>2. fold.gen \in Int /\ fold.path \in Nat
      BY DEF LogInv, TypeOK, Gens
    <2>3. fold.gen <= pointer' /\ fold.gen # next
      BY <1>2, <1>6, <2>1, <2>2 DEF FoldSound
    <2>4. fold.step \in {"read", "check"} => fold.path <= pointer'
      BY <1>2, <1>6, <2>1, <2>2 DEF FoldSound
    <2>5. CASE fold.gen \in DOMAIN files'
      <3> DEFINE R == RecordsOf(fold.gen)
      <3>1. fold.gen \in DOMAIN files /\ RecordsOf(fold.gen)' = R
        <4>1. RecordsOf(fold.gen)' = Range(Whole(files'[fold.gen]))
          BY <2>1, Zenon DEF RecordsOf
        <4> QED
          BY <1>1, <2>3, <2>5, <4>1, Zenon DEF RecordsOf, next
      <3>2. /\ fold.seen = {r \in R : r.seq <= fold.seq}
            /\ fold.seq = 0 \/ \E r \in R : r.seq = fold.seq
            /\ fold.step = "check" /\ fold.path = fold.gen =>
                  /\ fold.got \subseteq {r \in R : r.seq > fold.seq}
                  /\ \A r \in R \ fold.got : \A s \in fold.got :
                        r.seq > fold.seq => r.seq > s.seq
        BY <2>1, <3>1, Zenon DEF FoldSound
      <3> HIDE DEF R
      <3> QED
        BY <2>1, <2>3, <2>4, <3>1, <3>2, Zenon DEF FoldSound
    <2>6. CASE fold.gen \notin DOMAIN files'
      BY <2>1, <2>3, <2>4, <2>6, Zenon DEF FoldSound
    <2> QED
      BY <2>5, <2>6, Zenon
  <1>12. HighestKept'
    <2> SUFFICES ASSUME ~retention, NEW g \in DOMAIN files', NEW r \in RecordsOf(g)'
                 PROVE  r.seq <= Highest(Current)'
      BY <1>1, Zenon DEF HighestKept
    <2>1. r.seq <= Highest(Current) /\ r \in Records
      <3>1. CASE g = next
        BY <1>2, <1>5, <1>7, <3>1, Zenon
      <3>2. CASE g # next
        <4>1. g \in DOMAIN files /\ r \in RecordsOf(g) /\ files[g] \in Seq(Records)
          BY <1>7, <3>2, Zenon DEF LogInv, TypeOK
        <4> QED
          BY <4>1, TriggersWhole, Zenon DEF LogInv, HighestKept, RecordsOf
      <3> QED
        BY <3>1, <3>2, Zenon
    <2>2. CASE Current' = Current
      BY <2>1, <2>2, Zenon DEF Highest
    <2>3. CASE Current' = K
      <3>1. Highest(K) \in Nat /\ \A s \in Range(Whole(K)) : s.seq <= Highest(K)
        BY <1>3, HighestTop, Zenon
      <3>2. Highest(Current) <= Highest(K)
        <4>1. CASE Highest(Current) = 0
          BY <3>1, <4>1
        <4>2. CASE \E i \in DOMAIN w \ out : w[i].seq = Highest(Current)
          BY <1>3, <3>1, <4>2, Zenon
        <4> QED
          BY <4>1, <4>2, Zenon DEF w
      <3>3. r.seq \in Nat
        BY <2>1, Zenon DEF Records
      <3>4. r.seq <= Highest(K)
        BY <1>2, <2>1, <3>1, <3>2, <3>3
      <3> QED
        BY <2>3, <3>4, Zenon DEF Highest
    <2> QED
      BY <1>8, <2>2, <2>3, Zenon
  <1>13. FreshSequences
    <2>1. RecordsOf(pointer)' \subseteq RecordsOf(pointer)
      BY <1>5, <1>8, Zenon
    <2>2. RecordsOf(pointer) \subseteq Readable
      BY <1>2, Zenon DEF Readable, RecordsOf
    <2>3. RecordsOf(pointer)' = Range(Whole(files'[pointer']))
      BY Zenon DEF RecordsOf
    <2> QED
      BY <2>1, <2>2, <2>3, Zenon DEF FreshSequences
  <1> QED
    BY <1>1, <1>7, <1>9, <1>10, <1>11, <1>12, <1>13, Zenon DEF LogInv

\* InstanceLog.Compact drops no trigger that restart reconciliation would need.
LEMMA CompactKeeps ==
    ASSUME LogInv, NEW p \in Procs, Compact(p)
    PROVE  LogInv' /\ FreshSequences
  <1> DEFINE w == Whole(Current)
  <1>1. PICK cut \in 1 .. Len(w) : Install(p, AgedOut(w, cut))
    BY Zenon DEF Compact
  <1>2. retention
    BY Zenon DEF Compact
  <1>3. /\ Len(w) \in Nat /\ DOMAIN w = 1 .. Len(w) /\ w \in Seq(Records)
        /\ Ordered(w, offered)
    BY CurrentFacts, WholePrefix, Zenon
  <1>4. RecordsOf(pointer) = Range(w)
    BY Zenon DEF RecordsOf, Current
  <1> HIDE DEF w
  <1>5. AgedOut(w, cut) \subseteq DOMAIN w
    BY <1>1, <1>3 DEF AgedOut
  <1>6. ASSUME NEW s \in RecordsOf(pointer), s.kind = "trigger.fired"
        PROVE  \E i \in DOMAIN w \ AgedOut(w, cut) :
                  w[i].kind = "trigger.fired" /\ w[i].id >= s.id
    <2> DEFINE T == {i \in DOMAIN w : w[i].kind = "trigger.fired"}
               l == Max(T)
    <2>1. PICK j \in DOMAIN w : w[j] = s
      BY <1>4, InRange, Zenon
    <2>2. T \in SUBSET Nat /\ j \in T /\ \A i \in T : i <= Len(w)
      BY <1>3, <1>6, <2>1
    <2>3. l \in T /\ \A i \in T : i <= l
      <3>1. T # {}
        BY <2>2, Zenon
      <3> QED
        BY <1>3, <2>2, <3>1, MaxExists, Zenon
    <2> HIDE DEF l
    <2>4. l \in DOMAIN w /\ w[l].kind = "trigger.fired" /\ l \in Nat /\ j \in Nat /\ j <= l
      BY <2>2, <2>3, Zenon
    <2>5. LatestTrigger(w, l)
      <3>1. ASSUME NEW k \in l + 1 .. Len(w), w[k].kind = "trigger.fired" PROVE FALSE
        <4>1. k \in DOMAIN w /\ ~ (k <= l)
          BY <1>3, <2>4, <3>1
        <4> QED
          BY <2>3, <3>1, <4>1, Zenon
      <3> QED
        BY <2>4, <3>1, Zenon DEF LatestTrigger
    <2>6. l \notin AgedOut(w, cut)
      BY <2>5, Zenon DEF AgedOut
    <2>7. w[l].id >= s.id
      <3>1. w[l].id \in Nat
        <4>1. w[l] \in Records
          BY <1>3, <2>4
        <4> QED
          BY <4>1 DEF Records
      <3>2. CASE j = l
        BY <2>1, <3>1, <3>2
      <3>3. CASE j < l
        <4>1. w[j].id < w[l].id
          BY <1>3, <1>6, <2>1, <2>4, <3>3, Zenon DEF Ordered
        <4>2. w[j].id \in Nat
          <5>1. w[j] \in Records
            BY <1>3
          <5> QED
            BY <5>1 DEF Records
        <4> QED
          BY <2>1, <3>1, <4>1, <4>2
      <3> QED
        BY <2>4, <3>2, <3>3
    <2> QED
      BY <2>4, <2>6, <2>7, Zenon
  <1> QED
    BY <1>1, <1>2, <1>5, <1>6, InstallKeeps, Zenon DEF w

\* InstanceLog.CompactTickSkips drops no trigger, and not the highest sequence.
LEMMA CompactTickSkipsKeeps ==
    ASSUME LogInv, NEW p \in Procs, CompactTickSkips(p)
    PROVE  LogInv' /\ FreshSequences
  <1> DEFINE w == Whole(Current)
  <1>1. PICK cut \in 1 .. Len(w) : Install(p, AgedSkips(w, cut))
    BY Zenon DEF CompactTickSkips
  <1>3. /\ Len(w) \in Nat /\ DOMAIN w = 1 .. Len(w) /\ w \in Seq(Records)
        /\ Ordered(w, offered) /\ Current \in Seq(Records)
    BY CurrentFacts, WholePrefix, Zenon
  <1>4. RecordsOf(pointer) = Range(w)
    BY Zenon DEF RecordsOf, Current
  <1>5. Highest(w) = Highest(Current)
    <2>1. \A i \in DOMAIN w : w[i].kind # "torn"
      BY <1>3, Zenon DEF Ordered
    <2>2. Whole(w) = w
      BY <1>3, <2>1, WholeOf, Zenon
    <2> QED
      BY <2>2, Zenon DEF Highest
  <1> HIDE DEF w
  <1>6. AgedSkips(w, cut) \subseteq DOMAIN w
    BY <1>1, <1>3 DEF AgedSkips
  <1>7. ASSUME NEW s \in RecordsOf(pointer), s.kind = "trigger.fired"
        PROVE  \E i \in DOMAIN w \ AgedSkips(w, cut) :
                  w[i].kind = "trigger.fired" /\ w[i].id >= s.id
    <2>1. PICK i \in DOMAIN w : w[i] = s
      BY <1>4, InRange, Zenon
    <2>2. i \notin AgedSkips(w, cut)
      BY <1>7, <2>1, Zenon DEF AgedSkips
    <2>3. s.id >= s.id
      <3>1. s \in Records
        BY <1>3, <2>1
      <3> QED
        BY <3>1 DEF Records
    <2> QED
      BY <1>7, <2>1, <2>2, <2>3, Zenon
  <1>8. \/ Highest(Current) = 0
        \/ \E i \in DOMAIN w \ AgedSkips(w, cut) : w[i].seq = Highest(Current)
    <2> SUFFICES ASSUME NEW r \in RecordsOf(pointer), r.seq = Highest(Current)
                 PROVE  \E i \in DOMAIN w \ AgedSkips(w, cut) : w[i].seq = Highest(Current)
      BY CurrentFacts, Zenon
    <2>1. PICK i \in DOMAIN w : w[i] = r
      BY <1>4, InRange, Zenon
    <2>2. i \notin AgedSkips(w, cut)
      BY <1>5, <2>1, Zenon DEF AgedSkips
    <2> QED
      BY <2>1, <2>2, Zenon
  <1> QED
    BY <1>1, <1>6, <1>7, <1>8, InstallKeeps, Zenon DEF w

-----------------------------------------------------------------------------
(* The fold.                                                               *)

\* What leaves the journal alone keeps all but the fold.
LEMMA ReadOnlyKeeps ==
    ASSUME LogInv, UNCHANGED <<retention, files, pointer, offered, acked, dropped, faults>>,
           handle' \in [Procs -> {Closed} \cup [gen : Gens, seq : Nat]],
           fold' \in [step : {"idle", "resolve", "read", "check"}, gen : Gens \cup {-1},
                      seq : Nat, seen : SUBSET Records, path : Gens, got : SUBSET Records],
           FoldSound'
    PROVE  LogInv' /\ FreshSequences
  <1>1. /\ files' = files /\ pointer' = pointer /\ offered' = offered /\ retention' = retention
        /\ acked' = acked /\ dropped' = dropped /\ faults' = faults
    BY Zenon
  <1>2. TypeOK'
    BY <1>1, Zenon DEF LogInv, TypeOK
  <1>3. CommittedKept' /\ HighestKept'
    <2>1. Current' = Current /\ \A g \in DOMAIN files : RecordsOf(g)' = RecordsOf(g)
      BY <1>1, Zenon DEF Current, RecordsOf
    <2>2. Highest(Current)' = Highest(Current)
      BY <2>1, Zenon DEF Highest
    <2>3. CommittedKept'
      BY <1>1, <2>1, Zenon DEF LogInv, CommittedKept
    <2>4. HighestKept
      BY Zenon DEF LogInv
    <2>5. ASSUME ~retention', NEW g \in DOMAIN files', NEW r \in RecordsOf(g)'
          PROVE  r.seq <= Highest(Current)'
      <3>1. ~retention /\ g \in DOMAIN files
        <4>1. ~retention'
          BY <2>5, Zenon
        <4>2. ~retention
          BY <1>1, <4>1
        <4>3. g \in DOMAIN files
          BY <1>1, <2>5, Zenon
        <4> QED
          BY <4>2, <4>3, Zenon
      <3>2. r \in RecordsOf(g)
        BY <2>1, <3>1, Zenon
      <3>3. r.seq <= Highest(Current)
        BY <2>4, <3>1, <3>2, Zenon DEF HighestKept
      <3> QED
        BY <2>2, <3>3, Zenon
    <2>6. HighestKept'
      BY <2>5, Zenon DEF HighestKept
    <2> QED
      BY <2>3, <2>6, Zenon
  <1>4. \A g \in DOMAIN files' : Ordered(Whole(files'[g]), offered')
    BY <1>1, Zenon DEF LogInv
  <1>5. FreshSequences
    <2>1. pointer \in DOMAIN files
      BY CurrentFacts, Zenon
    <2> QED
      BY <1>1, <2>1, Zenon DEF FreshSequences, Readable
  <1> QED
    BY <1>2, <1>3, <1>4, <1>5, Zenon DEF LogInv

FoldType == [step : {"idle", "resolve", "read", "check"}, gen : Gens \cup {-1}, seq : Nat,
             seen : SUBSET Records, path : Gens, got : SUBSET Records]

\* Fields of a fold.
LEMMA FoldTyped ==
    ASSUME LogInv
    PROVE  /\ fold \in FoldType /\ fold.gen \in Int /\ fold.seq \in Nat
           /\ pointer \in Gens /\ 0 \in Gens /\ FoldSound
  BY CurrentFacts, InstanceLogAssumption DEF LogInv, TypeOK, FoldType, Gens

\* A fold that starts over has seen nothing, and nothing has a sequence below 1.
LEMMA ResetSound ==
    ASSUME LogInv, NEW step \in {"idle", "resolve"}, fold' = Reset(pointer, step),
           UNCHANGED <<files, pointer>>
    PROVE  fold' \in FoldType /\ FoldSound'
  <1>1. pointer \in Nat /\ pointer \in Gens /\ 0 \in Gens /\ pointer \in DOMAIN files
    BY FoldTyped, CurrentFacts, Zenon
  <1>2. /\ fold'.step = step /\ fold'.gen = pointer /\ fold'.seq = 0 /\ fold'.seen = {}
        /\ fold'.path = 0 /\ fold'.got = {}
    BY Zenon DEF Reset
  <1>3. fold' \in FoldType
    BY <1>1, Zenon DEF Reset, FoldType
  <1>4. \A r \in RecordsOf(pointer) : ~ (r.seq <= 0)
    <2> SUFFICES ASSUME NEW r \in RecordsOf(pointer) PROVE ~ (r.seq <= 0)
      OBVIOUS
    <2>1. PICK i \in DOMAIN Whole(Current) : Whole(Current)[i] = r
      BY InRange, Zenon DEF RecordsOf, Current
    <2>2. r.seq > 0
      BY <2>1, CurrentFacts, Zenon DEF Ordered
    <2>3. r \in Records
      BY CurrentFacts, Zenon
    <2> QED
      BY <2>2, <2>3 DEF Records
  <1>5. RecordsOf(fold.gen)' = RecordsOf(pointer)
    BY <1>2, Zenon DEF RecordsOf
  <1>6. fold'.seen = {r \in RecordsOf(fold.gen)' : r.seq <= fold'.seq}
    BY <1>2, <1>4, <1>5, Zenon
  <1>7. pointer <= pointer /\ pointer # -1
    BY <1>1
  <1>8. fold'.step # "read" /\ fold'.step # "check"
    BY <1>2, Zenon
  <1> QED
    BY <1>2, <1>3, <1>6, <1>7, <1>8, Zenon DEF FoldSound

\* The steps before the events are read move no event.
LEMMA WalkSound ==
    ASSUME LogInv, NEW step \in {"resolve", "read"}, NEW path \in Gens,
           fold' = [fold EXCEPT !.step = step, !.path = path],
           fold.gen # -1,
           step = "read" => path = pointer,
           UNCHANGED <<files, pointer>>
    PROVE  fold' \in FoldType /\ FoldSound'
  <1>1. fold \in FoldType /\ fold.gen \in Int /\ FoldSound /\ pointer \in Nat
    BY FoldTyped, CurrentFacts, Zenon
  <1>2. /\ fold'.step = step /\ fold'.gen = fold.gen /\ fold'.seq = fold.seq
        /\ fold'.seen = fold.seen /\ fold'.path = path /\ fold' \in FoldType
    BY <1>1, Zenon DEF FoldType
  <1>3. RecordsOf(fold.gen)' = RecordsOf(fold.gen)
    BY <1>2, Zenon DEF RecordsOf
  <1>4. fold.gen <= pointer
    BY <1>1, Zenon DEF FoldSound
  <1>5. fold'.step # "check" /\ (fold'.step = "read" => fold'.path = pointer)
    BY <1>2, Zenon
  <1>6. pointer <= pointer
    BY <1>1
  <1> QED
    BY <1>1, <1>2, <1>3, <1>4, <1>5, <1>6, Zenon DEF FoldSound

\* What is read of the fold's own generation follows what it has.
LEMMA ReadSound ==
    ASSUME LogInv, ReadAfterSeq, UNCHANGED <<files, pointer>>
    PROVE  fold' \in FoldType /\ FoldSound'
  <1> DEFINE got == {r \in UNION {Range(Whole(files[g])) : g \in DOMAIN files \cap {fold.path}} :
                        r.seq > fold.seq}
  <1>1. fold \in FoldType /\ fold.gen \in Int /\ FoldSound
    BY FoldTyped, Zenon
  <1>2. got \subseteq Records
    <2>1. ASSUME NEW g \in DOMAIN files PROVE Range(Whole(files[g])) \subseteq Records
      BY TriggersWhole, Zenon DEF LogInv, TypeOK
    <2> QED
      BY <2>1, Zenon
  <1>3. fold.path \in DOMAIN files => got = {r \in RecordsOf(fold.path) : r.seq > fold.seq}
    BY Zenon DEF RecordsOf
  <1>4. fold.step = "read" /\ fold' = [fold EXCEPT !.step = "check", !.got = got]
    BY Zenon DEF ReadAfterSeq
  <1> HIDE DEF got
  <1>5. /\ fold'.step = "check" /\ fold'.gen = fold.gen /\ fold'.seq = fold.seq
        /\ fold'.seen = fold.seen /\ fold'.path = fold.path /\ fold'.got = got
        /\ fold' \in FoldType
    BY <1>1, <1>2, <1>4, Zenon DEF FoldType
  <1>6. RecordsOf(fold.gen)' = RecordsOf(fold.gen)
    BY <1>5, Zenon DEF RecordsOf
  <1>7. /\ fold.gen <= pointer /\ fold.gen <= fold.path /\ fold.path <= pointer /\ fold.gen # -1
    BY <1>1, <1>4, Zenon DEF FoldSound
  <1>8. CASE fold.gen \in DOMAIN files
    <2> DEFINE R == RecordsOf(fold.gen)
    <2>1. fold.seen = {r \in R : r.seq <= fold.seq} /\ (fold.seq = 0 \/ \E r \in R : r.seq = fold.seq)
      BY <1>1, <1>8, Zenon DEF FoldSound
    <2>2. fold.path = fold.gen => got = {r \in R : r.seq > fold.seq}
      BY <1>3, <1>8, Zenon
    <2> HIDE DEF R
    <2>3. fold.path = fold.gen =>
             /\ got \subseteq {r \in R : r.seq > fold.seq}
             /\ \A r \in R \ got : \A s \in got : r.seq > fold.seq => r.seq > s.seq
      BY <2>2, Zenon
    <2>4. RecordsOf(fold.gen)' = R
      BY <1>6, Zenon DEF R
    <2> QED
      BY <1>5, <1>7, <2>1, <2>3, <2>4, Zenon DEF FoldSound
  <1>9. CASE fold.gen \notin DOMAIN files
    BY <1>5, <1>7, <1>9, Zenon DEF FoldSound
  <1> QED
    BY <1>5, <1>8, <1>9, Zenon

\* What was read of a generation that is still current is counted without a gap.
LEMMA ApplySound ==
    ASSUME LogInv, fold.step = "check", fold.gen = pointer, fold' = Apply,
           UNCHANGED <<files, pointer>>
    PROVE  fold' \in FoldType /\ FoldSound'
  <1> DEFINE R == RecordsOf(pointer)
             S == {fold.seq} \cup {r.seq : r \in fold.got}
             m == Max(S)
  <1>1. /\ fold \in FoldType /\ fold.gen \in Int /\ fold.seq \in Nat /\ FoldSound
        /\ 0 \in Gens /\ pointer \in Nat /\ pointer \in DOMAIN files /\ pointer \in Gens
    BY FoldTyped, CurrentFacts, Zenon
  <1>2. fold.path = fold.gen
    <2>1. fold.gen <= fold.path /\ fold.path <= pointer
      BY <1>1, Zenon DEF FoldSound
    <2>2. fold.path \in Int
      BY <1>1 DEF FoldType, Gens
    <2> QED
      BY <1>1, <2>1, <2>2
  <1>3. /\ fold.seen = {r \in R : r.seq <= fold.seq}
        /\ fold.seq = 0 \/ \E r \in R : r.seq = fold.seq
        /\ fold.got \subseteq {r \in R : r.seq > fold.seq}
        /\ \A r \in R \ fold.got : \A s \in fold.got : r.seq > fold.seq => r.seq > s.seq
    BY <1>1, <1>2, Zenon DEF FoldSound
  <1>4. /\ \A r \in R : r \in Records /\ r.seq <= Highest(Current)
        /\ Highest(Current) \in Nat
    BY CurrentFacts, Zenon
  <1>5. \A r \in R : r.seq \in Nat
    BY <1>4, Zenon DEF Records
  <1> HIDE DEF R
  <1>6. S \in SUBSET Nat /\ \A y \in S : y = fold.seq \/ \E r \in fold.got : y = r.seq
    BY <1>1, <1>3, <1>5, Zenon
  <1>7. fold.seq \in S /\ \A r \in fold.got : r.seq \in S
    BY Zenon
  <1> HIDE DEF S
  <1>8. m \in S /\ m \in Nat /\ \A y \in S : y <= m
    <2>1. \A y \in S : y <= Highest(Current)
      <3> SUFFICES ASSUME NEW y \in S PROVE y <= Highest(Current)
        OBVIOUS
      <3>1. CASE y = fold.seq
        BY <1>1, <1>3, <1>4, <3>1
      <3>2. CASE \E r \in fold.got : y = r.seq
        BY <1>3, <1>4, <3>2, Zenon
      <3> QED
        BY <1>6, <3>1, <3>2, Zenon
    <2>2. S # {}
      BY <1>7, Zenon
    <2>3. m \in S /\ \A y \in S : y <= m
      BY <1>4, <1>6, <2>1, <2>2, MaxExists, Zenon
    <2> QED
      BY <1>6, <2>3, Zenon
  <1> HIDE DEF m
  <1>9. fold' = [fold EXCEPT !.step = "idle", !.seen = @ \cup fold.got, !.path = 0, !.got = {},
                             !.seq = m]
    BY Zenon DEF Apply, m, S
  <1>10. fold.got \subseteq Records
    BY <1>3, <1>4, Zenon
  <1>11. /\ fold'.step = "idle" /\ fold'.gen = pointer /\ fold'.seq = m
         /\ fold'.seen = fold.seen \cup fold.got /\ fold' \in FoldType
    <2>1. fold.seen \cup fold.got \in SUBSET Records
      BY <1>1, <1>10, Zenon DEF FoldType
    <2>2. {} \in SUBSET Records
      OBVIOUS
    <2> DEFINE both == fold.seen \cup fold.got
    <2>3. fold' = [fold EXCEPT !.step = "idle", !.seen = both, !.path = 0, !.got = {}, !.seq = m]
      BY <1>1, <1>9, Zenon DEF FoldType
    <2> HIDE DEF both
    <2>4. /\ fold'.step = "idle" /\ fold'.gen = fold.gen /\ fold'.seq = m
          /\ fold'.seen = both
      BY <1>1, <2>3, Zenon DEF FoldType
    <2>5. fold' \in FoldType
      BY <1>1, <1>8, <2>1, <2>2, <2>3, Zenon DEF FoldType, both
    <2> QED
      BY <2>4, <2>5, Zenon DEF both
  <1>12. ASSUME NEW r \in R PROVE r \in fold.seen \cup fold.got <=> r.seq <= m
    <2>1. r.seq \in Nat /\ fold.seq <= m /\ \A s \in fold.got : s.seq <= m /\ s.seq \in Nat
      BY <1>3, <1>5, <1>7, <1>8, Zenon
    <2>2. CASE r.seq <= fold.seq
      <3>1. r \in fold.seen /\ r.seq <= m
        BY <1>1, <1>3, <1>8, <2>1, <2>2
      <3> QED
        BY <3>1, Zenon
    <2>3. CASE r \in fold.got
      BY <2>1, <2>3, Zenon
    <2>4. CASE ~ (r.seq <= fold.seq) /\ r \notin fold.got
      <3>1. r \notin fold.seen
        BY <1>3, <2>4, Zenon
      <3>2. r.seq > fold.seq
        BY <1>1, <2>1, <2>4
      <3>3. \A s \in fold.got : r.seq > s.seq
        BY <1>3, <2>4, <3>2, Zenon
      <3>4. ~ (r.seq <= m)
        <4>1. CASE m = fold.seq
          BY <2>4, <4>1, Zenon
        <4>2. ASSUME NEW s \in fold.got, m = s.seq PROVE ~ (r.seq <= m)
          BY <2>1, <3>3, <4>2
        <4> QED
          BY <1>6, <1>8, <4>1, <4>2, Zenon
      <3> QED
        BY <2>4, <3>1, <3>4, Zenon
    <2> QED
      BY <2>2, <2>3, <2>4, Zenon
  <1>13. fold.seen \cup fold.got = {r \in R : r.seq <= m}
    <2>1. fold.seen \subseteq R /\ fold.got \subseteq R
      BY <1>3, Zenon
    <2> QED
      BY <1>12, <2>1, Zenon
  <1>14. m = 0 \/ \E r \in R : r.seq = m
    BY <1>3, <1>6, <1>8, Zenon
  <1>15. RecordsOf(fold.gen)' = R
    BY <1>11, Zenon DEF RecordsOf, R
  <1>16. pointer <= pointer /\ pointer # -1
    BY <1>1
  <1>17. fold'.step # "read" /\ fold'.step # "check"
    BY <1>11, Zenon
  <1> QED
    BY <1>11, <1>13, <1>14, <1>15, <1>16, <1>17, Zenon DEF FoldSound

\* InstanceFold.refresh, whichever of its four reads comes next, keeps the fold sound.
LEMMA RefreshKeeps ==
    ASSUME LogInv, Refresh
    PROVE  LogInv' /\ FreshSequences
  <1>1. /\ UNCHANGED <<retention, files, pointer, offered, acked, dropped, faults>>
        /\ UNCHANGED <<files, pointer>> /\ handle' = handle
        /\ ReadState \/ Resolve \/ ReadAfterSeq \/ CheckState
    BY Zenon DEF Refresh
  <1>2. handle' \in [Procs -> {Closed} \cup [gen : Gens, seq : Nat]]
    BY <1>1, Zenon DEF LogInv, TypeOK
  <1>3. /\ fold \in FoldType /\ fold.gen \in Int /\ FoldSound
        /\ pointer \in Gens /\ 0 \in Gens /\ pointer \in Nat
    BY FoldTyped, CurrentFacts, Zenon
  <1>4. fold' \in FoldType /\ FoldSound'
    <2>1. CASE ReadState
      <3>1. CASE fold.gen = pointer
        <4>1. fold' = [fold EXCEPT !.step = "resolve", !.path = fold.path] /\ fold.path \in Gens
          BY <1>3, <2>1, <3>1, Zenon DEF ReadState, FoldType
        <4>2. fold.gen # -1
          BY <1>3, <3>1
        <4>3. "resolve" # "read"
          OBVIOUS
        <4> QED
          BY <1>1, <4>1, <4>2, <4>3, WalkSound, Zenon
      <3>2. CASE fold.gen # pointer
        BY <1>1, <2>1, <3>2, ResetSound, Zenon DEF ReadState
      <3> QED
        BY <3>1, <3>2, Zenon
    <2>2. CASE Resolve
      <3>1. fold.gen # -1
        <4>1. fold.step # "idle"
          BY <2>2, Zenon DEF Resolve
        <4> QED
          BY <1>3, <4>1, Zenon DEF FoldSound
      <3> QED
        BY <1>1, <1>3, <2>2, <3>1, WalkSound, Zenon DEF Resolve
    <2>3. CASE ReadAfterSeq
      BY <1>1, <2>3, ReadSound, Zenon
    <2>4. CASE CheckState
      <3>1. CASE fold.gen = pointer
        BY <1>1, <2>4, <3>1, ApplySound, Zenon DEF CheckState
      <3>2. CASE fold.gen # pointer
        BY <1>1, <2>4, <3>2, ResetSound, Zenon DEF CheckState
      <3> QED
        BY <3>1, <3>2, Zenon
    <2> QED
      BY <1>1, <2>1, <2>2, <2>3, <2>4, Zenon
  <1> QED
    BY <1>1, <1>2, <1>4, ReadOnlyKeeps, Zenon DEF FoldType

\* A fold nothing happens to stays sound.
LEMMA FoldUntouched ==
    ASSUME FoldSound, UNCHANGED <<files, pointer, fold>>
    PROVE  FoldSound'
  <1>1. files' = files /\ pointer' = pointer /\ fold' = fold
    OBVIOUS
  <1>2. RecordsOf(fold.gen)' = RecordsOf(fold.gen)
    BY <1>1, Zenon DEF RecordsOf
  <1> DEFINE R == RecordsOf(fold.gen)
  <1>3. FoldSound
    OBVIOUS
  <1> QED
    BY <1>1, <1>2, <1>3, Zenon DEF FoldSound

\* InstanceLog.Close lets go of the handle only.
LEMMA CloseKeeps ==
    ASSUME LogInv, NEW p \in Procs, Close(p)
    PROVE  LogInv' /\ FreshSequences
  <1>1. /\ UNCHANGED <<retention, files, pointer, offered, acked, dropped, faults>>
        /\ UNCHANGED <<files, pointer, fold>> /\ fold' = fold
        /\ handle' = [handle EXCEPT ![p] = Closed]
    BY Zenon DEF Close
  <1>2. handle' \in [Procs -> {Closed} \cup [gen : Gens, seq : Nat]]
    BY <1>1, Zenon DEF LogInv, TypeOK
  <1>3. fold' \in FoldType
    BY <1>1, FoldTyped, Zenon
  <1>4. FoldSound'
    BY <1>1, FoldTyped, FoldUntouched, Zenon
  <1> QED
    BY <1>1, <1>2, <1>3, <1>4, ReadOnlyKeeps, Zenon DEF FoldType

\* Nothing at all happening keeps everything.
LEMMA StutterKeeps ==
    ASSUME LogInv, UNCHANGED vars
    PROVE  LogInv' /\ FreshSequences
  <1>1. /\ UNCHANGED <<retention, files, pointer, offered, acked, dropped, faults>>
        /\ UNCHANGED <<files, pointer, fold>> /\ fold' = fold /\ handle' = handle
    BY Zenon DEF vars
  <1>2. handle' \in [Procs -> {Closed} \cup [gen : Gens, seq : Nat]]
    BY <1>1, Zenon DEF LogInv, TypeOK
  <1>3. fold' \in FoldType
    BY <1>1, FoldTyped, Zenon
  <1>4. FoldSound'
    BY <1>1, FoldTyped, FoldUntouched, Zenon
  <1> QED
    BY <1>1, <1>2, <1>3, <1>4, ReadOnlyKeeps, Zenon DEF FoldType

LEMMA StepKeeps ==
    ASSUME LogInv, [Next]_vars
    PROVE  LogInv' /\ FreshSequences
  <1>1. ASSUME NEW p \in Procs, Open(p) PROVE LogInv' /\ FreshSequences
    BY <1>1, OpenKeeps, Zenon
  <1>2. ASSUME NEW p \in Procs, Close(p) PROVE LogInv' /\ FreshSequences
    BY <1>2, CloseKeeps, Zenon
  <1>3. ASSUME NEW p \in Procs, Compact(p) PROVE LogInv' /\ FreshSequences
    BY <1>3, CompactKeeps, Zenon
  <1>4. ASSUME NEW p \in Procs, CompactTickSkips(p) PROVE LogInv' /\ FreshSequences
    BY <1>4, CompactTickSkipsKeeps, Zenon
  <1>5. ASSUME NEW p \in Procs, NEW kind \in Kinds, AppendEvent(p, kind)
        PROVE  LogInv' /\ FreshSequences
    BY <1>5, AppendKeeps, Zenon
  <1>6. CASE Refresh
    BY <1>6, RefreshKeeps, Zenon
  <1>7. CASE UNCHANGED vars
    BY <1>7, StutterKeeps, Zenon
  <1> QED
    BY <1>1, <1>2, <1>3, <1>4, <1>5, <1>6, <1>7, Zenon DEF Next

-----------------------------------------------------------------------------
(* The theorems.                                                           *)

LEMMA LogInit == Init => LogInv
  <1> SUFFICES ASSUME Init PROVE LogInv
    OBVIOUS
  <1>1. /\ DOMAIN files = {0} /\ files[0] = <<>> /\ pointer = 0 /\ offered = 0
        /\ acked = {} /\ dropped = {} /\ faults = 0 /\ retention \in BOOLEAN
    BY Zenon DEF Init
  <1>2. 0 \in Gens /\ 0 \in 0 .. MaxRecords /\ 0 \in 0 .. MaxFaults
    BY InstanceLogAssumption DEF Gens
  <1>3. /\ fold.step = "idle" /\ fold.gen = -1 /\ fold.seq = 0 /\ fold.seen = {}
        /\ fold.path = 0 /\ fold.got = {} /\ fold \in FoldType
    BY <1>2, Zenon DEF Init, NoFold, Reset, FoldType
  <1>4. TypeOK
    <2>1. \A g \in DOMAIN files : files[g] \in Seq(Records)
      BY <1>1
    <2>2. handle \in [Procs -> {Closed} \cup [gen : Gens, seq : Nat]]
      BY Zenon DEF Init
    <2> QED
      BY <1>1, <1>2, <1>3, <2>1, <2>2, Zenon DEF TypeOK, FoldType
  <1>5. Whole(files[0]) = <<>> /\ DOMAIN Whole(files[0]) = {}
    BY <1>1 DEF Whole, Torn
  <1>6. \A g \in DOMAIN files : Ordered(Whole(files[g]), offered)
    BY <1>1, <1>5, Zenon DEF Ordered
  <1>7. CommittedKept
    BY <1>1, Zenon DEF CommittedKept
  <1>8. RecordsOf(0) = {}
    BY <1>5, InRange, Zenon DEF RecordsOf
  <1>9. HighestKept
    BY <1>1, <1>8, Zenon DEF HighestKept
  <1>10. -1 <= 0 /\ -1 \notin {0}
    OBVIOUS
  <1>11. FoldSound
    BY <1>1, <1>3, <1>10, Zenon DEF FoldSound
  <1> QED
    BY <1>4, <1>6, <1>7, <1>9, <1>11, Zenon DEF LogInv

\* The inductive invariant: for any number of processes, records and faults,
\* every generation of the journal is numbered in order, an event a writer was
\* told of is in the current one, and the fold holds a prefix of one generation.
THEOREM LogInvariant == Spec => []LogInv
  <1>1. LogInv /\ [Next]_vars => LogInv'
    BY StepKeeps, Zenon
  <1> QED
    BY <1>1, LogInit, PTL DEF Spec

\* However appends, failed writes, repairs and rotations interleave, the current
\* generation parses and is numbered in order (truncateTornTail,
\* sequenceFromTailOrFull).
THEOREM AlwaysParseable == Spec => []Parseable
  <1>1. LogInv => Parseable
    <2> SUFFICES ASSUME LogInv PROVE Parseable
      OBVIOUS
    <2> DEFINE w == Whole(Current)
    <2>1. w \in Seq(Records) /\ Ordered(w, offered)
      BY CurrentFacts, WholePrefix, Zenon
    <2> HIDE DEF w
    <2>2. DOMAIN w = 1 .. Len(w) /\ Len(w) \in Nat
      BY <2>1
    <2>3. \A i \in DOMAIN w : w[i] # TornRecord
      <3>1. \A i \in DOMAIN w : w[i].kind # "torn"
        BY <2>1, Zenon DEF Ordered
      <3>2. TornRecord.kind = "torn"
        BY Zenon DEF TornRecord, Record
      <3> QED
        BY <3>1, <3>2, Zenon
    <2>4. ASSUME NEW i \in 1 .. Len(w) - 1 PROVE w[i].seq < w[i + 1].seq
      <3>1. i \in DOMAIN w /\ i + 1 \in DOMAIN w /\ i < i + 1
        BY <2>2
      <3> QED
        BY <2>1, <3>1, Zenon DEF Ordered
    <2> QED
      BY <2>3, <2>4, Zenon DEF Parseable, w
  <1> QED
    BY <1>1, LogInvariant, PTL

\* An event whose Append returned without error stays in the current generation
\* until a compaction drops it, and the latest committed trigger is never dropped,
\* whatever rotation, repair or failed write comes between.
THEOREM CommittedAlwaysKept == Spec => []CommittedKept
  <1>1. LogInv => CommittedKept
    BY Zenon DEF LogInv
  <1> QED
    BY <1>1, LogInvariant, PTL

\* The fold, which takes no lock, never mixes generations: between refreshes it
\* has exactly the records of one generation up to its own sequence.
THEOREM FoldNeverMixes == Spec => []FoldOfOneGeneration
  <1>1. LogInv => FoldOfOneGeneration
    BY Zenon DEF LogInv, FoldSound, FoldOfOneGeneration, RecordsOf
  <1> QED
    BY <1>1, LogInvariant, PTL

\* While compaction drops tick skips only, no step makes a record readable
\* under a sequence that is not above every readable one.
THEOREM SequencesNeverReused == Spec => NoSequenceReused
  <1>1. LogInv /\ [Next]_vars =>
          [~retention => \A r \in Range(Whole(files'[pointer'])) \ Readable :
                            \A s \in Readable : r.seq > s.seq]_vars
    BY StepKeeps, Zenon DEF FreshSequences
  <1> QED
    BY <1>1, LogInvariant, PTL DEF Spec, NoSequenceReused

==============================================================================
