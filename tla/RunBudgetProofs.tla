--------------------------- MODULE RunBudgetProofs ---------------------------
(***************************************************************************)
(* The rolling budgets hold for any limits, windows and waits, any number  *)
(* of runs, callers, restarts and lost events.                             *)
(*                                                                         *)
(* The argument: every charge in memory stands for an admission of its     *)
(* own, and every admission that a restart cannot forget has its charge,   *)
(* with no charge after it that is more than MaxWait older (Stands).  So   *)
(* the hourly count, which stops at the first old charge it meets from the *)
(* end, still passes every such admission of the shortened hour; and a     *)
(* restart finds the charge of each in the log, because an event is that   *)
(* of an admission or an echo that the reconstruction skips (Caused).      *)
(***************************************************************************)
EXTENDS RunBudget, FiniteSetTheorems, WellFoundedInduction, TLAPS

-----------------------------------------------------------------------------
(* Numbers and finite sets.                                                *)

\* The smallest number of a set, once it is known.
LEMMA MinIs ==
    ASSUME NEW S \in SUBSET Int, NEW m \in S, \A y \in S : m <= y
    PROVE  Min(S) = m
  <1>1. \A x \in S : (\A y \in S : x <= y) => x = m
    OBVIOUS
  <1> QED
    BY <1>1, Zenon DEF Min

\* The largest number of a set, once it is known.
LEMMA MaxIs ==
    ASSUME NEW S \in SUBSET Int, NEW m \in S, \A y \in S : y <= m
    PROVE  Max(S) = m
  <1>1. \A y \in S : m >= y
    OBVIOUS
  <1>2. \A x \in S : (\A y \in S : x >= y) => x = m
    OBVIOUS
  <1> QED
    BY <1>1, <1>2, Zenon DEF Max

\* A nonempty set of naturals has a least one.
LEMMA LeastExists ==
    ASSUME NEW S \in SUBSET Nat, S # {}
    PROVE  \E x \in S : \A y \in S : x <= y
  <1>1. PICK x \in S : \A y \in S : ~ (<<y, x>> \in OpToRel(<, Nat))
    BY NatLessThanWellFounded, WFMin, Zenon
  <1>2. \A y \in S : ~ (y < x)
    BY <1>1, Zenon DEF OpToRel
  <1> QED
    BY <1>2

\* A bounded nonempty set of naturals has a largest one.
LEMMA MaxExists ==
    ASSUME NEW S \in SUBSET Nat, S # {}, NEW b \in Nat, \A y \in S : y <= b
    PROVE  Max(S) \in S /\ \A y \in S : y <= Max(S)
  <1> DEFINE T == {b - y : y \in S}
  <1>1. T \in SUBSET Nat /\ T # {}
    <2>1. \A y \in S : b - y \in Nat
      OBVIOUS
    <2> QED
      BY <2>1, Zenon
  <1>2. PICK x \in T : \A y \in T : x <= y
    BY <1>1, LeastExists, Zenon
  <1>3. PICK m \in S : x = b - m
    OBVIOUS
  <1>4. \A y \in S : y <= m
    <2> SUFFICES ASSUME NEW y \in S PROVE y <= m
      OBVIOUS
    <2>1. b - m <= b - y
      BY <1>2, <1>3, Zenon
    <2> QED
      BY <2>1
  <1>5. Max(S) = m
    BY <1>4, MaxIs
  <1> QED
    BY <1>4, <1>5, Zenon

\* How many of a set of places are no later than m.
UpTo(S, m) == {j \in S : j <= m}

\* A set of places in the log is finite, and so is each of its parts.
LEMMA PositionsFinite ==
    ASSUME NEW n \in Nat, NEW S \in SUBSET (1 .. n)
    PROVE  /\ IsFiniteSet(S) /\ Cardinality(S) \in Nat
           /\ \A m \in Nat : IsFiniteSet(UpTo(S, m)) /\ Cardinality(UpTo(S, m)) \in Nat
  <1>1. IsFiniteSet(1 .. n)
    BY FS_Interval
  <1>2. ASSUME NEW R \in SUBSET (1 .. n) PROVE IsFiniteSet(R) /\ Cardinality(R) \in Nat
    BY <1>1, FS_Subset, FS_CardinalityType, Zenon
  <1>3. \A m \in Nat : UpTo(S, m) \in SUBSET (1 .. n)
    BY Zenon DEF UpTo
  <1> QED
    BY <1>2, <1>3, Zenon

\* There is a k-th place, for each k up to their number.
LEMMA NthIn ==
    ASSUME NEW n \in Nat, NEW S \in SUBSET (1 .. n), NEW k \in 1 .. Cardinality(S)
    PROVE  Nth(S, k) \in S /\ Cardinality(UpTo(S, Nth(S, k))) = k
  <1> DEFINE T == {m \in Nat : Cardinality(UpTo(S, m)) >= k}
  <1>0. \A j \in S : j \in Nat /\ 1 <= j /\ j <= n
    OBVIOUS
  <1>1. k \in Nat /\ k >= 1 /\ k <= Cardinality(S)
    BY PositionsFinite
  <1>2. T \in SUBSET Nat /\ T # {}
    <2>1. UpTo(S, n) = S
      BY <1>0, Zenon DEF UpTo
    <2>2. n \in T
      BY <1>1, <2>1, Zenon
    <2> QED
      BY <2>2, Zenon
  <1>3. PICK m \in T : \A y \in T : m <= y
    BY <1>2, LeastExists, Zenon
  <1>4. m \in Nat /\ Cardinality(UpTo(S, m)) >= k
    BY <1>3, Zenon
  <1>5. m # 0
    <2>1. UpTo(S, 0) = {}
      <3>1. \A j \in S : ~ (j <= 0)
        BY <1>0
      <3> QED
        BY <3>1, Zenon DEF UpTo
    <2>2. Cardinality({}) = 0
      BY FS_EmptySet, Zenon
    <2> QED
      BY <1>1, <1>4, <2>1, <2>2
  <1>6. m - 1 \in Nat /\ m - 1 \notin T
    BY <1>3, <1>4, <1>5
  <1>7. Cardinality(UpTo(S, m - 1)) \in Nat /\ Cardinality(UpTo(S, m - 1)) < k
    <2>1. Cardinality(UpTo(S, m - 1)) \in Nat
      BY <1>6, PositionsFinite, Zenon
    <2> QED
      BY <1>1, <1>6, <2>1
  <1>8. m \in S
    <2> SUFFICES ASSUME m \notin S PROVE FALSE
      OBVIOUS
    <2>1. UpTo(S, m) = UpTo(S, m - 1)
      <3>1. \A j \in S : (j <= m => j <= m - 1) /\ (j <= m - 1 => j <= m)
        BY <1>0, <1>4
      <3> QED
        BY <3>1, Zenon DEF UpTo
    <2> QED
      BY <1>1, <1>4, <1>7, <2>1
  <1>9. Cardinality(UpTo(S, m)) = Cardinality(UpTo(S, m - 1)) + 1
    <2>1. UpTo(S, m) = UpTo(S, m - 1) \cup {m} /\ m \notin UpTo(S, m - 1)
      <3>1. /\ \A j \in S : (j <= m => j <= m - 1 \/ j = m) /\ (j <= m - 1 => j <= m)
            /\ m <= m /\ ~ (m <= m - 1)
        BY <1>0, <1>4
      <3> QED
        BY <1>8, <3>1, Zenon DEF UpTo
    <2>2. IsFiniteSet(UpTo(S, m - 1))
      BY <1>6, PositionsFinite, Zenon
    <2> QED
      BY <2>1, <2>2, FS_AddElement, Zenon
  <1>10. Cardinality(UpTo(S, m)) = k
    BY <1>1, <1>4, <1>7, <1>9
  <1> QED
    BY <1>8, <1>10, Zenon DEF Nth, UpTo

\* A later place has more places before it.
LEMMA CountAscends ==
    ASSUME NEW n \in Nat, NEW S \in SUBSET (1 .. n), NEW i \in S, NEW j \in S, i < j
    PROVE  Cardinality(UpTo(S, i)) < Cardinality(UpTo(S, j))
  <1>0. \A k \in S : k \in Nat
    OBVIOUS
  <1>1. UpTo(S, i) \subseteq UpTo(S, j) /\ UpTo(S, i) # UpTo(S, j)
    <2>1. (\A k \in S : k <= i => k <= j) /\ j <= j /\ ~ (j <= i)
      BY <1>0
    <2> QED
      BY <2>1, Zenon DEF UpTo
  <1>2. IsFiniteSet(UpTo(S, j)) /\ IsFiniteSet(UpTo(S, i))
    BY <1>0, PositionsFinite, Zenon
  <1>3. /\ Cardinality(UpTo(S, i)) <= Cardinality(UpTo(S, j))
        /\ Cardinality(UpTo(S, i)) = Cardinality(UpTo(S, j)) => UpTo(S, i) = UpTo(S, j)
    BY <1>1, <1>2, FS_Subset, Zenon
  <1> QED
    BY <1>1, <1>2, <1>3, FS_CardinalityType

\* The places are listed in order, and none is left out.
LEMMA NthAscends ==
    ASSUME NEW n \in Nat, NEW S \in SUBSET (1 .. n)
    PROVE  /\ \A k, l \in 1 .. Cardinality(S) : k < l => Nth(S, k) < Nth(S, l)
           /\ \A i \in S : \E k \in 1 .. Cardinality(S) : Nth(S, k) = i
  <1>0. \A j \in S : j \in Nat
    OBVIOUS
  <1>1. ASSUME NEW k \in 1 .. Cardinality(S), NEW l \in 1 .. Cardinality(S), k < l
        PROVE  Nth(S, k) < Nth(S, l)
    <2>1. /\ Nth(S, k) \in S /\ Cardinality(UpTo(S, Nth(S, k))) = k
          /\ Nth(S, l) \in S /\ Cardinality(UpTo(S, Nth(S, l))) = l
      BY NthIn, Zenon
    <2>2. k \in Nat /\ l \in Nat /\ k # l /\ ~ (l < k)
      BY <1>1, PositionsFinite
    <2>3. Nth(S, k) # Nth(S, l)
      BY <2>1, <2>2, Zenon
    <2>4. ~ (Nth(S, l) < Nth(S, k))
      BY <2>1, <2>2, CountAscends, Zenon
    <2> QED
      <3>1. Nth(S, k) \in Nat /\ Nth(S, l) \in Nat
        BY <1>0, <2>1, Zenon
      <3> QED
        BY <2>3, <2>4, <3>1
  <1>2. ASSUME NEW i \in S PROVE \E k \in 1 .. Cardinality(S) : Nth(S, k) = i
    <2> DEFINE k == Cardinality(UpTo(S, i))
    <2>1. /\ IsFiniteSet(S) /\ IsFiniteSet(UpTo(S, i)) /\ Cardinality(S) \in Nat /\ k \in Nat
      BY <1>0, PositionsFinite, Zenon
    <2>2. UpTo(S, i) \subseteq S /\ i \in UpTo(S, i)
      BY <1>0 DEF UpTo
    <2>3. k <= Cardinality(S) /\ k # 0
      BY <2>1, <2>2, FS_Subset, FS_EmptySet, Zenon
    <2>4. k \in 1 .. Cardinality(S)
      BY <2>1, <2>3
    <2>5. Nth(S, k) \in S /\ Cardinality(UpTo(S, Nth(S, k))) = k
      BY <2>4, NthIn, Zenon
    <2>6. ~ (Nth(S, k) < i) /\ ~ (i < Nth(S, k))
      <3>1. ~ (k < k)
        BY <2>1
      <3> QED
        BY <2>5, <3>1, CountAscends, Zenon
    <2>7. Nth(S, k) = i
      <3>1. Nth(S, k) \in Nat /\ i \in Nat
        BY <1>0, <2>5, Zenon
      <3> QED
        BY <2>6, <3>1
    <2> QED
      BY <2>4, <2>7, Zenon
  <1> QED
    BY <1>1, <1>2, Zenon

\* What can be put into a finite set one to one is finite and no larger.
LEMMA InjectionFits ==
    ASSUME NEW S, NEW T, NEW f \in Injection(S, T), IsFiniteSet(T)
    PROVE  IsFiniteSet(S) /\ Cardinality(S) <= Cardinality(T)
  BY FS_Injection, Zenon

\* What happened less than a window and a wait ago was written within the window.
LEMMA WithinWindow ==
    ASSUME NEW t \in Int, NEW at \in Int, NEW w \in Int, NEW wait \in Nat, NEW day \in Nat,
           NEW cutoff \in Int, w <= day, cutoff <= t - w, at > t - (w - wait)
    PROVE  at - wait > t - day /\ at - wait >= cutoff
  OBVIOUS

\* A set whose members have places of their own in an interval is no larger.
LEMMA FitsInterval ==
    ASSUME NEW J, NEW b \in Nat, NEW n \in Nat, b <= n, NEW f \in [J -> b + 1 .. n],
           \A x, y \in J : f[x] = f[y] => x = y
    PROVE  Cardinality(J) \in Nat /\ Cardinality(J) <= n - b
  <1>1. f \in Injection(J, b + 1 .. n)
    BY Zenon DEF Injection, IsInjective
  <1>2. IsFiniteSet(b + 1 .. n) /\ Cardinality(b + 1 .. n) = n - b
    <2>1. b + 1 \in Int /\ n \in Int
      OBVIOUS
    <2>2. /\ IsFiniteSet(b + 1 .. n)
          /\ Cardinality(b + 1 .. n) = IF b + 1 > n THEN 0 ELSE n - (b + 1) + 1
      BY <2>1, FS_Interval
    <2> QED
      BY <2>2
  <1>3. IsFiniteSet(J) /\ Cardinality(J) <= Cardinality(b + 1 .. n)
    BY <1>1, <1>2, InjectionFits, Zenon
  <1>4. Cardinality(J) \in Nat
    BY <1>3, FS_CardinalityType, Zenon
  <1> QED
    BY <1>2, <1>3, <1>4

-----------------------------------------------------------------------------
(* The window.                                                             *)

\* A function on 1 .. n is a sequence.
LEMMA SeqOfFunction ==
    ASSUME NEW T, NEW n \in Nat, NEW f \in [1 .. n -> T]
    PROVE  f \in Seq(T)
  OBVIOUS

\* The places of a sequence, and what they hold.
LEMMA SeqFacts ==
    ASSUME NEW T, NEW s \in Seq(T)
    PROVE  Len(s) \in Nat /\ DOMAIN s = 1 .. Len(s) /\ \A i \in DOMAIN s : s[i] \in T
  OBVIOUS

\* What append does.
LEMMA AppendFacts ==
    ASSUME NEW T, NEW s \in Seq(T), NEW e \in T
    PROVE  /\ Append(s, e) \in Seq(T) /\ Len(s) \in Nat
           /\ DOMAIN s = 1 .. Len(s) /\ DOMAIN Append(s, e) = 1 .. Len(s) + 1
           /\ Len(Append(s, e)) = Len(s) + 1
           /\ \A i \in DOMAIN s : Append(s, e)[i] = s[i] /\ s[i] \in T
           /\ Append(s, e)[Len(s) + 1] = e
  OBVIOUS

\* pruneStarts drops a prefix in which every start is older than the cutoff.
LEMMA PruneFacts ==
    ASSUME NEW T \in SUBSET Int, NEW s \in Seq(T), NEW now \in Int, NEW window \in Int
    PROVE  \E d \in 0 .. Len(s) :
              LET p == PruneStarts(s, now, window) IN
              /\ p \in Seq(T) /\ Len(p) = Len(s) - d /\ DOMAIN p = 1 .. (Len(s) - d)
              /\ \A k \in DOMAIN p : k + d \in DOMAIN s /\ p[k] = s[k + d]
              /\ \A i \in DOMAIN s : s[i] >= now - window => i > d
  <1> DEFINE S == {i \in DOMAIN s : s[i] >= now - window} \cup {Len(s) + 1}
  <1>1. Len(s) \in Nat /\ DOMAIN s = 1 .. Len(s) /\ \A i \in DOMAIN s : s[i] \in T
    OBVIOUS
  <1>2. S \in SUBSET Nat /\ S # {} /\ \A i \in S : 1 <= i
    BY <1>1
  <1>3. PICK m \in S : \A y \in S : m <= y
    BY <1>2, LeastExists, Zenon
  <1>4. m \in Nat /\ 1 <= m /\ m <= Len(s) + 1
    <2>1. Len(s) + 1 \in S
      OBVIOUS
    <2> QED
      BY <1>2, <1>3, <2>1, Zenon
  <1>5. Min(S) = m
    <2>1. S \in SUBSET Int
      BY <1>2
    <2> QED
      BY <1>3, <2>1, MinIs, Zenon
  <1> HIDE DEF S
  <1>6. PruneStarts(s, now, window) = SubSeq(s, m, Len(s))
    BY <1>5, Zenon DEF PruneStarts, S
  <1> DEFINE p == SubSeq(s, m, Len(s))
  <1>7. /\ p \in Seq(T) /\ Len(p) = Len(s) - (m - 1) /\ DOMAIN p = 1 .. (Len(s) - (m - 1))
        /\ \A k \in DOMAIN p : k + (m - 1) \in DOMAIN s /\ p[k] = s[k + (m - 1)]
    BY <1>1, <1>4
  <1>8. \A i \in DOMAIN s : s[i] >= now - window => i > m - 1
    <2> SUFFICES ASSUME NEW i \in DOMAIN s, s[i] >= now - window PROVE i > m - 1
      OBVIOUS
    <2>1. m <= i
      BY <1>3, Zenon DEF S
    <2> QED
      BY <1>1, <1>4, <2>1
  <1>9. m - 1 \in 0 .. Len(s)
    BY <1>1, <1>4
  <1> HIDE DEF p
  <1> QED
    BY <1>6, <1>7, <1>8, <1>9, Zenon DEF p

\* countSince counts every start from which on none is older than the cutoff.
LEMMA CountFacts ==
    ASSUME NEW T \in SUBSET Int, NEW s \in Seq(T), NEW cutoff \in Int
    PROVE  \E b \in 0 .. Len(s) :
              /\ CountSince(s, cutoff) = Len(s) - b
              /\ \A k \in DOMAIN s :
                    (\A l \in DOMAIN s : l >= k => s[l] >= cutoff) => k > b
  <1> DEFINE S == {i \in DOMAIN s : s[i] < cutoff} \cup {0}
             b == Max(S)
  <1>1. Len(s) \in Nat /\ DOMAIN s = 1 .. Len(s) /\ \A i \in DOMAIN s : s[i] \in Int
    <2>1. Len(s) \in Nat /\ DOMAIN s = 1 .. Len(s) /\ \A i \in DOMAIN s : s[i] \in T
      OBVIOUS
    <2> QED
      BY <2>1, Zenon
  <1>2. S \in SUBSET Nat /\ S # {} /\ \A i \in S : i <= Len(s)
    BY <1>1
  <1>3. b \in S /\ \A y \in S : y <= b
    BY <1>1, <1>2, MaxExists, Zenon
  <1>4. b \in 0 .. Len(s)
    BY <1>1, <1>2, <1>3
  <1>5. ASSUME NEW k \in DOMAIN s, \A l \in DOMAIN s : l >= k => s[l] >= cutoff PROVE k > b
    <2>1. CASE b = 0
      BY <1>1, <2>1
    <2>2. CASE b \in DOMAIN s /\ s[b] < cutoff
      <3>1. ~ (s[b] >= cutoff)
        BY <1>1, <2>2
      <3>2. ~ (b >= k)
        BY <1>5, <2>2, <3>1, Zenon
      <3> QED
        BY <1>1, <1>4, <3>2
    <2> QED
      BY <1>3, <2>1, <2>2, Zenon
  <1>6. CountSince(s, cutoff) = Len(s) - b
    BY Zenon DEF CountSince
  <1> QED
    BY <1>4, <1>5, <1>6, Zenon

\* s lists the times of the events in kept, in the order of the log.
Lists(s, events, kept) ==
    /\ s \in Seq(0 .. MaxTime)
    /\ \A k \in DOMAIN s : Nth(kept, k) \in kept /\ s[k] = events[Nth(kept, k)].at
    /\ \A k, l \in DOMAIN s : Nth(kept, k) = Nth(kept, l) => k = l
    /\ \A k, l \in DOMAIN s : k <= l => Nth(kept, k) <= Nth(kept, l)
    /\ \A i \in kept : \E k \in DOMAIN s : Nth(kept, k) = i

\* The reconstruction lists the charging events.
LEMMA RebuiltFacts ==
    ASSUME NEW events \in Seq(Events), NEW cutoff \in Int
    PROVE  Lists(ReconstructBudgetStarts(events, cutoff), events, Charging(events, cutoff))
  <1> SUFFICES ASSUME NEW kept, kept = Charging(events, cutoff),
                      NEW s, s = ReconstructBudgetStarts(events, cutoff)
               PROVE  Lists(s, events, kept)
    OBVIOUS
  <1> DEFINE n == Cardinality(kept)
  <1>1. Len(events) \in Nat /\ DOMAIN events = 1 .. Len(events)
    OBVIOUS
  <1>2. kept \in SUBSET (1 .. Len(events))
    BY <1>1, Zenon DEF Charging
  <1>3. \A i \in kept : i \in DOMAIN events /\ i \in Nat /\ events[i].at \in 0 .. MaxTime
    <2>1. \A i \in DOMAIN events : i \in Nat /\ events[i].at \in 0 .. MaxTime
      <3>1. \A i \in DOMAIN events : i \in Nat /\ events[i] \in Events
        BY <1>1
      <3>2. \A e \in Events : e.at \in 0 .. MaxTime
        BY Zenon DEF Events
      <3> QED
        BY <3>1, <3>2, Zenon
    <2> QED
      BY <1>1, <1>2, <2>1, Zenon
  <1>4. n \in Nat
    BY <1>1, <1>2, PositionsFinite, Zenon
  <1>5. s = [k \in 1 .. n |-> events[Nth(kept, k)].at]
    BY Zenon DEF ReconstructBudgetStarts
  <1>6. \A k \in 1 .. n : Nth(kept, k) \in kept
    BY <1>1, <1>2, NthIn, Zenon
  <1>7. /\ \A k, l \in 1 .. n : k < l => Nth(kept, k) < Nth(kept, l)
        /\ \A i \in kept : \E k \in 1 .. n : Nth(kept, k) = i
    BY <1>1, <1>2, NthAscends, Zenon
  <1>8. DOMAIN s = 1 .. n /\ \A k \in DOMAIN s : s[k] = events[Nth(kept, k)].at
    BY <1>5, Zenon
  <1>9. s \in Seq(0 .. MaxTime)
    <2>1. \A k \in 1 .. n : events[Nth(kept, k)].at \in 0 .. MaxTime
      BY <1>3, <1>6, Zenon
    <2> HIDE DEF n
    <2>2. s \in [1 .. n -> 0 .. MaxTime]
      BY <1>5, <2>1, Zenon
    <2> QED
      BY <1>4, <2>2, SeqOfFunction, Zenon
  <1>10. ASSUME NEW k \in 1 .. n, NEW l \in 1 .. n
         PROVE  /\ Nth(kept, k) = Nth(kept, l) => k = l
                /\ k <= l => Nth(kept, k) <= Nth(kept, l)
    <2>1. k < l => Nth(kept, k) < Nth(kept, l)
      BY <1>7, Zenon
    <2>2. l < k => Nth(kept, l) < Nth(kept, k)
      BY <1>7, Zenon
    <2>3. Nth(kept, k) \in Nat /\ Nth(kept, l) \in Nat
      BY <1>3, <1>6, Zenon
    <2> HIDE DEF n
    <2> QED
      BY <1>4, <2>1, <2>2, <2>3
  <1> QED
    BY <1>6, <1>7, <1>8, <1>9, <1>10, Zenon DEF Lists

-----------------------------------------------------------------------------
(* Types.                                                                  *)

\* The windows, bounds and limits are natural numbers.
LEMMA Constants ==
    /\ Run \cap Child = {}
    /\ Hour \in Nat /\ Day \in Nat /\ Hour <= Day
    /\ MaxWait \in Nat /\ MaxTime \in Nat /\ MaxCrashes \in Nat /\ MaxLost \in Nat
    /\ HourLimit \in Nat /\ DayLimit \in Nat
  BY RunBudgetAssumption DEF HourLimit, DayLimit, NoOverride

\* Moments are integers.
LEMMA TimesAreNumbers == Times \subseteq Int /\ 0 .. MaxTime \subseteq Int
  BY Constants DEF Times, NoTime

\* What the log holds.
LEMMA LogFacts ==
    ASSUME NEW events \in Seq(Events)
    PROVE  /\ Len(events) \in Nat /\ DOMAIN events = 1 .. Len(events)
           /\ \A i \in DOMAIN events :
                 /\ i \in Nat /\ i > 0
                 /\ events[i].run \in Runs /\ events[i].at \in Int /\ events[i].attempt \in Nat
  <1>1. Len(events) \in Nat /\ DOMAIN events = 1 .. Len(events)
    OBVIOUS
  <1>2. \A i \in DOMAIN events : i \in Nat /\ i > 0 /\ events[i] \in Events
    BY <1>1
  <1>3. \A e \in Events : e.run \in Runs /\ e.at \in Int /\ e.attempt \in Nat
    BY TimesAreNumbers, Zenon DEF Events
  <1> QED
    BY <1>1, <1>2, <1>3, Zenon

\* What is remembered of the admissions.
LEMMA AdmittedFacts ==
    ASSUME NEW s \in Seq(Admissions)
    PROVE  /\ Len(s) \in Nat /\ DOMAIN s = 1 .. Len(s)
           /\ \A a \in DOMAIN s :
                 /\ a \in Nat /\ a > 0
                 /\ s[a].run \in Runs /\ s[a].at \in Int /\ s[a].dated \in Int
                 /\ s[a].event \in Nat /\ s[a].floor \in Int
  <1>1. Len(s) \in Nat /\ DOMAIN s = 1 .. Len(s)
    OBVIOUS
  <1>2. \A a \in DOMAIN s : a \in Nat /\ a > 0 /\ s[a] \in Admissions
    BY <1>1
  <1>3. \A e \in Admissions : /\ e.run \in Runs /\ e.at \in Int /\ e.dated \in Int
                              /\ e.event \in Nat /\ e.floor \in Int
    BY TimesAreNumbers, Zenon DEF Admissions
  <1> QED
    BY <1>1, <1>2, <1>3, Zenon

-----------------------------------------------------------------------------
(* Nothing is taken back from the log and from the admissions.             *)

\* The log and the admissions grow at their ends, and what is new in the log is
\* at most MaxWait old.
Grown ==
    /\ clock <= clock'
    /\ DOMAIN log \subseteq DOMAIN log' /\ \A i \in DOMAIN log : log'[i] = log[i]
    /\ \A i \in DOMAIN log' : i \notin DOMAIN log => log'[i].at >= clock - MaxWait
    /\ DOMAIN admitted \subseteq DOMAIN admitted'
    /\ \A a \in DOMAIN admitted : admitted'[a] = admitted[a]
    /\ \A a \in DOMAIN admitted' : a \notin DOMAIN admitted => admitted'[a].event \notin DOMAIN log

\* Earlier admissions keep their events.
LEMMA OwnEventKept ==
    ASSUME TypeOK, TypeOK', Grown, NEW a \in DOMAIN admitted, OwnEvent(a), Logged(a),
           admitted[a].at <= clock
    PROVE  OwnEvent(a)'
  <1> DEFINE e == admitted[a].event
  <1>0. /\ log \in Seq(Events) /\ log' \in Seq(Events)
        /\ admitted \in Seq(Admissions) /\ admitted' \in Seq(Admissions) /\ clock \in Int
    BY TimesAreNumbers, Zenon DEF TypeOK
  <1>1. /\ a \in DOMAIN admitted' /\ admitted'[a] = admitted[a]
        /\ e \in DOMAIN log /\ e \in DOMAIN log' /\ log'[e] = log[e]
    BY Zenon DEF Grown, OwnEvent
  <1>2. /\ log'[e].run = admitted'[a].run /\ log'[e].at = admitted'[a].dated
        /\ admitted'[a].run \in Child => log'[e].attempt = e
    BY <1>1, Zenon DEF OwnEvent
  <1>3. ASSUME NEW i \in DOMAIN log', i >= e PROVE log'[i].at >= admitted'[a].at - MaxWait
    <2>1. CASE i \in DOMAIN log
      BY <1>1, <1>3, <2>1, Zenon DEF OwnEvent, Grown
    <2>2. CASE i \notin DOMAIN log
      <3>1. log'[i].at >= clock - MaxWait
        BY <2>2, Zenon DEF Grown
      <3>2. log'[i].at \in Int /\ admitted[a].at \in Int
        BY <1>0, LogFacts, AdmittedFacts, Zenon
      <3>3. log'[i].at >= admitted[a].at - MaxWait
        BY <1>0, <3>1, <3>2, Constants
      <3> QED
        BY <1>1, <3>3, Zenon
    <2> QED
      BY <2>1, <2>2, Zenon
  <1>4. ASSUME NEW b \in DOMAIN admitted', admitted'[b].event = e PROVE a = b
    <2>1. CASE b \in DOMAIN admitted
      BY <1>4, <2>1, Zenon DEF OwnEvent, Grown
    <2>2. CASE b \notin DOMAIN admitted
      BY <1>1, <1>4, <2>2, Zenon DEF Grown
    <2> QED
      BY <2>1, <2>2, Zenon
  <1>5. ASSUME Kept(a)', admitted'[a].run \in Run, NEW i \in DOMAIN log', i < e
        PROVE  log'[i].run # admitted'[a].run
    <2>1. Kept(a)
      BY <1>1, <1>5, Zenon DEF Kept, Logged
    <2>2. i \in DOMAIN log
      <3>1. DOMAIN log = 1 .. Len(log) /\ Len(log) \in Nat /\ i \in Nat /\ i > 0
        BY <1>0, LogFacts, Zenon
      <3> QED
        BY <1>1, <1>5, <3>1
    <2> QED
      BY <1>1, <1>5, <2>1, <2>2, Zenon DEF OwnEvent, Grown
  <1> HIDE DEF e
  <1>6. e = admitted'[a].event
    BY <1>1, Zenon DEF e
  <1> QED
    BY <1>1, <1>2, <1>3, <1>4, <1>5, <1>6, Zenon DEF OwnEvent

\* So earlier admissions, events and runs stay as they were.
LEMMA GrownKeeps ==
    ASSUME TypeOK, TypeOK', Grown,
           \A a \in DOMAIN admitted : AdmissionSound(a),
           \A i \in DOMAIN log : EventSound(i),
           \A r \in Runs : RunSound(r)
    PROVE  /\ \A a \in DOMAIN admitted : AdmissionSound(a)'
           /\ \A i \in DOMAIN log : EventSound(i)'
           /\ \A r \in Runs : (run'[r] # "new" => run[r] # "new") => RunSound(r)'
  <1>0. /\ admitted \in Seq(Admissions) /\ clock \in Int /\ clock' \in Int /\ clock <= clock'
    BY TimesAreNumbers, Zenon DEF TypeOK, Grown
  <1>1. ASSUME NEW a \in DOMAIN admitted PROVE AdmissionSound(a)'
    <2>1. admitted'[a] = admitted[a]
      BY Zenon DEF Grown
    <2>2. admitted[a].at \in Int /\ admitted[a].at <= clock
      BY <1>0, AdmittedFacts, Zenon DEF AdmissionSound
    <2>3. admitted[a].at <= clock'
      BY <1>0, <2>2
    <2>4. Logged(a)' => OwnEvent(a)'
      BY <2>1, <2>2, OwnEventKept, Zenon DEF AdmissionSound, Logged
    <2> QED
      BY <2>1, <2>3, <2>4, Zenon DEF AdmissionSound
  <1>2. ASSUME NEW i \in DOMAIN log PROVE EventSound(i)'
    <2>1. log'[i] = log[i] /\ EventSound(i)
      BY Zenon DEF Grown
    <2>2. Caused(i)'
      <3>1. CASE \E a \in DOMAIN admitted : admitted[a].event = i
        BY <3>1, Zenon DEF Grown, Caused
      <3>2. CASE /\ log[i].run \in Child /\ log[i].attempt = 0
                 /\ \E j \in DOMAIN log : log[j].run = log[i].run /\ log[j].attempt > 0
        BY <2>1, <3>2, Zenon DEF Grown, Caused
      <3>3. CASE /\ log[i].run \in Run
                 /\ \E j \in DOMAIN log : j < i /\ log[j].run = log[i].run
        BY <2>1, <3>3, Zenon DEF Grown, Caused
      <3>4. CASE /\ log[i].run \in Run
                 /\ \E a \in DOMAIN admitted : admitted[a].run = log[i].run /\ ~Logged(a)
        BY <2>1, <3>4, Zenon DEF Grown, Caused, Logged
      <3> QED
        BY <2>1, <3>1, <3>2, <3>3, <3>4, Zenon DEF EventSound, Caused
    <2> QED
      BY <2>1, <2>2, Zenon DEF EventSound
  <1>3. ASSUME NEW r \in Runs, run'[r] # "new" => run[r] # "new" PROVE RunSound(r)'
    <2>1. ASSUME run'[r] # "new", r \in Run PROVE \E a \in DOMAIN admitted' : admitted'[a].run = r
      <3>1. PICK a \in DOMAIN admitted : admitted[a].run = r
        BY <1>3, <2>1, Zenon DEF RunSound
      <3> QED
        BY <3>1, Zenon DEF Grown
    <2>2. ASSUME run'[r] # "new", r \in Child
          PROVE  \E i \in DOMAIN log' : log'[i].run = r /\ log'[i].attempt > 0
      <3>1. PICK i \in DOMAIN log : log[i].run = r /\ log[i].attempt > 0
        BY <1>3, <2>2, Zenon DEF RunSound
      <3> QED
        BY <3>1, Zenon DEF Grown
    <2> QED
      BY <2>1, <2>2, Zenon DEF RunSound
  <1> QED
    BY <1>1, <1>2, <1>3, Zenon

-----------------------------------------------------------------------------
(* An admission, of an ordinary run or of a generated child.               *)

Admits(c, e) ==
    /\ c \in Caller /\ seen[c] # NoTime
    /\ e \in Admissions /\ e.at = clock /\ e.dated \in {clock, seen[c]}
    /\ e.event \in {0, Len(log) + 1} /\ e.floor = floor /\ e.epoch = crashes
    /\ e.first /\ e.run \in Run => \A i \in DOMAIN log : log[i].run # e.run
    /\ e.forced \/ ~Refused(seen[c], FALSE)
    /\ starts' = Charged(seen[c])
    /\ log' = IF e.event = 0 THEN log
              ELSE Append(log, Event(e.run, e.dated, IF e.run \in Child THEN Len(log) + 1 ELSE 0))
    /\ admitted' = Append(admitted, e)
    /\ seen' = [seen EXCEPT ![c] = NoTime]
    /\ UNCHANGED <<clock, marker, floor, crashes>>

\* The caller's time, and the date of the event, are at most MaxWait old.
LEMMA AdmitTimes ==
    ASSUME TypeOK, ClockSound, NEW c, NEW e, Admits(c, e)
    PROVE  /\ clock \in Int /\ seen[c] \in 0 .. MaxTime /\ e.dated \in 0 .. MaxTime
           /\ seen[c] \in Int /\ e.dated \in Int
           /\ seen[c] <= clock /\ clock - seen[c] <= MaxWait
           /\ e.dated <= clock /\ clock - e.dated <= MaxWait
  <1>1. seen[c] \in Times /\ seen[c] # NoTime /\ clock \in 0 .. MaxTime
    BY Zenon DEF Admits, TypeOK
  <1>2. seen[c] \in 0 .. MaxTime
    BY <1>1, Zenon DEF Times
  <1>3. seen[c] <= clock /\ clock - seen[c] <= MaxWait
    BY Zenon DEF Admits, ClockSound
  <1>4. clock <= clock /\ clock - clock <= MaxWait
    BY <1>1, Constants
  <1>5. e.dated = clock \/ e.dated = seen[c]
    BY Zenon DEF Admits
  <1>6. 0 .. MaxTime \subseteq Int
    BY TimesAreNumbers, Zenon
  <1> QED
    BY <1>1, <1>2, <1>3, <1>4, <1>5, <1>6, Zenon

\* What is remembered of the admission.
LEMMA AdmissionFields ==
    ASSUME TypeOK, NEW c, NEW e, Admits(c, e), NEW n, n = Len(admitted) + 1
    PROVE  /\ n \in Nat /\ n \notin DOMAIN admitted /\ n \in DOMAIN admitted'
           /\ DOMAIN admitted = 1 .. n - 1 /\ DOMAIN admitted' = DOMAIN admitted \cup {n}
           /\ admitted' \in Seq(Admissions)
           /\ \A a \in DOMAIN admitted : admitted'[a] = admitted[a]
           /\ admitted'[n] = e
  <1>1. admitted \in Seq(Admissions) /\ admitted' = Append(admitted, e) /\ e \in Admissions
    BY Zenon DEF TypeOK, Admits
  <1>2. /\ Append(admitted, e) \in Seq(Admissions) /\ Len(admitted) \in Nat
        /\ DOMAIN admitted = 1 .. Len(admitted)
        /\ DOMAIN Append(admitted, e) = 1 .. Len(admitted) + 1
        /\ \A a \in DOMAIN admitted : Append(admitted, e)[a] = admitted[a]
        /\ Append(admitted, e)[Len(admitted) + 1] = e
    BY <1>1, AppendFacts
  <1>3. /\ admitted' \in Seq(Admissions) /\ DOMAIN admitted' = 1 .. Len(admitted) + 1
        /\ \A a \in DOMAIN admitted : admitted'[a] = admitted[a]
        /\ admitted'[n] = e
    BY <1>1, <1>2, Zenon
  <1>4. /\ n \in Nat /\ n \notin 1 .. Len(admitted) /\ n \in 1 .. Len(admitted) + 1
        /\ 1 .. Len(admitted) = 1 .. n - 1 /\ 1 .. Len(admitted) + 1 = 1 .. Len(admitted) \cup {n}
    BY <1>2
  <1> QED
    BY <1>2, <1>3, <1>4, Zenon

\* The log keeps its events.
LEMMA LogPlaces ==
    ASSUME TypeOK, NEW c, NEW e, Admits(c, e), NEW m, m = Len(log) + 1
    PROVE  /\ m \in Nat /\ m > 0 /\ m \notin DOMAIN log /\ 0 \notin DOMAIN log
           /\ DOMAIN log = 1 .. m - 1 /\ log \in Seq(Events)
           /\ e.event = 0 => log' = log
           /\ e.event # 0 => e.event = m
           /\ 1 .. m = DOMAIN log \cup {m}
  <1>0. Len(log) \in Nat /\ log \in Seq(Events) /\ DOMAIN log = 1 .. Len(log)
    BY LogFacts, Zenon DEF TypeOK
  <1>1. /\ m \in Nat /\ m > 0 /\ m \notin 1 .. Len(log) /\ 0 \notin 1 .. Len(log)
        /\ 1 .. Len(log) = 1 .. m - 1 /\ 1 .. m = 1 .. Len(log) \cup {m}
    BY <1>0
  <1>2. /\ e.event = 0 => log' = log
        /\ e.event # 0 => e.event = m
    BY Zenon DEF Admits
  <1> QED
    BY <1>0, <1>1, <1>2, Zenon

\* What is logged of the admission.
LEMMA LoggedFields ==
    ASSUME TypeOK, ClockSound, NEW c, NEW e, Admits(c, e), e.event # 0,
           NEW m, m = Len(log) + 1
    PROVE  /\ log' \in Seq(Events) /\ DOMAIN log' = DOMAIN log \cup {m}
           /\ \A i \in DOMAIN log : log'[i] = log[i]
           /\ log'[m].run = e.run /\ log'[m].at = e.dated
           /\ e.run \in Child => log'[m].attempt = m
           /\ e.run \notin Child => log'[m].attempt = 0
  <1> DEFINE v == Event(e.run, e.dated, IF e.run \in Child THEN m ELSE 0)
  <1>0. log \in Seq(Events) /\ m \in Nat /\ 1 .. m = DOMAIN log \cup {m}
    BY LogPlaces, Zenon
  <1>1. /\ v.run = e.run /\ v.at = e.dated
        /\ e.run \in Child => v.attempt = m
        /\ e.run \notin Child => v.attempt = 0
    BY DEF Event
  <1>2. v \in Events
    <2>1. e.run \in Runs
      BY Zenon DEF Admits, Admissions
    <2>2. e.dated \in 0 .. MaxTime
      BY AdmitTimes, Zenon
    <2>3. (IF e.run \in Child THEN m ELSE 0) \in Nat
      BY <1>0
    <2> QED
      BY <2>1, <2>2, <2>3, Zenon DEF Event, Events
  <1>3. log' = Append(log, v)
    BY Zenon DEF Admits
  <1> HIDE DEF v
  <1>4. /\ Append(log, v) \in Seq(Events) /\ DOMAIN Append(log, v) = 1 .. Len(log) + 1
        /\ \A i \in DOMAIN log : Append(log, v)[i] = log[i]
        /\ Append(log, v)[Len(log) + 1] = v
    BY <1>0, <1>2, AppendFacts
  <1>5. /\ log' \in Seq(Events) /\ DOMAIN log' = 1 .. m
        /\ \A i \in DOMAIN log : log'[i] = log[i]
        /\ log'[m] = v
    BY <1>3, <1>4, Zenon
  <1> QED
    BY <1>0, <1>1, <1>5, Zenon

\* The admission leaves what is there in place.
LEMMA AdmitGrows ==
    ASSUME TypeOK, ClockSound, NEW c, NEW e, Admits(c, e)
    PROVE  Grown
  <1>0. PICK n, m : n = Len(admitted) + 1 /\ m = Len(log) + 1
    OBVIOUS
  <1>1. /\ DOMAIN admitted \subseteq DOMAIN admitted'
        /\ \A a \in DOMAIN admitted : admitted'[a] = admitted[a]
        /\ \A a \in DOMAIN admitted' : a \notin DOMAIN admitted => admitted'[a] = e
    BY <1>0, AdmissionFields, Zenon
  <1>2. e.event \notin DOMAIN log
    BY <1>0, LogPlaces, Zenon
  <1>3. \A a \in DOMAIN admitted' : a \notin DOMAIN admitted => admitted'[a].event \notin DOMAIN log
    BY <1>1, <1>2, Zenon
  <1>4. e.dated >= clock - MaxWait
    <2>1. clock \in Int /\ e.dated \in Int /\ clock - e.dated <= MaxWait
      BY AdmitTimes, Zenon
    <2> QED
      BY <2>1, Constants
  <1>5. /\ DOMAIN log \subseteq DOMAIN log' /\ \A i \in DOMAIN log : log'[i] = log[i]
        /\ \A i \in DOMAIN log' : i \notin DOMAIN log => log'[i].at >= clock - MaxWait
    <2>1. CASE e.event = 0
      <3>1. log' = log
        BY <1>0, <2>1, LogPlaces, Zenon
      <3> QED
        BY <3>1, Zenon
    <2>2. CASE e.event # 0
      <3>1. /\ DOMAIN log' = DOMAIN log \cup {m} /\ \A i \in DOMAIN log : log'[i] = log[i]
            /\ log'[m].at = e.dated
        BY <1>0, <2>2, LoggedFields, Zenon
      <3> QED
        BY <1>4, <3>1, Zenon
    <2> QED
      BY <2>1, <2>2, Zenon
  <1>6. clock <= clock'
    <2>1. clock' = clock /\ clock \in Int
      BY AdmitTimes, Zenon DEF Admits
    <2> QED
      BY <2>1
  <1> QED
    BY <1>1, <1>3, <1>5, <1>6, Zenon DEF Grown

\* The new admission has the new event to itself.
LEMMA AdmitSound ==
    ASSUME TypeOK, ClockSound, NEW c, NEW e, Admits(c, e),
           \A a \in DOMAIN admitted : AdmissionSound(a),
           NEW n, n = Len(admitted) + 1
    PROVE  AdmissionSound(n)'
  <1>0. PICK m : m = Len(log) + 1
    BY Zenon
  <1>1. /\ n \in Nat /\ n \in DOMAIN admitted' /\ admitted'[n] = e
        /\ DOMAIN admitted' = DOMAIN admitted \cup {n}
        /\ \A a \in DOMAIN admitted : admitted'[a] = admitted[a]
    BY AdmissionFields, Zenon
  <1>2. /\ clock \in Int /\ e.dated \in Int /\ e.dated <= clock /\ clock - e.dated <= MaxWait
        /\ e.at = clock /\ clock' = clock
    BY AdmitTimes, Zenon DEF Admits
  <1>3. clock <= clock
    BY <1>2
  <1>4. ASSUME e.event # 0
        PROVE  /\ e.event \in DOMAIN log'
               /\ log'[e.event].run = e.run /\ log'[e.event].at = e.dated
               /\ e.run \in Child => log'[e.event].attempt = e.event
               /\ \A i \in DOMAIN log' : i >= e.event => log'[i].at >= e.at - MaxWait
               /\ \A b \in DOMAIN admitted' : admitted'[b].event = e.event => n = b
               /\ e.first /\ e.run \in Run =>
                     \A i \in DOMAIN log' : i < e.event => log'[i].run # e.run
    <2>1. /\ m \in Nat /\ m > 0 /\ m \notin DOMAIN log /\ e.event = m
          /\ DOMAIN log = 1 .. m - 1
      BY <1>0, <1>4, LogPlaces, Zenon
    <2>2. /\ DOMAIN log' = DOMAIN log \cup {m}
          /\ \A i \in DOMAIN log : log'[i] = log[i]
          /\ log'[m].run = e.run /\ log'[m].at = e.dated
          /\ e.run \in Child => log'[m].attempt = m
      BY <1>0, <1>4, LoggedFields, Zenon
    <2>3. \A i \in DOMAIN log : ~ (i >= m)
      BY <2>1
    <2>4. ~ (m < m) /\ e.dated >= clock - MaxWait
      BY <1>2, <2>1, Constants
    <2>5. ASSUME NEW i \in DOMAIN log', i >= e.event PROVE log'[i].at >= e.at - MaxWait
      <3>1. i = m
        BY <2>1, <2>2, <2>3, <2>5, Zenon
      <3> QED
        BY <1>2, <2>2, <2>4, <3>1, Zenon
    <2>6. ASSUME NEW b \in DOMAIN admitted', admitted'[b].event = e.event PROVE n = b
      <3>1. ASSUME b \in DOMAIN admitted PROVE FALSE
        <4>1. admitted[b].event = m
          BY <1>1, <2>1, <2>6, <3>1, Zenon
        <4>2. m # 0
          BY <2>1
        <4>3. m \in DOMAIN log
          BY <3>1, <4>1, <4>2, Zenon DEF AdmissionSound, Logged, OwnEvent
        <4> QED
          BY <2>1, <4>3, Zenon
      <3> QED
        BY <1>1, <3>1, Zenon
    <2>7. ASSUME e.first, e.run \in Run, NEW i \in DOMAIN log', i < e.event
          PROVE  log'[i].run # e.run
      <3>1. i \in DOMAIN log
        BY <2>1, <2>2, <2>4, <2>7, Zenon
      <3>2. log[i].run # e.run
        BY <2>7, <3>1, Zenon DEF Admits
      <3> QED
        BY <2>2, <3>1, <3>2, Zenon
    <2> QED
      BY <2>1, <2>2, <2>5, <2>6, <2>7, Zenon
  <1>5. Logged(n)' => OwnEvent(n)'
    BY <1>1, <1>4, Zenon DEF OwnEvent, Logged, Kept
  <1> QED
    BY <1>1, <1>2, <1>3, <1>5, Zenon DEF AdmissionSound

\* The new event is that of the new admission.
LEMMA AdmitLogged ==
    ASSUME TypeOK, ClockSound, NEW c, NEW e, Admits(c, e), e.event # 0,
           NEW m, m = Len(log) + 1
    PROVE  EventSound(m)'
  <1>0. PICK n : n = Len(admitted) + 1
    BY Zenon
  <1>1. n \in DOMAIN admitted' /\ admitted'[n] = e
    BY <1>0, AdmissionFields, Zenon
  <1>2. /\ log'[m].run = e.run
        /\ e.run \in Child => log'[m].attempt = m
        /\ e.run \notin Child => log'[m].attempt = 0
    BY LoggedFields, Zenon
  <1>3. Caused(m)'
    <2>1. e.event = m
      BY LogPlaces, Zenon
    <2> QED
      BY <1>1, <2>1, Zenon DEF Caused
  <1>4. e.run \in Run => e.run \notin Child
    BY Constants, Zenon
  <1> QED
    BY <1>2, <1>3, <1>4, Zenon DEF EventSound

-----------------------------------------------------------------------------
(* The charges.                                                            *)

\* The charges are numbers.
LEMMA StartsFacts ==
    ASSUME NEW s \in Seq(0 .. MaxTime)
    PROVE  /\ Len(s) \in Nat /\ DOMAIN s = 1 .. Len(s)
           /\ \A i \in DOMAIN s : i \in Nat /\ s[i] \in Int
  <1>1. Len(s) \in Nat /\ DOMAIN s = 1 .. Len(s) /\ \A i \in DOMAIN s : s[i] \in 0 .. MaxTime
    BY SeqFacts, Zenon
  <1>2. \A i \in DOMAIN s : i \in Nat
    BY <1>1
  <1> QED
    BY <1>1, <1>2, TimesAreNumbers, Zenon

\* Time alone takes nothing away from the charges.
LEMMA StandsLater ==
    ASSUME TypeOK, TypeOK', clock <= clock', NEW s, NEW g, Stands(s, g),
           UNCHANGED <<floor, admitted, crashes>>
    PROVE  Stands(s, g)'
  <1>1. /\ clock \in Int /\ clock' \in Int /\ admitted \in Seq(Admissions)
        /\ floor' = floor /\ admitted' = admitted /\ crashes' = crashes
    BY TimesAreNumbers, Zenon DEF TypeOK
  <1>2. \A j : Logged(j)' = Logged(j) /\ Kept(j)' = Kept(j)
    BY <1>1, Zenon DEF Logged, Kept
  <1>3. g \in [DOMAIN s -> DOMAIN admitted'] /\ Distinct(s, g)'
    BY <1>1, Zenon DEF Stands, Distinct
  <1>4. ForAdmission(s, g)'
    BY <1>1, Zenon DEF Stands, ForAdmission, Logged
  <1>5. ASSUME NEW j \in DOMAIN admitted', Counted(j)' PROVE Covers(s, g, j)'
    <2>1. j \in DOMAIN admitted /\ admitted[j].at \in Int
      BY <1>1, AdmittedFacts, Zenon
    <2>2. /\ Kept(j) /\ admitted[j].dated > floor
          /\ admitted[j].at - MaxWait > clock' - Day
      BY <1>1, <1>5, Zenon DEF Counted, Kept, Logged
    <2>3. admitted[j].at - MaxWait > clock - Day
      BY <1>1, <2>1, <2>2, Constants
    <2>4. Covers(s, g, j)
      BY <2>1, <2>2, <2>3, Zenon DEF Stands, Counted
    <2> QED
      BY <1>1, <2>4, Zenon DEF Covers
  <1> QED
    BY <1>3, <1>4, <1>5, Zenon DEF Stands

\* Pruning drops only charges that count for nothing any more.
LEMMA StandsPruned ==
    ASSUME TypeOK, NEW now \in Int, now <= clock, NEW g, Stands(starts, g)
    PROVE  \E h : Stands(PruneStarts(starts, now, Day), h)
  <1>0. /\ starts \in Seq(0 .. MaxTime) /\ 0 .. MaxTime \in SUBSET Int /\ Day \in Int
        /\ clock \in Int /\ admitted \in Seq(Admissions)
    <2>1. Day \in Int
      BY Constants
    <2> QED
      BY <2>1, TimesAreNumbers, Zenon DEF TypeOK
  <1>1. PICK p : p = PruneStarts(starts, now, Day)
    BY Zenon
  <1>2. PICK d \in 0 .. Len(starts) :
           /\ p \in Seq(0 .. MaxTime) /\ DOMAIN p = 1 .. (Len(starts) - d)
           /\ \A k \in DOMAIN p : k + d \in DOMAIN starts /\ p[k] = starts[k + d]
           /\ \A i \in DOMAIN starts : starts[i] >= now - Day => i > d
    BY <1>0, <1>1, PruneFacts, Zenon
  <1>3. /\ Len(starts) \in Nat /\ DOMAIN starts = 1 .. Len(starts) /\ d \in Nat
        /\ \A i \in DOMAIN starts : i \in Nat /\ starts[i] \in Int
    BY <1>0, StartsFacts
  <1>4. \A k \in DOMAIN p : k \in Nat
    BY <1>2
  <1> DEFINE h == [k \in DOMAIN p |-> g[k + d]]
  <1>5. \A k \in DOMAIN p : h[k] = g[k + d]
    OBVIOUS
  <1>6. h \in [DOMAIN p -> DOMAIN admitted]
    BY <1>2, Zenon DEF Stands
  <1> HIDE DEF h
  <1>7. Distinct(p, h)
    <2> SUFFICES ASSUME NEW k \in DOMAIN p, NEW l \in DOMAIN p, h[k] = h[l] PROVE k = l
      BY Zenon DEF Distinct
    <2>1. /\ k + d \in DOMAIN starts /\ l + d \in DOMAIN starts
          /\ g[k + d] = g[l + d]
      BY <1>2, <1>5, Zenon
    <2>2. k + d = l + d
      BY <2>1, Zenon DEF Stands, Distinct
    <2> QED
      BY <1>3, <1>4, <2>2
  <1>8. ForAdmission(p, h)
    <2> SUFFICES ASSUME NEW k \in DOMAIN p
                 PROVE  \/ ~Logged(h[k])
                        \/ /\ p[k] <= admitted[h[k]].at
                           /\ admitted[h[k]].dated > floor \/ admitted[h[k]].epoch = crashes
      BY Zenon DEF ForAdmission
    <2>1. k + d \in DOMAIN starts /\ h[k] = g[k + d] /\ p[k] = starts[k + d]
      BY <1>2, <1>5, Zenon
    <2> QED
      BY <2>1, Zenon DEF Stands, ForAdmission
  <1>9. ASSUME NEW j \in DOMAIN admitted, Counted(j) PROVE Covers(p, h, j)
    <2>1. PICK i \in DOMAIN starts :
             /\ g[i] = j
             /\ \A l \in DOMAIN starts : l >= i => starts[l] >= admitted[j].at - MaxWait
      BY <1>9, Zenon DEF Stands, Covers
    <2>2. admitted[j].at \in Int /\ admitted[j].at - MaxWait > clock - Day
      BY <1>0, <1>9, AdmittedFacts, Zenon DEF Counted
    <2>3. starts[i] >= now - Day
      <3>1. i >= i /\ starts[i] \in Int
        BY <1>3
      <3>2. starts[i] >= admitted[j].at - MaxWait
        BY <2>1, <3>1, Zenon
      <3>3. clock \in Int /\ MaxWait \in Int /\ Day \in Int
        BY <1>0, Constants
      <3> QED
        BY <2>2, <3>1, <3>2, <3>3
    <2>4. i > d
      BY <1>2, <2>3, Zenon
    <2>5. PICK k : k = i - d
      BY Zenon
    <2>6. k \in DOMAIN p /\ k + d = i
      BY <1>2, <1>3, <2>4, <2>5
    <2>7. ASSUME NEW l \in DOMAIN p, l >= k PROVE p[l] >= admitted[j].at - MaxWait
      <3>1. l + d >= i /\ l + d \in DOMAIN starts /\ p[l] = starts[l + d]
        <4>1. l + d >= i
          BY <1>3, <1>4, <2>6, <2>7
        <4> QED
          BY <1>2, <4>1, Zenon
      <3> QED
        BY <2>1, <3>1, Zenon
    <2>8. h[k] = j
      BY <1>5, <2>1, <2>6, Zenon
    <2> QED
      BY <2>6, <2>7, <2>8, Zenon DEF Covers
  <1>10. Stands(p, h)
    BY <1>6, <1>7, <1>8, <1>9, Zenon DEF Stands
  <1> QED
    BY <1>1, <1>10, Zenon

\* The new charge stands for the new admission, and is at most MaxWait older.
LEMMA StandsCharged ==
    ASSUME TypeOK, ClockSound, NEW c, NEW e, Admits(c, e),
           \A a \in DOMAIN admitted : AdmissionSound(a),
           NEW p \in Seq(0 .. MaxTime), NEW h, Stands(p, h), starts' = Append(p, seen[c])
    PROVE  \E g \in [DOMAIN starts' -> DOMAIN admitted'] : Stands(starts, g)'
  <1>0. PICK n, now, q : n = Len(admitted) + 1 /\ now = seen[c] /\ q = starts'
    OBVIOUS
  <1>1. /\ n \notin DOMAIN admitted /\ DOMAIN admitted' = DOMAIN admitted \cup {n}
        /\ \A a \in DOMAIN admitted : admitted'[a] = admitted[a]
        /\ admitted'[n] = e
    BY <1>0, AdmissionFields, Zenon
  <1>2. /\ clock \in Int /\ now \in 0 .. MaxTime /\ now \in Int
        /\ now <= clock /\ clock - now <= MaxWait
        /\ e.at = clock /\ e.epoch = crashes
        /\ clock' = clock /\ floor' = floor /\ crashes' = crashes
    BY <1>0, AdmitTimes, Zenon DEF Admits
  <1>3. PICK z : z = Len(p) + 1
    BY Zenon
  <1>4. /\ DOMAIN q = DOMAIN p \cup {z} /\ z \notin DOMAIN p /\ q[z] = now
        /\ \A k \in DOMAIN p : q[k] = p[k] /\ k < z
        /\ z >= z
    <2>1. /\ Len(p) \in Nat /\ DOMAIN p = 1 .. Len(p)
          /\ DOMAIN Append(p, now) = 1 .. Len(p) + 1
          /\ \A k \in DOMAIN p : Append(p, now)[k] = p[k]
          /\ Append(p, now)[Len(p) + 1] = now
      BY <1>2, AppendFacts
    <2>2. /\ 1 .. Len(p) + 1 = 1 .. Len(p) \cup {z} /\ z \notin 1 .. Len(p) /\ z >= z
          /\ \A k \in 1 .. Len(p) : k < z
      BY <1>3, <2>1
    <2>3. q = Append(p, now)
      BY <1>0, Zenon
    <2> QED
      BY <1>3, <2>1, <2>2, <2>3, Zenon
  <1>5. /\ now >= clock - MaxWait
        /\ \A j \in DOMAIN admitted : now >= admitted[j].at - MaxWait
    <2>1. \A j \in DOMAIN admitted : admitted[j].at \in Int /\ admitted[j].at <= clock
      <3>1. admitted \in Seq(Admissions)
        BY Zenon DEF TypeOK
      <3> QED
        BY <3>1, AdmittedFacts, Zenon DEF AdmissionSound
    <2> QED
      BY <1>2, <2>1, Constants
  <1> DEFINE g == [k \in DOMAIN q |-> IF k = z THEN n ELSE h[k]]
  <1>6. g[z] = n /\ \A k \in DOMAIN p : g[k] = h[k] /\ h[k] \in DOMAIN admitted
    BY <1>4, Zenon DEF Stands
  <1>7. g \in [DOMAIN q -> DOMAIN admitted']
    BY <1>1, <1>4, <1>6, Zenon
  <1> HIDE DEF g
  <1>8. Distinct(q, g)
    <2> SUFFICES ASSUME NEW k \in DOMAIN q, NEW l \in DOMAIN q, g[k] = g[l] PROVE k = l
      BY Zenon DEF Distinct
    <2>1. CASE k \in DOMAIN p /\ l \in DOMAIN p
      BY <1>6, <2>1, Zenon DEF Stands, Distinct
    <2> QED
      BY <1>1, <1>4, <1>6, <2>1, Zenon
  <1>9. ASSUME NEW k \in DOMAIN q
        PROVE  \/ admitted'[g[k]].event = 0
               \/ /\ q[k] <= admitted'[g[k]].at
                  /\ admitted'[g[k]].dated > floor' \/ admitted'[g[k]].epoch = crashes'
    <2>1. CASE k = z
      BY <1>1, <1>2, <1>4, <1>6, <2>1, Zenon
    <2>2. CASE k \in DOMAIN p
      <3>1. /\ g[k] = h[k] /\ q[k] = p[k] /\ admitted'[g[k]] = admitted[h[k]]
        BY <1>1, <1>4, <1>6, <2>2, Zenon
      <3>2. \/ admitted[h[k]].event = 0
            \/ /\ p[k] <= admitted[h[k]].at
               /\ admitted[h[k]].dated > floor \/ admitted[h[k]].epoch = crashes
        BY <2>2, Zenon DEF Stands, ForAdmission, Logged
      <3> QED
        BY <1>2, <3>1, <3>2, Zenon
    <2> QED
      BY <1>4, <2>1, <2>2, Zenon
  <1>10. ASSUME NEW j \in DOMAIN admitted', Counted(j)'
         PROVE  \E k \in DOMAIN q :
                   /\ g[k] = j
                   /\ \A l \in DOMAIN q : l >= k => q[l] >= admitted'[j].at - MaxWait
    <2>1. CASE j = n
      <3>1. \A l \in DOMAIN q : l >= z => l = z
        <4>1. Len(p) \in Nat /\ DOMAIN p = 1 .. Len(p)
          BY SeqFacts, Zenon
        <4>2. \A l \in DOMAIN p : ~ (l >= z)
          BY <1>3, <4>1
        <4> QED
          BY <1>4, <4>2, Zenon
      <3>2. g[z] = j /\ z \in DOMAIN q /\ q[z] >= admitted'[j].at - MaxWait
        BY <1>1, <1>2, <1>4, <1>5, <1>6, <2>1, Zenon
      <3> QED
        BY <3>1, <3>2, Zenon
    <2>2. CASE j \in DOMAIN admitted
      <3>1. Counted(j)
        BY <1>1, <1>2, <1>10, <2>2, Zenon DEF Counted, Kept, Logged
      <3>2. PICK k \in DOMAIN p :
               /\ h[k] = j
               /\ \A l \in DOMAIN p : l >= k => p[l] >= admitted[j].at - MaxWait
        BY <2>2, <3>1, Zenon DEF Stands, Covers
      <3>3. \A l \in DOMAIN q : l >= k => q[l] >= admitted[j].at - MaxWait
        BY <1>4, <1>5, <2>2, <3>2, Zenon
      <3>4. k \in DOMAIN q /\ g[k] = j /\ admitted'[j] = admitted[j]
        BY <1>1, <1>4, <1>6, <2>2, <3>2, Zenon
      <3> QED
        BY <3>3, <3>4, Zenon
    <2> QED
      BY <1>1, <2>1, <2>2, Zenon
  <1>11. Stands(starts, g)'
    <2>1. q = starts'
      BY <1>0, Zenon
    <2>2. Distinct(starts, g)'
      BY <1>8, <2>1, Zenon DEF Distinct
    <2>3. ForAdmission(starts, g)'
      BY <1>9, <2>1, Zenon DEF ForAdmission, Logged
    <2>4. \A j \in DOMAIN admitted' : Counted(j)' => Covers(starts, g, j)'
      BY <1>10, <2>1, Zenon DEF Covers
    <2> QED
      BY <1>7, <2>1, <2>2, <2>3, <2>4, Zenon DEF Stands
  <1> QED
    BY <1>0, <1>7, <1>11, Zenon

-----------------------------------------------------------------------------
(* The limits.                                                             *)

\* The charges an unforced admission meets, in the hour and in the day.
LEMMA NotRefused ==
    ASSUME NEW now, ~Refused(now, FALSE), NEW p, p = PruneStarts(starts, now, Day)
    PROVE  /\ ~ (CountSince(p, now - Hour) >= HourLimit)
           /\ DayLimit > 0 => ~ (Len(p) >= DayLimit)
  BY Zenon DEF Refused

\* The j-th admission has a charge from which on none is older than the cutoff.
HasCharge(s, g, j, cutoff) ==
    \E k \in DOMAIN s : g[k] = j /\ \A l \in DOMAIN s : l >= k => s[l] >= cutoff

\* Admissions whose charges the count passes are no more than it counts.
LEMMA FewInHour ==
    ASSUME NEW p \in Seq(0 .. MaxTime), NEW cutoff \in Int, NEW h, NEW J,
           \A j \in J : HasCharge(p, h, j, cutoff)
    PROVE  /\ Cardinality(J) \in Nat /\ CountSince(p, cutoff) \in Int
           /\ Cardinality(J) <= CountSince(p, cutoff) /\ Cardinality(J) <= Len(p)
  <1> DEFINE Passed(k) == \A l \in DOMAIN p : l >= k => p[l] >= cutoff
             f == [j \in J |-> CHOOSE k \in DOMAIN p : h[k] = j /\ Passed(k)]
  <1>0. Len(p) \in Nat /\ DOMAIN p = 1 .. Len(p)
    BY SeqFacts, Zenon
  <1>1. PICK b \in 0 .. Len(p) :
           CountSince(p, cutoff) = Len(p) - b /\ \A k \in DOMAIN p : Passed(k) => k > b
    BY TimesAreNumbers, CountFacts, Zenon
  <1> HIDE DEF Passed
  <1>2. \A j \in J : f[j] \in DOMAIN p /\ h[f[j]] = j /\ Passed(f[j])
    <2> SUFFICES ASSUME NEW j \in J PROVE f[j] \in DOMAIN p /\ h[f[j]] = j /\ Passed(f[j])
      OBVIOUS
    <2>1. \E k \in DOMAIN p : h[k] = j /\ Passed(k)
      BY Zenon DEF Passed, HasCharge
    <2> QED
      BY <2>1, Zenon
  <1>3. f = [j \in J |-> f[j]]
    OBVIOUS
  <1> HIDE DEF f
  <1>4. \A j \in J : f[j] \in b + 1 .. Len(p)
    <2> SUFFICES ASSUME NEW j \in J PROVE f[j] \in b + 1 .. Len(p)
      OBVIOUS
    <2>1. f[j] \in 1 .. Len(p) /\ f[j] > b
      BY <1>0, <1>1, <1>2, Zenon
    <2> QED
      BY <1>0, <1>1, <2>1
  <1>5. f \in [J -> b + 1 .. Len(p)]
    BY <1>3, <1>4, Zenon
  <1>6. \A x, y \in J : f[x] = f[y] => x = y
    BY <1>2, Zenon
  <1>7. b \in Nat /\ Len(p) \in Nat /\ b <= Len(p)
    BY <1>0, <1>1
  <1>8. Cardinality(J) \in Nat /\ Cardinality(J) <= Len(p) - b
    BY <1>5, <1>6, <1>7, FitsInterval, Zenon
  <1>9. CountSince(p, cutoff) = Len(p) - b
    BY <1>1, Zenon
  <1> QED
    BY <1>7, <1>8, <1>9

\* What a restart cannot forget, of the admissions before the i-th.
Remembered(i, window) == {j \in Earlier(i, window) : Kept(j)}

\* An admission within the limits leaves them kept.
LEMMA AdmitWithinLimits ==
    ASSUME TypeOK, ClockSound, NEW c, NEW e, Admits(c, e), NEW n, n = Len(admitted) + 1,
           NEW p \in Seq(0 .. MaxTime), p = PruneStarts(starts, seen[c], Day),
           NEW h, Stands(p, h), ~Refused(seen[c], FALSE)
    PROVE  /\ Cardinality(Remembered(n, Hour - MaxWait)') < HourLimit
           /\ DayLimit > 0 => Cardinality(Remembered(n, Day - MaxWait)') < DayLimit
  <1>0. PICK now : now = seen[c]
    BY Zenon
  <1>1. /\ n \in Nat /\ DOMAIN admitted = 1 .. n - 1
        /\ \A a \in DOMAIN admitted : admitted'[a] = admitted[a]
        /\ admitted'[n] = e /\ admitted \in Seq(Admissions)
    BY AdmissionFields, Zenon DEF TypeOK
  <1>2. /\ clock \in Int /\ now \in Int /\ now <= clock /\ e.at = clock /\ e.floor = floor
    BY <1>0, AdmitTimes, Zenon DEF Admits
  <1>3. ASSUME NEW window \in Int, window <= Day, NEW cutoff \in Int, cutoff <= clock - window,
               NEW J, J = Remembered(n, window - MaxWait)'
        PROVE  /\ Cardinality(J) \in Nat /\ CountSince(p, cutoff) \in Int
               /\ Cardinality(J) <= CountSince(p, cutoff) /\ Cardinality(J) <= Len(p)
    <2>1. ASSUME NEW j \in J PROVE HasCharge(p, h, j, cutoff)
      <3>1. /\ j \in 1 .. n - 1 /\ admitted'[j].at > admitted'[n].at - (window - MaxWait)
            /\ admitted'[j].dated > admitted'[n].floor /\ Kept(j)'
        BY <1>3, <2>1, Zenon DEF Remembered, Earlier
      <3>2. /\ j \in DOMAIN admitted /\ admitted[j].at > clock - (window - MaxWait)
            /\ admitted[j].dated > floor /\ Kept(j) /\ admitted[j].at \in Int
        BY <1>1, <1>2, <3>1, AdmittedFacts, Zenon DEF Kept, Logged
      <3>3. admitted[j].at - MaxWait > clock - Day /\ admitted[j].at - MaxWait >= cutoff
        BY <1>2, <1>3, <3>2, Constants, WithinWindow, Zenon
      <3>4. PICK k \in DOMAIN p :
               h[k] = j /\ \A l \in DOMAIN p : l >= k => p[l] >= admitted[j].at - MaxWait
        BY <3>2, <3>3, Zenon DEF Stands, Counted, Covers
      <3>5. ASSUME NEW l \in DOMAIN p, l >= k PROVE p[l] >= cutoff
        <4>1. p[l] \in Int /\ p[l] >= admitted[j].at - MaxWait
          BY <3>4, <3>5, StartsFacts, Zenon
        <4>2. MaxWait \in Int
          BY Constants
        <4> QED
          BY <1>3, <3>2, <3>3, <4>1, <4>2
      <3> QED
        BY <3>4, <3>5, Zenon DEF HasCharge
    <2> QED
      BY <1>3, <2>1, FewInHour, Zenon
  <1>4. /\ ~ (CountSince(p, now - Hour) >= HourLimit)
        /\ DayLimit > 0 => ~ (Len(p) >= DayLimit)
    BY <1>0, NotRefused, Zenon
  <1>5. Cardinality(Remembered(n, Hour - MaxWait)') < HourLimit
    <2>1. Hour \in Int /\ Hour <= Day /\ now - Hour \in Int /\ now - Hour <= clock - Hour
      BY <1>2, Constants
    <2>2. PICK J : J = Remembered(n, Hour - MaxWait)'
      BY Zenon
    <2>3. /\ Cardinality(J) \in Nat /\ CountSince(p, now - Hour) \in Int
          /\ Cardinality(J) <= CountSince(p, now - Hour)
      BY <1>3, <2>1, <2>2, Zenon
    <2>4. Cardinality(J) < HourLimit
      BY <1>4, <2>3, Constants
    <2> QED
      BY <2>2, <2>4, Zenon
  <1>6. ASSUME DayLimit > 0 PROVE Cardinality(Remembered(n, Day - MaxWait)') < DayLimit
    <2>1. Day \in Int /\ Day <= Day /\ now - Day \in Int /\ now - Day <= clock - Day
      BY <1>2, Constants
    <2>2. PICK J : J = Remembered(n, Day - MaxWait)'
      BY Zenon
    <2>3. /\ Cardinality(J) \in Nat /\ Cardinality(J) <= Len(p)
      BY <1>3, <2>1, <2>2, Zenon
    <2>4. Len(p) \in Nat
      BY SeqFacts, Zenon
    <2>5. Cardinality(J) < DayLimit
      BY <1>4, <1>6, <2>3, <2>4, Constants
    <2> QED
      BY <2>2, <2>5, Zenon
  <1> QED
    BY <1>5, <1>6, Zenon

\* The limits of the admissions made so far are as they were.
LEMMA LimitsKept ==
    ASSUME RollingBudget, Grown, NEW i, i \in Unforced', i \in DOMAIN admitted,
           DOMAIN admitted = 1 .. Len(admitted), Len(admitted) \in Nat
    PROVE  /\ Cardinality(Remembered(i, Hour - MaxWait)') < HourLimit
           /\ DayLimit > 0 => Cardinality(Remembered(i, Day - MaxWait)') < DayLimit
  <1>1. /\ admitted'[i] = admitted[i] /\ \A j \in DOMAIN admitted : admitted'[j] = admitted[j]
    BY Zenon DEF Grown
  <1>2. i \in Unforced
    BY <1>1, Zenon DEF Unforced
  <1>3. \A j \in 1 .. i - 1 : admitted'[j] = admitted[j]
    <2>1. \A j \in 1 .. i - 1 : j \in 1 .. Len(admitted)
      OBVIOUS
    <2> QED
      BY <1>1, <2>1, Zenon
  <1>4. ASSUME NEW w PROVE Remembered(i, w)' = Remembered(i, w)
    BY <1>1, <1>3, Zenon DEF Remembered, Earlier, Kept, Logged
  <1>5. /\ Cardinality(Remembered(i, Hour - MaxWait)) < HourLimit
        /\ DayLimit > 0 => Cardinality(Remembered(i, Day - MaxWait)) < DayLimit
    BY <1>2, Zenon DEF RollingBudget, Remembered
  <1> QED
    BY <1>4, <1>5, Zenon

-----------------------------------------------------------------------------
(* A restart.                                                              *)

\* Only one event of an ordinary run charges.
LEMMA OneCharge ==
    ASSUME TypeOK, \A i \in DOMAIN log : EventSound(i),
           NEW i \in DOMAIN log, NEW j \in DOMAIN log, Charges(log, i), Charges(log, j),
           log[i].run = log[j].run, log[i].run \in Run
    PROVE  i = j
  <1>1. log[i].attempt = 0 /\ log[j].attempt = 0
    BY Zenon DEF EventSound
  <1>2. i \in Nat /\ j \in Nat /\ i > 0 /\ j > 0
    BY LogFacts, Zenon DEF TypeOK
  <1>3. i \notin 1 .. j - 1 /\ j \notin 1 .. i - 1
    BY <1>1, Zenon DEF Charges
  <1> QED
    BY <1>2, <1>3

\* A charging event has its admission, or one of the same run whose event was lost.
LEMMA ChargeOwned ==
    ASSUME TypeOK, \A i \in DOMAIN log : EventSound(i),
           NEW i \in DOMAIN log, Charges(log, i), ~\E a \in DOMAIN admitted : admitted[a].event = i
    PROVE  \E a \in DOMAIN admitted :
              admitted[a].run = log[i].run /\ log[i].run \in Run /\ ~Logged(a)
  <1>1. Caused(i)
    BY Zenon DEF EventSound
  <1>2. ASSUME log[i].run \in Child, log[i].attempt = 0, NEW j \in DOMAIN log,
               log[j].run = log[i].run, log[j].attempt > 0
        PROVE  FALSE
    <2>1. ~ (log[i].attempt > 0)
      BY <1>2
    <2> QED
      BY <1>2, <2>1, Zenon DEF Charges, IsChild
  <1>3. ASSUME log[i].run \in Run, NEW j \in DOMAIN log, j < i, log[j].run = log[i].run
        PROVE  FALSE
    <2>1. log[j].attempt = log[i].attempt
      BY <1>3, Zenon DEF EventSound
    <2>2. i \in Nat /\ j \in Nat /\ j > 0
      BY LogFacts, Zenon DEF TypeOK
    <2>3. j \in 1 .. i - 1
      BY <1>3, <2>2
    <2> QED
      BY <1>3, <2>1, <2>3, Zenon DEF Charges
  <1> QED
    BY <1>1, <1>2, <1>3, Zenon DEF Caused

\* The event of an admission that is kept charges.
LEMMA KeptCharges ==
    ASSUME TypeOK, \A a \in DOMAIN log : EventSound(a),
           NEW j \in DOMAIN admitted, AdmissionSound(j), Kept(j), NEW e, e = admitted[j].event
    PROVE  e \in DOMAIN log /\ Charges(log, e)
  <1>1. OwnEvent(j) /\ e \in DOMAIN log
    BY Zenon DEF AdmissionSound, Kept, OwnEvent
  <1>2. /\ log[e].run = admitted[j].run /\ log[e].run \in Runs /\ e \in Nat /\ e > 0
        /\ DOMAIN log = 1 .. Len(log) /\ Len(log) \in Nat
    BY <1>1, LogFacts, Zenon DEF TypeOK, OwnEvent
  <1>3. \A i \in 1 .. e - 1 : i \in DOMAIN log /\ i < e /\ i # e /\ e # 0
    BY <1>1, <1>2
  <1>4. CASE log[e].run \in Child
    <2>1. log[e].attempt = e
      BY <1>1, <1>2, <1>4, Zenon DEF OwnEvent
    <2>2. \A i \in 1 .. e - 1 : log[i].attempt # log[e].attempt
      BY <1>3, <2>1, Zenon DEF EventSound
    <2> QED
      BY <1>1, <1>2, <2>1, <2>2, Zenon DEF Charges
  <1>5. CASE log[e].run \in Run
    <2>1. ~IsChild(log[e].run, log)
      <3>1. ~ (0 > 0)
        OBVIOUS
      <3>2. \A i \in DOMAIN log : log[i].run = log[e].run => log[i].attempt = 0
        BY <1>5, Zenon DEF EventSound
      <3> QED
        BY <3>1, <3>2, Zenon DEF IsChild
    <2>2. \A i \in 1 .. e - 1 : log[i].run # log[e].run
      BY <1>1, <1>2, <1>3, <1>5, Zenon DEF OwnEvent
    <2> QED
      BY <1>1, <2>1, <2>2, Zenon DEF Charges
  <1> QED
    BY <1>2, <1>4, <1>5, Zenon DEF Runs

\* The cutoff of the reconstruction is the later of the day's and the operator's.
LEMMA LaterOf ==
    ASSUME NEW x \in Int, NEW y \in Int
    PROVE  Max({x, y}) \in {x, y} /\ x <= Max({x, y}) /\ y <= Max({x, y})
  <1>1. {x, y} \in SUBSET Int
    OBVIOUS
  <1>2. CASE x <= y
    <2>1. y \in {x, y} /\ \A z \in {x, y} : z <= y
      BY <1>2
    <2>2. Max({x, y}) = y
      BY <1>1, <2>1, MaxIs, Zenon
    <2> QED
      BY <2>1, <2>2, Zenon
  <1>3. CASE ~ (x <= y)
    <2>1. x \in {x, y} /\ \A z \in {x, y} : z <= x
      BY <1>3
    <2>2. Max({x, y}) = x
      BY <1>1, <2>1, MaxIs, Zenon
    <2> QED
      BY <2>1, <2>2, Zenon
  <1> QED
    BY <1>2, <1>3, Zenon

\* The window a restart rebuilds stands for the admissions after the marker.
LEMMA StandsRebuilt ==
    ASSUME TypeOK, \A a \in DOMAIN admitted : AdmissionSound(a),
           \A i \in DOMAIN log : EventSound(i), Restart
    PROVE  /\ starts' \in Seq(0 .. MaxTime)
           /\ \E g \in [DOMAIN starts' -> DOMAIN admitted'] : Stands(starts, g)'
  <1>0. /\ clock \in Int /\ marker \in Int /\ clock - Day \in Int
        /\ log \in Seq(Events) /\ admitted \in Seq(Admissions)
    <2>1. clock \in Int /\ marker \in Int /\ log \in Seq(Events) /\ admitted \in Seq(Admissions)
      BY TimesAreNumbers, Zenon DEF TypeOK
    <2>2. clock - Day \in Int
      BY <2>1, Constants
    <2> QED
      BY <2>1, <2>2, Zenon
  <1>1. PICK cutoff, K, q : /\ cutoff = Max({clock - Day, marker})
                            /\ K = Charging(log, cutoff) /\ q = starts'
    OBVIOUS
  <1>2. cutoff \in Int /\ clock - Day <= cutoff /\ marker <= cutoff
            /\ (cutoff = clock - Day \/ cutoff = marker)
    BY <1>0, <1>1, LaterOf, Zenon
  <1>3. /\ q \in Seq(0 .. MaxTime)
        /\ \A k \in DOMAIN q : Nth(K, k) \in K /\ q[k] = log[Nth(K, k)].at
        /\ \A k, l \in DOMAIN q : Nth(K, k) = Nth(K, l) => k = l
        /\ \A k, l \in DOMAIN q : k <= l => Nth(K, k) <= Nth(K, l)
        /\ \A i \in K : \E k \in DOMAIN q : Nth(K, k) = i
    <2>1. q = ReconstructBudgetStarts(log, cutoff)
      BY <1>1, Zenon DEF Restart
    <2>2. log \in Seq(Events) /\ cutoff \in Int /\ K = Charging(log, cutoff)
      BY <1>0, <1>1, <1>2, Zenon
    <2>3. Lists(ReconstructBudgetStarts(log, cutoff), log, Charging(log, cutoff))
      BY <2>2, RebuiltFacts, Zenon
    <2>4. Lists(q, log, K)
      BY <2>1, <2>2, <2>3, Zenon
    <2> QED
      BY <2>4, Zenon DEF Lists
  <1>4. /\ clock' = clock /\ floor' = marker /\ admitted' = admitted
    BY Zenon DEF Restart
  <1>5. \A i \in K : /\ i \in DOMAIN log /\ Charges(log, i) /\ log[i].at > cutoff
                     /\ i # 0 /\ i \in Nat /\ log[i].at \in Int
    <2>1. \A i \in DOMAIN log : i # 0 /\ i \in Nat /\ log[i].at \in Int
      <3>1. \A i \in DOMAIN log : i > 0 /\ i \in Nat /\ log[i].at \in Int
        BY <1>0, LogFacts, Zenon
      <3> QED
        BY <3>1
    <2> QED
      BY <1>1, <2>1, Zenon DEF Charging
  <1> DEFINE Own(i, a) == admitted[a].event = i
             Echoed(i, a) == admitted[a].run = log[i].run /\ log[i].run \in Run /\ ~Logged(a)
             Of(i) == IF \E a \in DOMAIN admitted : Own(i, a)
                      THEN CHOOSE a \in DOMAIN admitted : Own(i, a)
                      ELSE CHOOSE a \in DOMAIN admitted : Echoed(i, a)
  <1>6. ASSUME NEW i \in K
        PROVE  /\ Of(i) \in DOMAIN admitted
               /\ Own(i, Of(i)) \/ Echoed(i, Of(i))
               /\ \A a \in DOMAIN admitted : Own(i, a) => Of(i) = a
    <2>1. CASE \E a \in DOMAIN admitted : Own(i, a)
      <3>1. Of(i) \in DOMAIN admitted /\ Own(i, Of(i))
        BY <2>1, Zenon
      <3>2. ASSUME NEW a \in DOMAIN admitted, Own(i, a) PROVE Of(i) = a
        <4>1. i # 0
          BY <1>5, Zenon
        <4>2. Logged(a) /\ OwnEvent(a)
          BY <3>2, <4>1, Zenon DEF Logged, AdmissionSound
        <4> HIDE DEF Of
        <4> QED
          BY <3>1, <3>2, <4>2, Zenon DEF OwnEvent
      <3> QED
        BY <3>1, <3>2, Zenon
    <2>2. CASE ~\E a \in DOMAIN admitted : Own(i, a)
      <3>1. \E a \in DOMAIN admitted : Echoed(i, a)
        BY <1>5, <2>2, ChargeOwned, Zenon
      <3> QED
        BY <2>2, <3>1, Zenon
    <2> QED
      BY <2>1, <2>2, Zenon
  <1>7. PICK o : o = [i \in K |-> Of(i)]
    BY Zenon
  <1>8. \A i \in K : /\ o[i] \in DOMAIN admitted
                     /\ Own(i, o[i]) \/ Echoed(i, o[i])
                     /\ \A a \in DOMAIN admitted : Own(i, a) => o[i] = a
    <2> HIDE DEF Of, Own, Echoed
    <2> QED
      BY <1>6, <1>7, Zenon
  <1> HIDE DEF Of
  <1>9. ASSUME NEW i \in K, NEW j \in K, o[i] = o[j] PROVE i = j
    <2>1. i # 0 /\ j # 0
      BY <1>5, Zenon
    <2>2. CASE Own(i, o[i])
      BY <1>8, <1>9, <2>1, <2>2, Zenon DEF Logged
    <2>3. CASE Own(j, o[j])
      BY <1>8, <1>9, <2>1, <2>3, Zenon DEF Logged
    <2>4. CASE Echoed(i, o[i]) /\ Echoed(j, o[j])
      <3>1. log[i].run = log[j].run /\ log[i].run \in Run
        BY <1>9, <2>4, Zenon
      <3> QED
        BY <1>5, <3>1, OneCharge, Zenon
    <2> QED
      BY <1>8, <2>2, <2>3, <2>4, Zenon
  <1> DEFINE g == [k \in DOMAIN q |-> o[Nth(K, k)]]
  <1>10. g \in [DOMAIN q -> DOMAIN admitted] /\ \A k \in DOMAIN q : g[k] = o[Nth(K, k)]
    BY <1>3, <1>8, Zenon
  <1> HIDE DEF g
  <1>11. Distinct(q, g)
    <2> SUFFICES ASSUME NEW k \in DOMAIN q, NEW l \in DOMAIN q, g[k] = g[l] PROVE k = l
      BY Zenon DEF Distinct
    <2>1. Nth(K, k) \in K /\ Nth(K, l) \in K /\ o[Nth(K, k)] = o[Nth(K, l)]
      BY <1>3, <1>10, Zenon
    <2>2. Nth(K, k) = Nth(K, l)
      BY <1>9, <2>1, Zenon
    <2> QED
      BY <1>3, <2>2, Zenon
  <1>12. ASSUME NEW k \in DOMAIN q
         PROVE  \/ admitted[g[k]].event = 0
                \/ q[k] <= admitted[g[k]].at /\ admitted[g[k]].dated > marker
    <2>1. PICK i \in K, a \in DOMAIN admitted : i = Nth(K, k) /\ a = g[k] /\ a = o[i]
      BY <1>3, <1>8, <1>10, Zenon
    <2>2. CASE Own(i, a)
      <3>1. Logged(a) /\ OwnEvent(a) /\ AdmissionSound(a)
        BY <1>5, <2>2, Zenon DEF Logged, AdmissionSound
      <3>2. /\ log[i].at = admitted[a].dated /\ admitted[a].dated <= admitted[a].at
        BY <2>2, <3>1, Zenon DEF OwnEvent, AdmissionSound
      <3>3. q[k] = log[i].at
        BY <1>3, <2>1, Zenon
      <3>4. log[i].at > marker
        <4>1. log[i].at > cutoff /\ log[i].at \in Int
          BY <1>5, Zenon
        <4> QED
          BY <1>0, <1>2, <4>1
      <3> QED
        BY <2>1, <3>2, <3>3, <3>4, Zenon
    <2>3. CASE Echoed(i, a)
      BY <2>1, <2>3, Zenon DEF Logged
    <2>4. Own(i, a) \/ Echoed(i, a)
      <3> HIDE DEF Own, Echoed
      <3> QED
        BY <1>8, <2>1, Zenon
    <2> QED
      BY <2>2, <2>3, <2>4, Zenon
  <1>13. ASSUME NEW j \in DOMAIN admitted, Kept(j), admitted[j].dated > marker,
                admitted[j].at - MaxWait > clock - Day
         PROVE  \E k \in DOMAIN q :
                   /\ g[k] = j
                   /\ \A l \in DOMAIN q : l >= k => q[l] >= admitted[j].at - MaxWait
    <2>1. PICK e : e = admitted[j].event
      BY Zenon
    <2>2. e \in DOMAIN log /\ Charges(log, e)
      BY <1>13, <2>1, KeptCharges, Zenon
    <2>3. /\ log[e].at = admitted[j].dated
          /\ \A i \in DOMAIN log : i >= e => log[i].at >= admitted[j].at - MaxWait
          /\ admitted[j].dated <= admitted[j].at /\ admitted[j].at - admitted[j].dated <= MaxWait
          /\ admitted[j].dated \in Int /\ admitted[j].at \in Int
      BY <1>0, <1>13, <2>1, AdmittedFacts, Zenon DEF AdmissionSound, Kept, OwnEvent
    <2>4. e \in K
      <3>1. admitted[j].dated > clock - Day
        BY <1>0, <1>13, <2>3, Constants
      <3>2. log[e].at > cutoff
        BY <1>2, <1>13, <2>3, <3>1, Zenon
      <3> QED
        BY <1>1, <2>2, <3>2, Zenon DEF Charging
    <2>5. PICK k \in DOMAIN q : Nth(K, k) = e
      BY <1>3, <2>4, Zenon
    <2>6. g[k] = j
      <3>1. o[e] = j
        BY <1>8, <2>1, <2>4, Zenon
      <3> QED
        BY <1>10, <2>5, <3>1, Zenon
    <2>7. ASSUME NEW l \in DOMAIN q, l >= k PROVE q[l] >= admitted[j].at - MaxWait
      <3>1. k <= l
        <4>1. \A z \in DOMAIN q : z \in Nat
          BY <1>3, StartsFacts, Zenon
        <4> QED
          BY <2>7, <4>1
      <3>2. Nth(K, k) <= Nth(K, l) /\ Nth(K, l) \in K /\ q[l] = log[Nth(K, l)].at
        BY <1>3, <3>1, Zenon
      <3>3. Nth(K, l) \in DOMAIN log /\ Nth(K, l) \in Nat /\ e \in Nat
        BY <1>5, <2>4, <3>2, Zenon
      <3>4. Nth(K, l) >= e
        BY <2>5, <3>2, <3>3
      <3> QED
        BY <2>3, <3>2, <3>3, <3>4, Zenon
    <2> QED
      BY <2>6, <2>7, Zenon
  <1>14. Stands(starts, g)'
    <2>1. Distinct(starts, g)'
      BY <1>1, <1>11, Zenon DEF Distinct
    <2>2. ForAdmission(starts, g)'
      BY <1>1, <1>4, <1>12, Zenon DEF ForAdmission, Logged
    <2>3. ASSUME NEW j \in DOMAIN admitted', Counted(j)' PROVE Covers(starts, g, j)'
      <3>1. /\ j \in DOMAIN admitted /\ Kept(j) /\ admitted[j].dated > marker
            /\ admitted[j].at - MaxWait > clock - Day
        BY <1>4, <2>3, Zenon DEF Counted, Kept, Logged
      <3> QED
        BY <1>1, <1>4, <1>13, <3>1, Zenon DEF Covers
    <2> QED
      BY <1>1, <1>4, <1>10, <2>1, <2>2, <2>3, Zenon DEF Stands
  <1> QED
    BY <1>1, <1>3, <1>4, <1>10, <1>14, Zenon

-----------------------------------------------------------------------------
(* The steps.                                                              *)

\* A step keeps the invariant when what it adds to the log, to the admissions, to
\* the runs and to the charges is sound.
LEMMA StepKeeps ==
    ASSUME BudgetInv, TypeOK', ClockSound', Grown, StartsSound',
           \A a \in DOMAIN admitted' : a \notin DOMAIN admitted => AdmissionSound(a)',
           \A i \in DOMAIN log' : i \notin DOMAIN log => EventSound(i)',
           \A r \in Runs : (run'[r] # "new" => run[r] # "new") \/ RunSound(r)',
           \A i \in Unforced' : i \notin DOMAIN admitted =>
               /\ Cardinality(Remembered(i, Hour - MaxWait)') < HourLimit
               /\ DayLimit > 0 => Cardinality(Remembered(i, Day - MaxWait)') < DayLimit
    PROVE  BudgetInv'
  <1>1. /\ \A a \in DOMAIN admitted : AdmissionSound(a)'
        /\ \A i \in DOMAIN log : EventSound(i)'
        /\ \A r \in Runs : (run'[r] # "new" => run[r] # "new") => RunSound(r)'
    BY GrownKeeps, Zenon DEF BudgetInv
  <1>2. RollingBudget'
    <2>1. DOMAIN admitted = 1 .. Len(admitted) /\ Len(admitted) \in Nat
      BY AdmittedFacts, Zenon DEF BudgetInv, TypeOK
    <2>2. \A i \in Unforced' :
             /\ Cardinality(Remembered(i, Hour - MaxWait)') < HourLimit
             /\ DayLimit > 0 => Cardinality(Remembered(i, Day - MaxWait)') < DayLimit
      BY <2>1, LimitsKept, Zenon DEF BudgetInv
    <2> QED
      BY <2>2, Zenon DEF RollingBudget, Remembered
  <1>3. (\A a \in DOMAIN admitted : AdmissionSound(a))'
    BY <1>1, Zenon
  <1>4. (\A i \in DOMAIN log : EventSound(i))'
    BY <1>1, Zenon
  <1>5. (\A r \in Runs : RunSound(r))'
    BY <1>1, Zenon
  <1> QED
    BY <1>2, <1>3, <1>4, <1>5, Zenon DEF BudgetInv

\* So does a step that leaves the log, the admissions and the charges alone.
LEMMA QuietKeeps ==
    ASSUME BudgetInv, TypeOK', ClockSound', clock <= clock',
           UNCHANGED <<starts, log, floor, admitted, crashes>>,
           \A r \in Runs : run'[r] # "new" => run[r] # "new"
    PROVE  BudgetInv'
  <1>1. /\ starts' = starts /\ log' = log /\ floor' = floor /\ admitted' = admitted
        /\ crashes' = crashes
    OBVIOUS
  <1>2. Grown
    BY <1>1, Zenon DEF Grown
  <1>3. StartsSound'
    <2>1. PICK g \in [DOMAIN starts -> DOMAIN admitted] : Stands(starts, g)
      BY Zenon DEF BudgetInv, StartsSound
    <2>2. PICK s : s = starts
      BY Zenon
    <2>3. Stands(s, g)'
      BY <2>1, <2>2, StandsLater, Zenon DEF BudgetInv
    <2>4. Stands(starts, g)'
      BY <1>1, <2>2, <2>3, Zenon
    <2> QED
      BY <1>1, <2>1, <2>4, Zenon DEF StartsSound
  <1>4. \A i \in Unforced' : i \in DOMAIN admitted
    BY <1>1, Zenon DEF Unforced
  <1> QED
    BY <1>1, <1>2, <1>3, <1>4, StepKeeps, Zenon

\* A caller that is done holds no time.
LEMMA CallerDone ==
    ASSUME TypeOK, ClockSound, NEW c \in Caller, seen' = [seen EXCEPT ![c] = NoTime], clock' = clock
    PROVE  seen' \in [Caller -> Times] /\ ClockSound'
  <1>1. NoTime \in Times
    BY Zenon DEF Times
  <1>2. /\ seen' \in [Caller -> Times] /\ seen'[c] = NoTime
        /\ \A d \in Caller : d # c => seen'[d] = seen[d]
    BY <1>1, Zenon DEF TypeOK
  <1>3. \A d \in Caller : seen'[d] # NoTime => seen'[d] <= clock' /\ clock' - seen'[d] <= MaxWait
    BY <1>2, Zenon DEF ClockSound
  <1> QED
    BY <1>2, <1>3, Zenon DEF ClockSound

\* The window a caller pruned.
LEMMA Pruned ==
    ASSUME TypeOK, ClockSound, StartsSound, NEW c \in Caller, seen[c] # NoTime,
           NEW p, p = PruneStarts(starts, seen[c], Day)
    PROVE  p \in Seq(0 .. MaxTime) /\ \E h : Stands(p, h)
  <1>1. seen[c] \in Int /\ seen[c] <= clock /\ Day \in Int
    <2>1. Day \in Int
      BY Constants
    <2> QED
      BY <2>1, TimesAreNumbers, Zenon DEF TypeOK, ClockSound
  <1>2. p \in Seq(0 .. MaxTime)
    <2>1. starts \in Seq(0 .. MaxTime) /\ 0 .. MaxTime \in SUBSET Int
      BY TimesAreNumbers, Zenon DEF TypeOK
    <2> QED
      BY <1>1, <2>1, PruneFacts, Zenon
  <1>3. PICK g : Stands(starts, g)
    BY Zenon DEF StartsSound
  <1> QED
    BY <1>1, <1>2, <1>3, StandsPruned, Zenon

\* An admission keeps the invariant, if it only launches the run it admits.
LEMMA AdmitKeeps ==
    ASSUME BudgetInv, NEW c, NEW e, Admits(c, e), lost' \in 0 .. MaxLost,
           run' \in [Runs -> {"new", "launched", "unstarted", "published"}],
           \A r \in Runs : \/ run'[r] # "new" => run[r] # "new"
                           \/ r = e.run /\ (r \in Child => e.event # 0)
    PROVE  BudgetInv'
  <1>0. /\ TypeOK /\ ClockSound /\ StartsSound /\ c \in Caller /\ seen[c] # NoTime
        /\ \A a \in DOMAIN admitted : AdmissionSound(a)
    BY Zenon DEF BudgetInv, Admits
  <1>1. PICK n, m, p : /\ n = Len(admitted) + 1 /\ m = Len(log) + 1
                       /\ p = PruneStarts(starts, seen[c], Day)
    OBVIOUS
  <1>2. p \in Seq(0 .. MaxTime) /\ \E h : Stands(p, h)
    BY <1>0, <1>1, Pruned, Zenon
  <1>3. PICK h : Stands(p, h)
    BY <1>2, Zenon
  <1>4. Grown
    BY <1>0, AdmitGrows, Zenon
  <1>5. /\ n \in DOMAIN admitted' /\ DOMAIN admitted' = DOMAIN admitted \cup {n}
        /\ admitted' \in Seq(Admissions) /\ admitted'[n] = e
    BY <1>0, <1>1, AdmissionFields, Zenon
  <1>6. starts' = Append(p, seen[c])
    BY <1>1, Zenon DEF Admits, Charged
  <1>7. TypeOK'
    <2>1. starts' \in Seq(0 .. MaxTime)
      <3>1. seen[c] \in 0 .. MaxTime
        BY <1>0, AdmitTimes, Zenon
      <3>2. Append(p, seen[c]) \in Seq(0 .. MaxTime)
        BY <1>2, <3>1, AppendFacts
      <3> QED
        BY <1>6, <3>2, Zenon
    <2>2. log' \in Seq(Events)
      <3>1. CASE e.event = 0
        BY <1>0, <1>1, <3>1, LogPlaces, Zenon
      <3>2. CASE e.event # 0
        BY <1>0, <1>1, <3>2, LoggedFields, Zenon
      <3> QED
        BY <3>1, <3>2, Zenon
    <2>3. seen' \in [Caller -> Times]
      BY <1>0, CallerDone, Zenon DEF Admits
    <2>4. clock' = clock /\ marker' = marker /\ floor' = floor /\ crashes' = crashes
      BY Zenon DEF Admits
    <2> QED
      BY <1>0, <1>5, <2>1, <2>2, <2>3, <2>4, Zenon DEF TypeOK
  <1>8. ClockSound'
    BY <1>0, CallerDone, Zenon DEF Admits
  <1>9. StartsSound'
    BY <1>0, <1>2, <1>3, <1>6, StandsCharged, Zenon DEF StartsSound
  <1>10. AdmissionSound(n)'
    BY <1>0, <1>1, AdmitSound, Zenon
  <1>11. \A a \in DOMAIN admitted' : a \notin DOMAIN admitted => AdmissionSound(a)'
    BY <1>5, <1>10, Zenon
  <1>12. \A i \in DOMAIN log' : i \notin DOMAIN log => EventSound(i)'
    <2>1. CASE e.event = 0
      BY <1>0, <1>1, <2>1, LogPlaces, Zenon
    <2>2. CASE e.event # 0
      <3>1. DOMAIN log' = DOMAIN log \cup {m}
        BY <1>0, <1>1, <2>2, LoggedFields, Zenon
      <3>2. EventSound(m)'
        BY <1>0, <1>1, <2>2, AdmitLogged, Zenon
      <3> QED
        BY <3>1, <3>2, Zenon
    <2> QED
      BY <2>1, <2>2, Zenon
  <1>13. ASSUME NEW r \in Runs, r = e.run, r \in Child => e.event # 0 PROVE RunSound(r)'
    <2>1. r \in Run => \E a \in DOMAIN admitted' : admitted'[a].run = r
      BY <1>5, <1>13, Zenon
    <2>2. ASSUME r \in Child PROVE \E i \in DOMAIN log' : log'[i].run = r /\ log'[i].attempt > 0
      <3>1. e.event # 0 /\ e.run \in Child
        BY <1>13, <2>2, Zenon
      <3>2. m \in DOMAIN log' /\ log'[m].run = r /\ log'[m].attempt = m
        <4>1. /\ DOMAIN log' = DOMAIN log \cup {m} /\ log'[m].run = e.run
              /\ e.run \in Child => log'[m].attempt = m
          BY <1>0, <1>1, <3>1, LoggedFields, Zenon
        <4> QED
          BY <1>13, <3>1, <4>1, Zenon
      <3>3. m > 0
        BY <1>0, <1>1, LogPlaces, Zenon
      <3> QED
        BY <3>2, <3>3, Zenon
    <2> QED
      BY <2>1, <2>2, Zenon DEF RunSound
  <1>14. \A r \in Runs : (run'[r] # "new" => run[r] # "new") \/ RunSound(r)'
    BY <1>13, Zenon
  <1>15. ASSUME NEW i \in Unforced', i \notin DOMAIN admitted
         PROVE  /\ Cardinality(Remembered(i, Hour - MaxWait)') < HourLimit
                /\ DayLimit > 0 => Cardinality(Remembered(i, Day - MaxWait)') < DayLimit
    <2>1. i = n /\ ~admitted'[i].forced
      BY <1>5, <1>15, Zenon DEF Unforced
    <2>2. ~Refused(seen[c], FALSE)
      BY <1>5, <2>1, Zenon DEF Admits
    <2>3. /\ Cardinality(Remembered(n, Hour - MaxWait)') < HourLimit
          /\ DayLimit > 0 => Cardinality(Remembered(n, Day - MaxWait)') < DayLimit
      BY <1>0, <1>1, <1>2, <1>3, <2>2, AdmitWithinLimits, Zenon
    <2> QED
      BY <2>1, <2>3, Zenon
  <1> QED
    BY <1>4, <1>7, <1>8, <1>9, <1>11, <1>12, <1>14, <1>15, StepKeeps, Zenon

\* Reading the clock.
LEMMA ReadClockKeeps ==
    ASSUME BudgetInv, NEW c \in Caller, ReadClock(c)
    PROVE  BudgetInv'
  <1>0. TypeOK /\ ClockSound
    BY Zenon DEF BudgetInv
  <1>1. /\ UNCHANGED <<starts, log, floor, admitted, crashes>>
        /\ clock' = clock /\ marker' = marker /\ run' = run /\ lost' = lost
        /\ starts' = starts /\ log' = log /\ floor' = floor /\ admitted' = admitted
        /\ crashes' = crashes
    BY DEF ReadClock
  <1>2. /\ clock \in Times /\ clock <= clock /\ clock - clock <= MaxWait
    <2>1. clock \in 0 .. MaxTime
      BY <1>0, Zenon DEF TypeOK
    <2> QED
      BY <2>1, Constants DEF Times
  <1>3. /\ seen' \in [Caller -> Times] /\ seen'[c] = clock
        /\ \A d \in Caller : d # c => seen'[d] = seen[d]
    BY <1>0, <1>2, Zenon DEF TypeOK, ReadClock
  <1>4. TypeOK'
    BY <1>0, <1>1, <1>3, Zenon DEF TypeOK
  <1>5. \A d \in Caller : seen'[d] # NoTime => seen'[d] <= clock' /\ clock' - seen'[d] <= MaxWait
    BY <1>0, <1>1, <1>2, <1>3, Zenon DEF ClockSound
  <1>6. ClockSound'
    BY <1>5, Zenon DEF ClockSound
  <1>7. clock <= clock' /\ \A r \in Runs : run'[r] # "new" => run[r] # "new"
    BY <1>1, <1>2, Zenon
  <1> QED
    BY <1>1, <1>4, <1>6, <1>7, QuietKeeps, Zenon

\* A refusal prunes the window, and nothing else.
LEMMA RefuseKeeps ==
    ASSUME BudgetInv, NEW c \in Caller, Refuse(c)
    PROVE  BudgetInv'
  <1>0. TypeOK /\ ClockSound /\ StartsSound /\ seen[c] # NoTime
    BY Zenon DEF BudgetInv, Refuse
  <1>1. /\ clock' = clock /\ marker' = marker /\ run' = run /\ lost' = lost
        /\ log' = log /\ floor' = floor /\ admitted' = admitted /\ crashes' = crashes
        /\ seen' = [seen EXCEPT ![c] = NoTime]
    BY DEF Refuse
  <1>2. seen' \in [Caller -> Times] /\ ClockSound'
    BY <1>0, <1>1, CallerDone, Zenon
  <1>3. PICK p : p = starts' /\ p \in Seq(0 .. MaxTime) /\ \E h : Stands(p, h)
    <2>1. CASE starts' = starts
      BY <1>0, <2>1, Zenon DEF TypeOK, StartsSound
    <2>2. CASE starts' = PruneStarts(starts, seen[c], Day)
      BY <1>0, <2>2, Pruned, Zenon
    <2> QED
      BY <2>1, <2>2, Zenon DEF Refuse
  <1>4. PICK h : Stands(p, h)
    BY <1>3, Zenon
  <1>5. TypeOK'
    BY <1>0, <1>1, <1>2, <1>3, Zenon DEF TypeOK
  <1>6. clock <= clock'
    <2>1. clock \in Int
      BY <1>0, TimesAreNumbers, Zenon DEF TypeOK
    <2> QED
      BY <1>1, <2>1
  <1>7. StartsSound'
    <2>1. Stands(p, h)'
      <3>1. UNCHANGED <<floor, admitted, crashes>>
        BY <1>1
      <3> QED
        BY <1>0, <1>4, <1>5, <1>6, <3>1, StandsLater, Zenon
    <2>2. Stands(starts, h)'
      BY <1>3, <2>1, Zenon
    <2>3. h \in [DOMAIN starts' -> DOMAIN admitted']
      BY <2>2, Zenon DEF Stands
    <2> QED
      BY <2>2, <2>3, Zenon DEF StartsSound
  <1>8. Grown
    BY <1>1, <1>6, Zenon DEF Grown
  <1>9. \A i \in Unforced' : i \in DOMAIN admitted
    BY <1>1, Zenon DEF Unforced
  <1> QED
    BY <1>1, <1>2, <1>5, <1>7, <1>8, <1>9, StepKeeps, Zenon

\* An ordinary run.
LEMMA DispatchKeeps ==
    ASSUME BudgetInv, NEW c \in Caller, NEW r \in Run, NEW forced \in BOOLEAN,
           NEW logged \in BOOLEAN, Dispatch(c, r, forced, logged)
    PROVE  BudgetInv'
  <1>0. TypeOK
    BY Zenon DEF BudgetInv
  <1>1. PICK e : e = Admission(r, clock, forced, logged, TRUE)
    BY Zenon
  <1>2. /\ e.run = r /\ e.at = clock /\ e.dated = clock /\ e.forced = forced
        /\ e.event = (IF logged THEN Len(log) + 1 ELSE 0)
        /\ e.floor = floor /\ e.epoch = crashes
        /\ e.first = ~\E i \in DOMAIN log : log[i].run = r /\ r \in Run
    BY <1>1, Zenon DEF Admission
  <1>3. Len(log) \in Nat
    BY <1>0, LogFacts, Zenon DEF TypeOK
  <1>4. e \in Admissions
    <2>1. r \in Runs /\ clock \in 0 .. MaxTime /\ floor \in Times
      BY <1>0, Zenon DEF TypeOK, Runs
    <2>2. (IF logged THEN Len(log) + 1 ELSE 0) \in Nat /\ crashes \in Nat
      BY <1>0, <1>3, Constants DEF TypeOK
    <2>3. (~\E i \in DOMAIN log : log[i].run = r /\ r \in Run) \in BOOLEAN /\ TRUE \in BOOLEAN
      OBVIOUS
    <2> QED
      BY <1>1, <2>1, <2>2, <2>3, Zenon DEF Admission, Admissions
  <1>5. r \notin Child /\ r \in Runs
    BY Constants, Zenon DEF Runs
  <1>6. logged => e.event # 0
    BY <1>2, <1>3
  <1>7. Admits(c, e)
    <2>1. log' = IF e.event = 0 THEN log
                 ELSE Append(log, Event(e.run, e.dated, IF e.run \in Child THEN Len(log) + 1 ELSE 0))
      BY <1>2, <1>5, <1>6, Zenon DEF Dispatch
    <2>2. e.forced \/ ~Refused(seen[c], FALSE)
      <3>1. CASE forced = TRUE
        BY <1>2, <3>1, Zenon
      <3>2. CASE forced = FALSE
        BY <3>2, Zenon DEF Dispatch
      <3> QED
        BY <3>1, <3>2, Zenon
    <2>3. e.first /\ e.run \in Run => \A i \in DOMAIN log : log[i].run # e.run
      BY <1>2, Zenon
    <2>4. /\ seen[c] # NoTime /\ starts' = Charged(seen[c]) /\ admitted' = Append(admitted, e)
          /\ seen' = [seen EXCEPT ![c] = NoTime]
          /\ UNCHANGED <<clock, marker, floor, crashes>>
      BY <1>1, Zenon DEF Dispatch
    <2>5. e.event \in {0, Len(log) + 1} /\ e.dated \in {clock, seen[c]}
      BY <1>2, Zenon
    <2> QED
      BY <1>2, <1>4, <2>1, <2>2, <2>3, <2>4, <2>5, Zenon DEF Admits
  <1>8. lost' \in 0 .. MaxLost
    <2>1. lost \in 0 .. MaxLost /\ (lost' = lost \/ (lost' = lost + 1 /\ lost < MaxLost))
      BY <1>0, Zenon DEF TypeOK, Dispatch
    <2> QED
      BY <2>1, Constants
  <1>9. /\ run' \in [Runs -> {"new", "launched", "unstarted", "published"}]
        /\ \A s \in Runs : s # r => run'[s] = run[s]
    BY <1>0, <1>5, Zenon DEF TypeOK, Dispatch
  <1>10. \A s \in Runs : \/ run'[s] # "new" => run[s] # "new"
                         \/ s = e.run /\ (s \in Child => e.event # 0)
    BY <1>2, <1>5, <1>9, Zenon
  <1> QED
    BY <1>7, <1>8, <1>9, <1>10, AdmitKeeps, Zenon

\* A generated child, whose slot is given back when its event is lost.
LEMMA ReserveChildKeeps ==
    ASSUME BudgetInv, NEW c \in Caller, NEW r \in Child, NEW logged \in BOOLEAN,
           ReserveChild(c, r, logged)
    PROVE  BudgetInv'
  <1>0. TypeOK /\ ClockSound /\ seen[c] # NoTime
    BY Zenon DEF BudgetInv, ReserveChild
  <1>1. PICK e : e = Admission(r, seen[c], FALSE, logged, logged)
    BY Zenon
  <1>2. /\ e.run = r /\ e.at = clock /\ e.dated = seen[c]
        /\ e.event = (IF logged THEN Len(log) + 1 ELSE 0)
        /\ e.floor = floor /\ e.epoch = crashes
        /\ e.first = ~\E i \in DOMAIN log : log[i].run = r /\ r \in Run
    BY <1>1 DEF Admission
  <1>3. Len(log) \in Nat
    BY <1>0, LogFacts, Zenon DEF TypeOK
  <1>4. e \in Admissions
    <2>1. /\ r \in Runs /\ clock \in 0 .. MaxTime /\ floor \in Times
          /\ seen[c] \in 0 .. MaxTime
      BY <1>0, Zenon DEF TypeOK, Runs, Times
    <2>2. (IF logged THEN Len(log) + 1 ELSE 0) \in Nat /\ crashes \in Nat
      BY <1>0, <1>3, Constants DEF TypeOK
    <2>3. (~\E i \in DOMAIN log : log[i].run = r /\ r \in Run) \in BOOLEAN /\ FALSE \in BOOLEAN
      OBVIOUS
    <2> QED
      BY <1>1, <2>1, <2>2, <2>3, Zenon DEF Admission, Admissions
  <1>5. r \in Runs
    BY Zenon DEF Runs
  <1>6. logged => e.event # 0
    BY <1>2, <1>3
  <1>7. Admits(c, e)
    <2>1. log' = IF e.event = 0 THEN log
                 ELSE Append(log, Event(e.run, e.dated, IF e.run \in Child THEN Len(log) + 1 ELSE 0))
      BY <1>2, <1>6, Zenon DEF ReserveChild
    <2>2. e.first /\ e.run \in Run => \A i \in DOMAIN log : log[i].run # e.run
      BY <1>2, Zenon
    <2>3. /\ ~Refused(seen[c], FALSE)
          /\ starts' = Charged(seen[c]) /\ admitted' = Append(admitted, e)
          /\ seen' = [seen EXCEPT ![c] = NoTime]
          /\ UNCHANGED <<clock, marker, floor, crashes>>
      BY <1>1, Zenon DEF ReserveChild
    <2>4. e.event \in {0, Len(log) + 1} /\ e.dated \in {clock, seen[c]}
      BY <1>2, Zenon
    <2> QED
      BY <1>0, <1>2, <1>4, <2>1, <2>2, <2>3, <2>4, Zenon DEF Admits
  <1>8. lost' \in 0 .. MaxLost
    <2>1. lost \in 0 .. MaxLost /\ (lost' = lost \/ (lost' = lost + 1 /\ lost < MaxLost))
      BY <1>0, Zenon DEF TypeOK, ReserveChild
    <2> QED
      BY <2>1, Constants
  <1>9. /\ run' \in [Runs -> {"new", "launched", "unstarted", "published"}]
        /\ \A s \in Runs : s # r \/ ~logged => run'[s] = run[s]
    BY <1>0, <1>5, Zenon DEF TypeOK, ReserveChild
  <1>10. \A s \in Runs : \/ run'[s] # "new" => run[s] # "new"
                         \/ s = e.run /\ (s \in Child => e.event # 0)
    BY <1>2, <1>6, <1>9, Zenon
  <1> QED
    BY <1>7, <1>8, <1>9, <1>10, AdmitKeeps, Zenon

\* The journal of a run, and its echo in the log.
LEMMA PublishKeeps ==
    ASSUME BudgetInv, NEW r \in Runs, NEW echo \in BOOLEAN, Publish(r, echo)
    PROVE  BudgetInv'
  <1>0. /\ TypeOK /\ ClockSound /\ StartsSound /\ run[r] = "launched"
        /\ log \in Seq(Events) /\ clock \in 0 .. MaxTime
    BY Zenon DEF BudgetInv, Publish, TypeOK
  <1>1. /\ clock' = clock /\ starts' = starts /\ marker' = marker /\ floor' = floor
        /\ seen' = seen /\ admitted' = admitted /\ crashes' = crashes /\ lost' = lost
        /\ UNCHANGED <<floor, admitted, crashes>>
    BY DEF Publish
  <1>2. /\ run' \in [Runs -> {"new", "launched", "unstarted", "published"}]
        /\ \A s \in Runs : run'[s] # "new" => run[s] # "new"
    <2>1. "published" \in {"new", "launched", "unstarted", "published"} /\ run[r] # "new"
      BY <1>0
    <2> QED
      BY <2>1, <1>0, Zenon DEF TypeOK, Publish
  <1>3. clock \in Int /\ clock <= clock' /\ clock >= clock - MaxWait
    BY <1>0, <1>1, Constants
  <1>4. ClockSound'
    BY <1>0, <1>1, Zenon DEF ClockSound
  <1>5. \A i \in Unforced' : i \in DOMAIN admitted
    BY <1>1, Zenon DEF Unforced
  <1>6. ASSUME TypeOK' PROVE StartsSound'
    <2>1. PICK g \in [DOMAIN starts -> DOMAIN admitted] : Stands(starts, g)
      BY <1>0, Zenon DEF StartsSound
    <2>2. PICK s : s = starts
      BY Zenon
    <2>3. Stands(s, g)'
      BY <1>0, <1>1, <1>3, <1>6, <2>1, <2>2, StandsLater, Zenon
    <2>4. Stands(starts, g)'
      BY <1>1, <2>2, <2>3, Zenon
    <2> QED
      BY <1>1, <2>1, <2>4, Zenon DEF StartsSound
  <1>7. CASE log' = log
    <2>1. TypeOK'
      BY <1>0, <1>1, <1>2, <1>7, Zenon DEF TypeOK
    <2>2. Grown
      BY <1>1, <1>3, <1>7, Zenon DEF Grown
    <2> QED
      BY <1>1, <1>2, <1>4, <1>5, <1>6, <1>7, <2>1, <2>2, StepKeeps, Zenon
  <1>8. CASE log' = Append(log, Event(r, clock, 0))
    <2>1. PICK v, m : v = Event(r, clock, 0) /\ m = Len(log) + 1
      OBVIOUS
    <2>2. v \in Events /\ v.run = r /\ v.at = clock /\ v.attempt = 0
      <3>1. v.run = r /\ v.at = clock /\ v.attempt = 0
        BY <2>1 DEF Event
      <3>2. 0 \in Nat
        OBVIOUS
      <3> QED
        BY <1>0, <2>1, <3>1, <3>2, Zenon DEF Event, Events
    <2>3. /\ Append(log, v) \in Seq(Events) /\ Len(log) \in Nat
          /\ DOMAIN log = 1 .. Len(log) /\ DOMAIN Append(log, v) = 1 .. Len(log) + 1
          /\ \A i \in DOMAIN log : Append(log, v)[i] = log[i]
          /\ Append(log, v)[Len(log) + 1] = v
      BY <1>0, <2>2, AppendFacts
    <2>4. /\ 1 .. Len(log) + 1 = 1 .. Len(log) \cup {m} /\ m \notin 1 .. Len(log)
          /\ \A i \in 1 .. Len(log) : i < m
      BY <2>1, <2>3
    <2>5. /\ log' \in Seq(Events) /\ DOMAIN log' = DOMAIN log \cup {m} /\ m \notin DOMAIN log
          /\ \A i \in DOMAIN log : log'[i] = log[i] /\ i < m
          /\ log'[m] = v
      BY <1>8, <2>1, <2>3, <2>4, Zenon
    <2>6. TypeOK'
      BY <1>0, <1>1, <1>2, <2>5, Zenon DEF TypeOK
    <2>7. Grown
      BY <1>1, <1>3, <2>2, <2>5, Zenon DEF Grown
    <2>8. Caused(m)'
      <3>1. CASE r \in Child
        <4>1. PICK j \in DOMAIN log : log[j].run = r /\ log[j].attempt > 0
          <5>1. run[r] # "new"
            BY <1>0
          <5> QED
            BY <3>1, <5>1, Zenon DEF BudgetInv, RunSound
        <4>2. j \in DOMAIN log' /\ log'[j].run = log'[m].run /\ log'[j].attempt > 0
          BY <2>2, <2>5, <4>1, Zenon
        <4> QED
          BY <2>2, <2>5, <3>1, <4>2, Zenon DEF Caused
      <3>2. CASE r \in Run
        <4>1. PICK a \in DOMAIN admitted : admitted[a].run = r
          <5>1. run[r] # "new"
            BY <1>0
          <5> QED
            BY <3>2, <5>1, Zenon DEF BudgetInv, RunSound
        <4>2. CASE ~Logged(a)
          BY <1>1, <2>2, <2>5, <3>2, <4>1, <4>2, Zenon DEF Caused, Logged
        <4>3. CASE Logged(a)
          <5>1. OwnEvent(a)
            BY <4>3, Zenon DEF BudgetInv, AdmissionSound
          <5>2. PICK i : i = admitted[a].event
            BY Zenon
          <5>3. i \in DOMAIN log /\ log[i].run = r
            BY <4>1, <5>1, <5>2, Zenon DEF OwnEvent
          <5>4. i \in DOMAIN log' /\ i < m /\ log'[i].run = log'[m].run
            BY <2>2, <2>5, <5>3, Zenon
          <5> QED
            BY <2>2, <2>5, <3>2, <5>4, Zenon DEF Caused
        <4> QED
          BY <4>2, <4>3, Zenon
      <3> QED
        BY <3>1, <3>2, Zenon DEF Runs
    <2>9. EventSound(m)'
      BY <2>2, <2>5, <2>8, Zenon DEF EventSound
    <2>10. \A i \in DOMAIN log' : i \notin DOMAIN log => EventSound(i)'
      BY <2>5, <2>9, Zenon
    <2> QED
      BY <1>1, <1>2, <1>4, <1>5, <1>6, <2>6, <2>7, <2>10, StepKeeps, Zenon
  <1> QED
    BY <1>7, <1>8, Zenon DEF Publish

\* A child launch that fails.
LEMMA LaunchFailsKeeps ==
    ASSUME BudgetInv, NEW r \in Runs, LaunchFails(r)
    PROVE  BudgetInv'
  <1>0. TypeOK /\ ClockSound /\ run[r] = "launched" /\ clock \in 0 .. MaxTime
    BY Zenon DEF BudgetInv, LaunchFails, TypeOK
  <1>1. /\ UNCHANGED <<starts, log, floor, admitted, crashes>>
        /\ clock' = clock /\ marker' = marker /\ seen' = seen /\ lost' = lost
        /\ starts' = starts /\ log' = log /\ floor' = floor /\ admitted' = admitted
        /\ crashes' = crashes
    BY DEF LaunchFails
  <1>2. /\ run' \in [Runs -> {"new", "launched", "unstarted", "published"}]
        /\ \A s \in Runs : run'[s] # "new" => run[s] # "new"
    <2>1. "unstarted" \in {"new", "launched", "unstarted", "published"} /\ run[r] # "new"
      BY <1>0
    <2> QED
      BY <1>0, <2>1, Zenon DEF TypeOK, LaunchFails
  <1>3. TypeOK'
    BY <1>0, <1>1, <1>2, Zenon DEF TypeOK
  <1>4. ClockSound'
    BY <1>0, <1>1, Zenon DEF ClockSound
  <1>5. clock <= clock'
    BY <1>0, <1>1, Constants
  <1> QED
    BY <1>1, <1>2, <1>3, <1>4, <1>5, QuietKeeps, Zenon

\* The operator's reset.
LEMMA WriteRateResetKeeps ==
    ASSUME BudgetInv, WriteRateReset
    PROVE  BudgetInv'
  <1>0. TypeOK /\ ClockSound /\ clock \in 0 .. MaxTime
    BY Zenon DEF BudgetInv, TypeOK
  <1>1. /\ UNCHANGED <<starts, log, floor, admitted, crashes>>
        /\ clock' = clock /\ marker' = clock /\ seen' = seen /\ run' = run /\ lost' = lost
        /\ starts' = starts /\ log' = log /\ floor' = floor /\ admitted' = admitted
        /\ crashes' = crashes
    BY DEF WriteRateReset
  <1>2. TypeOK'
    <2>1. clock \in Times
      BY <1>0, Zenon DEF Times
    <2> QED
      BY <1>0, <1>1, <2>1, Zenon DEF TypeOK
  <1>3. ClockSound'
    BY <1>0, <1>1, Zenon DEF ClockSound
  <1>4. clock <= clock'
    BY <1>0, <1>1, Constants
  <1>5. \A r \in Runs : run'[r] # "new" => run[r] # "new"
    BY <1>1, Zenon
  <1> QED
    BY <1>1, <1>2, <1>3, <1>4, <1>5, QuietKeeps, Zenon

\* Time passes, but no caller waits longer than MaxWait.
LEMMA TickKeeps ==
    ASSUME BudgetInv, Tick
    PROVE  BudgetInv'
  <1>0. TypeOK /\ ClockSound /\ clock \in 0 .. MaxTime /\ clock < MaxTime
    BY Zenon DEF BudgetInv, TypeOK, Tick
  <1>1. /\ UNCHANGED <<starts, log, floor, admitted, crashes>>
        /\ clock' = clock + 1 /\ marker' = marker /\ seen' = seen /\ run' = run /\ lost' = lost
        /\ starts' = starts /\ log' = log /\ floor' = floor /\ admitted' = admitted
        /\ crashes' = crashes
    BY DEF Tick
  <1>2. clock' \in 0 .. MaxTime /\ clock <= clock'
    BY <1>0, <1>1, Constants
  <1>3. TypeOK'
    BY <1>0, <1>1, <1>2, Zenon DEF TypeOK
  <1>4. ASSUME NEW c \in Caller, seen[c] # NoTime
        PROVE  seen[c] <= clock' /\ clock' - seen[c] <= MaxWait
    <2>1. seen[c] \in Int /\ seen[c] <= clock /\ clock - seen[c] < MaxWait
      BY <1>0, <1>4, TimesAreNumbers, Zenon DEF TypeOK, ClockSound, Tick
    <2> QED
      BY <1>0, <1>1, <2>1, Constants
  <1>5. ClockSound'
    BY <1>1, <1>4, Zenon DEF ClockSound
  <1>6. \A r \in Runs : run'[r] # "new" => run[r] # "new"
    BY <1>1, Zenon
  <1> QED
    BY <1>1, <1>2, <1>3, <1>5, <1>6, QuietKeeps, Zenon

\* The restart.
LEMMA RestartKeeps ==
    ASSUME BudgetInv, Restart
    PROVE  BudgetInv'
  <1>0. TypeOK /\ ClockSound /\ clock \in 0 .. MaxTime
    BY Zenon DEF BudgetInv, TypeOK
  <1>1. /\ clock' = clock /\ marker' = marker /\ floor' = marker /\ lost' = lost
        /\ log' = log /\ admitted' = admitted /\ crashes' = crashes + 1
        /\ seen' = [c \in Caller |-> NoTime]
        /\ run' = [r \in Runs |-> IF run[r] = "launched" THEN "unstarted" ELSE run[r]]
    BY DEF Restart
  <1>2. /\ starts' \in Seq(0 .. MaxTime)
        /\ \E g \in [DOMAIN starts' -> DOMAIN admitted'] : Stands(starts, g)'
    BY <1>0, StandsRebuilt, Zenon DEF BudgetInv
  <1>3. StartsSound'
    BY <1>2, Zenon DEF StartsSound
  <1>4. seen' \in [Caller -> Times] /\ ClockSound'
    <2>1. NoTime \in Times
      BY Zenon DEF Times
    <2> QED
      BY <1>1, <2>1, Zenon DEF ClockSound
  <1>5. /\ run' \in [Runs -> {"new", "launched", "unstarted", "published"}]
        /\ \A r \in Runs : run'[r] # "new" => run[r] # "new"
    <2>1. ASSUME NEW r \in Runs
          PROVE  /\ run'[r] \in {"new", "launched", "unstarted", "published"}
                 /\ run'[r] # "new" => run[r] # "new"
      <3>1. run[r] \in {"new", "launched", "unstarted", "published"}
        BY <1>0, Zenon DEF TypeOK
      <3>2. run'[r] = IF run[r] = "launched" THEN "unstarted" ELSE run[r]
        BY <1>1, Zenon
      <3> QED
        BY <3>1, <3>2
    <2> QED
      BY <1>1, <2>1, Zenon
  <1>6. crashes' \in 0 .. MaxCrashes
    <2>1. crashes \in 0 .. MaxCrashes /\ crashes < MaxCrashes
      BY <1>0, Zenon DEF TypeOK, Restart
    <2> QED
      BY <1>1, <2>1, Constants
  <1>7. TypeOK'
    BY <1>0, <1>1, <1>2, <1>4, <1>5, <1>6, Zenon DEF TypeOK
  <1>8. Grown
    <2>1. clock <= clock'
      BY <1>0, <1>1, Constants
    <2> QED
      BY <1>1, <2>1, Zenon DEF Grown
  <1>9. \A i \in Unforced' : i \in DOMAIN admitted
    BY <1>1, Zenon DEF Unforced
  <1> QED
    BY <1>1, <1>3, <1>4, <1>5, <1>7, <1>8, <1>9, StepKeeps, Zenon

-----------------------------------------------------------------------------
(* The theorems.                                                           *)

\* At the start nothing is admitted and nothing is charged.
LEMMA InitInv == Init => BudgetInv
  <1> SUFFICES ASSUME Init PROVE BudgetInv
    OBVIOUS
  <1>1. /\ clock = 0 /\ starts = <<>> /\ log = <<>> /\ marker = NoTime /\ floor = NoTime
        /\ seen = [c \in Caller |-> NoTime] /\ run = [r \in Runs |-> "new"]
        /\ admitted = <<>> /\ crashes = 0 /\ lost = 0
    BY Zenon DEF Init
  <1>2. /\ 0 \in 0 .. MaxTime /\ 0 \in 0 .. MaxCrashes /\ 0 \in 0 .. MaxLost
        /\ \A T : <<>> \in Seq(T)
    BY Constants
  <1>3. DOMAIN starts = {} /\ DOMAIN log = {} /\ DOMAIN admitted = {}
    BY <1>1
  <1>4. TypeOK
    <2>1. NoTime \in Times /\ "new" \in {"new", "launched", "unstarted", "published"}
      BY Zenon DEF Times
    <2>2. seen \in [Caller -> Times]
      BY <1>1, <2>1, Zenon
    <2>3. run \in [Runs -> {"new", "launched", "unstarted", "published"}]
      BY <1>1, <2>1, Zenon
    <2> QED
      BY <1>1, <1>2, <2>1, <2>2, <2>3, Zenon DEF TypeOK
  <1>5. ClockSound
    BY <1>1, Zenon DEF ClockSound
  <1>6. \A r \in Runs : RunSound(r)
    BY <1>1, Zenon DEF RunSound
  <1>7. StartsSound
    <2>1. PICK g : g = [k \in DOMAIN starts |-> 0]
      BY Zenon
    <2>2. g \in [DOMAIN starts -> DOMAIN admitted]
      BY <1>3, <2>1, Zenon
    <2>3. Stands(starts, g)
      BY <1>3, <2>2, Zenon DEF Stands, Distinct, ForAdmission
    <2> QED
      BY <2>2, <2>3, Zenon DEF StartsSound
  <1>8. RollingBudget
    BY <1>3, Zenon DEF RollingBudget, Unforced
  <1> QED
    BY <1>3, <1>4, <1>5, <1>6, <1>7, <1>8, Zenon DEF BudgetInv

\* A step that changes nothing.
LEMMA StutterKeeps ==
    ASSUME BudgetInv, UNCHANGED vars
    PROVE  BudgetInv'
  <1>1. /\ UNCHANGED <<starts, log, floor, admitted, crashes>>
        /\ clock' = clock /\ marker' = marker /\ seen' = seen /\ run' = run /\ lost' = lost
        /\ starts' = starts /\ log' = log /\ floor' = floor /\ admitted' = admitted
        /\ crashes' = crashes
    BY DEF vars
  <1>2. TypeOK /\ ClockSound /\ clock \in Int
    BY TimesAreNumbers, Zenon DEF BudgetInv, TypeOK
  <1>3. TypeOK'
    BY <1>1, <1>2, Zenon DEF TypeOK
  <1>4. ClockSound'
    BY <1>1, <1>2, Zenon DEF ClockSound
  <1>5. clock <= clock'
    BY <1>1, <1>2
  <1>6. \A r \in Runs : run'[r] # "new" => run[r] # "new"
    BY <1>1, Zenon
  <1> QED
    BY <1>1, <1>3, <1>4, <1>5, <1>6, QuietKeeps, Zenon

\* Every step keeps the invariant.
LEMMA NextInv == BudgetInv /\ [Next]_vars => BudgetInv'
  <1> SUFFICES ASSUME BudgetInv, [Next]_vars PROVE BudgetInv'
    OBVIOUS
  <1>1. ASSUME NEW c \in Caller, ReadClock(c) PROVE BudgetInv'
    BY <1>1, ReadClockKeeps, Zenon
  <1>2. ASSUME NEW c \in Caller, Refuse(c) PROVE BudgetInv'
    BY <1>2, RefuseKeeps, Zenon
  <1>3. ASSUME NEW c \in Caller, NEW r \in Run, NEW forced \in BOOLEAN, NEW logged \in BOOLEAN,
               Dispatch(c, r, forced, logged)
        PROVE  BudgetInv'
    BY <1>3, DispatchKeeps, Zenon
  <1>4. ASSUME NEW c \in Caller, NEW r \in Child, NEW logged \in BOOLEAN,
               ReserveChild(c, r, logged)
        PROVE  BudgetInv'
    BY <1>4, ReserveChildKeeps, Zenon
  <1>5. ASSUME NEW r \in Runs, NEW echo \in BOOLEAN, Publish(r, echo) PROVE BudgetInv'
    BY <1>5, PublishKeeps, Zenon
  <1>6. ASSUME NEW r \in Runs, LaunchFails(r) PROVE BudgetInv'
    BY <1>6, LaunchFailsKeeps, Zenon
  <1>7. CASE WriteRateReset
    BY <1>7, WriteRateResetKeeps, Zenon
  <1>8. CASE Restart
    BY <1>8, RestartKeeps, Zenon
  <1>9. CASE Tick
    BY <1>9, TickKeeps, Zenon
  <1>10. CASE UNCHANGED vars
    BY <1>10, StutterKeeps, Zenon
  <1> QED
    BY <1>1, <1>2, <1>3, <1>4, <1>5, <1>6, <1>7, <1>8, <1>9, <1>10, Zenon DEF Next

\* Charges in the hour are no more than the admissions they stand for.
LEMMA ChargesFit == BudgetInv => ChargedOnce
  <1> SUFFICES ASSUME BudgetInv PROVE ChargedOnce
    OBVIOUS
  <1> DEFINE K == {k \in DOMAIN starts : starts[k] > clock - Hour}
             A == {i \in DOMAIN admitted :
                      \/ ~Logged(i)
                      \/ /\ admitted[i].at > clock - Hour
                         /\ admitted[i].dated > floor \/ admitted[i].epoch = crashes}
  <1>0. /\ clock \in Int /\ admitted \in Seq(Admissions) /\ starts \in Seq(0 .. MaxTime)
    BY TimesAreNumbers, Zenon DEF BudgetInv, TypeOK
  <1>1. PICK g \in [DOMAIN starts -> DOMAIN admitted] : Stands(starts, g)
    BY Zenon DEF BudgetInv, StartsSound
  <1>2. ASSUME NEW k \in K PROVE g[k] \in A
    <2>1. k \in DOMAIN starts /\ starts[k] > clock - Hour /\ g[k] \in DOMAIN admitted
      BY <1>1, <1>2, Zenon
    <2>2. CASE ~Logged(g[k])
      BY <2>1, <2>2, Zenon
    <2>3. CASE /\ starts[k] <= admitted[g[k]].at
               /\ admitted[g[k]].dated > floor \/ admitted[g[k]].epoch = crashes
      <3>1. starts[k] \in Int /\ admitted[g[k]].at \in Int
        BY <1>0, <2>1, StartsFacts, AdmittedFacts, Zenon
      <3>2. admitted[g[k]].at > clock - Hour
        <4>1. \A t, x, y \in Int : \A h \in Nat : x > t - h /\ x <= y => y > t - h
          OBVIOUS
        <4> QED
          BY <1>0, <2>1, <2>3, <3>1, <4>1, Constants, Zenon
      <3> QED
        BY <2>1, <2>3, <3>2, Zenon
    <2> QED
      BY <1>1, <2>1, <2>2, <2>3, Zenon DEF Stands, ForAdmission
  <1>3. \A k, l \in K : g[k] = g[l] => k = l
    BY <1>1, Zenon DEF Stands, Distinct
  <1>4. IsFiniteSet(A)
    <2>1. Len(admitted) \in Nat /\ A \in SUBSET (1 .. Len(admitted))
      BY <1>0, AdmittedFacts, Zenon
    <2> HIDE DEF A
    <2> QED
      BY <2>1, PositionsFinite, Zenon
  <1> HIDE DEF A, K
  <1>5. [k \in K |-> g[k]] \in Injection(K, A)
    BY <1>2, <1>3, Zenon DEF Injection, IsInjective
  <1>6. Cardinality(K) <= Cardinality(A)
    BY <1>4, <1>5, FS_Injection, Zenon
  <1> QED
    BY <1>6, Zenon DEF ChargedOnce, K, A

\* The inductive invariant holds in every reachable state.
THEOREM BudgetInvariant == Spec => []BudgetInv
  BY InitInv, NextInv, PTL DEF Spec

\* However callers wait for the lock and however often the daemon restarts, no
\* unforced start exceeds the hourly or the daily limit, for any limits, windows
\* and waits.
THEOREM BudgetsHold == Spec => []RollingBudget
  <1>1. BudgetInv => RollingBudget
    BY Zenon DEF BudgetInv
  <1> QED
    BY <1>1, BudgetInvariant, PTL

\* No admission is charged twice: not by its echo, nor by a restart, nor by the
\* operator's reset.
THEOREM AdmissionsChargedOnce == Spec => []ChargedOnce
  BY ChargesFit, BudgetInvariant, PTL

=============================================================================
