------------------------- MODULE InterventionsProofs -------------------------
(***************************************************************************)
(* Whatever the deliveries and whatever they ask for, an intervention acts *)
(* once and the run's place in the scheduler follows the run.              *)
(*                                                                         *)
(* The argument: the slot, the place and the driver go with the steps of   *)
(* the requests (SlotSound, RunSound), so that only one request writes at  *)
(* a time; and a request carries on only from the segment it has read      *)
(* (Bound), after which nobody has resumed the run, while before it its    *)
(* key was not carried out (ReadSound).                                    *)
(***************************************************************************)
EXTENDS Interventions, WellFoundedInduction, TLAPS

Events == [type : Stops \cup Annotation \cup Resumption \cup {"started"},
           action : Actions \cup {"none"}, key : Keys]

-----------------------------------------------------------------------------
(* Numbers and sequences.                                                  *)

\* A nonempty set of naturals has a least one.
LEMMA LeastExists ==
    ASSUME NEW S \in SUBSET Nat, S # {}
    PROVE  \E x \in S : \A y \in S : x <= y
  <1>1. PICK x \in S : \A y \in S : ~ (<<y, x>> \in OpToRel(<, Nat))
    BY NatLessThanWellFounded, WFMin, Zenon
  <1>2. \A y \in S : ~ (y < x)
    BY <1>1, Zenon DEF OpToRel
  <1>3. \A y \in S : x \in Nat /\ y \in Nat
    BY Zenon
  <1>4. \A y \in S : x <= y
    BY <1>2, <1>3
  <1> QED
    BY <1>4, Zenon

\* Min, where there is one.
LEMMA MinIs ==
    ASSUME NEW S \in SUBSET Nat, S # {}
    PROVE  Min(S) \in S /\ \A y \in S : Min(S) <= y
  BY LeastExists, Zenon DEF Min

\* A nonempty bounded set of naturals has a greatest one.
LEMMA MaxIs ==
    ASSUME NEW S \in SUBSET Nat, S # {}, NEW b \in Nat, \A y \in S : y <= b
    PROVE  Max(S) \in S /\ \A y \in S : Max(S) >= y
  <1> DEFINE T == {b - y : y \in S}
  <1>1. \A y \in S : y \in Nat /\ y <= b
    BY Zenon
  <1>2. T \in SUBSET Nat /\ T # {}
    <2>1. \A y \in S : b - y \in Nat
      BY <1>1
    <2> QED
      BY <2>1, Zenon
  <1>3. PICK x \in T : \A y \in T : x <= y
    BY <1>2, LeastExists, Zenon
  <1>4. PICK m \in S : x = b - m
    BY Zenon
  <1>5. \A y \in S : b - m <= b - y
    BY <1>3, <1>4, Zenon
  <1>6. m \in Nat /\ \A y \in S : y \in Nat
    BY <1>1, Zenon
  <1>7. \A y \in S : m >= y
    BY <1>5, <1>6
  <1> QED
    BY <1>7, Zenon DEF Max

\* Positions of a sequence.
LEMMA SeqFacts ==
    ASSUME NEW S, NEW s \in Seq(S)
    PROVE  /\ Len(s) \in Nat /\ DOMAIN s = 1 .. Len(s)
           /\ \A i \in DOMAIN s : s[i] \in S /\ i \in Nat /\ i >= 1 /\ i <= Len(s)
  OBVIOUS

\* One more event.
LEMMA AppendFacts ==
    ASSUME NEW S, NEW s \in Seq(S), NEW e \in S
    PROVE  /\ Append(s, e) \in Seq(S) /\ Len(Append(s, e)) = Len(s) + 1
           /\ DOMAIN Append(s, e) = 1 .. (Len(s) + 1)
           /\ \A i \in 1 .. Len(s) : Append(s, e)[i] = s[i]
           /\ Append(s, e)[Len(s) + 1] = e
           /\ \A i \in 1 .. (Len(s) + 1) : i \in 1 .. Len(s) \/ i = Len(s) + 1
           /\ \A i \in 1 .. Len(s) : i \in 1 .. (Len(s) + 1) /\ i # Len(s) + 1 /\ i < Len(s) + 1
           /\ Len(s) + 1 \in 1 .. (Len(s) + 1)
           /\ Append(s, e) # <<>>
  OBVIOUS

\* The first n events.
LEMMA PrefixFacts ==
    ASSUME NEW S, NEW s \in Seq(S), NEW n \in 0 .. Len(s)
    PROVE  /\ SubSeq(s, 1, n) \in Seq(S) /\ Len(SubSeq(s, 1, n)) = n
           /\ \A i \in 1 .. n : i \in 1 .. Len(s) /\ SubSeq(s, 1, n)[i] = s[i]
  OBVIOUS

\* All of the events.
LEMMA WholePrefix ==
    ASSUME NEW S, NEW s \in Seq(S)
    PROVE  SubSeq(s, 1, Len(s)) = s
  OBVIOUS

\* What was read stays the same when an event is appended.
LEMMA PrefixKept ==
    ASSUME NEW S, NEW s \in Seq(S), NEW e \in S, NEW n \in 1 .. Len(s)
    PROVE  SubSeq(Append(s, e), 1, n) = SubSeq(s, 1, n)
  <1> DEFINE a == SubSeq(Append(s, e), 1, n)
             b == SubSeq(s, 1, n)
  <1>1. n \in 0 .. Len(s) /\ n \in 0 .. Len(Append(s, e)) /\ Append(s, e) \in Seq(S)
    OBVIOUS
  <1>2. a \in Seq(S) /\ Len(a) = n /\ \A i \in 1 .. n : a[i] = Append(s, e)[i]
    BY <1>1, PrefixFacts, Zenon
  <1>3. b \in Seq(S) /\ Len(b) = n /\ \A i \in 1 .. n : b[i] = s[i] /\ i \in 1 .. Len(s)
    BY <1>1, PrefixFacts, Zenon
  <1>4. \A i \in 1 .. n : a[i] = b[i]
    <2>1. \A i \in 1 .. Len(s) : Append(s, e)[i] = s[i]
      BY AppendFacts
    <2> QED
      BY <1>2, <1>3, <2>1, Zenon
  <1> HIDE DEF a, b
  <1>5. a = b
    BY <1>2, <1>3, <1>4
  <1> QED
    BY <1>5 DEF a, b

-----------------------------------------------------------------------------
(* The journal.                                                            *)

\* LastOf is the last index with one of the types, or 0.
LEMMA LastOfFacts ==
    ASSUME NEW s \in Seq(Events), NEW types
    PROVE  LET m == LastOf(s, types) IN
           /\ m \in Nat /\ m <= Len(s)
           /\ m = 0 \/ (m \in DOMAIN s /\ s[m].type \in types)
           /\ \A i \in DOMAIN s : s[i].type \in types => i <= m
  <1> DEFINE S == {0} \cup {i \in DOMAIN s : s[i].type \in types}
  <1>1. Len(s) \in Nat /\ \A i \in DOMAIN s : i \in Nat /\ i <= Len(s)
    BY SeqFacts, Zenon
  <1>2. \A i \in S : i = 0 \/ i \in DOMAIN s
    BY Zenon
  <1>3. 0 \in Nat /\ 0 <= Len(s)
    BY <1>1
  <1>4. S \in SUBSET Nat /\ S # {} /\ \A i \in S : i <= Len(s)
    <2>1. 0 \in S
      BY Zenon
    <2>2. \A i \in S : i \in Nat /\ i <= Len(s)
      BY <1>1, <1>2, <1>3, Zenon
    <2> QED
      BY <2>1, <2>2, Zenon
  <1>5. Max(S) \in S /\ \A i \in S : Max(S) >= i
    BY <1>1, <1>4, MaxIs, Zenon
  <1>6. LastOf(s, types) = Max(S)
    BY Zenon DEF LastOf
  <1>7. \A i \in DOMAIN s : s[i].type \in types => i \in S
    BY Zenon
  <1>8. \A i \in S : i # 0 => i \in DOMAIN s /\ s[i].type \in types
    BY Zenon
  <1> HIDE DEF S
  <1> DEFINE m == Max(S)
  <1>9. m \in Nat /\ \A i \in S : i \in Nat /\ m >= i
    BY <1>4, <1>5, Zenon
  <1> HIDE DEF m
  <1>10. \A i \in S : i <= m
    BY <1>9
  <1>11. LastOf(s, types) = m /\ m \in S
    BY <1>5, <1>6, Zenon DEF m
  <1> QED
    BY <1>4, <1>7, <1>8, <1>9, <1>10, <1>11, Zenon

\* LastOf of a journal with one event more.
LEMMA LastOfAppend ==
    ASSUME NEW s \in Seq(Events), NEW e \in Events, NEW types
    PROVE  LastOf(Append(s, e), types) = IF e.type \in types THEN Len(s) + 1 ELSE LastOf(s, types)
  <1> DEFINE t == Append(s, e)
             m == LastOf(s, types)
             k == LastOf(t, types)
  <1>1. /\ t \in Seq(Events) /\ DOMAIN t = 1 .. (Len(s) + 1) /\ Len(t) = Len(s) + 1
        /\ \A i \in 1 .. Len(s) : t[i] = s[i]
        /\ t[Len(s) + 1] = e
    BY AppendFacts
  <1>2. Len(s) \in Nat /\ DOMAIN s = 1 .. Len(s)
    BY SeqFacts, Zenon
  <1>3. /\ m \in Nat /\ m <= Len(s)
        /\ m = 0 \/ (m \in DOMAIN s /\ s[m].type \in types)
        /\ \A i \in DOMAIN s : s[i].type \in types => i <= m
    BY LastOfFacts, Zenon
  <1>4. /\ k \in Nat /\ k <= Len(t)
        /\ k = 0 \/ (k \in DOMAIN t /\ t[k].type \in types)
        /\ \A i \in DOMAIN t : t[i].type \in types => i <= k
    BY <1>1, LastOfFacts, Zenon
  <1> DEFINE n == Len(s)
  <1> HIDE DEF t, m, k, n
  <1>5. n \in Nat /\ n + 1 \in 1 .. (n + 1)
    BY <1>2 DEF n
  <1>6. CASE e.type \in types
    <2>1. n + 1 <= k
      BY <1>1, <1>4, <1>5, <1>6, Zenon DEF n
    <2>2. k <= n + 1
      BY <1>1, <1>4, Zenon DEF n
    <2>3. k = n + 1
      BY <1>4, <1>5, <2>1, <2>2
    <2> QED
      BY <1>6, <2>3, Zenon DEF t, m, k, n
  <1>7. CASE e.type \notin types
    <2>1. \A i \in 1 .. (n + 1) : i \in 1 .. n \/ i = n + 1
      BY <1>5
    <2>2. \A i \in 1 .. n : i \in 1 .. (n + 1)
      BY <1>5
    <2>3. k = 0 \/ k <= m
      <3>1. k # 0 => k \in 1 .. n
        BY <1>1, <1>4, <1>7, <2>1, Zenon DEF n
      <3> QED
        BY <1>1, <1>2, <1>3, <1>4, <3>1, Zenon DEF n
    <2>4. m = 0 \/ m <= k
      BY <1>1, <1>2, <1>3, <1>4, <2>2, Zenon DEF n
    <2>5. k = m
      BY <1>3, <1>4, <2>3, <2>4
    <2> QED
      BY <1>7, <2>5, Zenon DEF t, m, k, n
  <1> QED
    BY <1>6, <1>7, Zenon
\* A journal that begins with the start has a last event that sets the phase.
LEMMA PhaseIs ==
    ASSUME NEW s \in Seq(Events), s # <<>>, s[1].type = "started"
    PROVE  LET m == LastOf(s, Stops \cup Resumption \cup {"started"}) IN
           /\ m \in DOMAIN s
           /\ \A i \in DOMAIN s : s[i].type \notin Annotation => i <= m
           /\ Phase(s) = IF s[m].type \in Stops THEN s[m].type ELSE "running"
           /\ Phase(s) \in Stops \cup {"running"}
  <1> DEFINE types == Stops \cup Resumption \cup {"started"}
             m == LastOf(s, types)
  <1>1. /\ m \in Nat
        /\ m = 0 \/ (m \in DOMAIN s /\ s[m].type \in types)
        /\ \A i \in DOMAIN s : s[i].type \in types => i <= m
    BY LastOfFacts, Zenon
  <1>2. 1 \in DOMAIN s
    BY SeqFacts
  <1>3. "started" \in types
    BY Zenon
  <1>4. Phase(s) = IF s[m].type \in Stops THEN s[m].type ELSE "running"
    BY Zenon DEF Phase
  <1>5. \A i \in DOMAIN s : s[i].type \notin Annotation => s[i].type \in types
    <2>1. \A i \in DOMAIN s : s[i] \in Events
      BY SeqFacts, Zenon
    <2>2. \A e \in Events : e.type \notin Annotation => e.type \in types
      BY DEF Events
    <2> QED
      BY <2>1, <2>2, Zenon
  <1> HIDE DEF types, m
  <1>6. 1 <= m
    BY <1>1, <1>2, <1>3, Zenon
  <1>7. m # 0
    BY <1>1, <1>6
  <1> QED
    BY <1>1, <1>4, <1>5, <1>7, Zenon DEF types, m

\* The phase after one event more.
LEMMA PhaseAppend ==
    ASSUME NEW s \in Seq(Events), s # <<>>, s[1].type = "started", NEW e \in Events
    PROVE  /\ e.type \in Annotation => Phase(Append(s, e)) = Phase(s)
           /\ e.type \in Stops => Phase(Append(s, e)) = e.type
           /\ e.type \in Resumption => Phase(Append(s, e)) = "running"
  <1> DEFINE types == Stops \cup Resumption \cup {"started"}
             t == Append(s, e)
             m == LastOf(s, types)
             k == LastOf(t, types)
  <1>1. k = IF e.type \in types THEN Len(s) + 1 ELSE m
    BY LastOfAppend, Zenon
  <1>2. /\ Phase(t) = IF t[k].type \in Stops THEN t[k].type ELSE "running"
        /\ Phase(s) = IF s[m].type \in Stops THEN s[m].type ELSE "running"
    BY Zenon DEF Phase
  <1>3. m \in 1 .. Len(s)
    BY PhaseIs, SeqFacts, Zenon
  <1>4. t[Len(s) + 1] = e /\ \A i \in 1 .. Len(s) : t[i] = s[i]
    BY AppendFacts
  <1>5. /\ e.type \in Annotation => e.type \notin types
        /\ e.type \in Stops => e.type \in types
        /\ e.type \in Resumption => e.type \in types /\ e.type \notin Stops
    BY DEF Annotation, Stops, Ends, Resumption
  <1> HIDE DEF types, t, m, k
  <1>6. /\ e.type \in types => t[k] = e
        /\ e.type \notin types => t[k] = s[m]
    BY <1>1, <1>3, <1>4, Zenon
  <1>7. /\ e.type \in Annotation => Phase(t) = Phase(s)
        /\ e.type \in Stops => Phase(t) = e.type
        /\ e.type \in Resumption => Phase(t) = "running"
    BY <1>2, <1>5, <1>6, Zenon
  <1> QED
    BY <1>7, Zenon DEF t

\* A journal that waits or has ended in the segment that was read was resumed by
\* nobody since (validateTerminalGeneration, unresolvedGatePause).
LEMMA NotResumedSince ==
    ASSUME NEW s \in Seq(Events), s # <<>>, s[1].type = "started",
           NEW n \in 1 .. Len(s), Phase(s) \in Stops,
           Segment(s) = Segment(SubSeq(s, 1, n)),
           NEW i \in DOMAIN s, s[i].type \in Resumption
    PROVE  i \in 1 .. n
  <1> DEFINE types == Stops \cup Resumption \cup {"started"}
             t == SubSeq(s, 1, n)
             m == LastOf(s, types)
  <1>1. /\ m \in DOMAIN s /\ \A j \in DOMAIN s : s[j].type \notin Annotation => j <= m
        /\ Phase(s) = IF s[m].type \in Stops THEN s[m].type ELSE "running"
    BY PhaseIs, Zenon
  <1>2. "running" \notin Stops
    BY DEF Stops, Ends
  <1>3. s[m].type \in Stops
    BY <1>1, <1>2, Zenon
  <1>4. n \in 0 .. Len(s)
    OBVIOUS
  <1>5. t \in Seq(Events) /\ Len(t) = n
    BY <1>4, PrefixFacts, Zenon
  <1>6. Segment(t) <= n /\ Segment(t) \in Nat
    BY <1>5, LastOfFacts, Zenon DEF Segment
  <1>7. m <= Segment(s)
    BY <1>1, <1>3, LastOfFacts, Zenon DEF Segment
  <1>8. s[i].type \notin Annotation
    BY DEF Resumption, Annotation
  <1>9. i <= m /\ m <= Segment(t)
    BY <1>1, <1>7, <1>8, Zenon
  <1>10. i \in Nat /\ i >= 1 /\ m \in Nat
    BY <1>1, SeqFacts, Zenon
  <1> HIDE DEF t, m
  <1> QED
    BY <1>6, <1>9, <1>10

\* The first marker of a key, where there is one.
LEMMA FirstMarker ==
    ASSUME NEW s \in Seq(Events), NEW q, Markers(s, q) # {}
    PROVE  /\ Min(Markers(s, q)) \in Markers(s, q)
           /\ \A m \in Markers(s, q) : Min(Markers(s, q)) <= m
  <1>1. Markers(s, q) \in SUBSET Nat
    BY SeqFacts, Zenon DEF Markers
  <1> QED
    BY <1>1, MinIs, Zenon

\* What was carried out after a marker of its key is replayed.
LEMMA CarriedOut ==
    ASSUME NEW s \in Seq(Events), NEW q, NEW m \in Markers(s, q), NEW i \in DOMAIN s, m < i,
           Completed(asked[q].action, s[i])
    PROVE  Replayed(s, q)
  <1> DEFINE f == Min(Markers(s, q))
  <1>1. f \in Markers(s, q) /\ f <= m /\ Markers(s, q) # {}
    BY FirstMarker, Zenon
  <1>2. f \in DOMAIN s /\ m \in DOMAIN s
    BY <1>1, Zenon DEF Markers
  <1>3. f \in Nat /\ m \in Nat /\ i \in Nat /\ i <= Len(s) /\ Len(s) \in Nat
    BY <1>2, SeqFacts, Zenon
  <1> HIDE DEF f
  <1>4. i \in (f + 1) .. Len(s)
    BY <1>1, <1>3
  <1> QED
    BY <1>1, <1>4, Zenon DEF Replayed, f

\* Pauses, ends and denials carry nothing out.
LEMMA ReplayedBefore ==
    ASSUME NEW s \in Seq(Events), NEW e \in Events, NEW q,
           e.type \notin Resumption \cup {"marker"}, Replayed(Append(s, e), q)
    PROVE  Replayed(s, q)
  <1> DEFINE t == Append(s, e)
  <1>1. /\ DOMAIN t = 1 .. (Len(s) + 1) /\ Len(t) = Len(s) + 1 /\ t[Len(s) + 1] = e
        /\ \A i \in 1 .. Len(s) : t[i] = s[i]
        /\ \A i \in 1 .. (Len(s) + 1) : i \in 1 .. Len(s) \/ i = Len(s) + 1
        /\ \A i \in 1 .. Len(s) : i \in 1 .. (Len(s) + 1)
    BY AppendFacts
  <1>2. DOMAIN s = 1 .. Len(s) /\ Len(s) \in Nat
    BY SeqFacts, Zenon
  <1>3. e.type # "marker" /\ ~Completed(asked[q].action, e)
    BY DEF Completed, Resumption
  <1>4. Replayed(t, q)
    OBVIOUS
  <1> HIDE DEF t
  <1>5. Markers(t, q) = Markers(s, q)
    BY <1>1, <1>2, <1>3, Zenon DEF Markers
  <1> DEFINE m == Min(Markers(s, q))
  <1>6. /\ Markers(s, q) # {}
        /\ \/ t[m].action # asked[q].action
           \/ \E i \in (m + 1) .. Len(t) : Completed(asked[q].action, t[i])
    BY <1>4, <1>5, Zenon DEF Replayed
  <1>7. m \in DOMAIN s
    <2>1. m \in Markers(s, q)
      BY <1>6, FirstMarker, Zenon
    <2> HIDE DEF m
    <2> QED
      BY <2>1, Zenon DEF Markers
  <1>8. m \in Nat /\ m <= Len(s) /\ m >= 1
    BY <1>7, SeqFacts, Zenon
  <1> HIDE DEF m
  <1>9. t[m] = s[m]
    BY <1>1, <1>2, <1>7, Zenon
  <1>10. ASSUME NEW i \in (m + 1) .. Len(t), Completed(asked[q].action, t[i])
         PROVE  \E j \in (m + 1) .. Len(s) : Completed(asked[q].action, s[j])
    <2>1. i # Len(s) + 1
      BY <1>1, <1>3, <1>10, Zenon
    <2>2. i \in (m + 1) .. Len(s) /\ i \in 1 .. Len(s)
      BY <1>1, <1>2, <1>8, <2>1
    <2> QED
      BY <1>1, <1>10, <2>2, Zenon
  <1> QED
    BY <1>6, <1>9, <1>10, Zenon DEF Replayed, m

-----------------------------------------------------------------------------
(* What is appended.                                                       *)

\* What the type invariant says of the journal.
LEMMA JournalTyped ==
    ASSUME TypeOK
    PROVE  /\ journal \in Seq(Events) /\ Len(journal) \in Nat /\ DOMAIN journal = 1 .. Len(journal)
           /\ \A i \in DOMAIN journal : journal[i] \in Events
  BY SeqFacts, Zenon DEF TypeOK, Events

\* The events that the run and its requests write.
LEMMA EventsTyped ==
    ASSUME TypeOK
    PROVE  /\ \A type \in Stops \cup {"started"} : Plain(type) \in Events
           /\ \A q \in Request : \A type \in Annotation \cup Resumption :
                 Event(type, asked[q].action, asked[q].key) \in Events
  <1>1. asked \in Asked
    BY Zenon DEF TypeOK
  <1>2. \A q \in Request : asked[q].action \in Actions /\ asked[q].key \in Keys
    <2>1. \A q \in Request : asked[q].action \in Actions
      BY <1>1, InterventionsAssumption, Zenon
    <2>2. \A q \in Request : asked[q].key \in {f[r].key : f \in Asked, r \in Request}
      BY <1>1
    <2> QED
      BY <2>1, <2>2 DEF Keys
  <1>3. NoOne \in Keys
    BY DEF Keys
  <1>4. \A type \in Stops \cup {"started"} : Plain(type) \in Events
    BY <1>3 DEF Plain, Event, Events
  <1>5. ASSUME NEW q \in Request, NEW type \in Annotation \cup Resumption
        PROVE  Event(type, asked[q].action, asked[q].key) \in Events
    BY <1>2 DEF Event, Events
  <1> QED
    BY <1>4, <1>5, Zenon

\* The journal after an event is appended.
LEMMA Appended ==
    ASSUME TypeOK, NEW e \in Events, journal' = Append(journal, e)
    PROVE  /\ journal' \in Seq(Events) /\ journal' # <<>>
           /\ DOMAIN journal' = 1 .. (Len(journal) + 1) /\ Len(journal') = Len(journal) + 1
           /\ \A i \in DOMAIN journal : i \in DOMAIN journal' /\ journal'[i] = journal[i]
           /\ \A i \in DOMAIN journal' : i \in DOMAIN journal \/ i = Len(journal) + 1
           /\ \A i \in DOMAIN journal : i < Len(journal) + 1 /\ i # Len(journal) + 1
           /\ Len(journal) + 1 \in DOMAIN journal' /\ journal'[Len(journal) + 1] = e
  <1>1. journal \in Seq(Events) /\ DOMAIN journal = 1 .. Len(journal)
    BY JournalTyped, Zenon
  <1>2. /\ Append(journal, e) \in Seq(Events) /\ Append(journal, e) # <<>>
        /\ DOMAIN Append(journal, e) = 1 .. (Len(journal) + 1)
        /\ Len(Append(journal, e)) = Len(journal) + 1
        /\ \A i \in 1 .. Len(journal) : Append(journal, e)[i] = journal[i]
        /\ Append(journal, e)[Len(journal) + 1] = e
        /\ \A i \in 1 .. (Len(journal) + 1) : i \in 1 .. Len(journal) \/ i = Len(journal) + 1
        /\ \A i \in 1 .. Len(journal) :
              /\ i \in 1 .. (Len(journal) + 1) /\ i # Len(journal) + 1 /\ i < Len(journal) + 1
        /\ Len(journal) + 1 \in 1 .. (Len(journal) + 1)
    BY <1>1, AppendFacts
  <1> QED
    BY <1>1, <1>2, Zenon

\* A journal that does not change keeps what was said of it.
LEMMA JournalLeft ==
    ASSUME JournalSound, ActsOncePerKey, journal' = journal
    PROVE  JournalSound' /\ ActsOncePerKey'
  <1>1. JournalSound'
    BY Zenon DEF JournalSound
  <1>2. ActsOncePerKey'
    <2>1. ResumedOncePerKey' /\ DeniedOncePerKey'
      BY Zenon DEF ActsOncePerKey, ResumedOncePerKey, DeniedOncePerKey
    <2>2. RerunAcceptedOnce'
      BY DEF ActsOncePerKey, RerunAcceptedOnce, Completed
    <2> QED
      BY <2>1, <2>2, Zenon DEF ActsOncePerKey
  <1> QED
    BY <1>1, <1>2

\* An appended event that is new in its kind keeps what was said of the journal.
LEMMA JournalAppended ==
    ASSUME TypeOK, JournalSound, ActsOncePerKey, NEW e \in Events, journal' = Append(journal, e),
           e.type = "evaluated" => e.action = "approve",
           e.type \in Resumption =>
              /\ \E m \in DOMAIN journal : journal[m].type = "marker" /\ journal[m].key = e.key
              /\ \A i \in DOMAIN journal :
                    ~ (/\ journal[i].type \in Resumption
                       /\ journal[i].key = e.key /\ journal[i].action = e.action),
           e.type = "denied" =>
              \A i \in DOMAIN journal : ~ (journal[i].type = "denied" /\ journal[i].key = e.key),
           e.type = "marker" /\ e.action = "rerun" =>
              \A i, j \in DOMAIN journal :
                 /\ i < j
                 /\ journal[i].type = "marker" /\ journal[i].action = "rerun"
                 /\ journal[i].key = e.key
                 => ~Completed("rerun", journal[j])
    PROVE  JournalSound' /\ ActsOncePerKey'
  <1> DEFINE n == Len(journal) + 1
  <1>1. /\ journal' # <<>>
        /\ \A i \in DOMAIN journal : i \in DOMAIN journal' /\ journal'[i] = journal[i]
        /\ \A i \in DOMAIN journal' : i \in DOMAIN journal \/ i = n
        /\ \A i \in DOMAIN journal : i < n /\ i # n
        /\ n \in DOMAIN journal' /\ journal'[n] = e
        /\ DOMAIN journal' = 1 .. n
    BY Appended, Zenon
  <1>2. n \in Nat /\ \A i \in DOMAIN journal : i \in 1 .. (n - 1) /\ i \in Nat
    BY JournalTyped
  <1>3. \A i \in DOMAIN journal' : i \in Nat /\ i <= n
    BY <1>1, <1>2
  <1> HIDE DEF n
  <1>4. 1 \in DOMAIN journal
    BY JournalTyped DEF JournalSound
  <1>5. ASSUME NEW i \in DOMAIN journal'
        PROVE  /\ journal'[i].type = "evaluated" => journal'[i].action = "approve"
               /\ journal'[i].type \in Resumption =>
                     \E m \in 1 .. (i - 1) :
                        journal'[m].type = "marker" /\ journal'[m].key = journal'[i].key
    <2>1. CASE i = n
      BY <1>1, <1>2, <2>1, Zenon
    <2>2. CASE i \in DOMAIN journal
      <3>1. journal'[i] = journal[i]
        BY <1>1, <2>2, Zenon
      <3>2. \A m \in 1 .. (i - 1) : m \in DOMAIN journal
        BY <2>2, JournalTyped
      <3>3. journal[i].type = "evaluated" => journal[i].action = "approve"
        BY <2>2, Zenon DEF JournalSound
      <3>4. ASSUME journal[i].type \in Resumption
            PROVE  \E m \in 1 .. (i - 1) :
                      journal'[m].type = "marker" /\ journal'[m].key = journal[i].key
        <4>1. PICK m \in 1 .. (i - 1) :
                  journal[m].type = "marker" /\ journal[m].key = journal[i].key
          BY <2>2, <3>4, Zenon DEF JournalSound
        <4>2. journal'[m] = journal[m]
          BY <1>1, <3>2, Zenon
        <4> QED
          BY <4>1, <4>2, Zenon
      <3> QED
        BY <3>1, <3>3, <3>4, Zenon
    <2> QED
      BY <1>1, <2>1, <2>2, Zenon
  <1>6. JournalSound'
    BY <1>1, <1>4, <1>5, Zenon DEF JournalSound
  <1>7. ResumedOncePerKey'
    <2> SUFFICES ASSUME NEW i \in DOMAIN journal', NEW j \in DOMAIN journal',
                        journal'[i].type \in Resumption, journal'[j].type \in Resumption,
                        journal'[i].key = journal'[j].key, journal'[i].action = journal'[j].action
                 PROVE  i = j
      BY Zenon DEF ResumedOncePerKey
    <2>1. CASE i \in DOMAIN journal /\ j \in DOMAIN journal
      BY <1>1, <2>1, Zenon DEF ActsOncePerKey, ResumedOncePerKey
    <2>2. CASE i = n /\ j \in DOMAIN journal
      BY <1>1, <2>2, Zenon
    <2>3. CASE i \in DOMAIN journal /\ j = n
      BY <1>1, <2>3, Zenon
    <2> QED
      BY <1>1, <2>1, <2>2, <2>3, Zenon
  <1>8. DeniedOncePerKey'
    <2> SUFFICES ASSUME NEW i \in DOMAIN journal', NEW j \in DOMAIN journal',
                        journal'[i].type = "denied", journal'[j].type = "denied",
                        journal'[i].key = journal'[j].key
                 PROVE  i = j
      BY Zenon DEF DeniedOncePerKey
    <2>1. CASE i \in DOMAIN journal /\ j \in DOMAIN journal
      BY <1>1, <2>1, Zenon DEF ActsOncePerKey, DeniedOncePerKey
    <2>2. CASE i = n /\ j \in DOMAIN journal
      BY <1>1, <2>2, Zenon
    <2>3. CASE i \in DOMAIN journal /\ j = n
      BY <1>1, <2>3, Zenon
    <2> QED
      BY <1>1, <2>1, <2>2, <2>3, Zenon
  <1>9. RerunAcceptedOnce'
    <2> SUFFICES ASSUME NEW i \in DOMAIN journal', NEW j \in DOMAIN journal',
                        NEW k \in DOMAIN journal', i < j, j < k,
                        journal'[i].type = "marker", journal'[i].action = "rerun",
                        journal'[k].type = "marker", journal'[k].action = "rerun",
                        journal'[k].key = journal'[i].key
                 PROVE  ~Completed("rerun", journal'[j])
      BY DEF RerunAcceptedOnce, Completed
    <2>1. i # n /\ j # n
      BY <1>3
    <2>2. i \in DOMAIN journal /\ j \in DOMAIN journal
      BY <1>1, <2>1, Zenon
    <2>3. CASE k \in DOMAIN journal
      BY <1>1, <2>2, <2>3, Zenon DEF ActsOncePerKey, RerunAcceptedOnce
    <2>4. CASE k = n
      BY <1>1, <2>2, <2>4, Zenon
    <2> QED
      BY <1>1, <2>3, <2>4, Zenon
  <1> QED
    BY <1>6, <1>7, <1>8, <1>9, Zenon DEF ActsOncePerKey

-----------------------------------------------------------------------------
(* What keeps the parts of the invariant.                                  *)

Steps == {"idle", "resolved", "begun", "rechecked", "claimed", "marked", "running",
          "returned", "done"}
Ops == [step : Steps, seen : Nat, err : {"none", "failed", "generation", "unreported"}]

\* The journal is left alone or grows by one event.
Grows == journal' = journal \/ \E e \in Events : journal' = Append(journal, e)

\* A request goes one step on.
LEMMA StepFacts ==
    ASSUME TypeOK, NEW q \in Request, NEW step \in Steps, Step(q, step)
    PROVE  /\ op' \in [Request -> Ops]
           /\ op'[q].step = step /\ op'[q].seen = op[q].seen /\ op'[q].err = op[q].err
           /\ \A r \in Request : r # q => op'[r] = op[r]
  <1>1. op \in [Request -> Ops] /\ op' = [op EXCEPT ![q].step = step]
    BY Zenon DEF TypeOK, Ops, Steps, Step
  <1> QED
    BY <1>1 DEF Ops

\* A request is over.
LEMMA DoneFacts ==
    ASSUME TypeOK, NEW q \in Request, Done(q)
    PROVE  /\ op' \in [Request -> Ops] /\ op'[q].step = "done"
           /\ \A r \in Request : r # q => op'[r] = op[r]
  <1>1. op \in [Request -> Ops] /\ op' = [op EXCEPT ![q] = Gone]
    BY Zenon DEF TypeOK, Ops, Steps, Done
  <1>2. Gone \in Ops /\ Gone.step = "done"
    BY DEF Gone, NewOp, Ops, Steps
  <1> QED
    BY <1>1, <1>2, Zenon

\* A request goes one step on with a result.
LEMMA ReturnFacts ==
    ASSUME TypeOK, NEW q \in Request, NEW step \in Steps,
           NEW err \in {"none", "failed", "generation", "unreported"},
           op' = [op EXCEPT ![q].step = step, ![q].err = err]
    PROVE  /\ op' \in [Request -> Ops]
           /\ op'[q].step = step /\ op'[q].seen = op[q].seen /\ op'[q].err = err
           /\ \A r \in Request : r # q => op'[r] = op[r]
  <1>1. op \in [Request -> Ops]
    BY Zenon DEF TypeOK, Ops, Steps
  <1> QED
    BY <1>1 DEF Ops

\* A step that keeps what was read of a journal that may grow.
LEMMA ReadStep ==
    ASSUME TypeOK, JournalSound, NEW q \in Request, ReadSound(q), Grows, asked' = asked,
           op'[q].step \in Pending => op[q].step \in Pending /\ op'[q].seen = op[q].seen,
           op'[q].step = "marked" => Markers(journal', q) # {},
           op'[q].step \in {"rechecked", "claimed"} /\ asked[q].action = "rerun"
              => ~Replayed(journal', q)
    PROVE  ReadSound(q)'
  <1>1. Markers(journal, q)' = Markers(journal', q)
    BY Zenon DEF Markers
  <1>2. Replayed(journal, q)' <=> Replayed(journal', q)
    BY <1>1 DEF Replayed, Completed
  <1>3. ASSUME op'[q].step \in Pending
        PROVE  /\ op'[q].seen \in 1 .. Len(journal')
               /\ Resumable(q, Phase(Seen(q)))'
               /\ asked'[q].action # "deny" =>
                     \A i \in 1 .. op'[q].seen :
                        ~ (/\ journal'[i].type \in Resumption /\ journal'[i].key = asked'[q].key
                           /\ journal'[i].action = asked'[q].action)
    <2> DEFINE n == op[q].seen
    <2>1. /\ n \in 1 .. Len(journal) /\ Resumable(q, Phase(Seen(q)))
          /\ asked[q].action # "deny" =>
                \A i \in 1 .. n :
                   ~ (/\ journal[i].type \in Resumption /\ journal[i].key = asked[q].key
                      /\ journal[i].action = asked[q].action)
          /\ op'[q].seen = n
      BY <1>3, Zenon DEF ReadSound
    <2>2. \A i \in 1 .. n : i \in DOMAIN journal
      <3> HIDE DEF n
      <3> QED
        BY <2>1, JournalTyped
    <2>3. n \in 1 .. Len(journal') /\ SubSeq(journal', 1, n) = SubSeq(journal, 1, n)
          /\ \A i \in 1 .. n : journal'[i] = journal[i]
      <3>1. CASE journal' = journal
        BY <2>1, <3>1, Zenon
      <3>2. ASSUME NEW e \in Events, journal' = Append(journal, e)
            PROVE  n \in 1 .. Len(journal') /\ SubSeq(journal', 1, n) = SubSeq(journal, 1, n)
                   /\ \A i \in 1 .. n : journal'[i] = journal[i]
        <4>1. /\ Len(journal') = Len(journal) + 1
              /\ \A i \in DOMAIN journal : journal'[i] = journal[i]
          BY <3>2, Appended, Zenon
        <4>2. Len(journal) \in Nat /\ journal \in Seq(Events)
          BY JournalTyped, Zenon
        <4>3. SubSeq(journal', 1, n) = SubSeq(journal, 1, n)
          BY <2>1, <3>2, <4>2, PrefixKept, Zenon
        <4> HIDE DEF n
        <4>4. n \in 1 .. Len(journal')
          BY <2>1, <4>1, <4>2
        <4> QED
          BY <2>2, <4>1, <4>3, <4>4, Zenon
      <3> QED
        BY <3>1, <3>2, Zenon DEF Grows
    <2>4. Seen(q)' = Seen(q)
      BY <2>1, <2>3, Zenon DEF Seen
    <2>5. Phase(Seen(q))' = Phase(Seen(q))
      BY <2>4, Zenon DEF Phase, LastOf
    <2>6. Resumable(q, Phase(Seen(q)))'
      BY <2>1, <2>5, Zenon DEF Resumable
    <2> QED
      BY <2>1, <2>3, <2>6, Zenon
  <1> QED
    BY <1>1, <1>2, <1>3, Zenon DEF ReadSound

\* What a request has read is not disturbed by others, unless it was rechecked.
LEMMA ReadLeft ==
    ASSUME TypeOK, JournalSound, NEW q \in Request, ReadSound(q), op'[q] = op[q], asked' = asked,
           \/ journal' = journal
           \/ \E e \in Events : /\ journal' = Append(journal, e)
                                /\ \/ e.type \notin Resumption \cup {"marker"}
                                   \/ op[q].step \notin {"rechecked", "claimed"}
    PROVE  ReadSound(q)'
  <1>1. Grows
    BY Zenon DEF Grows
  <1>2. op'[q].step = op[q].step /\ op'[q].seen = op[q].seen
    BY Zenon
  <1>3. op[q].step = "marked" => Markers(journal', q) # {}
    <2> SUFFICES ASSUME op[q].step = "marked" PROVE Markers(journal', q) # {}
      OBVIOUS
    <2>1. PICK m \in DOMAIN journal : journal[m].type = "marker" /\ journal[m].key = asked[q].key
      BY Zenon DEF ReadSound, Markers
    <2>2. m \in DOMAIN journal' /\ journal'[m] = journal[m]
      BY <1>1, Appended, Zenon DEF Grows
    <2> QED
      BY <2>1, <2>2, Zenon DEF Markers
  <1>4. op[q].step \in {"rechecked", "claimed"} /\ asked[q].action = "rerun"
           => ~Replayed(journal', q)
    <2>1. journal \in Seq(Events)
      BY JournalTyped, Zenon
    <2> QED
      BY <2>1, ReplayedBefore, Zenon DEF ReadSound
  <1> QED
    BY <1>1, <1>2, <1>3, <1>4, ReadStep, Zenon

\* A request that nothing happens to, beside one that has the slot, or takes it.
LEMMA SlotLeft ==
    ASSUME TypeOK, NEW q \in Request, SlotSound(q), op'[q] = op[q], asked' = asked,
           slot' = q => slot = q, slot = q => slot' = q,
           q \in owners' => q \in owners, q \in owners => q \in owners',
           driver' = q => driver = q, driver = q => driver' = q,
           op[q].step = "returned" => driver' = NoOne
    PROVE  SlotSound(q)'
  <1>1. op'[q].step = op[q].step /\ asked'[q].action = asked[q].action
    BY Zenon
  <1> QED
    BY <1>1, Zenon DEF SlotSound

\* Only the request that has the slot is active.
LEMMA OneActive ==
    ASSUME \A q \in Request : SlotSound(q), NEW q \in Request, op[q].step \in Active
    PROVE  /\ slot = q
           /\ \A r \in Request : r # q => /\ op[r].step \notin Active /\ r \notin owners
                                          /\ driver # r /\ slot # r
  <1>1. slot = q
    BY Zenon DEF SlotSound
  <1>2. ASSUME NEW r \in Request, r # q
        PROVE  /\ op[r].step \notin Active /\ r \notin owners /\ driver # r /\ slot # r
    <2>1. op[r].step \notin Active
      BY <1>1, <1>2, Zenon DEF SlotSound
    <2>2. "running" \in Active
      BY DEF Active
    <2> QED
      BY <1>1, <1>2, <2>1, <2>2, Zenon DEF SlotSound
  <1> QED
    BY <1>1, <1>2, Zenon

\* The run goes on as it was, beside a request that has no place to give up.
LEMMA RunLeft ==
    ASSUME RunSound, driver' = driver, finalizing' = finalizing, retained' = retained /\ unread' = unread,
           Phase(journal') = Phase(journal),
           \A s \in {"start", "restored"} : s \in owners' <=> s \in owners,
           \/ ~ (retained /\ Terminal /\ ~unread)
           \/ slot' = slot /\ op'[slot] = op[slot]
    PROVE  RunSound'
  <1>1. Phase(journal)' = Phase(journal)
    BY Zenon DEF Phase, LastOf
  <1>2. Terminal' <=> Terminal
    BY <1>1 DEF Terminal
  <1>3. retained' /\ Terminal' /\ ~unread' =>
          /\ slot' \in Request
          /\ \/ op'[slot'].step = "running"
             \/ op'[slot'].step = "returned" /\ op'[slot'].err # "generation"
    BY <1>2 DEF RunSound
  <1>4. finalizing' => driver' # NoOne /\ Terminal'
    BY <1>2 DEF RunSound
  <1>5. retained' => driver' \notin {"start", "restored"}
    BY DEF RunSound
  <1>6. driver' # NoOne /\ ~finalizing' => Phase(journal)' = "running"
    BY <1>1 DEF RunSound
  <1>7. \A s \in {"start", "restored"} : s \in owners' <=> driver' = s
    BY DEF RunSound
  <1> QED
    BY <1>3, <1>4, <1>5, <1>6, <1>7, Zenon DEF RunSound

-----------------------------------------------------------------------------
(* The steps of a request.                                                 *)

\* Who is who.
LEMMA Distinct ==
    ASSUME NEW q \in Request
    PROVE  q # NoOne /\ q # "start" /\ q # "restored" /\ NoOne # "start" /\ NoOne # "restored"
  BY InterventionsAssumption

\* Others read what they have read.
LEMMA OthersRead ==
    ASSUME InterventionInv, NEW q \in Request, op[q].step \in Active, Grows, asked' = asked,
           NEW r \in Request, r # q, op'[r] = op[r]
    PROVE  ReadSound(r)'
  <1>1. TypeOK /\ JournalSound /\ ReadSound(r) /\ \A p \in Request : SlotSound(p)
    BY Zenon DEF InterventionInv
  <1>2. op[r].step \notin Active
    BY <1>1, OneActive, Zenon
  <1>3. op[r].step \notin {"rechecked", "claimed"}
    BY <1>2 DEF Active
  <1> QED
    BY <1>1, <1>3, ReadLeft, Zenon DEF Grows

\* The variables that a request's step leaves typed.
LEMMA TypeKept ==
    ASSUME TypeOK, op' \in [Request -> Ops], Grows, asked' = asked, crashes' = crashes,
           sweep' = sweep, cleanup' = cleanup,
           driver' \in Request \cup {"start", "restored", NoOne},
           holder' \in {"run", "other", NoOne}, slot' \in Request \cup {NoOne},
           owners' \subseteq Request \cup {"start", "restored"},
           finalizing' \in BOOLEAN, retained' \in BOOLEAN /\ unread' \in BOOLEAN
    PROVE  TypeOK'
  <1>1. journal' \in Seq(Events)
    BY JournalTyped, Appended, Zenon DEF Grows
  <1>2. sweep' \in BOOLEAN /\ cleanup' \in BOOLEAN /\ asked' \in Asked /\ crashes' \in 0 .. MaxCrashes
    BY Zenon DEF TypeOK
  <1> QED
    BY <1>1, <1>2, Zenon DEF TypeOK, Events, Ops, Steps

\* A request that has no slot, and takes none.
LEMMA OutsideSlot ==
    ASSUME InterventionInv, NEW q \in Request,
           op' \in [Request -> Ops], \A r \in Request : r # q => op'[r] = op[r],
           op[q].step \in {"idle", "resolved"}, op'[q].step \in {"resolved", "done"},
           ReadSound(q)',
           UNCHANGED <<journal, driver, finalizing, holder, slot, owners, retained, unread, sweep,
                       cleanup, asked, crashes>>
    PROVE  InterventionInv'
  <1>1. /\ TypeOK /\ RunSound /\ JournalSound /\ ActsOncePerKey
        /\ \A r \in Request : SlotSound(r) /\ ReadSound(r)
    BY Zenon DEF InterventionInv
  <1>2. /\ journal' = journal /\ driver' = driver /\ finalizing' = finalizing /\ holder' = holder
        /\ slot' = slot /\ owners' = owners /\ retained' = retained /\ unread' = unread /\ sweep' = sweep
        /\ cleanup' = cleanup /\ asked' = asked /\ crashes' = crashes
    BY Zenon
  <1>3. Grows /\ Phase(journal') = Phase(journal)
    BY <1>2, Zenon DEF Grows
  <1>4. TypeOK'
    <2>1. /\ driver' \in Request \cup {"start", "restored", NoOne}
          /\ holder' \in {"run", "other", NoOne} /\ slot' \in Request \cup {NoOne}
          /\ owners' \subseteq Request \cup {"start", "restored"}
          /\ finalizing' \in BOOLEAN /\ retained' \in BOOLEAN /\ unread' \in BOOLEAN
      BY <1>1, <1>2, Zenon DEF TypeOK
    <2> QED
      BY <1>1, <1>2, <1>3, <2>1, TypeKept, Zenon
  <1>5. /\ op[q].step \notin Active /\ op'[q].step \notin Active
        /\ op'[q].step # "returned" /\ "running" \in Active
    BY DEF Active
  <1>6. slot # q /\ q \notin owners /\ driver # q
    BY <1>1, <1>5, Zenon DEF SlotSound
  <1>7. ASSUME NEW r \in Request PROVE SlotSound(r)' /\ ReadSound(r)'
    <2>1. CASE r = q
      <3>1. op'[q].step \notin Active /\ op'[q].step # "running" /\ slot' # q /\ q \notin owners'
            /\ driver' # q /\ op'[q].step # "returned"
        BY <1>2, <1>5, <1>6, Zenon
      <3> QED
        BY <2>1, <3>1, Zenon DEF SlotSound
    <2>2. CASE r # q
      <3>1. op'[r] = op[r]
        BY <2>2, Zenon
      <3>2. SlotSound(r)'
        BY <1>1, <1>2, <3>1, SlotLeft, Zenon DEF SlotSound
      <3>3. ReadSound(r)'
        BY <1>1, <1>2, <3>1, ReadLeft, Zenon
      <3> QED
        BY <3>2, <3>3
    <2> QED
      BY <2>1, <2>2
  <1>8. RunSound'
    <2>1. retained /\ Terminal /\ ~unread => op'[slot] = op[slot]
      <3>1. retained /\ Terminal /\ ~unread => slot \in Request
        BY <1>1, Zenon DEF RunSound
      <3> QED
        BY <1>6, <3>1, Zenon
    <2> QED
      BY <1>1, <1>2, <1>3, <2>1, RunLeft, Zenon
  <1>9. JournalSound' /\ ActsOncePerKey'
    BY <1>1, <1>2, JournalLeft, Zenon
  <1> QED
    BY <1>4, <1>7, <1>8, <1>9, Zenon DEF InterventionInv

\* A request that takes the slot, and with it a place.
LEMMA TakesSlot ==
    ASSUME InterventionInv, NEW q \in Request,
           op[q].step = "resolved", slot = NoOne, slot' = q, Step(q, "begun"),
           owners' = IF asked[q].action = "deny" THEN owners ELSE owners \cup {q},
           UNCHANGED <<journal, driver, finalizing, holder, retained, unread, sweep, cleanup, asked,
                       crashes>>
    PROVE  InterventionInv'
  <1>1. /\ TypeOK /\ RunSound /\ JournalSound /\ ActsOncePerKey
        /\ \A r \in Request : SlotSound(r) /\ ReadSound(r)
    BY Zenon DEF InterventionInv
  <1>2. /\ journal' = journal /\ driver' = driver /\ finalizing' = finalizing /\ holder' = holder
        /\ retained' = retained /\ unread' = unread /\ sweep' = sweep /\ cleanup' = cleanup
        /\ asked' = asked /\ crashes' = crashes
    BY Zenon
  <1>3. Grows /\ Phase(journal') = Phase(journal)
    BY <1>2, Zenon DEF Grows
  <1>4. /\ op' \in [Request -> Ops] /\ op'[q].step = "begun" /\ op'[q].seen = op[q].seen
        /\ \A r \in Request : r # q => op'[r] = op[r]
    <2>1. "begun" \in Steps
      BY DEF Steps
    <2> QED
      BY <1>1, <2>1, StepFacts, Zenon
  <1>5. TypeOK'
    <2>1. /\ driver' \in Request \cup {"start", "restored", NoOne}
          /\ holder' \in {"run", "other", NoOne} /\ slot' \in Request \cup {NoOne}
          /\ owners' \subseteq Request \cup {"start", "restored"}
          /\ finalizing' \in BOOLEAN /\ retained' \in BOOLEAN /\ unread' \in BOOLEAN
      BY <1>1, <1>2 DEF TypeOK
    <2> QED
      BY <1>1, <1>2, <1>3, <1>4, <2>1, TypeKept, Zenon
  <1>6. /\ op[q].step \notin Active /\ op'[q].step \in Active /\ "running" \in Active
        /\ op'[q].step \notin Active \ {"begun"}
        /\ op'[q].step # "running" /\ op'[q].step # "returned"
    BY <1>4 DEF Active
  <1>7. driver # q
    BY <1>1, <1>6, Zenon DEF SlotSound
  <1>8. ASSUME NEW r \in Request PROVE SlotSound(r)' /\ ReadSound(r)'
    <2>1. CASE r = q
      <3>1. driver' # q /\ (asked'[q].action # "deny" => q \in owners')
        BY <1>2, <1>7, Zenon
      <3>2. SlotSound(q)'
        BY <1>6, <3>1, Zenon DEF SlotSound
      <3>3. ReadSound(q)'
        <4>1. op[q].step \in Pending /\ op'[q].step # "marked"
              /\ op'[q].step \notin {"rechecked", "claimed"}
          BY <1>4 DEF Pending
        <4> QED
          BY <1>1, <1>2, <1>3, <1>4, <4>1, ReadStep, Zenon
      <3> QED
        BY <2>1, <3>2, <3>3
    <2>2. CASE r # q
      <3>1. op'[r] = op[r] /\ r # NoOne
        BY <1>4, <2>2, Distinct, Zenon
      <3>2. SlotSound(r)'
        BY <1>1, <1>2, <2>2, <3>1, SlotLeft, Zenon DEF SlotSound
      <3>3. ReadSound(r)'
        BY <1>1, <1>2, <3>1, ReadLeft, Zenon
      <3> QED
        BY <3>2, <3>3
    <2> QED
      BY <2>1, <2>2
  <1>9. RunSound'
    <2>1. ~ (retained /\ Terminal /\ ~unread)
      BY <1>1, InterventionsAssumption DEF RunSound
    <2>2. \A x \in {"start", "restored"} : x \in owners' <=> x \in owners
      BY Distinct
    <2> QED
      BY <1>1, <1>2, <1>3, <2>1, <2>2, RunLeft, Zenon
  <1>10. JournalSound' /\ ActsOncePerKey'
    BY <1>1, <1>2, JournalLeft, Zenon
  <1> QED
    BY <1>5, <1>8, <1>9, <1>10, Zenon DEF InterventionInv

\* A request that keeps the slot.
LEMMA KeepsSlot ==
    ASSUME InterventionInv, NEW q \in Request, Grows, Phase(journal') = Phase(journal),
           op' \in [Request -> Ops], \A r \in Request : r # q => op'[r] = op[r],
           op[q].step \in {"begun", "rechecked", "claimed", "marked"},
           op'[q].step \in {"rechecked", "claimed", "marked", "returned"},
           asked[q].action # "deny",
           op'[q].step = "returned" => driver = NoOne,
           holder' \in {"run", "other", NoOne},
           ReadSound(q)', JournalSound', ActsOncePerKey',
           UNCHANGED <<driver, finalizing, slot, owners, retained, unread, sweep, cleanup, asked, crashes>>
    PROVE  InterventionInv'
  <1>1. /\ TypeOK /\ RunSound /\ JournalSound /\ ActsOncePerKey
        /\ \A r \in Request : SlotSound(r)
    BY Zenon DEF InterventionInv
  <1>2. /\ driver' = driver /\ finalizing' = finalizing /\ slot' = slot /\ owners' = owners
        /\ retained' = retained /\ unread' = unread /\ sweep' = sweep /\ cleanup' = cleanup
        /\ asked' = asked /\ crashes' = crashes
    BY Zenon
  <1>3. TypeOK'
    <2>1. /\ driver' \in Request \cup {"start", "restored", NoOne}
          /\ slot' \in Request \cup {NoOne}
          /\ owners' \subseteq Request \cup {"start", "restored"}
          /\ finalizing' \in BOOLEAN /\ retained' \in BOOLEAN /\ unread' \in BOOLEAN
      BY <1>1, <1>2, Zenon DEF TypeOK
    <2> QED
      BY <1>1, <1>2, <2>1, TypeKept, Zenon
  <1>4. /\ op[q].step \in Active /\ op'[q].step \in Active
        /\ op[q].step # "running" /\ op'[q].step # "running" /\ op[q].step # "returned"
    BY DEF Active
  <1>5. /\ slot = q
        /\ \A r \in Request : r # q => /\ op[r].step \notin Active /\ r \notin owners
                                       /\ driver # r /\ slot # r
    BY <1>1, <1>4, OneActive, Zenon
  <1>6. q \in owners /\ driver # q
    BY <1>1, <1>4, Zenon DEF SlotSound
  <1>7. ASSUME NEW r \in Request PROVE SlotSound(r)' /\ ReadSound(r)'
    <2>1. CASE r = q
      <3>1. SlotSound(q)'
        BY <1>2, <1>4, <1>5, <1>6, Zenon DEF SlotSound
      <3> QED
        BY <2>1, <3>1
    <2>2. CASE r # q
      <3>1. op'[r] = op[r]
        BY <2>2, Zenon
      <3>2. SlotSound(r)'
        BY <1>1, <1>2, <3>1, SlotLeft, Zenon DEF SlotSound
      <3>3. ReadSound(r)'
        BY <1>2, <1>4, <2>2, <3>1, OthersRead, Zenon
      <3> QED
        BY <3>2, <3>3
    <2> QED
      BY <2>1, <2>2
  <1>8. RunSound'
    <2>1. ~ (retained /\ Terminal /\ ~unread)
      BY <1>1, <1>4, <1>5, Zenon DEF RunSound
    <2> QED
      BY <1>1, <1>2, <2>1, RunLeft, Zenon
  <1> QED
    BY <1>3, <1>7, <1>8, Zenon DEF InterventionInv

\* A request that gives the slot up, and its place.
LEMMA LeavesSlot ==
    ASSUME InterventionInv, NEW q \in Request, Grows, Abandon(q),
           op[q].step \in Active \ {"running"},
           holder' \in {"run", "other", NoOne}, retained' \in BOOLEAN /\ unread' \in BOOLEAN,
           JournalSound', ActsOncePerKey', RunSound',
           UNCHANGED <<driver, finalizing, sweep, cleanup, asked, crashes>>
    PROVE  InterventionInv'
  <1>1. /\ TypeOK /\ RunSound /\ JournalSound /\ ActsOncePerKey
        /\ \A r \in Request : SlotSound(r) /\ ReadSound(r)
    BY Zenon DEF InterventionInv
  <1>2. /\ driver' = driver /\ finalizing' = finalizing /\ sweep' = sweep /\ cleanup' = cleanup
        /\ asked' = asked /\ crashes' = crashes
        /\ slot' = NoOne /\ owners' = owners \ {q} /\ Done(q)
    BY Zenon DEF Abandon
  <1>3. /\ op' \in [Request -> Ops] /\ op'[q].step = "done"
        /\ \A r \in Request : r # q => op'[r] = op[r]
    BY <1>1, <1>2, DoneFacts, Zenon
  <1>4. TypeOK'
    <2>1. /\ driver' \in Request \cup {"start", "restored", NoOne}
          /\ slot' \in Request \cup {NoOne}
          /\ owners' \subseteq Request \cup {"start", "restored"}
          /\ finalizing' \in BOOLEAN
      BY <1>1, <1>2, Zenon DEF TypeOK
    <2> QED
      BY <1>1, <1>2, <1>3, <2>1, TypeKept, Zenon
  <1>5. op[q].step \in Active /\ op[q].step # "running"
    BY DEF Active
  <1>6. \A r \in Request : r # q => /\ op[r].step \notin Active /\ r \notin owners
                                    /\ driver # r /\ slot # r
    BY <1>1, <1>5, OneActive, Zenon
  <1>7. q # NoOne /\ driver # q
    BY <1>1, <1>5, Distinct, Zenon DEF SlotSound
  <1>8. ASSUME NEW r \in Request PROVE SlotSound(r)' /\ ReadSound(r)'
    <2>1. CASE r = q
      <3>1. /\ op'[q].step \notin Active /\ op'[q].step # "running"
            /\ op'[q].step # "returned"
            /\ op'[q].step \notin {"marked", "returned", "rechecked", "claimed"}
            /\ op'[q].step \notin Pending
        BY <1>3 DEF Active, Pending
      <3>2. SlotSound(q)'
        BY <1>2, <1>7, <3>1, Zenon DEF SlotSound
      <3>3. ReadSound(q)'
        BY <3>1 DEF ReadSound
      <3> QED
        BY <2>1, <3>2, <3>3
    <2>2. CASE r # q
      <3>1. op'[r] = op[r] /\ r # NoOne
        BY <1>3, <2>2, Distinct, Zenon
      <3>2. SlotSound(r)'
        BY <1>1, <1>2, <1>6, <2>2, <3>1, SlotLeft, Zenon DEF SlotSound
      <3>3. ReadSound(r)'
        BY <1>2, <1>5, <2>2, <3>1, OthersRead, Zenon
      <3> QED
        BY <3>2, <3>3
    <2> QED
      BY <2>1, <2>2
  <1> QED
    BY <1>4, <1>8, Zenon DEF InterventionInv

-----------------------------------------------------------------------------
(* The actions of a request.                                               *)

\* The parts of the invariant.
LEMMA Parts ==
    ASSUME InterventionInv
    PROVE  /\ TypeOK /\ RunSound /\ JournalSound /\ ActsOncePerKey
           /\ \A r \in Request : SlotSound(r) /\ ReadSound(r)
           /\ op \in [Request -> Ops] /\ journal \in Seq(Events)
           /\ holder \in {"run", "other", NoOne} /\ Released \in {"run", "other", NoOne}
           /\ retained \in BOOLEAN /\ unread \in BOOLEAN
  <1>1. /\ TypeOK /\ RunSound /\ JournalSound /\ ActsOncePerKey
        /\ \A r \in Request : SlotSound(r) /\ ReadSound(r)
    BY Zenon DEF InterventionInv
  <1>2. op \in [Request -> Ops] /\ holder \in {"run", "other", NoOne} /\ retained \in BOOLEAN /\ unread \in BOOLEAN
    BY <1>1, Zenon DEF TypeOK, Ops, Steps
  <1>3. Released \in {"run", "other", NoOne}
    BY <1>2 DEF Released
  <1> QED
    BY <1>1, <1>2, <1>3, JournalTyped, Zenon

\* Giving the slot up before the run was resumed leaves the run as it was.
LEMMA AbandonRun ==
    ASSUME InterventionInv, NEW q \in Request, Abandon(q),
           op[q].step \in Active \ {"running", "returned"},
           Phase(journal') = Phase(journal), UNCHANGED <<driver, finalizing, retained, unread>>
    PROVE  RunSound'
  <1>1. RunSound /\ \A r \in Request : SlotSound(r)
    BY Parts, Zenon
  <1>2. slot = q
    BY <1>1, Zenon DEF SlotSound
  <1>3. ~ (retained /\ Terminal /\ ~unread)
    BY <1>1, <1>2, Zenon DEF RunSound
  <1>4. owners' = owners \ {q}
    BY Zenon DEF Abandon
  <1>5. \A x \in {"start", "restored"} : x \in owners' <=> x \in owners
    BY <1>4, Distinct
  <1>6. driver' = driver /\ finalizing' = finalizing /\ retained' = retained /\ unread' = unread
    BY Zenon
  <1> QED
    BY <1>1, <1>3, <1>5, <1>6, RunLeft, Zenon

\* Giving up with the journal as it is.
LEMMA AbandonKeeps ==
    ASSUME InterventionInv, NEW q \in Request, Abandon(q),
           op[q].step \in Active \ {"running", "returned"},
           holder' \in {"run", "other", NoOne},
           UNCHANGED <<journal, driver, finalizing, retained, unread, sweep, cleanup, asked, crashes>>
    PROVE  InterventionInv'
  <1>1. /\ journal' = journal /\ retained' = retained /\ unread' = unread
        /\ UNCHANGED <<driver, finalizing, retained, unread>>
        /\ UNCHANGED <<driver, finalizing, sweep, cleanup, asked, crashes>>
    BY Zenon
  <1>2. Grows /\ Phase(journal') = Phase(journal)
    BY <1>1, Zenon DEF Grows
  <1>3. JournalSound' /\ ActsOncePerKey' /\ retained' \in BOOLEAN /\ unread' \in BOOLEAN
    BY <1>1, Parts, JournalLeft, Zenon
  <1>4. RunSound'
    BY <1>1, <1>2, AbandonRun, Zenon
  <1>5. op[q].step \in Active \ {"running"}
    BY Zenon
  <1> QED
    BY <1>1, <1>2, <1>3, <1>4, <1>5, LeavesSlot, Zenon

\* Service.resolve: what is read has no trace of the request's being carried out.
LEMMA ResolveKeeps ==
    ASSUME InterventionInv, NEW q \in Request, Resolve(q)
    PROVE  InterventionInv'
  <1> DEFINE n == Len(journal)
             stop == \/ IF asked[q].action = "deny" THEN Denied(journal, q)
                                                    ELSE Replayed(journal, q)
                     \/ ~Resumable(q, Phase(journal))
  <1>1. /\ TypeOK /\ JournalSound /\ op \in [Request -> Ops] /\ journal \in Seq(Events)
        /\ n \in Nat /\ DOMAIN journal = 1 .. n
    BY Parts, JournalTyped, Zenon
  <1>2. /\ op[q].step = "idle"
        /\ IF stop THEN Done(q)
                   ELSE op' = [op EXCEPT ![q].step = "resolved", ![q].seen = n]
        /\ UNCHANGED <<journal, driver, finalizing, holder, slot, owners, retained, unread,
                       sweep, cleanup, asked, crashes>>
        /\ journal' = journal /\ asked' = asked
    BY Zenon DEF Resolve
  <1>3. n >= 1
    BY <1>1 DEF JournalSound
  <1> HIDE DEF n, stop
  <1>4. /\ op' \in [Request -> Ops]
        /\ op'[q].step = IF stop THEN "done" ELSE "resolved"
        /\ ~stop => op'[q].seen = n
        /\ \A r \in Request : r # q => op'[r] = op[r]
    <2>1. CASE stop
      BY <1>1, <1>2, <2>1, DoneFacts, Zenon
    <2>2. CASE ~stop
      <3>1. op' = [op EXCEPT ![q].step = "resolved", ![q].seen = n]
        BY <1>2, <2>2, Zenon
      <3> QED
        BY <1>1, <2>2, <3>1 DEF Ops, Steps
    <2> QED
      BY <2>1, <2>2
  <1>5. op'[q].step \in {"resolved", "done"} /\ op[q].step \in {"idle", "resolved"}
    BY <1>2, <1>4
  <1>6. ReadSound(q)'
    <2>1. /\ op'[q].step # "marked" /\ op'[q].step \notin {"rechecked", "claimed"}
      BY <1>5
    <2>2. ASSUME op'[q].step \in Pending
          PROVE  /\ op'[q].seen \in 1 .. Len(journal')
                 /\ Resumable(q, Phase(Seen(q)))'
                 /\ asked'[q].action # "deny" =>
                       \A i \in 1 .. op'[q].seen :
                          ~ (/\ journal'[i].type \in Resumption /\ journal'[i].key = asked'[q].key
                             /\ journal'[i].action = asked'[q].action)
      <3>1. ~stop
        BY <1>4, <2>2 DEF Pending
      <3>2. /\ Resumable(q, Phase(journal))
            /\ asked[q].action # "deny" => ~Replayed(journal, q)
        BY <3>1, Zenon DEF stop
      <3>3. n \in 1 .. n
        BY <1>1, <1>3
      <3>4. Seen(q)' = journal
        <4>1. SubSeq(journal, 1, n) = journal
          BY <1>1, WholePrefix, Zenon DEF n
        <4> QED
          BY <1>2, <1>4, <3>1, <4>1, Zenon DEF Seen
      <3>5. Resumable(q, Phase(Seen(q)))'
        <4>1. Phase(Seen(q))' = Phase(journal)
          BY <3>4, Zenon DEF Phase, LastOf
        <4> QED
          BY <1>2, <3>2, <4>1, Zenon DEF Resumable
      <3>6. ASSUME asked[q].action # "deny", NEW i \in 1 .. n,
                   journal[i].type \in Resumption, journal[i].key = asked[q].key,
                   journal[i].action = asked[q].action
            PROVE  FALSE
        <4>1. i \in DOMAIN journal
          BY <1>1, Zenon
        <4>2. PICK m \in 1 .. (i - 1) :
                  journal[m].type = "marker" /\ journal[m].key = journal[i].key
          BY <1>1, <3>6, <4>1, Zenon DEF JournalSound
        <4>3. m \in DOMAIN journal /\ m < i
          BY <1>1, <4>1, <4>2
        <4>4. m \in Markers(journal, q)
          BY <3>6, <4>2, <4>3, Zenon DEF Markers
        <4>5. Completed(asked[q].action, journal[i])
          <5>1. journal[i].type = "resumed" \/ journal[i].type = "evaluated"
            BY <3>6 DEF Resumption
          <5> QED
            BY <1>1, <3>6, <4>1, <5>1, Zenon DEF Completed, JournalSound
        <4> QED
          BY <1>1, <3>2, <3>6, <4>1, <4>3, <4>4, <4>5, CarriedOut, Zenon
      <3>7. /\ op'[q].seen = n /\ Len(journal') = n /\ journal' = journal /\ asked' = asked
        BY <1>2, <1>4, <3>1, Zenon DEF n
      <3> QED
        BY <3>3, <3>5, <3>6, <3>7, Zenon
    <2> QED
      BY <2>1, <2>2, Zenon DEF ReadSound
  <1> QED
    BY <1>2, <1>4, <1>5, <1>6, OutsideSlot, Zenon

\* Service.beginExecution takes the slot and a place, or gives up.
LEMMA BeginExecutionKeeps ==
    ASSUME InterventionInv, NEW q \in Request, BeginExecution(q)
    PROVE  InterventionInv'
  <1>1. /\ op[q].step = "resolved" /\ asked[q].action # "deny"
        /\ UNCHANGED <<journal, driver, finalizing, holder, retained, unread, sweep, cleanup, asked,
                       crashes>>
    BY Zenon DEF BeginExecution
  <1>2. CASE slot = NoOne /\ slot' = q /\ owners' = owners \cup {q} /\ Step(q, "begun")
    BY <1>1, <1>2, TakesSlot, Zenon
  <1>3. CASE Done(q) /\ UNCHANGED <<slot, owners>>
    <2>2. /\ op' \in [Request -> Ops] /\ op'[q].step = "done"
          /\ \A r \in Request : r # q => op'[r] = op[r]
      BY <1>3, Parts, DoneFacts, Zenon
    <2>3. ReadSound(q)'
      <3>1. /\ op'[q].step \notin {"marked", "rechecked", "claimed"} /\ op'[q].step \notin Pending
            /\ op'[q].step # "marked"
        BY <2>2 DEF Pending
      <3> QED
        BY <3>1 DEF ReadSound
    <2>4. UNCHANGED <<journal, driver, finalizing, holder, slot, owners, retained, unread, sweep,
                      cleanup, asked, crashes>>
      BY <1>1, <1>3, Zenon
    <2>5. op[q].step \in {"idle", "resolved"} /\ op'[q].step \in {"resolved", "done"}
      BY <1>1, <2>2
    <2> QED
      BY <2>2, <2>3, <2>4, <2>5, OutsideSlot, Zenon
  <1> QED
    BY <1>2, <1>3, Zenon DEF BeginExecution

\* Service.AcceptDenyEscalation takes the slot, or gives up.
LEMMA BeginDenyKeeps ==
    ASSUME InterventionInv, NEW q \in Request, BeginDeny(q)
    PROVE  InterventionInv'
  <1>1. /\ op[q].step = "resolved" /\ asked[q].action = "deny" /\ owners' = owners
        /\ UNCHANGED <<journal, driver, finalizing, holder, retained, unread, sweep, cleanup, asked,
                       crashes>>
        /\ UNCHANGED <<journal, driver, finalizing, holder, owners, retained, unread, sweep, cleanup,
                       asked, crashes>>
    BY Zenon DEF BeginDeny
  <1>2. CASE slot = NoOne
    <2>1. slot' = q /\ Step(q, "begun")
      BY <1>2, Zenon DEF BeginDeny
    <2> QED
      BY <1>1, <1>2, <2>1, TakesSlot, Zenon
  <1>3. CASE slot # NoOne
    <2>0. slot' = slot /\ Done(q)
      BY <1>3, Zenon DEF BeginDeny
    <2>2. /\ op' \in [Request -> Ops] /\ op'[q].step = "done"
          /\ \A r \in Request : r # q => op'[r] = op[r]
      BY <2>0, Parts, DoneFacts, Zenon
    <2>3. ReadSound(q)'
      <3>1. /\ op'[q].step \notin {"marked", "rechecked", "claimed"} /\ op'[q].step \notin Pending
            /\ op'[q].step # "marked"
        BY <2>2 DEF Pending
      <3> QED
        BY <3>1 DEF ReadSound
    <2>4. UNCHANGED <<journal, driver, finalizing, holder, slot, owners, retained, unread, sweep,
                      cleanup, asked, crashes>>
      BY <1>1, <2>0, Zenon
    <2>5. op[q].step \in {"idle", "resolved"} /\ op'[q].step \in {"resolved", "done"}
      BY <1>1, <2>2
    <2> QED
      BY <2>2, <2>3, <2>4, <2>5, OutsideSlot, Zenon
  <1> QED
    BY <1>2, <1>3

\* A step under the slot that writes nothing.
LEMMA GoesOn ==
    ASSUME InterventionInv, NEW q \in Request, NEW step \in {"rechecked", "claimed"},
           Step(q, step), asked[q].action # "deny", holder' \in {"run", "other", NoOne},
           op[q].step \in {"begun", "rechecked"},
           asked[q].action = "rerun" => ~Replayed(journal, q),
           UNCHANGED <<journal, driver, finalizing, slot, owners, retained, unread, sweep, cleanup, asked,
                       crashes>>
    PROVE  InterventionInv'
  <1>1. step \in Steps
    BY DEF Steps
  <1>2. /\ op' \in [Request -> Ops] /\ op'[q].step = step /\ op'[q].seen = op[q].seen
        /\ \A r \in Request : r # q => op'[r] = op[r]
    BY <1>1, Parts, StepFacts, Zenon
  <1>3. /\ journal' = journal /\ asked' = asked
        /\ UNCHANGED <<driver, finalizing, slot, owners, retained, unread, sweep, cleanup, asked, crashes>>
    BY Zenon
  <1>4. Grows /\ Phase(journal') = Phase(journal)
    BY <1>3, Zenon DEF Grows
  <1>5. /\ op'[q].step \in {"rechecked", "claimed", "marked", "returned"}
        /\ op[q].step \in {"begun", "rechecked", "claimed", "marked"}
        /\ op[q].step \in Pending /\ op'[q].step # "marked"
        /\ op'[q].step # "returned"
    BY <1>2 DEF Pending
  <1>6. ReadSound(q)'
    BY <1>2, <1>3, <1>4, <1>5, Parts, ReadStep, Zenon
  <1>7. JournalSound' /\ ActsOncePerKey'
    BY <1>3, Parts, JournalLeft, Zenon
  <1> QED
    BY <1>2, <1>3, <1>4, <1>5, <1>6, <1>7, KeepsSlot, Zenon

\* recheckRerunAcceptance.
LEMMA RecheckRerunKeeps ==
    ASSUME InterventionInv, NEW q \in Request, RecheckRerun(q)
    PROVE  InterventionInv'
  <1>1. /\ op[q].step = "begun" /\ asked[q].action = "rerun" /\ holder' = holder
        /\ UNCHANGED <<journal, driver, finalizing, retained, unread, sweep, cleanup, asked, crashes>>
    BY Zenon DEF RecheckRerun
  <1>2. holder' \in {"run", "other", NoOne}
    BY <1>1, Parts, Zenon
  <1>3. CASE Abandon(q)
    <2>1. op[q].step \in Active \ {"running", "returned"}
      BY <1>1 DEF Active
    <2> QED
      BY <1>1, <1>2, <1>3, <2>1, AbandonKeeps, Zenon
  <1>4. CASE ~Replayed(journal, q) /\ Step(q, "rechecked") /\ UNCHANGED <<slot, owners>>
    <2>1. asked[q].action # "deny" /\ op[q].step \in {"begun", "rechecked"}
      BY <1>1
    <2>2. UNCHANGED <<journal, driver, finalizing, slot, owners, retained, unread, sweep, cleanup, asked,
                      crashes>>
      BY <1>1, <1>4, Zenon
    <2>3. "rechecked" \in {"rechecked", "claimed"}
      OBVIOUS
    <2> QED
      BY <1>2, <1>4, <2>1, <2>2, <2>3, GoesOn, Zenon
  <1> QED
    BY <1>3, <1>4, Zenon DEF RecheckRerun

\* Service.reacquireClaims.
LEMMA ReacquireClaimsKeeps ==
    ASSUME InterventionInv, NEW q \in Request, ReacquireClaims(q)
    PROVE  InterventionInv'
  <1>1. /\ op[q].step = IF asked[q].action = "rerun" THEN "rechecked" ELSE "begun"
        /\ asked[q].action # "deny"
        /\ UNCHANGED <<journal, driver, finalizing, retained, unread, sweep, cleanup, asked, crashes>>
    BY Zenon DEF ReacquireClaims
  <1>2. CASE Abandon(q) /\ UNCHANGED holder
    <2>1. op[q].step \in Active \ {"running", "returned"}
      BY <1>1 DEF Active
    <2>2. holder' \in {"run", "other", NoOne}
      BY <1>2, Parts, Zenon
    <2> QED
      BY <1>1, <1>2, <2>1, <2>2, AbandonKeeps, Zenon
  <1>3. CASE holder' = "run" /\ Step(q, "claimed") /\ UNCHANGED <<slot, owners>>
    <2>1. op[q].step \in {"begun", "rechecked"}
      BY <1>1
    <2>2. asked[q].action = "rerun" => ~Replayed(journal, q)
      <3>1. asked[q].action = "rerun" => op[q].step \in {"rechecked", "claimed"}
        BY <1>1
      <3> QED
        BY <3>1, Parts, Zenon DEF ReadSound
    <2>3. UNCHANGED <<journal, driver, finalizing, slot, owners, retained, unread, sweep, cleanup, asked,
                      crashes>>
      BY <1>1, <1>3, Zenon
    <2>4. "claimed" \in {"rechecked", "claimed"} /\ holder' \in {"run", "other", NoOne}
      BY <1>3
    <2> QED
      BY <1>1, <1>3, <2>1, <2>2, <2>3, <2>4, GoesOn, Zenon
  <1> QED
    BY <1>2, <1>3, Zenon DEF ReacquireClaims

\* The budget of the request ran out.
LEMMA GiveUpKeeps ==
    ASSUME InterventionInv, NEW q \in Request, GiveUp(q)
    PROVE  InterventionInv'
  <1>1. /\ op[q].step = "claimed" /\ Abandon(q)
        /\ holder' = IF asked[q].action = "rerun" THEN Released ELSE holder
        /\ UNCHANGED <<journal, driver, finalizing, retained, unread, sweep, cleanup, asked, crashes>>
    BY Zenon DEF GiveUp
  <1>2. op[q].step \in Active \ {"running", "returned"}
    BY <1>1 DEF Active
  <1>3. holder' \in {"run", "other", NoOne}
    BY <1>1, Parts, Zenon
  <1> QED
    BY <1>1, <1>2, <1>3, AbandonKeeps, Zenon

\* recordInterventionMarker: a rerun that is marked was not carried out under its key.
LEMMA RecordMarkerKeeps ==
    ASSUME InterventionInv, NEW q \in Request, RecordMarker(q)
    PROVE  InterventionInv'
  <1> DEFINE e == Event("marker", asked[q].action, asked[q].key)
  <1>1. /\ op[q].step = "claimed" /\ Step(q, "marked")
        /\ holder' = holder /\ asked' = asked
        /\ UNCHANGED <<driver, finalizing, slot, owners, retained, unread, sweep, cleanup, asked, crashes>>
    BY Zenon DEF RecordMarker
  <1>2. journal' = IF Markers(Seen(q), q) # {} THEN journal ELSE Append(journal, e)
    BY Zenon DEF RecordMarker
  <1>3. e \in Events /\ e.type = "marker" /\ e.action = asked[q].action /\ e.key = asked[q].key
    <2>1. "marker" \in Annotation \cup Resumption
      BY DEF Annotation
    <2>2. e \in Events
      BY <2>1, Parts, EventsTyped, Zenon
    <2> QED
      BY <2>2 DEF Event
  <1> HIDE DEF e
  <1>4. "marked" \in Steps /\ "marked" \in Pending /\ "claimed" \in Pending
    BY DEF Steps, Pending
  <1>5. /\ op' \in [Request -> Ops] /\ op'[q].step = "marked" /\ op'[q].seen = op[q].seen
        /\ \A r \in Request : r # q => op'[r] = op[r]
    BY <1>1, <1>4, Parts, StepFacts, Zenon
  <1>6. asked[q].action # "deny"
    <2>1. op[q].step \in Active \ {"begun"}
      BY <1>1 DEF Active
    <2> QED
      BY <2>1, Parts, Zenon DEF SlotSound
  <1>7. /\ Grows /\ Phase(journal') = Phase(journal) /\ JournalSound' /\ ActsOncePerKey'
        /\ Markers(journal', q) # {}
    <2>1. CASE Markers(Seen(q), q) # {}
      <3>1. journal' = journal
        BY <1>2, <2>1, Zenon
      <3>2. PICK m \in DOMAIN Seen(q) : Seen(q)[m].type = "marker" /\ Seen(q)[m].key = asked[q].key
        BY <2>1, Zenon DEF Markers
      <3>3. op[q].seen \in 1 .. Len(journal)
        BY <1>1, <1>4, Parts, Zenon DEF ReadSound
      <3>4. op[q].seen \in 0 .. Len(journal)
        BY <3>3, Parts, SeqFacts
      <3>5. /\ Seen(q) \in Seq(Events) /\ Len(Seen(q)) = op[q].seen
            /\ \A i \in 1 .. op[q].seen : i \in 1 .. Len(journal) /\ Seen(q)[i] = journal[i]
        BY <3>4, Parts, PrefixFacts, Zenon DEF Seen
      <3>6. m \in 1 .. op[q].seen
        BY <3>2, <3>5, SeqFacts, Zenon
      <3>7. m \in DOMAIN journal /\ journal[m] = Seen(q)[m]
        BY <3>5, <3>6, Parts, JournalTyped, Zenon
      <3>8. m \in Markers(journal, q)
        BY <3>2, <3>7, Zenon DEF Markers
      <3>9. Grows /\ Phase(journal') = Phase(journal) /\ JournalSound' /\ ActsOncePerKey'
        BY <3>1, Parts, JournalLeft, Zenon DEF Grows
      <3> QED
        BY <3>1, <3>8, <3>9, Zenon
    <2>2. CASE Markers(Seen(q), q) = {}
      <3>1. journal' = Append(journal, e)
        BY <1>2, <2>2, Zenon
      <3>2. e.type \in Annotation /\ e.type \notin Resumption /\ e.type # "denied"
            /\ e.type # "evaluated"
        BY <1>3 DEF Annotation, Resumption
      <3>3. Phase(journal') = Phase(journal)
        BY <1>3, <3>1, <3>2, Parts, PhaseAppend, Zenon DEF JournalSound
      <3>4. ASSUME e.action = "rerun", NEW i \in DOMAIN journal, NEW j \in DOMAIN journal, i < j,
                   journal[i].type = "marker", journal[i].action = "rerun",
                   journal[i].key = e.key, Completed("rerun", journal[j])
            PROVE  FALSE
        <4>1. asked[q].action = "rerun" /\ i \in Markers(journal, q)
          BY <1>3, <3>4, Zenon DEF Markers
        <4>2. Replayed(journal, q)
          BY <3>4, <4>1, Parts, CarriedOut, Zenon
        <4>3. op[q].step \in {"rechecked", "claimed"}
          BY <1>1
        <4> QED
          BY <4>1, <4>2, <4>3, Parts, Zenon DEF ReadSound
      <3>5. JournalSound' /\ ActsOncePerKey'
        BY <1>3, <3>1, <3>2, <3>4, Parts, JournalAppended, Zenon
      <3>6. Len(journal) + 1 \in DOMAIN journal' /\ journal'[Len(journal) + 1] = e
        BY <1>3, <3>1, Parts, Appended, Zenon
      <3>7. Len(journal) + 1 \in Markers(journal', q)
        BY <1>3, <3>6, Zenon DEF Markers
      <3> QED
        BY <1>3, <3>1, <3>3, <3>5, <3>7, Zenon DEF Grows
    <2> QED
      BY <2>1, <2>2
  <1>8. ReadSound(q)'
    <2>1. op'[q].step \notin {"rechecked", "claimed"}
      BY <1>5
    <2> QED
      BY <1>1, <1>4, <1>5, <1>7, <2>1, Parts, ReadStep, Zenon
  <1>9. /\ op[q].step \in {"begun", "rechecked", "claimed", "marked"}
        /\ op'[q].step \in {"rechecked", "claimed", "marked", "returned"}
        /\ op'[q].step # "returned"
        /\ holder' \in {"run", "other", NoOne}
    BY <1>1, <1>5, Parts
  <1> QED
    BY <1>1, <1>5, <1>6, <1>7, <1>8, <1>9, KeepsSlot, Zenon

\* The run is resumed: nothing was resumed under the key since it was read.
LEMMA ResumesKeeps ==
    ASSUME InterventionInv, NEW q \in Request, op[q].step = "marked", driver = NoOne,
           Bound(q), Resumes(q),
           UNCHANGED <<finalizing, slot, owners, retained, unread, sweep, cleanup, asked, crashes>>
    PROVE  InterventionInv'
  <1> DEFINE type == IF Phase(journal) = "paused" THEN "evaluated" ELSE "resumed"
             e == Event(type, asked[q].action, asked[q].key)
  <1>1. /\ journal' = Append(journal, e) /\ driver' = q /\ Step(q, "running") /\ holder' = holder
        /\ finalizing' = finalizing /\ slot' = slot /\ owners' = owners /\ retained' = retained /\ unread' = unread
        /\ sweep' = sweep /\ cleanup' = cleanup /\ asked' = asked /\ crashes' = crashes
    BY Zenon DEF Resumes
  <1>2. type \in Resumption /\ type \in Annotation \cup Resumption /\ type \notin {"marker", "denied"}
    BY DEF Resumption
  <1>3. type = "evaluated" => Phase(journal) = "paused"
    OBVIOUS
  <1>4. e \in Events /\ e.type = type /\ e.action = asked[q].action /\ e.key = asked[q].key
    <2>1. e \in Events
      BY <1>2, Parts, EventsTyped, Zenon
    <2> QED
      BY <2>1 DEF Event
  <1> HIDE DEF e, type
  <1>5. "running" \in Steps /\ "marked" \in Pending /\ "marked" \in Active
        /\ "running" \in Active /\ "running" \notin Pending /\ "marked" \in Active \ {"begun"}
        /\ "running" \notin {"marked", "returned", "rechecked", "claimed", "begun"}
    BY DEF Steps, Pending, Active
  <1>6. /\ op' \in [Request -> Ops] /\ op'[q].step = "running"
        /\ \A r \in Request : r # q => op'[r] = op[r]
    BY <1>1, <1>5, Parts, StepFacts, Zenon
  <1>7. /\ slot = q /\ q \in owners /\ asked[q].action # "deny"
        /\ \A r \in Request : r # q => /\ op[r].step \notin Active /\ r \notin owners
                                       /\ driver # r /\ slot # r
    BY <1>5, Parts, OneActive, Zenon DEF SlotSound
  <1>8. /\ op[q].seen \in 1 .. Len(journal) /\ Resumable(q, Phase(Seen(q)))
        /\ \A i \in 1 .. op[q].seen :
              ~ (/\ journal[i].type \in Resumption /\ journal[i].key = asked[q].key
                 /\ journal[i].action = asked[q].action)
        /\ Markers(journal, q) # {}
    BY <1>5, <1>7, Parts, Zenon DEF ReadSound
  <1>9. /\ Phase(journal) = Phase(Seen(q)) /\ Segment(journal) = Segment(SubSeq(journal, 1, op[q].seen))
    BY Zenon DEF Bound, Seen
  <1>10. /\ Phase(journal) \in Stops
         /\ Phase(journal) = "paused" => asked[q].action = "approve"
    BY <1>8, <1>9 DEF Resumable, Stops, Ends
  <1>11. journal # <<>> /\ journal[1].type = "started"
    BY Parts, Zenon DEF JournalSound
  <1>12. Grows /\ Phase(journal') = "running"
    BY <1>1, <1>2, <1>4, <1>11, Parts, PhaseAppend, Zenon DEF Grows
  <1>13. JournalSound' /\ ActsOncePerKey'
    <2>1. \A i \in DOMAIN journal :
             ~ (/\ journal[i].type \in Resumption
                /\ journal[i].key = e.key /\ journal[i].action = e.action)
      <3>1. \A i \in DOMAIN journal : journal[i].type \in Resumption => i \in 1 .. op[q].seen
        BY <1>8, <1>9, <1>10, <1>11, Parts, NotResumedSince, Zenon
      <3> QED
        BY <1>4, <1>8, <3>1, Zenon
    <2>2. \E m \in DOMAIN journal : journal[m].type = "marker" /\ journal[m].key = e.key
      BY <1>4, <1>8, Zenon DEF Markers
    <2>3. e.type = "evaluated" => e.action = "approve"
      BY <1>3, <1>4, <1>10, Zenon
    <2>4. e.type # "marker" /\ e.type # "denied"
      BY <1>2, <1>4, Zenon
    <2> QED
      BY <1>1, <1>4, <2>1, <2>2, <2>3, <2>4, Parts, JournalAppended, Zenon
  <1>14. TypeOK'
    <2>1. /\ driver' \in Request \cup {"start", "restored", NoOne}
          /\ holder' \in {"run", "other", NoOne} /\ slot' \in Request \cup {NoOne}
          /\ owners' \subseteq Request \cup {"start", "restored"}
          /\ finalizing' \in BOOLEAN /\ retained' \in BOOLEAN /\ unread' \in BOOLEAN
      BY <1>1, Parts, Zenon DEF TypeOK
    <2> QED
      BY <1>1, <1>6, <1>12, <2>1, Parts, TypeKept, Zenon
  <1>15. RunSound'
    <2>1. /\ ~finalizing /\ \A s \in {"start", "restored"} : s \notin owners
      BY Parts, Distinct, Zenon DEF RunSound
    <2>2. /\ \A s \in {"start", "restored"} : s \in owners' <=> driver' = s
      BY <1>1, <2>1, Distinct
    <2>3. ~Terminal'
      BY <1>12 DEF Terminal, Ends
    <2>4. driver' # NoOne /\ driver' \notin {"start", "restored"} /\ ~finalizing'
      BY <1>1, <2>1, Distinct
    <2>5. Phase(journal)' = "running"
      BY <1>12, Zenon DEF Phase, LastOf
    <2> QED
      BY <2>2, <2>3, <2>4, <2>5, Zenon DEF RunSound
  <1>16. ASSUME NEW r \in Request
         PROVE  SlotSound(r)' /\ ReadSound(r)'
    <2>1. CASE r = q
      <3>1. SlotSound(q)'
        BY <1>1, <1>5, <1>6, <1>7, Zenon DEF SlotSound
      <3>2. ReadSound(q)'
        BY <1>1, <1>5, <1>6, <1>12, Parts, ReadStep, Zenon
      <3> QED
        BY <2>1, <3>1, <3>2, Zenon
    <2>2. CASE r # q
      <3>1. op[r].step # "returned"
        BY <1>7, <2>2 DEF Active
      <3>2. SlotSound(r)'
        BY <1>1, <1>6, <1>7, <2>2, <3>1, Parts, SlotLeft, Zenon
      <3>3. ReadSound(r)'
        BY <1>1, <1>5, <1>6, <1>12, <2>2, OthersRead, Zenon
      <3> QED
        BY <3>2, <3>3
    <2> QED
      BY <2>1, <2>2
  <1> QED
    BY <1>13, <1>14, <1>15, <1>16, Zenon DEF InterventionInv

\* The resumption of the run, or its refusal.
LEMMA ResumeRunKeeps ==
    ASSUME InterventionInv, NEW q \in Request, ResumeRun(q)
    PROVE  InterventionInv'
  <1>1. /\ op[q].step = "marked" /\ driver = NoOne /\ asked' = asked
        /\ UNCHANGED <<finalizing, slot, owners, retained, unread, sweep, cleanup, asked, crashes>>
    BY Zenon DEF ResumeRun
  <1>2. CASE Bound(q) /\ Resumes(q)
    BY <1>1, <1>2, ResumesKeeps, Zenon
  <1>3. CASE ResumeRefused(q)
    <2>1. /\ holder' = Released \/ holder' = holder
          /\ journal' = journal /\ driver' = driver
      BY <1>3, Zenon DEF ResumeRefused
    <2>2. PICK err \in {"failed", "unreported", "generation"} : Fails(q, err)
      BY <1>3, Zenon DEF ResumeRefused
    <2>3. /\ op' \in [Request -> Ops] /\ op'[q].step = "returned"
          /\ \A r \in Request : r # q => op'[r] = op[r]
      <3>1. err \in {"none", "failed", "generation", "unreported"} /\ "returned" \in Steps
        BY DEF Steps
      <3> QED
        BY <2>2, <3>1, Parts, ReturnFacts, Zenon DEF Fails
    <2>4. asked[q].action # "deny"
      <3>1. op[q].step \in Active \ {"begun"}
        BY <1>1 DEF Active
      <3> QED
        BY <3>1, Parts, Zenon DEF SlotSound
    <2>5. Grows /\ Phase(journal') = Phase(journal)
      BY <2>1, Zenon DEF Grows
    <2>6. /\ op'[q].step \notin Pending /\ op'[q].step # "marked"
          /\ op'[q].step \notin {"rechecked", "claimed"}
          /\ op[q].step \in {"begun", "rechecked", "claimed", "marked"}
          /\ op'[q].step \in {"rechecked", "claimed", "marked", "returned"}
      BY <1>1, <2>3 DEF Pending
    <2>7. ReadSound(q)'
      BY <1>1, <2>5, <2>6, Parts, ReadStep, Zenon
    <2>8. JournalSound' /\ ActsOncePerKey'
      BY <2>1, Parts, JournalLeft, Zenon
    <2>9. holder' \in {"run", "other", NoOne}
      BY <2>1, Parts, Zenon
    <2>10. UNCHANGED <<driver, finalizing, slot, owners, retained, unread, sweep, cleanup, asked, crashes>>
      BY <1>1, <2>1, Zenon
    <2> QED
      BY <1>1, <2>3, <2>4, <2>5, <2>6, <2>7, <2>8, <2>9, <2>10, KeepsSlot, Zenon
  <1> QED
    BY <1>2, <1>3, Zenon DEF ResumeRun

\* finishExecution: a run that has ended gives up the place retained for it.
LEMMA FinishExecutionKeeps ==
    ASSUME InterventionInv, NEW q \in Request, FinishExecution(q)
    PROVE  InterventionInv'
  <1>1. /\ op[q].step = "returned" /\ Abandon(q)
        /\ PhaseKnown(q) \/ PhaseUnread(q)
        /\ journal' = journal /\ driver' = driver /\ finalizing' = finalizing
        /\ UNCHANGED <<driver, finalizing, sweep, cleanup, asked, crashes>>
    BY Zenon DEF FinishExecution
  <1>2. op[q].step \in Active \ {"running"} /\ op[q].step \in Active /\ op[q].step # "running"
    BY <1>1 DEF Active
  <1>3. slot = q /\ driver = NoOne
    BY <1>1, <1>2, Parts, Zenon DEF SlotSound
  <1>4. holder' \in {"run", "other", NoOne}
    BY <1>1, Parts, Zenon DEF PhaseKnown, PhaseUnread
  <1>5. Grows /\ JournalSound' /\ ActsOncePerKey'
    BY <1>1, Parts, JournalLeft, Zenon DEF Grows
  <1>6. retained' \in BOOLEAN /\ unread' \in BOOLEAN
    BY <1>1, Parts DEF PhaseKnown, PhaseUnread
  <1>7. RunSound'
    <2>1. /\ Phase(journal)' = Phase(journal) /\ Terminal' = Terminal
      BY <1>1, Zenon DEF Phase, Terminal, LastOf
    <2>2. ~ (retained' /\ Terminal' /\ ~unread')
      <3>1. retained /\ Terminal /\ ~unread => op[q].err # "generation"
        BY <1>2, <1>3, Parts, Zenon DEF RunSound
      <3>2. CASE PhaseKnown(q)
        BY <2>1, <3>1, <3>2, Zenon DEF PhaseKnown
      <3>3. CASE PhaseUnread(q)
        BY <3>3, Zenon DEF PhaseUnread
      <3> QED
        BY <1>1, <3>2, <3>3, Zenon
    <2>3. owners' = owners \ {q}
      BY <1>1, Zenon DEF Abandon
    <2>4. \A s \in {"start", "restored"} : s \in owners' <=> s \in owners
      BY <2>3, Distinct
    <2>5. driver \notin {"start", "restored"}
      BY <1>3, Distinct
    <2>6. RunSound
      BY Parts, Zenon
    <2>7. /\ \A s \in {"start", "restored"} : s \in owners' <=> driver' = s
      BY <1>1, <2>4, <2>6, Zenon DEF RunSound
    <2>8. /\ finalizing' => driver' # NoOne /\ Terminal'
          /\ driver' # NoOne /\ ~finalizing' => Phase(journal)' = "running"
      <3>1. /\ finalizing => driver # NoOne /\ Terminal
            /\ driver # NoOne /\ ~finalizing => Phase(journal) = "running"
        BY <2>6, Zenon DEF RunSound
      <3> QED
        BY <1>1, <2>1, <3>1
    <2>9. driver' \notin {"start", "restored"}
      BY <1>1, <2>5, Zenon
    <2> QED
      BY <2>2, <2>7, <2>8, <2>9, Zenon DEF RunSound
  <1> QED
    BY <1>1, <1>2, <1>4, <1>5, <1>6, <1>7, LeavesSlot, Zenon

\* Service.DenyEscalation: the key is looked for again under the slot.
LEMMA DenyEscalationKeeps ==
    ASSUME InterventionInv, NEW q \in Request, DenyEscalation(q)
    PROVE  InterventionInv'
  <1>1. /\ op[q].step = "begun" /\ asked[q].action = "deny" /\ Abandon(q) /\ holder' = holder
        /\ UNCHANGED <<driver, finalizing, holder, retained, unread, sweep, cleanup, asked, crashes>>
        /\ retained' = retained /\ unread' = unread
    BY Zenon DEF DenyEscalation
  <1>2. op[q].step \in Active \ {"running", "returned"} /\ op[q].step \in Active \ {"running"}
    BY <1>1 DEF Active
  <1>3. holder' \in {"run", "other", NoOne} /\ retained' \in BOOLEAN /\ unread' \in BOOLEAN
    BY <1>1, Parts, Zenon
  <1>4. CASE journal' = journal
    BY <1>1, <1>2, <1>3, <1>4, AbandonKeeps, Zenon
  <1>5. CASE ~Denied(journal, q) /\ journal' = Append(journal, Event("denied", "deny", asked[q].key))
    <2> DEFINE e == Event("denied", asked[q].action, asked[q].key)
    <2>1. e \in Events /\ e.type = "denied" /\ e.key = asked[q].key
      <3>1. "denied" \in Annotation \cup Resumption
        BY DEF Annotation
      <3>2. e \in Events
        BY <3>1, Parts, EventsTyped, Zenon
      <3> QED
        BY <3>2 DEF Event
    <2>2. journal' = Append(journal, e)
      BY <1>1, <1>5, Zenon
    <2> HIDE DEF e
    <2>3. /\ e.type \in Annotation /\ e.type \notin Resumption /\ e.type # "marker"
          /\ e.type # "evaluated"
      BY <2>1 DEF Annotation, Resumption
    <2>4. Grows /\ Phase(journal') = Phase(journal)
      BY <2>1, <2>2, <2>3, Parts, PhaseAppend, Zenon DEF JournalSound, Grows
    <2>5. \A i \in DOMAIN journal : ~ (journal[i].type = "denied" /\ journal[i].key = e.key)
      BY <1>5, <2>1, Zenon DEF Denied
    <2>6. JournalSound' /\ ActsOncePerKey'
      BY <2>1, <2>2, <2>3, <2>5, Parts, JournalAppended, Zenon
    <2>7. UNCHANGED <<driver, finalizing, retained, unread>>
          /\ UNCHANGED <<driver, finalizing, sweep, cleanup, asked, crashes>>
      BY <1>1, Zenon
    <2>8. RunSound'
      BY <1>1, <1>2, <2>4, <2>7, AbandonRun, Zenon
    <2> QED
      BY <1>1, <1>2, <1>3, <2>4, <2>6, <2>7, <2>8, LeavesSlot, Zenon
  <1> QED
    BY <1>4, <1>5, Zenon DEF DenyEscalation

-----------------------------------------------------------------------------
(* The goroutine that drives the run, and the rest of the daemon.           *)

\* The journal grows by an event of the run itself, which ends a segment.
LEMMA PlainAppended ==
    ASSUME InterventionInv, NEW type \in Stops, journal' = Append(journal, Plain(type))
    PROVE  /\ Plain(type) \in Events /\ Plain(type).type = type
           /\ Plain(type).type \notin Resumption \cup {"marker"}
           /\ Grows /\ Phase(journal') = type /\ JournalSound' /\ ActsOncePerKey'
  <1>1. Plain(type) \in Events /\ Plain(type).type = type
    <2>1. Plain(type) \in Events
      BY Parts, EventsTyped, Zenon
    <2> QED
      BY <2>1 DEF Plain, Event
  <1>2. /\ type \notin Resumption \cup {"marker"} /\ type \notin Resumption
        /\ type # "evaluated" /\ type # "denied" /\ type # "marker"
    BY DEF Stops, Ends, Resumption
  <1>3. Phase(journal') = type
    BY <1>1, Parts, PhaseAppend, Zenon DEF JournalSound
  <1>4. JournalSound' /\ ActsOncePerKey'
    BY <1>1, <1>2, Parts, JournalAppended, Zenon
  <1> QED
    BY <1>1, <1>2, <1>3, <1>4, Zenon DEF Grows

(* The driver returns: a request that drove the run has returned, the start *)
(* and a restart have given up their place.                                 *)
LEMMA DriverReturnsKeeps ==
    ASSUME InterventionInv, driver # NoOne, NEW err \in {"none", "failed", "unreported"},
           DriverReturns(err),
           \/ journal' = journal
           \/ \E e \in Events : /\ journal' = Append(journal, e)
                                /\ e.type \notin Resumption \cup {"marker"},
           JournalSound', ActsOncePerKey',
           holder' \in {"run", "other", NoOne},
           UNCHANGED <<slot, retained, unread, sweep, cleanup, asked, crashes>>
    PROVE  InterventionInv'
  <1>1. /\ driver' = NoOne /\ finalizing' = FALSE
        /\ op' = IF driver \in Request
                 THEN [op EXCEPT ![driver].step = "returned", ![driver].err = err] ELSE op
        /\ owners' = IF driver \in Request THEN owners ELSE owners \ {driver}
        /\ slot' = slot /\ retained' = retained /\ unread' = unread /\ sweep' = sweep /\ cleanup' = cleanup
        /\ asked' = asked /\ crashes' = crashes
    BY Zenon DEF DriverReturns
  <1>2. Grows
    BY Zenon DEF Grows
  <1>3. driver \in Request \/ driver \in {"start", "restored"}
    BY Parts, Zenon DEF TypeOK
  <1>4. ASSUME driver \in Request
        PROVE  /\ op' \in [Request -> Ops]
               /\ op'[driver].step = "returned" /\ op'[driver].err # "generation"
               /\ \A r \in Request : r # driver => op'[r] = op[r]
               /\ op[driver].step = "running" /\ slot = driver
    <2>1. op' = [op EXCEPT ![driver].step = "returned", ![driver].err = err]
      BY <1>1, <1>4, Zenon
    <2>2. "returned" \in Steps /\ err \in {"none", "failed", "generation", "unreported"} /\ err # "generation"
      BY DEF Steps
    <2>3. /\ op' \in [Request -> Ops] /\ op'[driver].step = "returned" /\ op'[driver].err = err
          /\ \A r \in Request : r # driver => op'[r] = op[r]
      BY <1>4, <2>1, <2>2, Parts, ReturnFacts, Zenon
    <2>4. op[driver].step = "running"
      BY <1>4, Parts, Zenon DEF SlotSound
    <2>5. op[driver].step \in Active
      BY <2>4 DEF Active
    <2> QED
      BY <1>4, <2>2, <2>3, <2>4, <2>5, Parts, Zenon DEF SlotSound
  <1>5. op' \in [Request -> Ops]
    BY <1>1, <1>4, Parts, Zenon
  <1>6. TypeOK'
    <2>1. /\ driver' \in Request \cup {"start", "restored", NoOne}
          /\ slot' \in Request \cup {NoOne}
          /\ finalizing' \in BOOLEAN /\ retained' \in BOOLEAN /\ unread' \in BOOLEAN
      BY <1>1, Parts, Zenon DEF TypeOK
    <2>2. owners' \subseteq Request \cup {"start", "restored"}
      BY <1>1, Parts, Zenon DEF TypeOK
    <2> QED
      BY <1>1, <1>2, <1>5, <2>1, <2>2, Parts, TypeKept, Zenon
  <1>7. RunSound'
    <2>1. RunSound
      BY Parts, Zenon
    <2>2. \A s \in {"start", "restored"} : s \notin owners' /\ driver' # s
      <3>1. \A s \in {"start", "restored"} : s \in owners <=> driver = s
        BY <2>1, Zenon DEF RunSound
      <3>2. \A s \in {"start", "restored"} : NoOne # s
        BY InterventionsAssumption
      <3>3. CASE driver \in Request
        <4>1. \A s \in {"start", "restored"} : driver # s
          BY <3>3, Distinct
        <4> QED
          BY <1>1, <3>1, <3>2, <3>3, <4>1, Zenon
      <3>4. CASE driver \notin Request
        BY <1>1, <3>1, <3>2, <3>4, Zenon
      <3> QED
        BY <3>3, <3>4
    <2>4. ASSUME retained'
          PROVE  slot' \in Request /\ op'[slot'].step = "returned" /\ op'[slot'].err # "generation"
      <3>1. driver \notin {"start", "restored"}
        BY <1>1, <2>1, <2>4, Zenon DEF RunSound
      <3>2. driver \in Request
        BY <1>3, <3>1, Zenon
      <3> QED
        BY <1>1, <1>4, <3>2, Zenon
    <2>5. driver' \notin {"start", "restored"} /\ ~ (driver' # NoOne) /\ ~finalizing'
      BY <1>1, <2>2, Zenon
    <2> QED
      BY <2>2, <2>4, <2>5, Zenon DEF RunSound
  <1>8. ASSUME NEW r \in Request
        PROVE  SlotSound(r)' /\ ReadSound(r)'
    <2>0. SlotSound(r) /\ ReadSound(r) /\ r # NoOne
      BY Parts, Distinct, Zenon
    <2>1. CASE r = driver
      <3>1. /\ op'[r].step = "returned" /\ op[r].step = "running" /\ owners' = owners
            /\ driver' = NoOne
        BY <1>1, <1>4, <2>1, Zenon
      <3>2. /\ op'[r].step \in Active /\ op'[r].step # "running" /\ op'[r].step \notin Pending
            /\ op'[r].step \notin {"rechecked", "claimed"} /\ op'[r].step # "marked"
            /\ op[r].step \in Active \ {"begun"} /\ op[r].step \in Active
        BY <3>1 DEF Active, Pending
      <3>3. SlotSound(r)'
        BY <1>1, <2>0, <3>1, <3>2, Zenon DEF SlotSound
      <3>4. ReadSound(r)'
        BY <1>1, <1>2, <2>0, <3>2, Parts, ReadStep, Zenon
      <3> QED
        BY <3>3, <3>4
    <2>2. CASE r # driver
      <3>1. op'[r] = op[r]
        BY <1>1, <1>4, <2>2, Zenon
      <3>2. r \in owners' <=> r \in owners
        BY <1>1, <2>2, Zenon
      <3>3. SlotSound(r)'
        BY <1>1, <2>0, <2>2, <3>1, <3>2, Parts, SlotLeft, Zenon
      <3>4. ReadSound(r)'
        BY <1>1, <2>0, <3>1, Parts, ReadLeft, Zenon
      <3> QED
        BY <3>3, <3>4
    <2> QED
      BY <2>1, <2>2
  <1> QED
    BY <1>6, <1>7, <1>8, Zenon DEF InterventionInv

\* The run waits at a gate.
LEMMA PauseKeeps ==
    ASSUME InterventionInv, Pause
    PROVE  InterventionInv'
  <1>1. /\ driver # NoOne /\ journal' = Append(journal, Plain("paused")) /\ DriverReturns("none")
        /\ holder' = holder
        /\ UNCHANGED <<slot, retained, unread, sweep, cleanup, asked, crashes>>
    BY Zenon DEF Pause, Driving
  <1>2. "paused" \in Stops /\ "none" \in {"none", "failed", "unreported"}
    BY DEF Stops
  <1>3. holder' \in {"run", "other", NoOne}
    BY <1>1, Parts, Zenon
  <1>4. /\ Plain("paused") \in Events /\ Plain("paused").type \notin Resumption \cup {"marker"}
        /\ JournalSound' /\ ActsOncePerKey'
    BY <1>1, <1>2, PlainAppended, Zenon
  <1> QED
    BY <1>1, <1>2, <1>3, <1>4, DriverReturnsKeeps, Zenon

\* The driver leaves the run running.
LEMMA DriverFailsKeeps ==
    ASSUME InterventionInv, DriverFails
    PROVE  InterventionInv'
  <1>1. /\ driver # NoOne /\ journal' = journal /\ DriverReturns("unreported")
        /\ holder' = holder
        /\ UNCHANGED <<slot, retained, unread, sweep, cleanup, asked, crashes>>
    BY Zenon DEF DriverFails, Driving
  <1>2. "unreported" \in {"none", "failed", "unreported"}
    OBVIOUS
  <1>3. holder' \in {"run", "other", NoOne} /\ JournalSound' /\ ActsOncePerKey'
    BY <1>1, Parts, JournalLeft, Zenon
  <1> QED
    BY <1>1, <1>2, <1>3, DriverReturnsKeeps, Zenon

\* The journal is closed and the driver returns.
LEMMA FinalizeTerminalKeeps ==
    ASSUME InterventionInv, FinalizeTerminal
    PROVE  InterventionInv'
  <1>1. /\ finalizing /\ journal' = journal
        /\ UNCHANGED <<slot, retained, unread, sweep, cleanup, asked, crashes>>
    BY Zenon DEF FinalizeTerminal
  <1>2. driver # NoOne
    BY <1>1, Parts, Zenon DEF RunSound
  <1>3. JournalSound' /\ ActsOncePerKey'
    BY <1>1, Parts, JournalLeft, Zenon
  <1>4. holder' \in {"run", "other", NoOne}
    BY Parts, Zenon DEF FinalizeTerminal
  <1>5. PICK err \in {"none", "failed", "unreported"} : DriverReturns(err)
    BY Zenon DEF FinalizeTerminal
  <1> QED
    BY <1>1, <1>2, <1>3, <1>4, <1>5, DriverReturnsKeeps, Zenon

\* The run ends.
LEMMA FinishKeeps ==
    ASSUME InterventionInv, NEW end \in Ends, Finish(end)
    PROVE  InterventionInv'
  <1>1. /\ driver # NoOne /\ journal' = Append(journal, Plain(end)) /\ finalizing' = TRUE
        /\ driver' = driver /\ holder' = holder /\ slot' = slot /\ op' = op /\ owners' = owners
        /\ retained' = retained /\ unread' = unread /\ sweep' = sweep /\ cleanup' = cleanup /\ asked' = asked
        /\ crashes' = crashes
    BY Zenon DEF Finish, Driving
  <1>2. end \in Stops
    BY Zenon DEF Stops
  <1>3. /\ Plain(end) \in Events /\ Plain(end).type \notin Resumption \cup {"marker"} /\ Grows
        /\ Phase(journal') = end /\ JournalSound' /\ ActsOncePerKey'
    BY <1>1, <1>2, PlainAppended, Zenon
  <1>4. TypeOK'
    <2>1. /\ driver' \in Request \cup {"start", "restored", NoOne}
          /\ holder' \in {"run", "other", NoOne} /\ slot' \in Request \cup {NoOne}
          /\ owners' \subseteq Request \cup {"start", "restored"}
          /\ finalizing' \in BOOLEAN /\ retained' \in BOOLEAN /\ unread' \in BOOLEAN /\ op' \in [Request -> Ops]
      BY <1>1, Parts, Zenon DEF TypeOK
    <2> QED
      BY <1>1, <1>3, <2>1, Parts, TypeKept, Zenon
  <1>5. RunSound'
    <2>1. RunSound
      BY Parts, Zenon
    <2>2. \A s \in {"start", "restored"} : s \in owners' <=> driver' = s
      BY <1>1, <2>1, Zenon DEF RunSound
    <2>3. Phase(journal)' # "running" /\ Terminal'
      <3>1. Phase(journal)' = end
        BY <1>3, Zenon DEF Phase, LastOf
      <3>2. end # "running"
        BY DEF Ends
      <3> QED
        BY <3>1, <3>2, Zenon DEF Terminal
    <2>4. ASSUME retained'
          PROVE  /\ driver' \notin {"start", "restored"}
                 /\ slot' \in Request /\ op'[slot'].step = "running"
      <3>1. driver \notin {"start", "restored"}
        BY <1>1, <2>1, <2>4, Zenon DEF RunSound
      <3>2. driver \in Request
        BY <1>1, <3>1, Parts, Zenon DEF TypeOK
      <3>3. op[driver].step = "running"
        BY <3>2, Parts, Zenon DEF SlotSound
      <3>4. op[driver].step \in Active
        BY <3>3 DEF Active
      <3>5. slot = driver
        BY <3>2, <3>4, Parts, Zenon DEF SlotSound
      <3> QED
        BY <1>1, <3>1, <3>2, <3>3, <3>5, Zenon
    <2> QED
      BY <1>1, <2>2, <2>3, <2>4, Zenon DEF RunSound
  <1>6. ASSUME NEW r \in Request
        PROVE  SlotSound(r)' /\ ReadSound(r)'
    <2>1. SlotSound(r) /\ ReadSound(r) /\ op'[r] = op[r]
      BY <1>1, Parts, Zenon
    <2>2. op[r].step = "returned" => driver' = NoOne
      BY <1>1, <2>1, Zenon DEF SlotSound
    <2>3. SlotSound(r)'
      BY <1>1, <2>1, <2>2, Parts, SlotLeft, Zenon
    <2>4. ReadSound(r)'
      BY <1>1, <1>3, <2>1, Parts, ReadLeft, Zenon
    <2> QED
      BY <2>3, <2>4
  <1> QED
    BY <1>3, <1>4, <1>5, <1>6, Zenon DEF InterventionInv

\* What concerns the claim of the run only.
LEMMA ClaimOnly ==
    ASSUME InterventionInv, holder' \in {"run", "other", NoOne},
           sweep' \in BOOLEAN, cleanup' \in BOOLEAN,
           UNCHANGED <<journal, driver, finalizing, slot, op, owners, retained, unread, asked, crashes>>
    PROVE  InterventionInv'
  <1>1. /\ journal' = journal /\ driver' = driver /\ finalizing' = finalizing /\ slot' = slot
        /\ op' = op /\ owners' = owners /\ retained' = retained /\ unread' = unread /\ asked' = asked
        /\ crashes' = crashes
    BY Zenon
  <1>2. TypeOK'
    BY <1>1, Parts, Zenon DEF TypeOK
  <1>3. RunSound'
    BY <1>1, Parts, RunLeft, Zenon
  <1>4. JournalSound' /\ ActsOncePerKey'
    BY <1>1, Parts, JournalLeft, Zenon
  <1>5. ASSUME NEW r \in Request
        PROVE  SlotSound(r)' /\ ReadSound(r)'
    <2>1. SlotSound(r) /\ ReadSound(r) /\ op'[r] = op[r]
      BY <1>1, Parts, Zenon
    <2>2. op[r].step = "returned" => driver' = NoOne
      BY <1>1, <2>1, Zenon DEF SlotSound
    <2>3. SlotSound(r)'
      BY <1>1, <2>1, <2>2, Parts, SlotLeft, Zenon
    <2>4. ReadSound(r)'
      BY <1>1, <2>1, Parts, ReadLeft, Zenon
    <2> QED
      BY <2>3, <2>4
  <1> QED
    BY <1>2, <1>3, <1>4, <1>5, Zenon DEF InterventionInv

\* The sweep, the startup finalizer, the lease and the other runs.
LEMMA DaemonKeeps ==
    ASSUME InterventionInv,
           SweepRead \/ SweepRelease \/ StartupFinalize \/ OtherRuns \/ UNCHANGED vars
    PROVE  InterventionInv'
  <1>0. /\ holder \in {"run", "other", NoOne} /\ Released \in {"run", "other", NoOne}
        /\ sweep \in BOOLEAN /\ cleanup \in BOOLEAN
    BY Parts, Zenon DEF TypeOK
  <1>1. UNCHANGED <<journal, driver, finalizing, slot, op, owners, retained, unread, asked, crashes>>
    BY Zenon DEF SweepRead, SweepRelease, StartupFinalize, OtherRuns, vars
  <1>2. sweep' \in BOOLEAN /\ cleanup' \in BOOLEAN
    BY <1>0, Zenon DEF SweepRead, SweepRelease, StartupFinalize, OtherRuns, vars
  <1>3. holder' \in {"run", "other", NoOne}
    BY <1>0, Zenon DEF SweepRead, SweepRelease, StartupFinalize, OtherRuns, vars
  <1> QED
    BY <1>1, <1>2, <1>3, ClaimOnly, Zenon

\* A crash ends the requests, and a run that was running is driven again.
LEMMA RestartKeeps ==
    ASSUME InterventionInv, Restart
    PROVE  InterventionInv'
  <1>1. /\ crashes < MaxCrashes /\ crashes' = crashes + 1
        /\ driver' = IF Phase(journal) = "running" THEN "restored" ELSE NoOne
        /\ owners' = IF Phase(journal) = "running" THEN {"restored"} ELSE {}
        /\ retained' = FALSE /\ unread' = FALSE /\ finalizing' = FALSE /\ slot' = NoOne /\ sweep' = FALSE
        /\ cleanup' = Terminal
        /\ op' = [q \in Request |-> IF op[q].step = "idle" THEN op[q] ELSE Gone]
        /\ journal' = journal /\ holder' = holder /\ asked' = asked
    BY Zenon DEF Restart
  <1>2. /\ op' \in [Request -> Ops]
        /\ \A q \in Request : op'[q].step \in {"idle", "done"}
    <2>1. ASSUME NEW q \in Request
          PROVE  /\ (IF op[q].step = "idle" THEN op[q] ELSE Gone) \in Ops
                 /\ (IF op[q].step = "idle" THEN op[q] ELSE Gone).step \in {"idle", "done"}
      <3>1. op[q] \in Ops
        BY Parts, Zenon
      <3> QED
        BY <3>1 DEF Gone, NewOp, Ops, Steps
    <2> QED
      BY <1>1, <2>1, Zenon
  <1>3. Phase(journal)' = Phase(journal) /\ Terminal' = Terminal
    BY <1>1, Zenon DEF Phase, Terminal, LastOf
  <1>4. Terminal => Phase(journal) # "running"
    BY DEF Terminal, Ends
  <1>5. JournalSound' /\ ActsOncePerKey'
    BY <1>1, Parts, JournalLeft, Zenon
  <1>6. TypeOK'
    <2>1. crashes' \in 0 .. MaxCrashes
      <3>1. crashes \in 0 .. MaxCrashes
        BY Parts, Zenon DEF TypeOK
      <3>2. MaxCrashes \in Nat /\ crashes < MaxCrashes /\ crashes' = crashes + 1
        BY <1>1, InterventionsAssumption, Zenon
      <3> QED
        BY <3>1, <3>2
    <2>2. cleanup' \in BOOLEAN
      <3>1. cleanup' = Terminal
        BY <1>1, Zenon
      <3> QED
        BY <3>1 DEF Terminal
    <2> QED
      BY <1>1, <1>2, <2>1, <2>2, Parts, Zenon DEF TypeOK, Ops, Steps
  <1>7. \A s \in {"start", "restored"} : NoOne # s
    BY InterventionsAssumption
  <1>8. RunSound'
    <2>1. CASE Phase(journal) = "running"
      <3>1. driver' = "restored" /\ owners' = {"restored"} /\ driver' # NoOne
        BY <1>1, <1>7, <2>1, Zenon
      <3>2. \A s \in {"start", "restored"} : s \in owners' <=> driver' = s
        BY <3>1
      <3> QED
        BY <1>1, <1>3, <2>1, <3>1, <3>2, Zenon DEF RunSound
    <2>2. CASE Phase(journal) # "running"
      <3>1. driver' = NoOne /\ owners' = {}
        BY <1>1, <2>2, Zenon
      <3>2. \A s \in {"start", "restored"} : s \in owners' <=> driver' = s
        BY <1>7, <3>1, Zenon
      <3> QED
        BY <1>1, <1>3, <2>2, <3>1, <3>2, Zenon DEF RunSound
    <2> QED
      BY <2>1, <2>2
  <1>9. ASSUME NEW r \in Request
        PROVE  SlotSound(r)' /\ ReadSound(r)'
    <2>1. /\ op'[r].step \notin Active /\ op'[r].step \notin Pending
          /\ op'[r].step # "returned" /\ op'[r].step \notin {"rechecked", "claimed"}
          /\ op'[r].step # "marked" /\ op'[r].step # "running"
      BY <1>2 DEF Active, Pending
    <2>2. slot' # r /\ r \notin owners' /\ driver' # r
      BY <1>1, Distinct
    <2>3. SlotSound(r)'
      BY <2>1, <2>2, Zenon DEF SlotSound
    <2>4. ReadSound(r)'
      BY <2>1, Zenon DEF ReadSound
    <2> QED
      BY <2>3, <2>4
  <1> QED
    BY <1>5, <1>6, <1>8, <1>9, Zenon DEF InterventionInv

-----------------------------------------------------------------------------
(* The invariant and what follows from it.                                  *)

LEMMA InitSound ==
    ASSUME Init
    PROVE  InterventionInv
  <1>1. /\ asked \in Asked /\ journal = <<Plain("started")>>
        /\ driver = "start" /\ owners = {"start"} /\ retained = FALSE /\ unread = FALSE
        /\ finalizing = FALSE
        /\ holder = "run" /\ slot = NoOne /\ op = [q \in Request |-> NewOp]
        /\ sweep = FALSE /\ cleanup = FALSE /\ crashes = 0
    BY Zenon DEF Init
  <1>2. Plain("started") \in Events /\ Plain("started").type = "started"
    BY DEF Plain, Event, Events, Keys
  <1>3. /\ journal \in Seq(Events) /\ journal # <<>> /\ DOMAIN journal = {1} /\ Len(journal) = 1
        /\ journal[1] = Plain("started")
    BY <1>1, <1>2
  <1>4. \A i \in DOMAIN journal : journal[i].type = "started"
    BY <1>2, <1>3
  <1>5. TypeOK
    <2>1. crashes \in 0 .. MaxCrashes
      BY <1>1, InterventionsAssumption
    <2>2. op \in [Request -> [step : {"idle", "resolved", "begun", "rechecked", "claimed",
                                   "marked", "running", "returned", "done"},
                           seen : Nat, err : {"none", "failed", "generation", "unreported"}]]
      BY <1>1 DEF NewOp
    <2> QED
      BY <1>1, <1>3, <2>1, <2>2, Zenon DEF TypeOK, Events
  <1>6. JournalSound /\ ActsOncePerKey
    <2>1. "started" \notin Resumption /\ "started" # "evaluated" /\ "started" # "marker"
          /\ "started" # "denied"
      BY DEF Resumption
    <2>2. JournalSound
      BY <1>3, <1>4, <2>1, Zenon DEF JournalSound
    <2>3. \A i \in DOMAIN journal : /\ journal[i].type \notin Resumption
                                    /\ journal[i].type # "marker" /\ journal[i].type # "denied"
      BY <1>4, <2>1, Zenon
    <2>4. ActsOncePerKey
      BY <2>3, Zenon DEF ActsOncePerKey, ResumedOncePerKey, RerunAcceptedOnce, DeniedOncePerKey
    <2> QED
      BY <2>2, <2>4
  <1>7. Phase(journal) = "running" /\ ~Terminal
    <2>1. Phase(journal) = IF "started" \in Stops THEN "started" ELSE "running"
      BY <1>2, <1>3, <1>4, PhaseIs, Zenon
    <2> QED
      BY <2>1 DEF Stops, Ends, Terminal
  <1>8. RunSound
    <2>1. \A s \in {"start", "restored"} : s \in owners <=> driver = s
      BY <1>1
    <2>2. driver # NoOne
      BY <1>1, InterventionsAssumption
    <2> QED
      BY <1>1, <1>7, <2>1, <2>2, Zenon DEF RunSound
  <1>9. ASSUME NEW r \in Request
        PROVE  SlotSound(r) /\ ReadSound(r)
    <2>1. op[r].step = "idle"
      BY <1>1 DEF NewOp
    <2>2. /\ op[r].step \notin Active /\ op[r].step \notin Pending
          /\ op[r].step # "returned" /\ op[r].step \notin {"rechecked", "claimed"}
          /\ op[r].step # "marked" /\ op[r].step # "running"
      BY <2>1 DEF Active, Pending
    <2>3. slot # r /\ r \notin owners /\ driver # r
      BY <1>1, Distinct
    <2> QED
      BY <2>2, <2>3, Zenon DEF SlotSound, ReadSound
  <1> QED
    BY <1>5, <1>6, <1>8, <1>9, Zenon DEF InterventionInv

LEMMA NextKeeps ==
    ASSUME InterventionInv, [Next]_vars
    PROVE  InterventionInv'
  <1>1. ASSUME NEW q \in Request, Resolve(q) \/ RequestNext(q)
        PROVE  InterventionInv'
    BY <1>1, ResolveKeeps, BeginExecutionKeeps, RecheckRerunKeeps, ReacquireClaimsKeeps,
       GiveUpKeeps, RecordMarkerKeeps, ResumeRunKeeps, FinishExecutionKeeps, BeginDenyKeeps,
       DenyEscalationKeeps, Zenon DEF RequestNext
  <1>2. CASE DriverNext
    BY <1>2, PauseKeeps, DriverFailsKeeps, FinalizeTerminalKeeps, FinishKeeps, Zenon DEF DriverNext
  <1>3. CASE Restart
    BY <1>3, RestartKeeps, Zenon
  <1> QED
    BY <1>1, <1>2, <1>3, DaemonKeeps, Zenon DEF Next

(* The requests, the slot, the driver, the scheduler's place and the journal *)
(* stay in step, whatever is delivered twice, overtaken or crashes.          *)
THEOREM InterventionInvariant == Spec => []InterventionInv
  <1>1. Init => InterventionInv
    BY InitSound
  <1>2. InterventionInv /\ [Next]_vars => InterventionInv'
    BY NextKeeps
  <1> QED
    BY <1>1, <1>2, PTL DEF Spec

(* An idempotency key acts once (Service.resolve, recheckRerunAcceptance,   *)
(* recordInterventionMarker, Runner.ResumeFromTerminal, DenyEscalation).    *)
THEOREM KeysActOnce == Spec => []ActsOncePerKey
  <1>1. InterventionInv => ActsOncePerKey
    BY Zenon DEF InterventionInv
  <1> QED
    BY <1>1, InterventionInvariant, PTL

\* A driven run has its place; an ended one keeps it only if its phase was not read.
LEMMA PlaceSound ==
    ASSUME InterventionInv
    PROVE  PlaceFollowsRun
  <1>1. TypeOK /\ RunSound /\ \A r \in Request : SlotSound(r)
    BY Parts, Zenon
  <1>2. ASSUME driver # NoOne
        PROVE  driver \in owners
    <2>1. driver \in Request \/ driver \in {"start", "restored"}
      BY <1>1, <1>2, Zenon DEF TypeOK
    <2>2. CASE driver \in Request
      <3>1. op[driver].step = "running"
        BY <1>1, <2>2, Zenon DEF SlotSound
      <3>2. op[driver].step \in Active /\ op[driver].step \in Active \ {"begun"}
        BY <3>1 DEF Active
      <3> QED
        BY <1>1, <2>2, <3>2, Zenon DEF SlotSound
    <2>3. CASE driver \in {"start", "restored"}
      BY <1>1, <2>3, Zenon DEF RunSound
    <2> QED
      BY <2>1, <2>2, <2>3
  <1>3. ASSUME Terminal, driver = NoOne, slot = NoOne
        PROVE  owners = {} /\ (retained => unread)
    <2>1. retained => unread
      <3>1. slot \notin Request
        BY <1>3, Distinct
      <3> QED
        BY <1>1, <1>3, <3>1, Zenon DEF RunSound
    <2>2. \A s \in {"start", "restored"} : s \notin owners
      BY <1>1, <1>3, InterventionsAssumption, Zenon DEF RunSound
    <2>3. \A r \in Request : r \notin owners
      BY <1>1, <1>3, Distinct, Zenon DEF SlotSound
    <2>4. owners = {}
      BY <1>1, <2>2, <2>3, Zenon DEF TypeOK
    <2> QED
      BY <2>1, <2>4, Zenon
  <1> QED
    BY <1>2, <1>3, Zenon DEF PlaceFollowsRun

(* A driven run has its place, and an ended one is without, except for a    *)
(* place that was kept because the phase could not be read (beginExecution, *)
(* finishExecution, Close, Scheduler.RetainContinuation).                   *)
THEOREM PlaceAlwaysFollowsRun == Spec => []PlaceFollowsRun
  <1>1. InterventionInv => PlaceFollowsRun
    BY PlaceSound
  <1> QED
    BY <1>1, InterventionInvariant, PTL

\* The steps that take the claim from an intervention.
LEMMA ClaimTaken ==
    ASSUME InterventionInv, Next, slot # NoOne, holder = "run", holder' # "run",
           op[slot].step \in {"claimed", "marked", "running"}
    PROVE  FinalizeTerminal \/ StartupFinalize \/ GiveUp(slot) \/ ResumeRun(slot) \/ Restart
  <1>1. ASSUME NEW q \in Request, Resolve(q) \/ RequestNext(q)
        PROVE  GiveUp(slot) \/ ResumeRun(slot)
    <2>1. holder' # holder
      OBVIOUS
    <2>2. GiveUp(q) \/ ResumeRun(q) \/ FinishExecution(q)
      <3>1. ~ReacquireClaims(q)
        BY <2>1, Zenon DEF ReacquireClaims
      <3>2. ~Resolve(q) /\ ~BeginExecution(q) /\ ~RecheckRerun(q) /\ ~BeginDeny(q)
        BY <2>1, Zenon DEF Resolve, BeginExecution, RecheckRerun, BeginDeny
      <3>3. ~RecordMarker(q) /\ ~DenyEscalation(q)
        BY <2>1, Zenon DEF RecordMarker, DenyEscalation
      <3> QED
        BY <1>1, <3>1, <3>2, <3>3, Zenon DEF RequestNext
    <2>3. op[q].step \in {"claimed", "marked", "returned"}
      BY <2>2, Zenon DEF GiveUp, ResumeRun, FinishExecution
    <2>4. op[q].step \in Active
      BY <2>3 DEF Active
    <2>5. slot = q
      BY <2>4, Parts, Zenon DEF SlotSound
    <2>6. ~FinishExecution(q)
      <3>1. op[q].step # "returned"
        BY <2>5
      <3> QED
        BY <3>1, Zenon DEF FinishExecution
    <2> QED
      BY <2>2, <2>5, <2>6, Zenon
  <1>2. ~Pause /\ ~DriverFails /\ \A end \in Ends : ~Finish(end)
    BY Zenon DEF Pause, DriverFails, Finish
  <1>3. ~SweepRead /\ ~SweepRelease
    BY Zenon DEF SweepRead, SweepRelease, Swept
  <1>4. ~OtherRuns
    <2>1. "run" # "other" /\ "run" # NoOne
      BY InterventionsAssumption
    <2> QED
      BY <2>1, Zenon DEF OtherRuns
  <1> QED
    BY <1>1, <1>2, <1>3, <1>4, Zenon DEF Next, DriverNext

(* An intervention loses its claim only to terminal cleanup, to its own     *)
(* failure and to a crash (Service.Active, releaseOrphanedClaims).          *)
THEOREM ClaimKeptByIntervention == Spec => InterventionKeepsClaim
  <1>1. InterventionInv /\ [Next]_vars =>
          [/\ slot # NoOne /\ holder = "run" /\ holder' # "run"
           /\ op[slot].step \in {"claimed", "marked", "running"}
           => FinalizeTerminal \/ StartupFinalize \/ GiveUp(slot) \/ ResumeRun(slot)
              \/ Restart]_vars
    BY ClaimTaken, Zenon
  <1> QED
    BY <1>1, InterventionInvariant, PTL DEF Spec, InterventionKeepsClaim

=============================================================================
