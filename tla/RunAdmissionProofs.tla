------------------------- MODULE RunAdmissionProofs -------------------------
(***************************************************************************)
(* Proofs about RunAdmission, for any runs, workflows and caps: slots are  *)
(* neither leaked nor returned twice, and a late release function never    *)
(* releases another owner's admission.  The argument: a run is in at most  *)
(* one of dispatching, admitted and reconciled (OnePlace), so every action *)
(* adds one run to the slot holders and takes a slot, removes one and      *)
(* returns a slot, or leaves both alone.  And the turn of a waiting parent *)
(* is kept: claims are ordered by age, a start counts all of them, and a   *)
(* slot or a claim that goes away lets at most one claim more pass.        *)
(***************************************************************************)
EXTENDS RunAdmission, FiniteSetTheorems, TLAPS

-----------------------------------------------------------------------------
(* The turn of a waiting parent.  The operators take the counters and the    *)
(* places as parameters, so that a step that both returns a slot and drops a *)
(* claim can be taken apart.                                                 *)

ClaimsOf(place) == {r \in Run : place[r] # 0}
Ahead(place, r) == {a \in ClaimsOf(place) : place[a] < place[r]}
AheadIn(place, r) == {a \in Ahead(place, r) : Identity[a] = Identity[r]}

\* The workflow of claim r has room for it beside the claims ahead of it.
Usable(slots, place, r) ==
    slots[Identity[r]] + Cardinality(AheadIn(place, r)) < maxConcurrentRuns(Identity[r])
UsableAhead(slots, place, r) == {a \in Ahead(place, r) : Usable(slots, place, a)}

\* HasRoom, for a run that has a claim.
Turn(slots, total, place, r) ==
    /\ Usable(slots, place, r)
    /\ InstanceMaxParallel > 0 =>
         total + Cardinality(UsableAhead(slots, place, r)) < InstanceMaxParallel

\* No two claims have the same place.
Ordered(place) ==
    /\ place \in [Run -> Nat]
    /\ \A a, b \in ClaimsOf(place) : place[a] = place[b] => a = b

(* Sets of runs are finite; a part is no larger than the whole.              *)
LEMMA RunSets ==
    ASSUME NEW S \in SUBSET Run
    PROVE  /\ IsFiniteSet(S) /\ Cardinality(S) \in Nat
           /\ \A T \in SUBSET S : Cardinality(T) <= Cardinality(S)
           /\ \A x : x \notin S => Cardinality(S \cup {x}) = Cardinality(S) + 1
           /\ \A x \in S : Cardinality(S \ {x}) = Cardinality(S) - 1
<1>1. IsFiniteSet(S)
  BY FS_Subset, AdmissionAssumption, Zenon
<1> QED
  BY <1>1, FS_Subset, FS_CardinalityType, FS_AddElement, FS_RemoveElement, Zenon

(* A set of runs that has at most one run beside those of T.                 *)
LEMMA OneMore ==
    ASSUME NEW S \in SUBSET Run, NEW T \in SUBSET Run,
           \A a, b \in S \ T : a = b
    PROVE  Cardinality(S) <= Cardinality(T) + 1
<1>1. Cardinality(S) \in Nat /\ Cardinality(T) \in Nat
  BY RunSets, Zenon
<1>2. CASE S \subseteq T
  BY <1>1, <1>2, RunSets
<1>3. CASE ~ (S \subseteq T)
  <2>1. PICK x \in S : x \notin T
    BY <1>3, Zenon
  <2>2. S \subseteq T \cup {x} /\ T \cup {x} \in SUBSET Run
    BY <2>1, Zenon
  <2>3. Cardinality(T \cup {x}) = Cardinality(T) + 1
    BY <2>1, RunSets, Zenon
  <2>4. Cardinality(S) <= Cardinality(T \cup {x})
    BY <2>2, RunSets, Zenon
  <2> QED
    BY <2>3, <2>4, Zenon
<1> QED
  BY <1>2, <1>3, Zenon

(* The sets of claims are sets of runs.                                      *)
LEMMA ClaimSets ==
    ASSUME NEW place, NEW r, NEW slots
    PROVE  /\ ClaimsOf(place) \in SUBSET Run /\ Ahead(place, r) \in SUBSET Run
           /\ AheadIn(place, r) \in SUBSET Run /\ UsableAhead(slots, place, r) \in SUBSET Run
BY Zenon DEF ClaimsOf, Ahead, AheadIn, UsableAhead

LEMMA CapType == ASSUME NEW r \in Run
                 PROVE  maxConcurrentRuns(Identity[r]) \in Nat /\ Identity[r] \in Workflow
BY AdmissionAssumption, Zenon DEF maxConcurrentRuns

(* Of two claims of a workflow, the younger has more claims ahead of it.     *)
LEMMA RankGrows ==
    ASSUME NEW place, Ordered(place), NEW a \in ClaimsOf(place), NEW b \in ClaimsOf(place),
           Identity[a] = Identity[b], place[a] < place[b]
    PROVE  Cardinality(AheadIn(place, a)) + 1 <= Cardinality(AheadIn(place, b))
<1>1. a \in Run /\ b \in Run /\ place \in [Run -> Nat]
  BY Zenon DEF ClaimsOf, Ordered
<1>2. a \notin AheadIn(place, a)
  BY <1>1 DEF AheadIn, Ahead
<1>3. AheadIn(place, a) \cup {a} \subseteq AheadIn(place, b)
  BY <1>1 DEF AheadIn, Ahead, ClaimsOf
<1>4. Cardinality(AheadIn(place, a) \cup {a}) = Cardinality(AheadIn(place, a)) + 1
  BY <1>2, ClaimSets, RunSets, Zenon
<1> QED
  BY <1>3, <1>4, ClaimSets, RunSets, Zenon

(* A slot that goes back lets at most one more claim ahead use the instance, *)
(* and leaves room for it.                                                   *)
LEMMA TurnAfterReturn ==
    ASSUME NEW slots \in [Workflow -> Nat], NEW total \in Nat, NEW place, Ordered(place),
           NEW r \in ClaimsOf(place), Turn(slots, total, place, r),
           NEW w \in Workflow, slots[w] > 0
    PROVE  Turn([slots EXCEPT ![w] = @ - 1], total - 1, place, r)
<1> DEFINE fewer == [slots EXCEPT ![w] = @ - 1]
           old == UsableAhead(slots, place, r)
           new == UsableAhead(fewer, place, r)
<1>1. /\ fewer \in [Workflow -> Int]
      /\ \A v \in Workflow : fewer[v] = IF v = w THEN slots[v] - 1 ELSE slots[v]
  OBVIOUS
<1> HIDE DEF fewer
<1>2. r \in Run /\ place \in [Run -> Nat]
  BY Zenon DEF ClaimsOf, Ordered
<1>3. ASSUME NEW a \in Run
      PROVE  /\ Usable(slots, place, a) => Usable(fewer, place, a)
             /\ Usable(fewer, place, a) /\ ~Usable(slots, place, a) =>
                  /\ Identity[a] = w
                  /\ Cardinality(AheadIn(place, a)) = maxConcurrentRuns(w) - slots[w]
  <2>1. /\ Cardinality(AheadIn(place, a)) \in Nat /\ Identity[a] \in Workflow
        /\ maxConcurrentRuns(Identity[a]) \in Nat /\ slots[Identity[a]] \in Nat
    BY CapType, ClaimSets, RunSets, Zenon
  <2> QED
    BY <1>1, <2>1 DEF Usable
<1>4. ASSUME NEW a \in new \ old, NEW b \in new \ old PROVE a = b
  <2>1. /\ a \in ClaimsOf(place) /\ b \in ClaimsOf(place) /\ a \in Run /\ b \in Run
        /\ Usable(fewer, place, a) /\ ~Usable(slots, place, a)
        /\ Usable(fewer, place, b) /\ ~Usable(slots, place, b)
    BY <1>4, Zenon DEF UsableAhead, Ahead, ClaimsOf
  <2>2. /\ Identity[a] = Identity[b]
        /\ Cardinality(AheadIn(place, a)) = Cardinality(AheadIn(place, b))
    BY <1>3, <2>1, Zenon
  <2>3. Cardinality(AheadIn(place, a)) \in Nat
    BY ClaimSets, RunSets, Zenon
  <2>4. ~ (place[a] < place[b]) /\ ~ (place[b] < place[a])
    BY <2>1, <2>2, <2>3, RankGrows
  <2>5. place[a] \in Nat /\ place[b] \in Nat
    BY <1>2, <2>1, Zenon
  <2>6. place[a] = place[b]
    BY <2>4, <2>5
  <2> QED
    BY <2>1, <2>6, Zenon DEF Ordered
<1>5. /\ Cardinality(new) <= Cardinality(old) + 1
      /\ Cardinality(new) \in Nat /\ Cardinality(old) \in Nat
  BY <1>4, OneMore, ClaimSets, RunSets, Zenon
<1>6. InstanceMaxParallel \in Nat
  BY AdmissionAssumption, Zenon
<1> HIDE DEF old, new
<1>7. Usable(fewer, place, r)
  BY <1>2, <1>3, Zenon DEF Turn
<1>8. InstanceMaxParallel > 0 => total - 1 + Cardinality(new) < InstanceMaxParallel
  <2>1. InstanceMaxParallel > 0 => total + Cardinality(old) < InstanceMaxParallel
    BY Zenon DEF Turn, old
  <2> QED
    BY <1>5, <1>6, <2>1
<1> QED
  BY <1>7, <1>8, Zenon DEF Turn, new, fewer

\* Claim q, if it was one, is gone and the others keep their order.
Dropped(place, later, q) ==
    /\ ClaimsOf(later) = ClaimsOf(place) \ {q}
    /\ \A a, b \in ClaimsOf(later) : later[a] < later[b] <=> place[a] < place[b]

(* The claims ahead after one is dropped.                                    *)
LEMMA AheadAfterDrop ==
    ASSUME NEW place, NEW later, NEW q, Dropped(place, later, q), NEW r \in ClaimsOf(later)
    PROVE  /\ Ahead(later, r) = Ahead(place, r) \ {q}
           /\ q \notin AheadIn(place, r) => AheadIn(later, r) = AheadIn(place, r)
           /\ q \in AheadIn(place, r) =>
                Cardinality(AheadIn(later, r)) = Cardinality(AheadIn(place, r)) - 1
<1>1. Ahead(later, r) = Ahead(place, r) \ {q}
  BY Zenon DEF Dropped, Ahead
<1>2. AheadIn(later, r) = AheadIn(place, r) \ {q}
  BY <1>1, Zenon DEF AheadIn
<1>3. \A x \in AheadIn(place, r) :
         Cardinality(AheadIn(place, r) \ {x}) = Cardinality(AheadIn(place, r)) - 1
  BY ClaimSets, RunSets, Zenon
<1> QED
  BY <1>1, <1>2, <1>3, Zenon

(* A claim that is dropped leaves its room to those behind it.               *)
LEMMA TurnAfterDrop ==
    ASSUME NEW slots \in [Workflow -> Nat], NEW total \in Nat, NEW place, Ordered(place),
           NEW later, NEW q, Dropped(place, later, q),
           NEW r \in ClaimsOf(later), Turn(slots, total, place, r)
    PROVE  Turn(slots, total, later, r)
<1> DEFINE old == UsableAhead(slots, place, r)
           new == UsableAhead(slots, later, r)
<1>1. /\ place \in [Run -> Nat] /\ r \in Run /\ r \in ClaimsOf(place)
      /\ \A a \in ClaimsOf(later) : a \in Run /\ a \in ClaimsOf(place) /\ a # q
  BY Zenon DEF Ordered, Dropped, ClaimsOf
<1>2. ASSUME NEW a \in ClaimsOf(later)
      PROVE  /\ q \notin AheadIn(place, a) => AheadIn(later, a) = AheadIn(place, a)
             /\ q \in AheadIn(place, a) =>
                  Cardinality(AheadIn(later, a)) = Cardinality(AheadIn(place, a)) - 1
  BY AheadAfterDrop
<1>3. ASSUME NEW a \in Run
      PROVE  /\ Cardinality(AheadIn(place, a)) \in Nat /\ Identity[a] \in Workflow
             /\ maxConcurrentRuns(Identity[a]) \in Nat /\ slots[Identity[a]] \in Nat
  BY CapType, ClaimSets, RunSets, Zenon
<1>4. Usable(slots, later, r)
  BY <1>1, <1>2, <1>3 DEF Turn, Usable
<1>5. ASSUME NEW a \in new
      PROVE  /\ a \in ClaimsOf(later) /\ a \in Ahead(place, r) /\ a \in Run
             /\ Usable(slots, later, a)
  BY <1>5, <1>1, AheadAfterDrop DEF UsableAhead, Ahead
<1>6. ASSUME NEW a \in new, a \notin old
      PROVE  /\ q \in Ahead(place, r) /\ q \in AheadIn(place, a) /\ Usable(slots, place, q)
             /\ Cardinality(AheadIn(place, a))
                  = maxConcurrentRuns(Identity[q]) - slots[Identity[q]]
  <2>1. /\ a \in ClaimsOf(later) /\ a \in Ahead(place, r) /\ Usable(slots, later, a)
        /\ a \in Run /\ ~Usable(slots, place, a)
    BY <1>5, <1>6, Zenon DEF UsableAhead
  <2>2. q \in AheadIn(place, a)
    BY <1>2, <2>1, Zenon DEF Usable
  <2>3. q \in ClaimsOf(place) /\ q \in Run /\ Identity[q] = Identity[a] /\ place[q] < place[a]
    BY <2>2, Zenon DEF AheadIn, Ahead, ClaimsOf
  <2>4. Cardinality(AheadIn(place, a)) = maxConcurrentRuns(Identity[a]) - slots[Identity[a]]
    BY <1>2, <1>3, <2>1, <2>2 DEF Usable
  <2>5. Cardinality(AheadIn(place, q)) + 1 <= Cardinality(AheadIn(place, a))
    BY <1>1, <2>1, <2>3, RankGrows, Zenon
  <2>6. Usable(slots, place, q)
    BY <1>3, <2>3, <2>4, <2>5 DEF Usable
  <2>7. q \in Ahead(place, r)
    <3>1. place[a] < place[r] /\ place[a] \in Nat /\ place[q] \in Nat /\ place[r] \in Nat
      BY <1>1, <2>1, <2>3, Zenon DEF Ahead
    <3> QED
      BY <2>3, <3>1 DEF Ahead
  <2> QED
    BY <2>2, <2>3, <2>4, <2>6, <2>7, Zenon
<1>7. Cardinality(new) <= Cardinality(old)
  <2>1. CASE new \subseteq old
    BY <2>1, ClaimSets, RunSets, Zenon
  <2>2. CASE ~ (new \subseteq old)
    <3>1. PICK x \in new : x \notin old
      BY <2>2, Zenon
    <3>2. q \in old
      BY <1>6, <3>1, Zenon DEF UsableAhead
    <3>3. q \notin new
      BY <1>1, <1>5, Zenon
    <3>4. ASSUME NEW a \in new \ (old \ {q}), NEW b \in new \ (old \ {q}) PROVE a = b
      <4>1. a \in new /\ b \in new /\ a \notin old /\ b \notin old
        BY <3>3, <3>4, Zenon
      <4>2. /\ a \in Run /\ b \in Run /\ a \in ClaimsOf(place) /\ b \in ClaimsOf(place)
        BY <1>1, <1>5, <4>1, Zenon
      <4>3. /\ Identity[a] = Identity[b]
            /\ Cardinality(AheadIn(place, a)) = Cardinality(AheadIn(place, b))
        BY <1>6, <4>1, Zenon DEF AheadIn
      <4>4. ~ (place[a] < place[b]) /\ ~ (place[b] < place[a])
        BY <1>3, <4>2, <4>3, RankGrows
      <4>5. place[a] = place[b]
        BY <1>1, <4>2, <4>4
      <4> QED
        BY <4>2, <4>5, Zenon DEF Ordered
    <3>5. Cardinality(new) <= Cardinality(old \ {q}) + 1
      <4>1. new \in SUBSET Run /\ old \ {q} \in SUBSET Run
        BY ClaimSets, Zenon
      <4> QED
        BY <3>4, <4>1, OneMore, Zenon
    <3>6. Cardinality(old \ {q}) = Cardinality(old) - 1 /\ Cardinality(old) \in Nat
      BY <3>2, ClaimSets, RunSets, Zenon
    <3> QED
      BY <3>5, <3>6
  <2> QED
    BY <2>1, <2>2, Zenon
<1>8. InstanceMaxParallel > 0 => total + Cardinality(new) < InstanceMaxParallel
  <2>1. InstanceMaxParallel > 0 => total + Cardinality(old) < InstanceMaxParallel
    BY Zenon DEF Turn
  <2>2. InstanceMaxParallel \in Nat /\ Cardinality(new) \in Nat /\ Cardinality(old) \in Nat
    BY AdmissionAssumption, ClaimSets, RunSets, Zenon
  <2> QED
    BY <1>7, <2>1, <2>2
<1> QED
  BY <1>4, <1>8, Zenon DEF Turn

(* A start, or a resume from behind, that has counted the claim among those  *)
(* it holds room for leaves that room.                                       *)
LEMMA TurnAfterStart ==
    ASSUME NEW slots \in [Workflow -> Nat], NEW total \in Nat, NEW place, Ordered(place),
           NEW r \in ClaimsOf(place), Turn(slots, total, place, r), NEW w \in Workflow,
           NEW held \in SUBSET ClaimsOf(place), Ahead(place, r) \cup {r} \subseteq held,
           slots[w] + Cardinality({a \in held : Identity[a] = w}) < maxConcurrentRuns(w),
           InstanceMaxParallel > 0 =>
             total + Cardinality({a \in held : Usable(slots, place, a)}) < InstanceMaxParallel
    PROVE  Turn([slots EXCEPT ![w] = @ + 1], total + 1, place, r)
<1> DEFINE more == [slots EXCEPT ![w] = @ + 1]
           old == UsableAhead(slots, place, r)
           new == UsableAhead(more, place, r)
           same == {a \in held : Identity[a] = w}
           usable == {a \in held : Usable(slots, place, a)}
<1>1. \A v \in Workflow : more[v] = IF v = w THEN slots[v] + 1 ELSE slots[v]
  OBVIOUS
<1> HIDE DEF more
<1>2. /\ place \in [Run -> Nat] /\ r \in Run /\ same \in SUBSET Run /\ usable \in SUBSET Run
      /\ r \notin Ahead(place, r)
  BY DEF Ordered, ClaimsOf, Ahead
<1>3. ASSUME NEW a \in Run
      PROVE  /\ Cardinality(AheadIn(place, a)) \in Nat /\ Identity[a] \in Workflow
             /\ maxConcurrentRuns(Identity[a]) \in Nat /\ slots[Identity[a]] \in Nat
  BY CapType, ClaimSets, RunSets, Zenon
<1>4. Usable(more, place, r)
  <2>1. CASE Identity[r] = w
    <3>1. AheadIn(place, r) \cup {r} \subseteq same /\ r \notin AheadIn(place, r)
      BY <1>2, <2>1, Zenon DEF AheadIn
    <3>2. Cardinality(AheadIn(place, r)) + 1 <= Cardinality(same) /\ Cardinality(same) \in Nat
      <4>1. Cardinality(AheadIn(place, r) \cup {r}) = Cardinality(AheadIn(place, r)) + 1
        BY <3>1, ClaimSets, RunSets, Zenon
      <4> QED
        BY <1>2, <3>1, <4>1, RunSets
    <3> QED
      BY <1>1, <1>2, <1>3, <2>1, <3>2 DEF Usable
  <2>2. CASE Identity[r] # w
    BY <1>1, <1>2, <1>3, <2>2, Zenon DEF Usable, Turn
  <2> QED
    BY <2>1, <2>2, Zenon
<1>5. new \subseteq old
  <2>1. ASSUME NEW a \in Run, Usable(more, place, a) PROVE Usable(slots, place, a)
    BY <1>1, <1>3, <2>1 DEF Usable
  <2> QED
    BY <2>1, ClaimSets, Zenon DEF UsableAhead
<1>6. old \cup {r} \subseteq usable /\ r \notin old
  BY <1>2, Zenon DEF UsableAhead, Turn
<1>7. Cardinality(new) + 1 <= Cardinality(usable)
  <2>1. Cardinality(new) <= Cardinality(old) /\ Cardinality(old) + 1 = Cardinality(old \cup {r})
    BY <1>5, <1>6, ClaimSets, RunSets, Zenon
  <2>2. Cardinality(old \cup {r}) <= Cardinality(usable)
    BY <1>2, <1>6, RunSets, Zenon
  <2>3. Cardinality(new) \in Nat /\ Cardinality(old) \in Nat /\ Cardinality(usable) \in Nat
    BY <1>2, ClaimSets, RunSets, Zenon
  <2> QED
    BY <2>1, <2>2, <2>3
<1>8. InstanceMaxParallel > 0 => total + 1 + Cardinality(new) < InstanceMaxParallel
  <2>1. InstanceMaxParallel > 0 => total + Cardinality(usable) < InstanceMaxParallel
    OBVIOUS
  <2>2. InstanceMaxParallel \in Nat /\ Cardinality(new) \in Nat /\ Cardinality(usable) \in Nat
    BY <1>2, AdmissionAssumption, ClaimSets, RunSets, Zenon
  <2> HIDE DEF new, usable
  <2> QED
    BY <1>7, <2>1, <2>2
<1> QED
  BY <1>4, <1>8, Zenon DEF Turn, more

(* The claim ahead takes its slot: its place is gone with it.                *)
LEMMA TurnAfterResume ==
    ASSUME NEW slots \in [Workflow -> Nat], NEW total \in Nat, NEW place, Ordered(place),
           NEW later, NEW q \in ClaimsOf(place), Dropped(place, later, q),
           NEW r \in ClaimsOf(later), Turn(slots, total, place, r),
           place[q] < place[r], Usable(slots, place, q)
    PROVE  Turn([slots EXCEPT ![Identity[q]] = @ + 1], total + 1, later, r)
<1> DEFINE more == [slots EXCEPT ![Identity[q]] = @ + 1]
           old == UsableAhead(slots, place, r)
           new == UsableAhead(more, later, r)
<1>1. /\ place \in [Run -> Nat] /\ q \in Run
      /\ \A a \in ClaimsOf(later) : a \in Run /\ a \in ClaimsOf(place) /\ a # q
  BY Zenon DEF Ordered, Dropped, ClaimsOf
<1>2. \A v \in Workflow : more[v] = IF v = Identity[q] THEN slots[v] + 1 ELSE slots[v]
  BY <1>1, CapType, Zenon
<1> HIDE DEF more
<1>3. ASSUME NEW a \in Run
      PROVE  /\ Cardinality(AheadIn(place, a)) \in Nat /\ Identity[a] \in Workflow
             /\ maxConcurrentRuns(Identity[a]) \in Nat /\ slots[Identity[a]] \in Nat
  BY CapType, ClaimSets, RunSets, Zenon
<1>4. ASSUME NEW a \in ClaimsOf(later)
      PROVE  /\ q \notin AheadIn(place, a) => AheadIn(later, a) = AheadIn(place, a)
             /\ q \in AheadIn(place, a) =>
                  Cardinality(AheadIn(later, a)) = Cardinality(AheadIn(place, a)) - 1
  BY AheadAfterDrop
<1>5. Usable(more, later, r)
  <2>1. Identity[r] = Identity[q] => q \in AheadIn(place, r)
    BY Zenon DEF AheadIn, Ahead
  <2> QED
    BY <1>1, <1>2, <1>3, <1>4, <2>1 DEF Turn, Usable
<1>6. new \subseteq old \ {q}
  <2> SUFFICES ASSUME NEW a \in new PROVE a \in old /\ a # q
    OBVIOUS
  <2>1. /\ a \in ClaimsOf(later) /\ a \in Ahead(place, r) /\ a \in Run /\ a # q
        /\ Usable(more, later, a)
    BY <1>1, AheadAfterDrop DEF UsableAhead, Ahead
  <2>2. q \in AheadIn(place, a) => Identity[a] = Identity[q]
    BY Zenon DEF AheadIn
  <2>3. Usable(slots, place, a)
    BY <1>1, <1>2, <1>3, <1>4, <2>1, <2>2 DEF Usable
  <2> QED
    BY <2>1, <2>3, Zenon DEF UsableAhead
<1>7. q \in old
  BY Zenon DEF UsableAhead, Ahead
<1>8. Cardinality(new) + 1 <= Cardinality(old)
  <2>1. old \ {q} \in SUBSET Run
    BY ClaimSets, Zenon
  <2>2. Cardinality(new) <= Cardinality(old \ {q})
    BY <1>6, <2>1, RunSets, Zenon
  <2>3. Cardinality(old \ {q}) = Cardinality(old) - 1
    BY <1>7, ClaimSets, RunSets, Zenon
  <2>4. Cardinality(new) \in Nat /\ Cardinality(old) \in Nat
    BY ClaimSets, RunSets, Zenon
  <2> QED
    BY <2>2, <2>3, <2>4
<1>9. InstanceMaxParallel > 0 => total + 1 + Cardinality(new) < InstanceMaxParallel
  <2>1. InstanceMaxParallel > 0 => total + Cardinality(old) < InstanceMaxParallel
    BY Zenon DEF Turn
  <2>2. InstanceMaxParallel \in Nat /\ Cardinality(new) \in Nat /\ Cardinality(old) \in Nat
    BY AdmissionAssumption, ClaimSets, RunSets, Zenon
  <2> QED
    BY <1>8, <2>1, <2>2
<1> QED
  BY <1>5, <1>9, Zenon DEF Turn, more

-----------------------------------------------------------------------------
(* Slots and owners.                                                         *)

(* The holders of slots are finitely many, so counting them makes sense.    *)
LEMMA HoldersFinite ==
    /\ IsFiniteSet(Holders)
    /\ \A w \in Workflow : IsFiniteSet({r \in Holders : Identity[r] = w})
    /\ Cardinality(Holders) \in Nat
    /\ \A w \in Workflow : Cardinality({r \in Holders : Identity[r] = w}) \in Nat
<1>1. Holders \subseteq Run
  BY Zenon DEF Holders
<1>2. IsFiniteSet(Holders)
  BY <1>1, FS_Subset, AdmissionAssumption, Zenon
<1>3. ASSUME NEW w \in Workflow PROVE IsFiniteSet({r \in Holders : Identity[r] = w})
  BY <1>2, FS_Subset, Zenon
<1> QED
  BY <1>2, <1>3, FS_CardinalityType, Zenon

(* Taking a slot for a run that holds none (admitProviderWorkflow,          *)
(* reserveContinuationLocked) keeps the counters equal to the holders.      *)
LEMMA SlotTaken ==
    ASSUME NEW r \in Run, TypeOK, SlotsMatchOwners, r \notin Holders,
           Holders' = Holders \cup {r}, TakeSlot(Identity[r])
    PROVE  SlotsMatchOwners' /\ active' \in [Workflow -> Nat] /\ totalActive' \in Nat
<1>1. Identity[r] \in Workflow /\ active \in [Workflow -> Nat]
  BY AdmissionAssumption, Zenon DEF TypeOK
<1>2. Cardinality(Holders') = Cardinality(Holders) + 1
  BY HoldersFinite, FS_AddElement, Zenon
<1>3. ASSUME NEW w \in Workflow
      PROVE active'[w] = Cardinality({q \in Holders' : Identity[q] = w})
  <2> DEFINE S == {q \in Holders : Identity[q] = w}
  <2>1. CASE w = Identity[r]
    <3>1. {q \in Holders' : Identity[q] = w} = S \cup {r} /\ r \notin S
      BY <2>1, Zenon
    <3>2. Cardinality(S \cup {r}) = Cardinality(S) + 1
      BY <3>1, HoldersFinite, FS_AddElement, Zenon
    <3>3. active'[w] = active[w] + 1
      BY <1>1, <2>1, Zenon DEF TakeSlot
    <3> QED
      BY <3>1, <3>2, <3>3, Zenon DEF SlotsMatchOwners
  <2>2. CASE w # Identity[r]
    <3>1. {q \in Holders' : Identity[q] = w} = S
      BY <2>2, Zenon
    <3>2. active'[w] = active[w]
      BY <1>1, <2>2, Zenon DEF TakeSlot
    <3> QED
      BY <3>1, <3>2, Zenon DEF SlotsMatchOwners
  <2> QED
    BY <2>1, <2>2, Zenon
<1>4. active' \in [Workflow -> Nat] /\ totalActive' \in Nat
  BY <1>1 DEF TakeSlot, TypeOK
<1> QED
  BY <1>2, <1>3, <1>4, Zenon DEF SlotsMatchOwners, TakeSlot

(* Returning the slot of a run that holds one: ReleaseWorkflow's guard      *)
(* against a counter at zero never fires.                                   *)
LEMMA SlotReturned ==
    ASSUME NEW r \in Run, TypeOK, SlotsMatchOwners, r \in Holders,
           Holders' = Holders \ {r}, ReleaseWorkflow(Identity[r])
    PROVE  SlotsMatchOwners' /\ active' \in [Workflow -> Nat] /\ totalActive' \in Nat
<1> DEFINE i == Identity[r]
           I == {q \in Holders : Identity[q] = i}
<1>1. i \in Workflow /\ active \in [Workflow -> Nat] /\ totalActive \in Nat
  BY AdmissionAssumption, Zenon DEF TypeOK
<1>2. Cardinality(Holders') = Cardinality(Holders) - 1 /\ IsFiniteSet(Holders')
  BY HoldersFinite, FS_RemoveElement, Zenon
<1>3. Cardinality(Holders) >= 1
  BY <1>2, HoldersFinite, FS_CardinalityType
<1>4. Cardinality(I \ {r}) = Cardinality(I) - 1 /\ IsFiniteSet(I \ {r})
  BY <1>1, HoldersFinite, FS_RemoveElement, Zenon
<1>5. Cardinality(I) \in Nat /\ Cardinality(I \ {r}) \in Nat
  BY <1>1, <1>4, HoldersFinite, FS_CardinalityType, Zenon
<1>6. active[i] = Cardinality(I)
  BY <1>1, Zenon DEF SlotsMatchOwners
<1>7. active[i] > 0
  BY <1>4, <1>5, <1>6
<1>8. /\ active' = [active EXCEPT ![i] = @ - 1]
      /\ totalActive' = totalActive - 1
  BY <1>7, Zenon DEF ReleaseWorkflow
<1>9. ASSUME NEW w \in Workflow
      PROVE active'[w] = Cardinality({q \in Holders' : Identity[q] = w})
  <2>1. CASE w = i
    <3>1. {q \in Holders' : Identity[q] = w} = I \ {r}
      BY <2>1, Zenon
    <3>2. active'[w] = active[i] - 1
      BY <1>1, <1>8, <2>1, Zenon
    <3> QED
      BY <3>1, <3>2, <1>4, <1>6, Zenon
  <2>2. CASE w # i
    <3>1. {q \in Holders' : Identity[q] = w} = {q \in Holders : Identity[q] = w}
      BY <2>2, Zenon
    <3>2. active'[w] = active[w]
      BY <1>1, <1>8, <2>2, Zenon
    <3> QED
      BY <3>1, <3>2, Zenon DEF SlotsMatchOwners
  <2> QED
    BY <2>1, <2>2, Zenon
<1>10. totalActive' = Cardinality(Holders') /\ totalActive' \in Nat
  BY <1>1, <1>2, <1>3, <1>8, HoldersFinite DEF SlotsMatchOwners
<1>11. active' \in [Workflow -> Nat]
  BY <1>1, <1>7, <1>8
<1> QED
  BY <1>9, <1>10, <1>11, Zenon DEF SlotsMatchOwners

(* Steps that neither take nor return a slot.                               *)
LEMMA SlotsKept ==
    ASSUME SlotsMatchOwners, Holders' = Holders, UNCHANGED conditions
    PROVE  SlotsMatchOwners'
BY Zenon DEF SlotsMatchOwners, conditions

(* Recording and dropping continuation claims keeps their type.             *)
LEMMA ClaimsTyped ==
    ASSUME TypeOK, NEW r \in Run
    PROVE  /\ ClearContinuationClaim(r) => waiting' \in [Run -> Nat]
           /\ markContinuationWaiting(r) => waiting' \in [Run -> Nat]
<1>1. waiting \in [Run -> Nat]
  BY Zenon DEF TypeOK
<1>2. Cardinality(Claims) \in Nat
  <2>1. Claims \subseteq Run
    BY Zenon DEF Claims
  <2> QED
    BY <2>1, FS_Subset, FS_CardinalityType, AdmissionAssumption, Zenon
<1>3. ASSUME ClearContinuationClaim(r) PROVE waiting' \in [Run -> Nat]
  <2>1. ASSUME NEW a \in Run, r \in Claims, olderThan(r, a) PROVE waiting[a] - 1 \in Nat
    BY <1>1, <2>1 DEF olderThan
  <2> QED
    BY <1>1, <1>3, <2>1, Zenon DEF ClearContinuationClaim
<1>4. ASSUME markContinuationWaiting(r) PROVE waiting' \in [Run -> Nat]
  BY <1>1, <1>2, <1>4 DEF markContinuationWaiting
<1> QED
  BY <1>3, <1>4, Zenon

(* A new admission has one owner, whose release function is the only one of *)
(* its generation; other runs are left alone.                               *)
LEMMA Registered ==
    ASSUME TypeOK, OwnersBacked, NEW r \in Run, Register(r)
    PROVE  /\ admitted' \in [Run -> Admission] /\ releases' \in [Run -> [Generation -> Nat]]
           /\ admitted'[r].generation # 0 /\ ~admitted'[r].suspended
           /\ \A q \in Run \ {r} : admitted'[q] = admitted[q]
           /\ OwnersBacked'
<1>1. PICK g \in FreshGeneration(r) :
         /\ admitted' = [admitted EXCEPT ![r] =
               [generation |-> g, owners |-> 1, retained |-> FALSE, suspended |-> FALSE]]
         /\ releases' = [releases EXCEPT ![r][g] = 1]
  BY Zenon DEF Register
<1>2. g \in Generation /\ g # 0
  BY AdmissionAssumption DEF FreshGeneration, Generation
<1>3. admitted \in [Run -> Admission] /\ releases \in [Run -> [Generation -> Nat]]
  BY Zenon DEF TypeOK
<1>4. /\ admitted'[r] = [generation |-> g, owners |-> 1, retained |-> FALSE, suspended |-> FALSE]
      /\ \A q \in Run \ {r} : admitted'[q] = admitted[q]
      /\ admitted' \in [Run -> Admission]
  BY <1>1, <1>2, <1>3, Zenon DEF Admission
<1>5. /\ releases'[r][g] = 1
      /\ \A q \in Run \ {r} : releases'[q] = releases[q]
      /\ releases' \in [Run -> [Generation -> Nat]]
  BY <1>1, <1>2, <1>3, Zenon
<1> QED
  BY <1>2, <1>4, <1>5 DEF OwnersBacked, IsAdmitted

(* The end of an admission returns exactly the slot it held, if any.        *)
LEMMA AdmissionEnded ==
    ASSUME AdmissionInv, NEW r \in Run, IsAdmitted(r), EndAdmission(r),
           UNCHANGED <<dispatching, reconciled>>
    PROVE  /\ SlotsMatchOwners' /\ active' \in [Workflow -> Nat] /\ totalActive' \in Nat
           /\ waiting' \in [Run -> Nat]
           /\ admitted' \in [Run -> Admission] /\ ~IsAdmitted(r)'
           /\ \A q \in Run \ {r} : admitted'[q] = admitted[q]
<1> USE DEF AdmissionInv
<1>1. /\ admitted' = [admitted EXCEPT ![r] = NoAdmission]
      /\ admitted \in [Run -> Admission]
      /\ NoAdmission \in Admission
  BY Zenon DEF EndAdmission, TypeOK, Admission, NoAdmission
<1>2. /\ admitted'[r] = NoAdmission /\ NoAdmission.generation = 0
      /\ \A q \in Run \ {r} : admitted'[q] = admitted[q]
      /\ admitted' \in [Run -> Admission]
  BY <1>1, Zenon DEF NoAdmission
<1>3. waiting' \in [Run -> Nat]
  BY ClaimsTyped, Zenon DEF EndAdmission
<1>4. r \notin dispatching /\ reconciled[r] = "none"
  BY Zenon DEF OnePlace, IsReconciled
<1>5. Holders' = Holders \ {r}
  BY <1>2, <1>4, Zenon DEF Holders, HoldsSlot, IsAdmitted
<1>6. CASE admitted[r].suspended
  <2>1. r \notin Holders
    BY <1>4, <1>6, Zenon DEF Holders, HoldsSlot
  <2>2. UNCHANGED conditions
    BY <1>6, Zenon DEF EndAdmission
  <2>3. SlotsMatchOwners'
    BY <1>5, <2>1, <2>2, SlotsKept, Zenon
  <2> QED
    BY <1>2, <1>3, <2>2, <2>3, Zenon DEF conditions, TypeOK, IsAdmitted
<1>7. CASE ~admitted[r].suspended
  <2>1. r \in Holders /\ ReleaseWorkflow(Identity[r])
    BY <1>7, Zenon DEF Holders, HoldsSlot, EndAdmission
  <2> QED
    BY <1>2, <1>3, <1>5, <2>1, SlotReturned, Zenon DEF IsAdmitted
<1> QED
  BY <1>6, <1>7, Zenon

-----------------------------------------------------------------------------
(* Steps that move no slot and change no owner.                             *)
LEMMA QuietStep ==
    ASSUME AdmissionInv, UNCHANGED <<conditions, dispatching, admitted, reconciled, releases>>,
           waiting' \in [Run -> Nat],
           leases' \subseteq Run \X (Generation \cup {0}),
           journal' \in [Run -> {"none", "running", "parked", "terminal"}],
           \A q \in dispatching : journal'[q] = "none"
    PROVE  AdmissionInv'
<1> USE DEF AdmissionInv
<1>1. TypeOK'
  BY Zenon DEF TypeOK, conditions
<1>2. OnePlace' /\ OwnersBacked'
  BY Zenon DEF OnePlace, OwnersBacked, IsAdmitted, IsReconciled
<1>3. Holders' = Holders
  BY Zenon DEF Holders, HoldsSlot, IsAdmitted
<1>4. SlotsMatchOwners'
  BY <1>3, SlotsKept, Zenon
<1> QED
  BY <1>1, <1>2, <1>4, Zenon

(* A slot and a new admission for a run that is nowhere yet.                *)
LEMMA AdmittedStep ==
    ASSUME AdmissionInv, NEW r \in Run,
           r \notin dispatching, ~IsAdmitted(r), ~IsReconciled(r),
           TakeSlot(Identity[r]), Register(r),
           UNCHANGED <<waiting, dispatching, reconciled, leases, journal>>
    PROVE  AdmissionInv'
<1> USE DEF AdmissionInv
<1>1. /\ admitted' \in [Run -> Admission] /\ releases' \in [Run -> [Generation -> Nat]]
      /\ admitted'[r].generation # 0 /\ ~admitted'[r].suspended
      /\ \A q \in Run \ {r} : admitted'[q] = admitted[q]
      /\ OwnersBacked'
  BY Registered, Zenon
<1>2. Holders' = Holders \cup {r} /\ r \notin Holders
  BY <1>1, Zenon DEF Holders, HoldsSlot, IsAdmitted, IsReconciled
<1>3. SlotsMatchOwners' /\ active' \in [Workflow -> Nat] /\ totalActive' \in Nat
  BY <1>2, SlotTaken, Zenon
<1>4. TypeOK'
  BY <1>1, <1>3, Zenon DEF TypeOK
<1>5. OnePlace'
  BY <1>1, Zenon DEF OnePlace, IsAdmitted, IsReconciled
<1> QED
  BY <1>1, <1>3, <1>4, <1>5, Zenon

(* dispatch takes a slot and has not registered the run yet.                *)
LEMMA DispatchAdmitStep ==
    ASSUME AdmissionInv, NEW r \in Run, DispatchAdmit(r)
    PROVE  AdmissionInv'
<1> USE DEF AdmissionInv
<1>1. /\ TakeSlot(Identity[r]) /\ dispatching' = dispatching \cup {r}
      /\ UNCHANGED <<waiting, admitted, reconciled, releases, leases, journal>>
      /\ r \notin dispatching /\ ~IsAdmitted(r) /\ ~IsReconciled(r)
      /\ journal[r] = "none" /\ r \notin Child
  BY Zenon DEF DispatchAdmit, NewRunID
<1>2. Holders' = Holders \cup {r} /\ r \notin Holders
  BY <1>1, Zenon DEF Holders, HoldsSlot, IsAdmitted, IsReconciled
<1>3. SlotsMatchOwners' /\ active' \in [Workflow -> Nat] /\ totalActive' \in Nat
  BY <1>1, <1>2, SlotTaken, Zenon
<1>4. TypeOK'
  BY <1>1, <1>3, Zenon DEF TypeOK
<1>5. OnePlace' /\ OwnersBacked'
  BY <1>1, Zenon DEF OnePlace, OwnersBacked, IsAdmitted, IsReconciled
<1> QED
  BY <1>3, <1>4, <1>5, Zenon

(* dispatch registers the admission: the slot changes hands within the run. *)
LEMMA DispatchRegisterStep ==
    ASSUME AdmissionInv, NEW r \in Run, DispatchRegister(r)
    PROVE  AdmissionInv'
<1> USE DEF AdmissionInv
<1>1. /\ r \in dispatching /\ dispatching' = dispatching \ {r} /\ Register(r)
      /\ UNCHANGED <<conditions, waiting, reconciled, leases, journal>>
  BY Zenon DEF DispatchRegister
<1>2. /\ admitted' \in [Run -> Admission] /\ releases' \in [Run -> [Generation -> Nat]]
      /\ admitted'[r].generation # 0 /\ ~admitted'[r].suspended
      /\ \A q \in Run \ {r} : admitted'[q] = admitted[q]
      /\ OwnersBacked'
  BY <1>1, Registered, Zenon
<1>3. Holders' = Holders
  BY <1>1, <1>2, Zenon DEF Holders, HoldsSlot, IsAdmitted
<1>4. SlotsMatchOwners'
  BY <1>1, <1>3, SlotsKept, Zenon
<1>5. TypeOK'
  BY <1>1, <1>2, Zenon DEF TypeOK, conditions
<1>6. OnePlace'
  BY <1>1, <1>2, Zenon DEF OnePlace, IsAdmitted, IsReconciled
<1> QED
  BY <1>2, <1>4, <1>5, <1>6, Zenon

(* A generated child is admitted in one critical section.                   *)
LEMMA ReserveChildStep ==
    ASSUME AdmissionInv, NEW r \in Run, ReserveChild(r)
    PROVE  AdmissionInv'
<1>1. r \notin dispatching
  BY Zenon DEF AdmissionInv, OnePlace, ReserveChild
<1> QED
  BY <1>1, AdmittedStep, Zenon DEF ReserveChild

(* A release function is called: only an owner of the current generation    *)
(* counts, and the last one returns the slot.                               *)
LEMMA ReleaseOwnerStep ==
    ASSUME AdmissionInv, NEW r \in Run, NEW g \in Generation, releaseAdmissionOwner(r, g)
    PROVE  AdmissionInv'
<1> USE DEF AdmissionInv
<1>1. /\ releases[r][g] > 0
      /\ releases' = [releases EXCEPT ![r][g] = @ - 1]
      /\ UNCHANGED <<dispatching, reconciled, leases, journal>>
  BY Zenon DEF releaseAdmissionOwner
<1>2. releases \in [Run -> [Generation -> Nat]] /\ admitted \in [Run -> Admission] /\ g # 0
  BY AdmissionAssumption DEF TypeOK, Generation
<1>3. /\ releases' \in [Run -> [Generation -> Nat]]
      /\ releases'[r][g] = releases[r][g] - 1
      /\ \A h \in Generation : h # g => releases'[r][h] = releases[r][h]
      /\ \A q \in Run \ {r} : releases'[q] = releases[q]
  BY <1>1, <1>2
<1>4. CASE admitted[r].generation # g
  <2>1. UNCHANGED <<conditions, waiting, admitted>>
    BY <1>4, Zenon DEF releaseAdmissionOwner
  <2>2. TypeOK'
    BY <1>1, <1>3, <2>1, Zenon DEF TypeOK, conditions
  <2>3. OwnersBacked'
    <3> SUFFICES ASSUME NEW q \in Run, admitted[q].generation # 0
                 PROVE  admitted[q].owners = releases'[q][admitted[q].generation]
      BY <2>1, Zenon DEF OwnersBacked, IsAdmitted
    <3>1. admitted[q].owners = releases[q][admitted[q].generation]
      BY Zenon DEF OwnersBacked, IsAdmitted
    <3>2. admitted[q].generation \in Generation
      BY <1>2, Zenon DEF Admission
    <3> QED
      BY <1>3, <1>4, <3>1, <3>2, Zenon
  <2>4. OnePlace' /\ Holders' = Holders
    BY <1>1, <2>1, Zenon DEF OnePlace, IsAdmitted, IsReconciled, Holders, HoldsSlot
  <2>5. SlotsMatchOwners'
    BY <2>1, <2>4, SlotsKept, Zenon
  <2> QED
    BY <2>2, <2>3, <2>4, <2>5, Zenon
<1>5. CASE admitted[r].generation = g
  <2>1. IsAdmitted(r) /\ admitted[r].owners = releases[r][g]
    BY <1>2, <1>5, Zenon DEF IsAdmitted, OwnersBacked
  <2>2. CASE admitted[r].owners > 1 \/ admitted[r].retained
    <3>1. /\ admitted' = [admitted EXCEPT ![r].owners = @ - 1]
          /\ UNCHANGED <<conditions, waiting>>
      BY <1>5, <2>2, Zenon DEF releaseAdmissionOwner
    <3>2. admitted[r].owners - 1 \in Nat
      BY <1>1, <1>2, <2>1
    <3>3. /\ admitted' \in [Run -> Admission]
          /\ admitted'[r].owners = admitted[r].owners - 1
          /\ admitted'[r].generation = admitted[r].generation
          /\ admitted'[r].suspended = admitted[r].suspended
          /\ \A q \in Run \ {r} : admitted'[q] = admitted[q]
      BY <1>2, <3>1, <3>2 DEF Admission
    <3>4. TypeOK'
      BY <1>1, <1>3, <3>1, <3>3, Zenon DEF TypeOK, conditions
    <3>5. OwnersBacked'
      BY <1>3, <1>5, <2>1, <3>3 DEF OwnersBacked, IsAdmitted
    <3>6. OnePlace' /\ Holders' = Holders
      BY <1>1, <3>3 DEF OnePlace, IsAdmitted, IsReconciled, Holders, HoldsSlot
    <3>7. SlotsMatchOwners'
      BY <3>1, <3>6, SlotsKept, Zenon
    <3> QED
      BY <3>4, <3>5, <3>6, <3>7, Zenon
  <2>3. CASE ~(admitted[r].owners > 1 \/ admitted[r].retained)
    <3>1. EndAdmission(r)
      BY <1>5, <2>3, Zenon DEF releaseAdmissionOwner
    <3>2. /\ SlotsMatchOwners' /\ active' \in [Workflow -> Nat] /\ totalActive' \in Nat
          /\ waiting' \in [Run -> Nat]
          /\ admitted' \in [Run -> Admission] /\ ~IsAdmitted(r)'
          /\ \A q \in Run \ {r} : admitted'[q] = admitted[q]
      BY <1>1, <2>1, <3>1, AdmissionEnded, Zenon
    <3>3. TypeOK'
      BY <1>1, <1>3, <3>2, Zenon DEF TypeOK
    <3>4. OwnersBacked' /\ OnePlace'
      BY <1>1, <1>3, <3>2 DEF OwnersBacked, OnePlace, IsAdmitted, IsReconciled
    <3> QED
      BY <3>2, <3>3, <3>4, Zenon
  <2> QED
    BY <2>2, <2>3, Zenon
<1> QED
  BY <1>4, <1>5, Zenon

(* An intervention joins a live admission, or takes a slot of its own.      *)
LEMMA ReserveContinuationStep ==
    ASSUME AdmissionInv, NEW r \in Run, ReserveContinuation(r)
    PROVE  AdmissionInv'
<1> USE DEF AdmissionInv
<1>1. /\ r \notin dispatching
      /\ UNCHANGED <<waiting, dispatching, reconciled, leases, journal>>
  BY Zenon DEF OnePlace, ReserveContinuation
<1>2. CASE /\ IsAdmitted(r) /\ UNCHANGED conditions
           /\ admitted' = [admitted EXCEPT ![r].owners = @ + 1]
           /\ releases' = [releases EXCEPT ![r][admitted[r].generation] = @ + 1]
  <2>1. /\ admitted \in [Run -> Admission] /\ releases \in [Run -> [Generation -> Nat]]
        /\ admitted[r].generation \in Generation
    BY <1>2, Zenon DEF TypeOK, Admission, IsAdmitted
  <2>2. /\ admitted' \in [Run -> Admission]
        /\ admitted'[r].owners = admitted[r].owners + 1
        /\ admitted'[r].generation = admitted[r].generation
        /\ admitted'[r].suspended = admitted[r].suspended
        /\ \A q \in Run \ {r} : admitted'[q] = admitted[q]
    BY <1>2, <2>1 DEF Admission
  <2>3. /\ releases' \in [Run -> [Generation -> Nat]]
        /\ releases'[r][admitted[r].generation] = releases[r][admitted[r].generation] + 1
        /\ \A q \in Run \ {r} : releases'[q] = releases[q]
    BY <1>2, <2>1
  <2>4. TypeOK'
    BY <1>1, <1>2, <2>2, <2>3, Zenon DEF TypeOK, conditions
  <2>5. OwnersBacked'
    BY <1>2, <2>2, <2>3 DEF OwnersBacked, IsAdmitted
  <2>6. OnePlace' /\ Holders' = Holders
    BY <1>1, <2>2 DEF OnePlace, IsAdmitted, IsReconciled, Holders, HoldsSlot
  <2>7. SlotsMatchOwners'
    BY <1>2, <2>6, SlotsKept, Zenon
  <2> QED
    BY <2>4, <2>5, <2>6, <2>7, Zenon
<1>3. CASE /\ ~IsAdmitted(r) /\ ~IsReconciled(r) /\ TakeSlot(Identity[r]) /\ Register(r)
  BY <1>1, <1>3, AdmittedStep, Zenon
<1> QED
  BY <1>2, <1>3, Zenon DEF ReserveContinuation

(* Pausing an intervention marks the admission and moves no slot.           *)
LEMMA RetainStep ==
    ASSUME AdmissionInv, NEW r \in Run,
           NEW b \in BOOLEAN,
           admitted' = [admitted EXCEPT ![r].retained = b],
           UNCHANGED <<conditions, waiting, dispatching, reconciled, releases, leases, journal>>
    PROVE  AdmissionInv'
<1> USE DEF AdmissionInv
<1>1. admitted \in [Run -> Admission]
  BY Zenon DEF TypeOK
<1>2. /\ admitted' \in [Run -> Admission]
      /\ \A q \in Run : /\ admitted'[q].owners = admitted[q].owners
                        /\ admitted'[q].generation = admitted[q].generation
                        /\ admitted'[q].suspended = admitted[q].suspended
  BY <1>1 DEF Admission
<1>3. TypeOK'
  BY <1>2, Zenon DEF TypeOK, conditions
<1>4. OwnersBacked' /\ OnePlace' /\ Holders' = Holders
  BY <1>2 DEF OwnersBacked, OnePlace, IsAdmitted, IsReconciled, Holders, HoldsSlot
<1>5. SlotsMatchOwners'
  BY <1>4, SlotsKept, Zenon
<1> QED
  BY <1>3, <1>4, <1>5, Zenon

(* The hold between interventions ends; the last holder returns the slot.   *)
LEMMA ReleaseRetainedStep ==
    ASSUME AdmissionInv, NEW r \in Run, ReleaseRetainedContinuation(r)
    PROVE  AdmissionInv'
<1> USE DEF AdmissionInv
<1>1. IsAdmitted(r) /\ UNCHANGED <<dispatching, reconciled, releases, leases, journal>>
  BY Zenon DEF ReleaseRetainedContinuation
<1>2. CASE admitted[r].owners > 0
  BY <1>1, <1>2, RetainStep, Zenon DEF ReleaseRetainedContinuation, conditions
<1>3. CASE ~(admitted[r].owners > 0)
  <2>1. EndAdmission(r)
    BY <1>3, Zenon DEF ReleaseRetainedContinuation
  <2>2. /\ SlotsMatchOwners' /\ active' \in [Workflow -> Nat] /\ totalActive' \in Nat
        /\ waiting' \in [Run -> Nat]
        /\ admitted' \in [Run -> Admission] /\ ~IsAdmitted(r)'
        /\ \A q \in Run \ {r} : admitted'[q] = admitted[q]
    BY <1>1, <2>1, AdmissionEnded, Zenon
  <2>3. TypeOK'
    BY <1>1, <2>2, Zenon DEF TypeOK
  <2>4. OwnersBacked' /\ OnePlace'
    BY <1>1, <2>2 DEF OwnersBacked, OnePlace, IsAdmitted, IsReconciled
  <2> QED
    BY <2>2, <2>3, <2>4, Zenon
<1> QED
  BY <1>2, <1>3, Zenon

(* A forced release takes the run out of wherever it is, once.              *)
LEMMA ReleaseRunStep ==
    ASSUME AdmissionInv, NEW r \in Run, ReleaseRun(r)
    PROVE  AdmissionInv'
<1> USE DEF AdmissionInv
<1>1. /\ journal' = [journal EXCEPT ![r] = "terminal"]
      /\ admitted' = [admitted EXCEPT ![r] = NoAdmission]
      /\ reconciled' = [reconciled EXCEPT ![r] = "none"]
      /\ ClearContinuationClaim(r) /\ UNCHANGED <<dispatching, releases, leases>>
  BY Zenon DEF ReleaseRun
<1>2. /\ admitted \in [Run -> Admission] /\ NoAdmission \in Admission
      /\ reconciled \in [Run -> {"none", "active", "parked"}]
      /\ journal \in [Run -> {"none", "running", "parked", "terminal"}]
  BY Zenon DEF TypeOK, Admission, NoAdmission
<1>3. /\ admitted' \in [Run -> Admission] /\ admitted'[r].generation = 0
      /\ reconciled' \in [Run -> {"none", "active", "parked"}] /\ reconciled'[r] = "none"
      /\ journal' \in [Run -> {"none", "running", "parked", "terminal"}]
      /\ \A q \in Run \ {r} : /\ admitted'[q] = admitted[q]
                              /\ reconciled'[q] = reconciled[q]
                              /\ journal'[q] = journal[q]
  BY <1>1, <1>2, Zenon DEF NoAdmission
<1>4. r \notin dispatching
  BY Zenon DEF ReleaseRun, OnePlace
<1>5. Holders' = Holders \ {r}
  BY <1>1, <1>3, <1>4 DEF Holders, HoldsSlot, IsAdmitted
<1>6. SlotsMatchOwners' /\ active' \in [Workflow -> Nat] /\ totalActive' \in Nat
  <2>1. CASE (IsAdmitted(r) /\ ~admitted[r].suspended) \/ reconciled[r] = "active"
    <3>1. r \in Holders /\ ReleaseWorkflow(Identity[r])
      BY <2>1, Zenon DEF Holders, HoldsSlot, ReleaseRun
    <3> QED
      BY <1>5, <3>1, SlotReturned, Zenon
  <2>2. CASE ~((IsAdmitted(r) /\ ~admitted[r].suspended) \/ reconciled[r] = "active")
    <3>1. r \notin Holders /\ UNCHANGED conditions
      BY <1>4, <2>2, Zenon DEF Holders, HoldsSlot, ReleaseRun
    <3>2. SlotsMatchOwners'
      BY <1>5, <3>1, SlotsKept, Zenon
    <3> QED
      BY <3>1, <3>2, Zenon DEF TypeOK, conditions
  <2> QED
    BY <2>1, <2>2, Zenon
<1>7. waiting' \in [Run -> Nat]
  BY <1>1, ClaimsTyped, Zenon
<1>8. TypeOK'
  BY <1>1, <1>3, <1>6, <1>7, Zenon DEF TypeOK
<1>9. OwnersBacked' /\ OnePlace'
  BY <1>1, <1>3, <1>4 DEF OwnersBacked, OnePlace, IsAdmitted, IsReconciled
<1> QED
  BY <1>6, <1>8, <1>9, Zenon

(* The suspended mark of an admission changes, and nothing else in it.      *)
LEMMA SuspendedMark ==
    ASSUME AdmissionInv, NEW r \in Run, NEW b \in BOOLEAN,
           admitted' = [admitted EXCEPT ![r].suspended = b],
           UNCHANGED releases
    PROVE  /\ admitted' \in [Run -> Admission] /\ admitted'[r].suspended = b
           /\ admitted'[r].generation = admitted[r].generation
           /\ \A q \in Run \ {r} : admitted'[q] = admitted[q]
           /\ OwnersBacked'
<1>1. admitted \in [Run -> Admission]
  BY Zenon DEF AdmissionInv, TypeOK
<1>2. /\ admitted' \in [Run -> Admission] /\ admitted'[r].suspended = b
      /\ admitted'[r].generation = admitted[r].generation
      /\ admitted'[r].owners = admitted[r].owners
      /\ \A q \in Run \ {r} : admitted'[q] = admitted[q]
  BY <1>1 DEF Admission
<1> QED
  BY <1>2 DEF AdmissionInv, OwnersBacked, IsAdmitted

(* A parked parent lends its slot, once however often it is suspended.      *)
LEMMA SuspendStep ==
    ASSUME AdmissionInv, NEW r \in Run, SuspendChildParent(r)
    PROVE  AdmissionInv'
<1> USE DEF AdmissionInv
<1>1. UNCHANGED <<waiting, dispatching, releases, journal>>
  BY Zenon DEF SuspendChildParent
<1>2. CASE /\ IsAdmitted(r) /\ leases' = leases \cup {<<r, admitted[r].generation>>}
           /\ admitted' = [admitted EXCEPT ![r].suspended = TRUE]
           /\ IF admitted[r].suspended THEN UNCHANGED conditions
                                       ELSE ReleaseWorkflow(Identity[r])
           /\ UNCHANGED reconciled
  <2>1. /\ admitted' \in [Run -> Admission] /\ admitted'[r].suspended = TRUE
        /\ admitted'[r].generation = admitted[r].generation
        /\ \A q \in Run \ {r} : admitted'[q] = admitted[q]
        /\ OwnersBacked'
    BY <1>1, <1>2, SuspendedMark, Zenon
  <2>2. r \notin dispatching /\ reconciled[r] = "none"
    BY <1>2, Zenon DEF OnePlace, IsReconciled
  <2>3. Holders' = Holders \ {r}
    BY <1>1, <1>2, <2>1, <2>2, Zenon DEF Holders, HoldsSlot, IsAdmitted
  <2>4. SlotsMatchOwners' /\ active' \in [Workflow -> Nat] /\ totalActive' \in Nat
    <3>1. CASE admitted[r].suspended
      <4>1. r \notin Holders /\ UNCHANGED conditions
        BY <1>2, <2>2, <3>1, Zenon DEF Holders, HoldsSlot
      <4>2. SlotsMatchOwners'
        BY <2>3, <4>1, SlotsKept, Zenon
      <4> QED
        BY <4>1, <4>2, Zenon DEF TypeOK, conditions
    <3>2. CASE ~admitted[r].suspended
      <4>1. r \in Holders /\ ReleaseWorkflow(Identity[r])
        BY <1>2, <3>2, Zenon DEF Holders, HoldsSlot
      <4> QED
        BY <2>3, <4>1, SlotReturned, Zenon
    <3> QED
      BY <3>1, <3>2, Zenon
  <2>5. leases' \subseteq Run \X (Generation \cup {0})
    BY <1>2 DEF TypeOK, Admission
  <2>6. TypeOK'
    BY <1>1, <1>2, <2>1, <2>4, <2>5, Zenon DEF TypeOK
  <2>7. OnePlace'
    BY <1>1, <1>2, <2>1 DEF OnePlace, IsAdmitted, IsReconciled
  <2> QED
    BY <2>1, <2>4, <2>6, <2>7, Zenon
<1>3. CASE /\ ~IsAdmitted(r) /\ IsReconciled(r) /\ leases' = leases \cup {<<r, 0>>}
           /\ reconciled' = [reconciled EXCEPT ![r] = "parked"]
           /\ IF reconciled[r] = "parked" THEN UNCHANGED conditions
                                          ELSE ReleaseWorkflow(Identity[r])
           /\ UNCHANGED admitted
  <2>1. reconciled \in [Run -> {"none", "active", "parked"}]
    BY Zenon DEF TypeOK
  <2>2. /\ reconciled' \in [Run -> {"none", "active", "parked"}]
        /\ reconciled'[r] = "parked"
        /\ \A q \in Run \ {r} : reconciled'[q] = reconciled[q]
    BY <1>3, <2>1, Zenon
  <2>3. r \notin dispatching
    BY <1>3, Zenon DEF OnePlace
  <2>4. Holders' = Holders \ {r}
    BY <1>1, <1>3, <2>2, <2>3, Zenon DEF Holders, HoldsSlot, IsAdmitted
  <2>5. SlotsMatchOwners' /\ active' \in [Workflow -> Nat] /\ totalActive' \in Nat
    <3>1. CASE reconciled[r] = "parked"
      <4>1. r \notin Holders /\ UNCHANGED conditions
        BY <1>3, <2>3, <3>1, Zenon DEF Holders, HoldsSlot
      <4>2. SlotsMatchOwners'
        BY <2>4, <4>1, SlotsKept, Zenon
      <4> QED
        BY <4>1, <4>2, Zenon DEF TypeOK, conditions
    <3>2. CASE reconciled[r] # "parked"
      <4>1. r \in Holders /\ ReleaseWorkflow(Identity[r])
        BY <1>3, <2>1, <3>2, Zenon DEF Holders, HoldsSlot, IsReconciled
      <4> QED
        BY <2>4, <4>1, SlotReturned, Zenon
    <3> QED
      BY <3>1, <3>2, Zenon
  <2>6. TypeOK'
    BY <1>1, <1>3, <2>2, <2>5 DEF TypeOK
  <2>7. OnePlace' /\ OwnersBacked'
    BY <1>1, <1>3, <2>2, <2>3, Zenon DEF OnePlace, OwnersBacked, IsAdmitted, IsReconciled
  <2> QED
    BY <2>5, <2>6, <2>7, Zenon
<1> QED
  BY <1>2, <1>3, Zenon DEF SuspendChildParent

(* A parent takes a slot back for the admission it lent it from, or becomes *)
(* a claim, or learns that the admission has ended.                         *)
LEMMA ResumeStep ==
    ASSUME AdmissionInv, NEW r \in Run, NEW g \in Generation \cup {0}, Resume(r, g)
    PROVE  AdmissionInv'
<1> USE DEF AdmissionInv
<1>1. /\ UNCHANGED <<dispatching, releases, journal>>
      /\ leases \subseteq Run \X (Generation \cup {0})
      /\ journal \in [Run -> {"none", "running", "parked", "terminal"}]
      /\ \A q \in dispatching : journal[q] = "none"
  BY Zenon DEF Resume, TypeOK, OnePlace
<1>2. CASE /\ ClearContinuationClaim(r) /\ leases' = leases \ {<<r, g>>}
           /\ UNCHANGED <<conditions, admitted, reconciled>>
  <2>1. waiting' \in [Run -> Nat]
    BY <1>2, ClaimsTyped, Zenon
  <2> QED
    BY <1>1, <1>2, <2>1, QuietStep, Zenon
<1>3. CASE /\ markContinuationWaiting(r)
           /\ UNCHANGED <<conditions, leases, admitted, reconciled>>
  <2>1. waiting' \in [Run -> Nat]
    BY <1>3, ClaimsTyped, Zenon
  <2> QED
    BY <1>1, <1>3, <2>1, QuietStep, Zenon
<1>4. CASE /\ LeaseSuspended(r, g) /\ TakeSlot(Identity[r]) /\ ClearContinuationClaim(r)
           /\ Unsuspend(r, g) /\ UNCHANGED leases
  <2>1. waiting' \in [Run -> Nat]
    BY <1>4, ClaimsTyped, Zenon
  <2>2. CASE g = 0
    <3>1. /\ reconciled[r] = "parked" /\ reconciled' = [reconciled EXCEPT ![r] = "active"]
          /\ UNCHANGED admitted
      BY <1>4, <2>2, Zenon DEF LeaseSuspended, Unsuspend
    <3>2. /\ reconciled' \in [Run -> {"none", "active", "parked"}]
          /\ reconciled'[r] = "active"
          /\ \A q \in Run \ {r} : reconciled'[q] = reconciled[q]
      BY <3>1, Zenon DEF TypeOK
    <3>3. r \notin dispatching /\ ~IsAdmitted(r)
      BY <3>1, Zenon DEF OnePlace, IsReconciled
    <3>4. Holders' = Holders \cup {r} /\ r \notin Holders
      BY <1>1, <3>1, <3>2, <3>3 DEF Holders, HoldsSlot, IsAdmitted
    <3>5. SlotsMatchOwners' /\ active' \in [Workflow -> Nat] /\ totalActive' \in Nat
      BY <1>4, <3>4, SlotTaken, Zenon
    <3>6. TypeOK'
      BY <1>1, <1>4, <2>1, <3>1, <3>2, <3>5, Zenon DEF TypeOK
    <3>7. OnePlace' /\ OwnersBacked'
      BY <1>1, <3>1, <3>2, <3>3 DEF OnePlace, OwnersBacked, IsAdmitted, IsReconciled
    <3> QED
      BY <3>5, <3>6, <3>7, Zenon
  <2>3. CASE g # 0
    <3>1. /\ IsAdmitted(r) /\ admitted[r].suspended
          /\ admitted' = [admitted EXCEPT ![r].suspended = FALSE]
          /\ UNCHANGED reconciled
      BY <1>4, <2>3, Zenon DEF LeaseSuspended, LeaseCurrent, Unsuspend, IsAdmitted
    <3>2. /\ admitted' \in [Run -> Admission] /\ admitted'[r].suspended = FALSE
          /\ admitted'[r].generation = admitted[r].generation
          /\ \A q \in Run \ {r} : admitted'[q] = admitted[q]
          /\ OwnersBacked'
      BY <1>1, <3>1, SuspendedMark, Zenon
    <3>3. r \notin dispatching /\ reconciled[r] = "none"
      BY <3>1, Zenon DEF OnePlace, IsReconciled
    <3>4. Holders' = Holders \cup {r} /\ r \notin Holders
      BY <1>1, <3>1, <3>2, <3>3 DEF Holders, HoldsSlot, IsAdmitted
    <3>5. SlotsMatchOwners' /\ active' \in [Workflow -> Nat] /\ totalActive' \in Nat
      BY <1>4, <3>4, SlotTaken, Zenon
    <3>6. TypeOK'
      BY <1>1, <1>4, <2>1, <3>1, <3>2, <3>5, Zenon DEF TypeOK
    <3>7. OnePlace'
      BY <1>1, <3>1, <3>2, <3>3 DEF OnePlace, IsAdmitted, IsReconciled
    <3> QED
      BY <3>2, <3>5, <3>6, <3>7, Zenon
  <2> QED
    BY <2>2, <2>3, Zenon
<1> QED
  BY <1>2, <1>3, <1>4, Zenon DEF Resume

(* Startup recovery returns the slot that was seeded for the run.           *)
LEMMA ReleaseReconciledStep ==
    ASSUME AdmissionInv, NEW r \in Run, ReleaseReconciled(r)
    PROVE  AdmissionInv'
<1> USE DEF AdmissionInv
<1>1. /\ IsReconciled(r) /\ reconciled' = [reconciled EXCEPT ![r] = "none"]
      /\ UNCHANGED <<waiting, dispatching, admitted, releases, leases, journal>>
  BY Zenon DEF ReleaseReconciled
<1>2. /\ reconciled' \in [Run -> {"none", "active", "parked"}]
      /\ reconciled'[r] = "none"
      /\ \A q \in Run \ {r} : reconciled'[q] = reconciled[q]
  BY <1>1, Zenon DEF TypeOK
<1>3. r \notin dispatching /\ ~IsAdmitted(r)
  BY <1>1, Zenon DEF OnePlace
<1>4. Holders' = Holders \ {r}
  BY <1>1, <1>2, <1>3, Zenon DEF Holders, HoldsSlot, IsAdmitted
<1>5. SlotsMatchOwners' /\ active' \in [Workflow -> Nat] /\ totalActive' \in Nat
  <2>1. CASE reconciled[r] = "active"
    <3>1. r \in Holders /\ ReleaseWorkflow(Identity[r])
      BY <2>1, Zenon DEF Holders, HoldsSlot, ReleaseReconciled
    <3> QED
      BY <1>4, <3>1, SlotReturned, Zenon
  <2>2. CASE reconciled[r] # "active"
    <3>1. r \notin Holders /\ UNCHANGED conditions
      BY <1>3, <2>2, Zenon DEF Holders, HoldsSlot, ReleaseReconciled
    <3>2. SlotsMatchOwners'
      BY <1>4, <3>1, SlotsKept, Zenon
    <3> QED
      BY <3>1, <3>2, Zenon DEF TypeOK, conditions
  <2> QED
    BY <2>1, <2>2, Zenon
<1>6. TypeOK'
  BY <1>1, <1>2, <1>5, Zenon DEF TypeOK
<1>7. OnePlace' /\ OwnersBacked'
  BY <1>1, <1>2, <1>3, Zenon DEF OnePlace, OwnersBacked, IsAdmitted, IsReconciled
<1> QED
  BY <1>5, <1>6, <1>7, Zenon

(* A restart counts the journals of running runs, and restores those runs.  *)
LEMMA RestartStep ==
    ASSUME AdmissionInv, Restart
    PROVE  AdmissionInv'
<1> USE DEF AdmissionInv
<1> DEFINE R == {r \in Run : journal[r] = "running"}
<1>1. /\ admitted' = [r \in Run |-> NoAdmission] /\ NoAdmission \in Admission
      /\ NoAdmission.generation = 0
      /\ dispatching' = {} /\ leases' = {} /\ journal' = journal
      /\ waiting' = [r \in Run |-> 0]
      /\ releases' = [r \in Run |-> [g \in Generation |-> 0]]
  BY Zenon DEF Restart, NoAdmission, Admission
<1>2. /\ reconciled' \in [Run -> {"none", "active", "parked"}]
      /\ \A r \in Run : reconciled'[r] = "active" <=> journal[r] = "running"
  BY Zenon DEF Restart
<1>3. Holders' = R
  BY <1>1, <1>2, Zenon DEF Holders, HoldsSlot, IsAdmitted
<1>4. \A w \in Workflow : Seeded(w) = {r \in R : Identity[r] = w}
  BY Zenon DEF Seeded
<1>5. R \subseteq Run /\ \A w \in Workflow : Seeded(w) \subseteq Run
  BY Zenon DEF Seeded
<1>6. Cardinality(R) \in Nat /\ \A w \in Workflow : Cardinality(Seeded(w)) \in Nat
  BY <1>5, FS_Subset, FS_CardinalityType, AdmissionAssumption, Zenon
<1>7. active' = [w \in Workflow |-> Cardinality(Seeded(w))] /\ totalActive' = Cardinality(R)
  BY Zenon DEF Restart
<1>8. SlotsMatchOwners'
  BY <1>3, <1>4, <1>7, Zenon DEF SlotsMatchOwners
<1>9. TypeOK'
  BY <1>1, <1>2, <1>6, <1>7, Zenon DEF TypeOK
<1>10. OnePlace' /\ OwnersBacked'
  BY <1>1, Zenon DEF OnePlace, OwnersBacked, IsAdmitted, IsReconciled
<1> QED
  BY <1>8, <1>9, <1>10, Zenon

(* The daemon starts with no run anywhere and no slot taken.                *)
LEMMA InitAdmission == Init => AdmissionInv
<1> SUFFICES ASSUME Init PROVE AdmissionInv
  OBVIOUS
<1>1. TypeOK
  BY Zenon DEF Init, TypeOK, Admission, NoAdmission
<1>2. OnePlace /\ OwnersBacked
  BY Zenon DEF Init, OnePlace, OwnersBacked, IsAdmitted, IsReconciled, NoAdmission
<1>3. Holders = {}
  BY Zenon DEF Init, Holders, HoldsSlot, IsAdmitted, NoAdmission
<1>4. \A w \in Workflow : {r \in Holders : Identity[r] = w} = {}
  BY <1>3, Zenon
<1>5. SlotsMatchOwners
  BY <1>3, <1>4, FS_EmptySet, Zenon DEF SlotsMatchOwners, Init
<1> QED
  BY <1>1, <1>2, <1>5, Zenon DEF AdmissionInv

(* Journal writes, cancelled waits and expired claims move no slot.         *)
LEMMA JournalSteps ==
    ASSUME AdmissionInv, NEW r \in Run,
           \/ ExpireClaim(r) \/ CreateJournal(r) \/ Park(r) \/ Finish(r) \/ Forget(r)
           \/ \E g \in Generation \cup {0} : Continued(r, g) \/ GiveUp(r, g)
    PROVE  AdmissionInv'
<1> USE DEF AdmissionInv
<1>1. /\ waiting \in [Run -> Nat] /\ leases \subseteq Run \X (Generation \cup {0})
      /\ journal \in [Run -> {"none", "running", "parked", "terminal"}]
      /\ \A q \in dispatching : q \in Run /\ journal[q] = "none" /\ ~IsAdmitted(q)
  BY Zenon DEF TypeOK, OnePlace
<1>2. CASE ExpireClaim(r)
  <2>1. waiting' \in [Run -> Nat]
    BY <1>2, ClaimsTyped, Zenon DEF ExpireClaim
  <2> QED
    BY <1>1, <1>2, <2>1, QuietStep, Zenon DEF ExpireClaim
<1>3. CASE CreateJournal(r)
  <2>1. /\ journal' \in [Run -> {"none", "running", "parked", "terminal"}]
        /\ \A q \in dispatching : journal'[q] = "none"
    BY <1>1, <1>3, Zenon DEF CreateJournal
  <2> QED
    BY <1>1, <1>3, <2>1, QuietStep, Zenon DEF CreateJournal
<1>4. CASE Park(r) \/ Finish(r) \/ Forget(r)
  <2>1. /\ journal' \in [Run -> {"none", "running", "parked", "terminal"}]
        /\ \A q \in dispatching : journal'[q] = "none"
    BY <1>1, <1>4, Zenon DEF Park, Finish, Forget
  <2>2. UNCHANGED <<conditions, waiting, dispatching, admitted, reconciled, releases, leases>>
    BY <1>4, Zenon DEF Park, Finish, Forget
  <2> QED
    BY <1>1, <2>1, <2>2, QuietStep, Zenon
<1>5. ASSUME NEW g \in Generation \cup {0}, Continued(r, g) PROVE AdmissionInv'
  <2>1. /\ journal' \in [Run -> {"none", "running", "parked", "terminal"}]
        /\ \A q \in dispatching : journal'[q] = "none"
    BY <1>1, <1>5, Zenon DEF Continued
  <2>2. /\ UNCHANGED <<conditions, waiting, dispatching, admitted, reconciled, releases>>
        /\ leases' \subseteq Run \X (Generation \cup {0})
    BY <1>1, <1>5, Zenon DEF Continued
  <2> QED
    BY <1>1, <2>1, <2>2, QuietStep, Zenon
<1>6. ASSUME NEW g \in Generation \cup {0}, GiveUp(r, g) PROVE AdmissionInv'
  <2>1. /\ UNCHANGED <<conditions, waiting, dispatching, admitted, reconciled, releases, journal>>
        /\ leases' \subseteq Run \X (Generation \cup {0})
    BY <1>1, <1>6, Zenon DEF GiveUp
  <2> QED
    BY <1>1, <2>1, QuietStep, Zenon
<1> QED
  BY <1>2, <1>3, <1>4, <1>5, <1>6, Zenon

(* Every step of the scheduler keeps the inductive invariant.               *)
LEMMA NextAdmission == AdmissionInv /\ [Next]_vars => AdmissionInv'
<1> SUFFICES ASSUME AdmissionInv, [Next]_vars PROVE AdmissionInv'
  OBVIOUS
<1>1. CASE SteadyNext
  <2>1. ASSUME NEW r \in Run,
               DispatchAdmit(r) \/ DispatchRegister(r) \/ ReserveChild(r) \/ CreateJournal(r)
        PROVE  AdmissionInv'
    BY <2>1, DispatchAdmitStep, DispatchRegisterStep, ReserveChildStep, JournalSteps, Zenon
  <2>2. ASSUME NEW r \in Run, NEW g \in Generation, releaseAdmissionOwner(r, g)
        PROVE  AdmissionInv'
    BY <2>2, ReleaseOwnerStep, Zenon
  <2>3. ASSUME NEW r \in Run, Park(r) \/ SuspendChildParent(r) \/ Finish(r) \/ Forget(r)
        PROVE  AdmissionInv'
    BY <2>3, SuspendStep, JournalSteps, Zenon
  <2>4. ASSUME NEW r \in Run, NEW g \in Generation \cup {0}, Resume(r, g) \/ Continued(r, g)
        PROVE  AdmissionInv'
    BY <2>4, ResumeStep, JournalSteps, Zenon
  <2> QED
    BY <1>1, <2>1, <2>2, <2>3, <2>4, Zenon DEF SteadyNext
<1>2. CASE DisturbingNext
  <2>1. ASSUME NEW r \in Run, RetainContinuation(r) PROVE AdmissionInv'
    BY <2>1, RetainStep, Zenon DEF RetainContinuation
  <2>2. ASSUME NEW r \in Run,
               \/ ReserveContinuation(r) \/ ReleaseRetainedContinuation(r) \/ ReleaseRun(r)
               \/ ExpireClaim(r) \/ ReleaseReconciled(r)
        PROVE  AdmissionInv'
    BY <2>2, ReserveContinuationStep, ReleaseRetainedStep, ReleaseRunStep,
       ReleaseReconciledStep, JournalSteps, Zenon
  <2>3. ASSUME NEW r \in Run, NEW g \in Generation \cup {0}, GiveUp(r, g)
        PROVE  AdmissionInv'
    BY <2>3, JournalSteps, Zenon
  <2>4. CASE Restart
    BY <2>4, RestartStep, Zenon
  <2> QED
    BY <1>2, <2>1, <2>2, <2>3, <2>4, Zenon DEF DisturbingNext
<1>3. CASE UNCHANGED vars
  <2>1. /\ waiting' \in [Run -> Nat] /\ leases' \subseteq Run \X (Generation \cup {0})
        /\ journal' \in [Run -> {"none", "running", "parked", "terminal"}]
        /\ \A q \in dispatching : journal'[q] = "none"
    BY <1>3, Zenon DEF AdmissionInv, TypeOK, OnePlace, vars
  <2> QED
    BY <1>3, <2>1, QuietStep, Zenon DEF vars, conditions
<1> QED
  BY <1>1, <1>2, <1>3, Zenon DEF Next

(* The inductive invariant holds of every behaviour of the scheduler.       *)
THEOREM AdmissionInvariant == Spec => []AdmissionInv
BY InitAdmission, NextAdmission, PTL DEF Spec

(* Conditions and admissions stay well typed: in particular the counters    *)
(* of Conditions and the owner counts never go below zero.                  *)
THEOREM AdmissionTyped == Spec => []TypeOK
<1>1. AdmissionInv => TypeOK
  BY Zenon DEF AdmissionInv
<1> QED
  BY <1>1, AdmissionInvariant, PTL

(* ReleaseWorkflow and its callers never leak a slot nor return it twice,   *)
(* for any number of runs, interventions, suspensions and restarts.         *)
THEOREM AdmissionSlots == Spec => []SlotsMatchOwners
<1>1. AdmissionInv => SlotsMatchOwners
  BY Zenon DEF AdmissionInv
<1> QED
  BY <1>1, AdmissionInvariant, PTL

(* The owners of an admission are its release functions that were not       *)
(* called: a late one of an older generation never counts                   *)
(* (releaseAdmissionOwner).                                                 *)
THEOREM AdmissionOwners == Spec => []OwnersBacked
<1>1. AdmissionInv => OwnersBacked
  BY Zenon DEF AdmissionInv
<1> QED
  BY <1>1, AdmissionInvariant, PTL


-----------------------------------------------------------------------------
(* Claims are numbered by age, so a new one is behind all others.            *)
Places == Ordered(waiting) /\ \A r \in Run : waiting[r] <= Cardinality(Claims)

(* HasRoom of a waiting run is its turn, before and after a step.            *)
LEMMA RoomIsTurn ==
    ASSUME waiting \in [Run -> Nat], NEW r \in Claims
    PROVE  HasRoom(Identity[r], r) <=> Turn(active, totalActive, waiting, r)
<1>1. Claims = ClaimsOf(waiting)
  BY Zenon DEF Claims, ClaimsOf
<1>2. HoldingClaims(r) = Ahead(waiting, r)
  BY <1>1 DEF HoldingClaims, Ahead, olderThan, Claims
<1>3. {a \in HoldingClaims(r) : Identity[a] = Identity[r]} = AheadIn(waiting, r)
  BY <1>2, Zenon DEF AheadIn
<1>4. \A a : {b \in Claims : Identity[b] = Identity[a] /\ olderThan(b, a)}
               = AheadIn(waiting, a)
  BY <1>1, Zenon DEF AheadIn, Ahead, olderThan
<1>5. \A a : claimCanUseInstance(a) <=> Usable(active, waiting, a)
  BY <1>4, Zenon DEF claimCanUseInstance, Usable
<1>6. {a \in HoldingClaims(r) : claimCanUseInstance(a)} = UsableAhead(active, waiting, r)
  BY <1>2, <1>5, Zenon DEF UsableAhead
<1> QED
  BY <1>3, <1>6, Zenon DEF HasRoom, Turn, Usable

LEMMA RoomIsTurnAfter ==
    ASSUME waiting' \in [Run -> Nat], NEW r \in Claims'
    PROVE  HasRoom(Identity[r], r)' <=> Turn(active', totalActive', waiting', r)
<1>1. Claims' = ClaimsOf(waiting')
  BY Zenon DEF Claims, ClaimsOf
<1>2. HoldingClaims(r)' = Ahead(waiting', r)
  BY <1>1 DEF HoldingClaims, Ahead, olderThan, Claims
<1>3. {a \in HoldingClaims(r)' : Identity[a] = Identity[r]} = AheadIn(waiting', r)
  BY <1>2, Zenon DEF AheadIn
<1>4. \A a : {b \in Claims' : Identity[b] = Identity[a] /\ olderThan(b, a)'}
               = AheadIn(waiting', a)
  BY <1>1, Zenon DEF AheadIn, Ahead, olderThan
<1>5. \A a : claimCanUseInstance(a)' <=> Usable(active', waiting', a)
  BY <1>4, Zenon DEF claimCanUseInstance, Usable
<1>6. {a \in HoldingClaims(r)' : claimCanUseInstance(a)'} = UsableAhead(active', waiting', r)
  BY <1>2, <1>5, Zenon DEF UsableAhead
<1> QED
  BY <1>3, <1>6, Zenon DEF HasRoom, Turn, Usable

(* ClearContinuationClaim drops one claim and closes the gap.                *)
LEMMA ClearDrops ==
    ASSUME Places, NEW q \in Run, ClearContinuationClaim(q)
    PROVE  Dropped(waiting, waiting', q) /\ Places'
<1>1. waiting \in [Run -> Nat] /\ \A r \in Run : waiting[r] <= Cardinality(Claims)
  BY Zenon DEF Places, Ordered
<1>2. /\ waiting' = [a \in Run |-> waiting'[a]]
      /\ \A a \in Run : waiting'[a] = IF a = q THEN 0
                                     ELSE IF waiting[q] # 0 /\ waiting[q] < waiting[a]
                                     THEN waiting[a] - 1 ELSE waiting[a]
  BY Zenon DEF ClearContinuationClaim, Claims, olderThan
<1>3. \A a \in Run : waiting'[a] \in Nat /\ (waiting'[a] # 0 <=> waiting[a] # 0 /\ a # q)
  BY <1>1, <1>2
<1>4. waiting' \in [Run -> Nat]
  BY <1>2, <1>3, Zenon
<1>5. ClaimsOf(waiting') = ClaimsOf(waiting) \ {q}
  BY <1>3, Zenon DEF ClaimsOf
<1>6. \A a, b \in ClaimsOf(waiting) : waiting[a] = waiting[b] => a = b
  BY Zenon DEF Places, Ordered
<1>7. ASSUME NEW a \in ClaimsOf(waiting'), NEW b \in ClaimsOf(waiting')
      PROVE  /\ waiting'[a] < waiting'[b] <=> waiting[a] < waiting[b]
             /\ waiting'[a] = waiting'[b] => a = b
  <2>1. a \in Run /\ b \in Run /\ a # q /\ b # q
        /\ a \in ClaimsOf(waiting) /\ b \in ClaimsOf(waiting)
    BY <1>5, <1>7, Zenon DEF ClaimsOf
  <2>2. waiting[a] = waiting[b] => a = b
    BY <1>6, <2>1, Zenon
  <2>3. waiting[q] # 0 => waiting[a] # waiting[q] /\ waiting[b] # waiting[q]
    BY <1>6, <2>1, Zenon DEF ClaimsOf
  <2>4. waiting[a] \in Nat /\ waiting[b] \in Nat /\ waiting[q] \in Nat
    BY <1>1, <2>1, Zenon
  <2> QED
    BY <1>2, <2>1, <2>2, <2>3, <2>4
<1>8. \A r \in Run : waiting'[r] <= Cardinality(Claims')
  <2>1. Claims = ClaimsOf(waiting) /\ Claims' = ClaimsOf(waiting')
    BY Zenon DEF Claims, ClaimsOf
  <2>2. Cardinality(Claims') \in Nat /\ Cardinality(Claims) \in Nat
    BY <2>1, ClaimSets, RunSets, Zenon
  <2>3. CASE waiting[q] = 0
    <3>1. Claims' = Claims
      BY <1>5, <2>1, <2>3, Zenon DEF ClaimsOf
    <3> QED
      BY <1>1, <1>2, <2>2, <2>3, <3>1, Zenon
  <2>4. CASE waiting[q] # 0
    <3>1. Cardinality(Claims') = Cardinality(Claims) - 1
      BY <1>5, <2>1, <2>4, ClaimSets, RunSets, Zenon DEF ClaimsOf
    <3> SUFFICES ASSUME NEW r \in Run PROVE waiting'[r] <= Cardinality(Claims')
      OBVIOUS
    <3>2. r # q /\ waiting[r] # 0 => waiting[r] # waiting[q]
      BY <1>6, <2>4, Zenon DEF ClaimsOf
    <3>3. /\ waiting[r] \in Nat /\ waiting[q] \in Nat
          /\ waiting[r] <= Cardinality(Claims) /\ waiting[q] <= Cardinality(Claims)
      BY <1>1, Zenon
    <3> QED
      BY <1>2, <2>2, <2>4, <3>1, <3>2, <3>3
  <2> QED
    BY <2>3, <2>4, Zenon
<1> QED
  BY <1>4, <1>5, <1>7, <1>8, Zenon DEF Dropped, Places, Ordered

(* A new claim is behind the others and changes nothing for them.            *)
LEMMA MarkKeeps ==
    ASSUME Places, NEW q \in Run, markContinuationWaiting(q)
    PROVE  /\ Places'
           /\ \A r \in Claims : Ahead(waiting', r) = Ahead(waiting, r)
                                /\ AheadIn(waiting', r) = AheadIn(waiting, r)
<1>1. waiting \in [Run -> Nat] /\ \A r \in Run : waiting[r] <= Cardinality(Claims)
  BY Zenon DEF Places, Ordered
<1>2. Claims = ClaimsOf(waiting) /\ Claims' = ClaimsOf(waiting')
  BY Zenon DEF Claims, ClaimsOf
<1>3. CASE q \in Claims
  <2>1. waiting' = waiting
    BY <1>3, Zenon DEF markContinuationWaiting
  <2> QED
    BY <2>1, Zenon DEF Places, Claims
<1>4. CASE q \notin Claims
  <2>1. waiting' = [waiting EXCEPT ![q] = Cardinality(Claims) + 1]
    BY <1>4, Zenon DEF markContinuationWaiting
  <2>2. Cardinality(Claims) \in Nat
    BY <1>2, ClaimSets, RunSets, Zenon
  <2>3. /\ waiting' \in [Run -> Nat] /\ waiting'[q] = Cardinality(Claims) + 1
        /\ \A a \in Run \ {q} : waiting'[a] = waiting[a]
    BY <1>1, <2>1, <2>2
  <2>4. Claims' = Claims \cup {q}
    BY <2>2, <2>3 DEF Claims
  <2>5. Cardinality(Claims') = Cardinality(Claims) + 1
    BY <1>2, <1>4, <2>4, ClaimSets, RunSets, Zenon
  <2>6. \A r \in Run : waiting'[r] <= Cardinality(Claims')
    BY <1>1, <2>2, <2>3, <2>5
  <2>7. ASSUME NEW a \in Claims', NEW b \in Claims', waiting'[a] = waiting'[b] PROVE a = b
    <3>1. a \in Run /\ b \in Run /\ (a # q => a \in Claims) /\ (b # q => b \in Claims)
      BY <2>4, Zenon DEF Claims
    <3>2. a # q /\ b # q => a = b
      BY <1>2, <2>3, <2>7, <3>1, Zenon DEF Places, Ordered
    <3>3. /\ a # q => waiting'[a] < waiting'[q]
          /\ b # q => waiting'[b] < waiting'[q]
      BY <1>1, <2>2, <2>3, <3>1
    <3>4. waiting'[a] \in Nat /\ waiting'[b] \in Nat
      BY <2>3, <3>1, Zenon
    <3> QED
      BY <2>7, <3>2, <3>3, <3>4
  <2>8. ASSUME NEW r \in Claims
        PROVE  /\ Ahead(waiting', r) = Ahead(waiting, r)
               /\ AheadIn(waiting', r) = AheadIn(waiting, r)
    <3>1. r \in Run /\ r # q
      BY <1>4, Zenon DEF Claims
    <3>2. waiting'[r] < waiting'[q] /\ waiting'[r] \in Nat /\ waiting'[q] \in Nat
      BY <1>1, <2>2, <2>3, <3>1
    <3>3. Ahead(waiting', r) = Ahead(waiting, r)
      BY <1>2, <1>4, <2>3, <2>4, <3>1, <3>2 DEF Ahead, Claims
    <3> QED
      BY <3>3, Zenon DEF AheadIn
  <2> QED
    BY <1>2, <2>3, <2>6, <2>7, <2>8, Zenon DEF Places, Ordered
<1> QED
  BY <1>3, <1>4, Zenon

(* What a step does to slots and claims: it returns a slot, drops a claim,   *)
(* or both; it starts a run beside all claims; a parent resumes beside those *)
(* ahead of it, or begins to wait; or the daemon restarts.                   *)
LEMMA StepKinds ==
    ASSUME Next
    PROVE  \/ waiting' = [r \in Run |-> 0]
           \/ \E q \in Run :
                \/ /\ waiting' = waiting \/ ClearContinuationClaim(q)
                   /\ UNCHANGED conditions \/ ReleaseWorkflow(Identity[q])
                \/ /\ HasRoom(Identity[q], NoRun) /\ TakeSlot(Identity[q])
                   /\ waiting' = waiting
                \/ /\ HasRoom(Identity[q], q) /\ TakeSlot(Identity[q])
                   /\ ClearContinuationClaim(q)
                \/ markContinuationWaiting(q) /\ UNCHANGED conditions
<1>1. CASE SteadyNext
  <2>1. ASSUME NEW q \in Run, DispatchAdmit(q) \/ ReserveChild(q)
        PROVE  HasRoom(Identity[q], NoRun) /\ TakeSlot(Identity[q]) /\ waiting' = waiting
    BY <2>1, Zenon DEF DispatchAdmit, ReserveChild
  <2>2. ASSUME NEW q \in Run,
               DispatchRegister(q) \/ CreateJournal(q) \/ Park(q) \/ Finish(q) \/ Forget(q)
        PROVE  waiting' = waiting /\ UNCHANGED conditions
    BY <2>2, Zenon DEF DispatchRegister, CreateJournal, Park, Finish, Forget
  <2>3. ASSUME NEW q \in Run, NEW g \in Generation, releaseAdmissionOwner(q, g)
        PROVE  /\ waiting' = waiting \/ ClearContinuationClaim(q)
               /\ UNCHANGED conditions \/ ReleaseWorkflow(Identity[q])
    BY <2>3, Zenon DEF releaseAdmissionOwner, EndAdmission
  <2>4. ASSUME NEW q \in Run, SuspendChildParent(q)
        PROVE  waiting' = waiting /\ (UNCHANGED conditions \/ ReleaseWorkflow(Identity[q]))
    BY <2>4, Zenon DEF SuspendChildParent
  <2>5. ASSUME NEW q \in Run, NEW g \in Generation \cup {0}, Resume(q, g)
        PROVE  \/ ClearContinuationClaim(q) /\ UNCHANGED conditions
               \/ /\ HasRoom(Identity[q], q) /\ TakeSlot(Identity[q])
                  /\ ClearContinuationClaim(q)
               \/ markContinuationWaiting(q) /\ UNCHANGED conditions
    BY <2>5, Zenon DEF Resume
  <2>6. ASSUME NEW q \in Run, NEW g \in Generation \cup {0}, Continued(q, g)
        PROVE  waiting' = waiting /\ UNCHANGED conditions
    BY <2>6, Zenon DEF Continued
  <2> QED
    BY <1>1, <2>1, <2>2, <2>3, <2>4, <2>5, <2>6, Zenon DEF SteadyNext
<1>2. CASE DisturbingNext
  <2>1. ASSUME NEW q \in Run, ReserveContinuation(q)
        PROVE  /\ waiting' = waiting
               /\ \/ UNCHANGED conditions
                  \/ HasRoom(Identity[q], NoRun) /\ TakeSlot(Identity[q])
    BY <2>1, Zenon DEF ReserveContinuation
  <2>2. ASSUME NEW q \in Run, RetainContinuation(q) \/ ReleaseReconciled(q)
        PROVE  waiting' = waiting /\ (UNCHANGED conditions \/ ReleaseWorkflow(Identity[q]))
    BY <2>2, Zenon DEF RetainContinuation, ReleaseReconciled
  <2>3. ASSUME NEW q \in Run,
               ReleaseRetainedContinuation(q) \/ ReleaseRun(q) \/ ExpireClaim(q)
        PROVE  /\ waiting' = waiting \/ ClearContinuationClaim(q)
               /\ UNCHANGED conditions \/ ReleaseWorkflow(Identity[q])
    BY <2>3, Zenon DEF ReleaseRetainedContinuation, ReleaseRun, ExpireClaim, EndAdmission
  <2>4. ASSUME NEW q \in Run, NEW g \in Generation \cup {0}, GiveUp(q, g)
        PROVE  waiting' = waiting /\ UNCHANGED conditions
    BY <2>4, Zenon DEF GiveUp
  <2>5. CASE Restart
    BY <2>5, Zenon DEF Restart
  <2> QED
    BY <1>2, <2>1, <2>2, <2>3, <2>4, <2>5, Zenon DEF DisturbingNext
<1> QED
  BY <1>1, <1>2, Zenon DEF Next

(* Claims keep their places.                                                 *)
LEMMA PlacesStep == Places /\ [Next]_vars => Places'
<1> SUFFICES ASSUME Places, [Next]_vars PROVE Places'
  OBVIOUS
<1>1. ASSUME waiting' = waiting PROVE Places'
  BY <1>1, Zenon DEF Places, Claims
<1>2. ASSUME waiting' = [r \in Run |-> 0] PROVE Places'
  <2>1. Claims' = {} /\ ClaimsOf(waiting') = {}
    BY <1>2, Zenon DEF Claims, ClaimsOf
  <2> QED
    BY <1>2, <2>1, FS_EmptySet DEF Places, Ordered
<1> QED
  BY <1>1, <1>2, StepKinds, ClearDrops, MarkKeeps, Zenon DEF vars

(* A slot returned for any workflow keeps the turn of every claim.           *)
LEMMA ReturnKeepsTurn ==
    ASSUME TypeOK, NEW place, Ordered(place), NEW r \in ClaimsOf(place), NEW q \in Run,
           UNCHANGED conditions \/ ReleaseWorkflow(Identity[q]),
           Turn(active, totalActive, place, r)
    PROVE  Turn(active', totalActive', place, r)
<1>1. active \in [Workflow -> Nat] /\ totalActive \in Nat /\ Identity[q] \in Workflow
  BY CapType, Zenon DEF TypeOK
<1>2. CASE UNCHANGED conditions
  BY <1>2, Zenon DEF conditions
<1>3. CASE /\ active[Identity[q]] > 0 /\ totalActive' = totalActive - 1
           /\ active' = [active EXCEPT ![Identity[q]] = @ - 1]
  BY <1>1, <1>3, TurnAfterReturn, Zenon
<1> QED
  BY <1>2, <1>3, Zenon DEF ReleaseWorkflow

(* Every step that leaves a run waiting whose turn it was leaves its turn.   *)
LEMMA TurnStep ==
    ASSUME TypeOK, Places, Places', Next, NEW r \in Claims, r \in Claims',
           Turn(active, totalActive, waiting, r)
    PROVE  Turn(active', totalActive', waiting', r)
<1>1. /\ Claims = ClaimsOf(waiting) /\ Claims' = ClaimsOf(waiting') /\ r \in Run
      /\ Ordered(waiting) /\ Ordered(waiting') /\ waiting \in [Run -> Nat]
      /\ active \in [Workflow -> Nat] /\ totalActive \in Nat
  BY Zenon DEF Claims, ClaimsOf, Places, Ordered, TypeOK
<1>2. waiting' # [q \in Run |-> 0]
  BY <1>1, Zenon DEF ClaimsOf
<1>3. ASSUME NEW q \in Run, waiting' = waiting \/ ClearContinuationClaim(q),
             UNCHANGED conditions \/ ReleaseWorkflow(Identity[q])
      PROVE  Turn(active', totalActive', waiting', r)
  <2>1. Turn(active, totalActive, waiting', r)
    <3>1. CASE waiting' = waiting
      BY <3>1, Zenon
    <3>2. CASE ClearContinuationClaim(q)
      <4>1. Dropped(waiting, waiting', q)
        BY <3>2, ClearDrops, Zenon
      <4> QED
        BY <1>1, <4>1, TurnAfterDrop, Zenon
    <3> QED
      BY <1>3, <3>1, <3>2, Zenon
  <2> QED
    BY <1>1, <1>3, <2>1, ReturnKeepsTurn, Zenon
<1>4. ASSUME NEW q \in Run, TakeSlot(Identity[q]), NEW held,
             held \in SUBSET Claims, Ahead(waiting, r) \cup {r} \subseteq held,
             active[Identity[q]] + Cardinality({a \in held : Identity[a] = Identity[q]})
               < maxConcurrentRuns(Identity[q]),
             InstanceMaxParallel > 0 =>
               totalActive + Cardinality({a \in held : claimCanUseInstance(a)})
                 < InstanceMaxParallel
      PROVE  Turn(active', totalActive', waiting, r)
  <2>1. \A a : {b \in Claims : Identity[b] = Identity[a] /\ olderThan(b, a)}
                 = AheadIn(waiting, a)
    BY <1>1, Zenon DEF AheadIn, Ahead, olderThan
  <2>2. \A a : claimCanUseInstance(a) <=> Usable(active, waiting, a)
    BY <2>1, Zenon DEF claimCanUseInstance, Usable
  <2>3. {a \in held : claimCanUseInstance(a)} = {a \in held : Usable(active, waiting, a)}
    BY <2>2, Zenon
  <2>4. /\ active' = [active EXCEPT ![Identity[q]] = @ + 1] /\ totalActive' = totalActive + 1
        /\ Identity[q] \in Workflow
    BY <1>4, CapType, Zenon DEF TakeSlot
  <2> QED
    BY <1>1, <1>4, <2>3, <2>4, TurnAfterStart, Zenon
<1>5. ASSUME NEW q \in Run, HasRoom(Identity[q], NoRun), TakeSlot(Identity[q]),
             waiting' = waiting
      PROVE  Turn(active', totalActive', waiting', r)
  <2>1. HoldingClaims(NoRun) = Claims
    BY AdmissionAssumption, Zenon DEF HoldingClaims, Claims
  <2>2. Ahead(waiting, r) \cup {r} \subseteq Claims
    BY <1>1, Zenon DEF Ahead
  <2>3. Turn(active', totalActive', waiting, r)
    BY <1>4, <1>5, <2>1, <2>2, Zenon DEF HasRoom
  <2> QED
    BY <1>5, <2>3, Zenon
<1>6. ASSUME NEW q \in Run, HasRoom(Identity[q], q), TakeSlot(Identity[q]),
             ClearContinuationClaim(q)
      PROVE  Turn(active', totalActive', waiting', r)
  <2>1. Dropped(waiting, waiting', q) /\ q # r
    BY <1>1, <1>6, ClearDrops, Zenon DEF Dropped
  <2>2. /\ active' = [active EXCEPT ![Identity[q]] = @ + 1] /\ totalActive' = totalActive + 1
        /\ active' \in [Workflow -> Nat] /\ totalActive' \in Nat
    BY <1>1, <1>6, CapType DEF TakeSlot
  <2>3. CASE q \in Claims /\ waiting[q] < waiting[r]
    <3>1. Usable(active, waiting, q)
      BY <1>1, <1>6, <2>3, RoomIsTurn, Zenon DEF Turn
    <3> QED
      BY <1>1, <2>1, <2>2, <2>3, <3>1, TurnAfterResume, Zenon
  <2>4. CASE ~ (q \in Claims /\ waiting[q] < waiting[r])
    <3>1. Ahead(waiting, r) \cup {r} \subseteq HoldingClaims(q)
      <4>1. waiting[q] # waiting[r] /\ waiting[q] \in Nat /\ waiting[r] \in Nat
        BY <1>1, <2>1, Zenon DEF Ordered, ClaimsOf
      <4>2. q \in Claims => waiting[r] < waiting[q]
        BY <2>4, <4>1
      <4>3. q \notin Ahead(waiting, r)
        BY <1>1, <2>4, Zenon DEF Ahead
      <4>4. ASSUME NEW a \in Ahead(waiting, r) PROVE q \in Claims => waiting[a] < waiting[q]
        BY <1>1, <4>1, <4>2 DEF Ahead, ClaimsOf
      <4> QED
        BY <1>1, <2>1, <4>2, <4>3, <4>4, Zenon DEF HoldingClaims, olderThan, Ahead
    <3>2. HoldingClaims(q) \in SUBSET Claims
      BY Zenon DEF HoldingClaims
    <3>3. Turn(active', totalActive', waiting, r)
      BY <1>4, <1>6, <3>1, <3>2, Zenon DEF HasRoom
    <3> QED
      BY <1>1, <2>1, <2>2, <3>3, TurnAfterDrop, Zenon
  <2> QED
    BY <2>3, <2>4, Zenon
<1>7. ASSUME NEW q \in Run, markContinuationWaiting(q), UNCHANGED conditions
      PROVE  Turn(active', totalActive', waiting', r)
  <2>1. /\ active' = active /\ totalActive' = totalActive
        /\ \A a \in Claims : Ahead(waiting', a) = Ahead(waiting, a)
                             /\ AheadIn(waiting', a) = AheadIn(waiting, a)
    BY <1>7, MarkKeeps, Zenon DEF conditions
  <2>2. \A a \in Claims : Usable(active', waiting', a) <=> Usable(active, waiting, a)
    BY <2>1, Zenon DEF Usable
  <2>3. UsableAhead(active', waiting', r) = UsableAhead(active, waiting, r)
    BY <1>1, <2>1, <2>2, Zenon DEF UsableAhead, Ahead
  <2> QED
    BY <2>1, <2>2, <2>3, Zenon DEF Turn
<1> QED
  BY <1>2, <1>3, <1>5, <1>6, <1>7, StepKinds, Zenon

(* A waiting parent that could take its slot can still take it after any     *)
(* step that leaves it waiting: no start, other parent, release or crash     *)
(* passes it (heldByClaims, reserveParentContinuation), for any caps and any *)
(* number of waiting parents.                                                *)
THEOREM AdmissionTurn == Spec => TurnKept
<1> DEFINE Kept == \A r \in Run : r \in Claims /\ r \in Claims' /\ HasRoom(Identity[r], r)
                      => HasRoom(Identity[r], r)'
<1>1. Init => Places
  <2> SUFFICES ASSUME Init PROVE Places
    OBVIOUS
  <2>1. Claims = {} /\ ClaimsOf(waiting) = {}
    BY Zenon DEF Init, Claims, ClaimsOf
  <2> QED
    BY <2>1, FS_EmptySet DEF Init, Places, Ordered
<1>2. TypeOK /\ Places /\ Places' /\ [Next]_vars => [Kept]_vars
  <2> SUFFICES ASSUME TypeOK, Places, Places', Next, NEW r \in Run,
                      r \in Claims, r \in Claims', HasRoom(Identity[r], r)
               PROVE  HasRoom(Identity[r], r)'
    OBVIOUS
  <2>1. waiting \in [Run -> Nat] /\ waiting' \in [Run -> Nat]
    BY Zenon DEF Places, Ordered
  <2>2. Turn(active, totalActive, waiting, r)
    BY <2>1, RoomIsTurn, Zenon
  <2>3. Turn(active', totalActive', waiting', r)
    BY <2>2, TurnStep, Zenon
  <2> QED
    BY <2>1, <2>3, RoomIsTurnAfter, Zenon
<1> QED
  BY <1>1, <1>2, PlacesStep, AdmissionTyped, PTL DEF Spec, TurnKept

=============================================================================
