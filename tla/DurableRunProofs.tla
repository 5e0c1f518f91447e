--------------------------- MODULE DurableRunProofs ---------------------------
(***************************************************************************)
(* The two durable records of a run: its row in the start queue            *)
(* (StartQueue) and its journal (RunJournal, instantiated as R).           *)
(*                                                                         *)
(* The queue's rows and the run journals tell one story, for any number of *)
(* starts, any page and batch size, and any number of crashes and failed   *)
(* writes.  The argument: absence of a journal is trusted only of a row    *)
(* that was in doubt at boot (WorkSound), and no launch of this process is *)
(* of such a row (RowSound), so nothing can publish the journal between    *)
(* the look and the write; and a journal is removed only when its row has  *)
(* its receipt (PruneSound), so a removed journal is never taken for one   *)
(* that never was.                                                         *)
(*                                                                         *)
(* The records of one journal are numbered exactly 1, 2, 3, ... for any    *)
(* set of openers, and an event appended with AppendIfAbsent is recorded   *)
(* at most once.  The argument: only the holder of the run lock writes,    *)
(* and a handle that may write counts from the last record of the log      *)
(* (Counts).  What RunJournal assumes of its constants is the hypothesis   *)
(* R!Bounds of those theorems.                                             *)
(***************************************************************************)
EXTENDS StartQueue, Sequences, WellFoundedInduction, TLAPS

-----------------------------------------------------------------------------
(* Operators.                                                              *)

\* A nonempty set of starts has a least one: the row that is inspected exists.
LEMMA MinOfStarts ==
    ASSUME NEW S \in SUBSET Start, S # {}
    PROVE  Min(S) \in S
  <1>1. S \subseteq Nat
    BY StartQueueAssumption DEF Start
  <1>2. PICK x \in S : \A y \in S : ~ (<<y, x>> \in OpToRel(<, Nat))
    BY <1>1, NatLessThanWellFounded, WFMin, Zenon
  <1>3. \A y \in S : ~ (y < x)
    BY <1>1, <1>2, Zenon DEF OpToRel
  <1>4. \A y \in S : x <= y
    BY <1>1, <1>3
  <1> QED
    BY <1>4, Zenon DEF Min

\* The sweep finds an accepted row, or nobody.
LEMMA PendingIsAccepted ==
    ASSUME NextPending # Nobody
    PROVE  NextPending \in Start /\ row[NextPending] = "accepted"
  <1> DEFINE accepted == {k \in Start : row[k] = "accepted"}
             rest == {k \in accepted : k > position}
  <1>1. rest # {} => Min(rest) \in rest
    BY MinOfStarts, Zenon
  <1>2. accepted # {} => Min(accepted) \in accepted
    BY MinOfStarts, Zenon
  <1> QED
    BY <1>1, <1>2, Zenon DEF NextPending

-----------------------------------------------------------------------------
(* What keeps its conjunct.                                                *)

\* Rows are sound of the store, the journals, the launches and the doubts alone.
LEMMA RowsKept ==
    ASSUME \A k \in Start : RowSound(k), UNCHANGED <<row, dir, created, starting, boot>>
    PROVE  \A k \in Start : RowSound(k)'
  BY Zenon DEF RowSound, Unlaunched

\* A removal under way is sound of its row and its journal alone.
LEMMA PruneKept ==
    ASSUME PruneSound, UNCHANGED <<row, dir, pruning>>
    PROVE  PruneSound'
  BY Zenon DEF PruneSound

\* A drainer that is between two rows promises nothing.
LEMMA BetweenRowsSound ==
    ASSUME \/ work'.pc \in {"idle", "pending"}
           \/ work'.pc = "reconcile" /\ work'.page # {}
    PROVE  WorkSound'
  BY Zenon DEF WorkSound

\* The drainer's record.
Work == [pc : Steps, on : Start \cup {Nobody}, plan : Outcomes,
         page : SUBSET Start, seen : SUBSET Start]

\* The drainer between two rows is typed, and its page is not empty.
LEMMA WorkTyped ==
    /\ Idle \in Work /\ Idle.pc = "idle"
    /\ \A page \in SUBSET Start :
          /\ NextUncertain(page) \in Work
          /\ \/ NextUncertain(page).pc = "pending"
             \/ NextUncertain(page).pc = "reconcile" /\ NextUncertain(page).page # {}
    /\ \A seen \in SUBSET Start :
          ToNextPending(seen) \in Work /\ ToNextPending(seen).pc = "pending"
  <1>1. Idle \in Work /\ Idle.pc = "idle"
    BY Zenon DEF Idle, Work, Steps, Outcomes
  <1>2. ASSUME NEW page \in SUBSET Start
        PROVE  /\ NextUncertain(page) \in Work
               /\ \/ NextUncertain(page).pc = "pending"
                  \/ NextUncertain(page).pc = "reconcile" /\ NextUncertain(page).page # {}
    BY Zenon DEF NextUncertain, Idle, Work, Steps, Outcomes
  <1>3. ASSUME NEW seen \in SUBSET Start
        PROVE  ToNextPending(seen) \in Work /\ ToNextPending(seen).pc = "pending"
    BY Zenon DEF ToNextPending, Idle, Work, Steps, Outcomes
  <1> QED
    BY <1>1, <1>2, <1>3, Zenon

-----------------------------------------------------------------------------
(* The drainer.                                                            *)

\* The page of a sweep is not empty when the sweep reconciles it.
LEMMA BeginSweepKeeps == QueueInv /\ BeginSweep => QueueInv'
  <1> SUFFICES ASSUME QueueInv, BeginSweep PROVE QueueInv'
    OBVIOUS
  <1>1. Uncertain \in SUBSET Start
    BY Zenon DEF Uncertain
  <1>2. /\ work' = NextUncertain(Uncertain) /\ after' \in {after, Nobody}
        /\ UNCHANGED <<row, recorded, expired, dir, created, starting, boot, failed,
                       position, pruning, crashes, faults>>
    BY Zenon DEF BeginSweep, NextUncertain
  <1>3. TypeOK'
    BY <1>1, <1>2, WorkTyped, Zenon DEF QueueInv, TypeOK, Work
  <1>4. WorkSound'
    BY <1>1, <1>2, WorkTyped, BetweenRowsSound, Zenon
  <1> QED
    BY <1>2, <1>3, <1>4, RowsKept, PruneKept, Zenon DEF QueueInv

\* The look at the journal of one row: absence is trusted of a doubt of boot only.
LEMMA ReconcileObserveKeeps == QueueInv /\ ReconcileObserve => QueueInv'
  <1> SUFFICES ASSUME QueueInv, ReconcileObserve PROVE QueueInv'
    OBVIOUS
  <1> DEFINE k == Min(work.page)
  <1>1. /\ work \in Work /\ work.pc = "reconcile" /\ work.page \in SUBSET Start
        /\ work.page # {} /\ faults \in 0 .. MaxFaults /\ MaxFaults \in Nat
    BY StartQueueAssumption, Zenon DEF ReconcileObserve, QueueInv, TypeOK, WorkSound, Work
  <1>2. k \in Start
    BY <1>1, MinOfStarts, Zenon
  <1> HIDE DEF k
  <1>3. /\ after' = k
        /\ UNCHANGED <<row, recorded, expired, dir, created, starting, boot, failed,
                       position, pruning, crashes>>
        /\ \/ /\ work' = [work EXCEPT !.pc = "observed", !.on = k, !.plan = Verdict(k)]
              /\ UNCHANGED faults
           \/ /\ faults < MaxFaults /\ faults' = faults + 1
              /\ work' = NextUncertain(work.page \ {k})
    BY Zenon DEF ReconcileObserve, k
  <1>4. CASE work' = [work EXCEPT !.pc = "observed", !.on = k, !.plan = Verdict(k)]
    <2>1. Verdict(k) \in Outcomes /\ Verdict(k) \in {"dispatched", "retry", "none"}
      BY Zenon DEF Verdict, Outcomes, Finished
    <2>2. work' \in Work /\ work'.pc = "observed" /\ work'.on = k /\ work'.plan = Verdict(k)
      BY <1>1, <1>2, <1>4, <2>1, Zenon DEF Work, Steps
    <2>3. faults' \in 0 .. MaxFaults
      BY <1>1, <1>3
    <2>4. TypeOK'
      BY <1>2, <1>3, <2>2, <2>3, Zenon DEF QueueInv, TypeOK, Work
    <2>5. Verdict(k) = "dispatched" => dir[k] # "none"
      BY Zenon DEF Verdict, Journal
    <2>6. Verdict(k) = "retry" => k \in boot /\ dir[k] \in {"none", "removed"}
      BY <1>2, Zenon DEF Verdict, Journal, QueueInv, TypeOK
    <2>7. WorkSound'
      BY <1>2, <1>3, <2>2, <2>5, <2>6, Zenon DEF WorkSound
    <2> QED
      BY <1>3, <2>4, <2>7, RowsKept, PruneKept, Zenon DEF QueueInv
  <1>5. CASE work' = NextUncertain(work.page \ {k})
    <2>1. faults' \in 0 .. MaxFaults
      BY <1>1, <1>3
    <2>2. work.page \ {k} \in SUBSET Start
      BY <1>1, Zenon
    <2>3. TypeOK'
      BY <1>2, <1>3, <1>5, <2>1, <2>2, WorkTyped, Zenon DEF QueueInv, TypeOK, Work
    <2>4. WorkSound'
      BY <1>5, <2>2, WorkTyped, BetweenRowsSound, Zenon
    <2> QED
      BY <1>3, <2>3, <2>4, RowsKept, PruneKept, Zenon DEF QueueInv
  <1> QED
    BY <1>3, <1>4, <1>5, Zenon

\* The verdict is applied: the journal is there, or nothing can publish it.
LEMMA ReconcileObservationKeeps == QueueInv /\ ReconcileObservation => QueueInv'
  <1> SUFFICES ASSUME QueueInv, ReconcileObservation PROVE QueueInv'
    OBVIOUS
  <1> DEFINE k == work.on
  <1>1. /\ work.page \ {k} \in SUBSET Start /\ k \in Start
        /\ faults \in 0 .. MaxFaults /\ MaxFaults \in Nat
        /\ work' = NextUncertain(work.page \ {k}) /\ work.pc = "observed"
        /\ UNCHANGED <<expired, dir, created, starting, failed, position, after, pruning,
                       crashes>>
    BY StartQueueAssumption, Zenon DEF ReconcileObservation, QueueInv, TypeOK, WorkSound
  <1>2. /\ work.plan = "dispatched" => dir[k] # "none"
        /\ work.plan = "retry" => k \in boot /\ dir[k] \in {"none", "removed"}
    BY <1>1, Zenon DEF QueueInv, WorkSound
  <1>3. /\ \/ UNCHANGED <<row, recorded, boot>>
           \/ /\ work.plan = "dispatched" /\ boot' = boot \ {k}
              /\ row' = IF row[k] = "dispatching" THEN [row EXCEPT ![k] = "dispatched"]
                        ELSE row
              /\ recorded' \in {recorded, recorded \cup {k}}
           \/ /\ work.plan = "retry" /\ boot' = boot \ {k}
              /\ row' = IF row[k] = "dispatching" THEN [row EXCEPT ![k] = "accepted"]
                        ELSE row
              /\ recorded' \in {recorded, recorded \ {k}}
        /\ faults' \in 0 .. MaxFaults
    BY <1>1 DEF ReconcileObservation, Finish, BackToAccepted
  <1> HIDE DEF k
  <1>4. row \in [Start -> {"absent"} \cup Unfinished \cup Finished]
    BY Zenon DEF QueueInv, TypeOK
  <1>5. TypeOK'
    BY <1>1, <1>3, WorkTyped DEF QueueInv, TypeOK, Work, Unfinished, Finished
  <1>6. ASSUME NEW j \in Start PROVE RowSound(j)'
    <2>1. RowSound(j) /\ RowSound(k)
      BY <1>1, Zenon DEF QueueInv
    <2> QED
      BY <1>1, <1>2, <1>3, <1>4, <2>1, Zenon DEF RowSound, Unlaunched
  <1>7. PruneSound'
    BY <1>1, <1>3, <1>4, Zenon DEF QueueInv, PruneSound, TypeOK
  <1>8. WorkSound'
    BY <1>1, WorkTyped, BetweenRowsSound, Zenon
  <1> QED
    BY <1>5, <1>6, <1>7, <1>8, Zenon DEF QueueInv

\* The next row is accepted, so it has no journal, and a journal it had would win.
LEMMA InspectPendingKeeps == QueueInv /\ InspectPending => QueueInv'
  <1> SUFFICES ASSUME QueueInv, InspectPending PROVE QueueInv'
    OBVIOUS
  <1> DEFINE k == NextPending
             go(plan) == [pc |-> "claim", on |-> k, plan |-> plan, page |-> {},
                          seen |-> work.seen \cup {k}]
  <1>1. /\ work.seen \in SUBSET Start /\ position \in Start \cup {Nobody}
        /\ faults \in 0 .. MaxFaults /\ MaxFaults \in Nat
        /\ UNCHANGED <<row, recorded, expired, dir, created, starting, boot, failed, after,
                       pruning, crashes>>
    BY StartQueueAssumption, Zenon DEF InspectPending, QueueInv, TypeOK
  <1>2. k # Nobody => k \in Start
    BY PendingIsAccepted, Zenon
  <1>3. /\ position' \in Start \cup {Nobody} /\ faults' \in 0 .. MaxFaults
        /\ \/ work' = Idle
           \/ k \in Start /\ work' = ToNextPending(work.seen \cup {k})
           \/ k \in Start /\ work' = go("rejected")
           \/ k \in Start /\ work' = go("none")
           \/ k \in Start /\ work' = go("dispatched") /\ Journal(k)
    BY <1>1, <1>2 DEF InspectPending
  <1> HIDE DEF k
  <1>4. k \in Start => work.seen \cup {k} \in SUBSET Start
    BY <1>1, Zenon
  <1>5. k \in Start => /\ go("rejected") \in Work /\ go("none") \in Work
                       /\ go("dispatched") \in Work
    BY <1>4, Zenon DEF Work, Steps, Outcomes, Finished
  <1>6. TypeOK'
    BY <1>1, <1>3, <1>4, <1>5, WorkTyped DEF QueueInv, TypeOK, Work
  <1>7. WorkSound'
    <2>1. CASE work' = Idle \/ (k \in Start /\ work' = ToNextPending(work.seen \cup {k}))
      BY <1>4, <2>1, WorkTyped, BetweenRowsSound, Zenon
    <2>2. CASE k \in Start /\ work' \in {go("rejected"), go("none")}
      BY <2>2 DEF WorkSound
    <2>3. CASE k \in Start /\ work' = go("dispatched") /\ Journal(k)
      BY <1>1, <2>3, Zenon DEF WorkSound, Journal
    <2> QED
      BY <1>3, <2>1, <2>2, <2>3, Zenon
  <1> QED
    BY <1>1, <1>6, <1>7, RowsKept, PruneKept, Zenon DEF QueueInv

\* A row that is claimed was waiting, so it was never launched.
LEMMA ClaimKeeps == QueueInv /\ Claim => QueueInv'
  <1> SUFFICES ASSUME QueueInv, Claim PROVE QueueInv'
    OBVIOUS
  <1> DEFINE k == work.on
  <1>1. /\ work \in Work /\ work.seen \in SUBSET Start /\ k \in Start /\ work.pc = "claim"
        /\ work.plan = "dispatched" => dir[k] # "none"
        /\ UNCHANGED <<recorded, expired, dir, created, starting, boot, failed, position,
                       after, pruning, crashes, faults>>
    BY Zenon DEF Claim, QueueInv, TypeOK, WorkSound, Work
  <1>2. row \in [Start -> {"absent"} \cup Unfinished \cup Finished]
    BY Zenon DEF QueueInv, TypeOK
  <1>3. RowSound(k)
    BY <1>1, Zenon DEF QueueInv
  <1>4. CASE row[k] # "accepted"
    <2>1. row' = row /\ work' = ToNextPending(work.seen)
      BY <1>4, Zenon DEF Claim, BeginDispatch
    <2>2. TypeOK' /\ WorkSound'
      BY <1>1, <2>1, WorkTyped, BetweenRowsSound, Zenon DEF QueueInv, TypeOK, Work
    <2> QED
      BY <1>1, <2>1, <2>2, RowsKept, PruneKept, Zenon DEF QueueInv
  <1>5. CASE row[k] = "accepted"
    <2>1. /\ row' = [row EXCEPT ![k] = "dispatching"]
          /\ work' = [work EXCEPT !.pc = IF work.plan = "none" THEN "launch" ELSE "settle"]
      BY <1>5, Zenon DEF Claim, BeginDispatch
    <2>2. /\ work' \in Work /\ work'.on = k /\ work'.plan = work.plan
          /\ work'.pc \in {"launch", "settle"} /\ (work'.pc = "launch" => work.plan = "none")
      BY <1>1, <2>1, Zenon DEF Work, Steps
    <2>3. TypeOK'
      BY <1>1, <2>1, <2>2, Zenon DEF QueueInv, TypeOK, Work, Unfinished
    <2>4. Unlaunched(k) /\ k \notin boot
      BY <1>3, <1>5, Zenon DEF RowSound
    <2>5. ASSUME NEW j \in Start PROVE RowSound(j)'
      <3>1. RowSound(j)
        BY Zenon DEF QueueInv
      <3> QED
        BY <1>1, <1>2, <2>1, <2>4, <3>1, Zenon DEF RowSound, Unlaunched
    <2>6. WorkSound'
      BY <1>1, <1>2, <2>1, <2>2, <2>4 DEF WorkSound, Unlaunched
    <2>7. PruneSound'
      BY <1>1, <1>2, <1>5, <2>1 DEF QueueInv, PruneSound
    <2> QED
      BY <2>3, <2>5, <2>6, <2>7, Zenon DEF QueueInv
  <1> QED
    BY <1>4, <1>5, Zenon

\* A start is launched once after its claim, and never while in doubt.
LEMMA LaunchKeeps == QueueInv /\ Launch => QueueInv'
  <1> SUFFICES ASSUME QueueInv, Launch PROVE QueueInv'
    OBVIOUS
  <1> DEFINE k == work.on
  <1>1. /\ work \in Work /\ k \in Start /\ work.pc = "launch"
        /\ row[k] = "dispatching" /\ Unlaunched(k) /\ k \notin boot
        /\ UNCHANGED <<row, recorded, expired, dir, created, boot, failed, position, after,
                       pruning, crashes, faults>>
    BY Zenon DEF Launch, QueueInv, TypeOK, WorkSound, Work
  <1>2. /\ \/ starting' = starting \cup {k} /\ work'.plan = "record"
           \/ starting' = starting /\ work'.plan \in {"requeue", "rejected"}
        /\ work'.pc = "settle" /\ work'.on = k /\ work' \in Work
    BY <1>1, Zenon DEF Launch, Work, Steps, Outcomes, Finished
  <1>3. TypeOK'
    BY <1>1, <1>2, Zenon DEF QueueInv, TypeOK, Work
  <1>4. ASSUME NEW j \in Start PROVE RowSound(j)'
    <2>1. RowSound(j)
      BY Zenon DEF QueueInv
    <2> QED
      BY <1>1, <1>2, <2>1, Zenon DEF RowSound, Unlaunched
  <1>5. WorkSound'
    BY <1>1, <1>2, Zenon DEF WorkSound, Unlaunched
  <1> QED
    BY <1>1, <1>3, <1>4, <1>5, PruneKept, Zenon DEF QueueInv

\* The claim's outcome is written: only a start that was not launched waits again
\* or is rejected.
LEMMA SettleKeeps == QueueInv /\ Settle => QueueInv'
  <1> SUFFICES ASSUME QueueInv, Settle PROVE QueueInv'
    OBVIOUS
  <1> DEFINE k == work.on
  <1>1. /\ work.seen \in SUBSET Start /\ k \in Start /\ work.pc = "settle"
        /\ faults \in 0 .. MaxFaults /\ MaxFaults \in Nat
        /\ work' = ToNextPending(work.seen)
        /\ UNCHANGED <<expired, dir, created, starting, boot, position, after, pruning,
                       crashes>>
    BY StartQueueAssumption, Zenon DEF Settle, QueueInv, TypeOK, WorkSound
  <1>2. /\ work.plan = "dispatched" => dir[k] # "none"
        /\ work.plan \in {"rejected", "requeue"} => Unlaunched(k) /\ k \notin boot
    BY <1>1, Zenon DEF QueueInv, WorkSound
  <1>3. /\ \/ row' = row
           \/ /\ row[k] = "dispatching"
              /\ \/ row' = [row EXCEPT ![k] = "dispatched"] /\ dir[k] # "none"
                 \/ /\ Unlaunched(k) /\ k \notin boot
                    /\ \/ row' = [row EXCEPT ![k] = "accepted"]
                       \/ row' = [row EXCEPT ![k] = "rejected"]
        /\ recorded' \in {recorded, recorded \cup {k}, recorded \ {k}}
        /\ failed' \in {failed, failed \cup {k}}
        /\ faults' \in 0 .. MaxFaults
    BY <1>1, <1>2 DEF Settle, Finish, BackToAccepted, Finished
  <1> HIDE DEF k
  <1>4. row \in [Start -> {"absent"} \cup Unfinished \cup Finished]
    BY Zenon DEF QueueInv, TypeOK
  <1>5. TypeOK'
    BY <1>1, <1>3, WorkTyped DEF QueueInv, TypeOK, Work, Unfinished, Finished
  <1>6. ASSUME NEW j \in Start PROVE RowSound(j)'
    <2>1. RowSound(j) /\ RowSound(k)
      BY <1>1, Zenon DEF QueueInv
    <2> QED
      BY <1>1, <1>3, <1>4, <2>1, Zenon DEF RowSound, Unlaunched
  <1>7. PruneSound'
    BY <1>1, <1>3, <1>4, Zenon DEF QueueInv, PruneSound, TypeOK
  <1>8. WorkSound'
    BY <1>1, WorkTyped, BetweenRowsSound, Zenon
  <1> QED
    BY <1>5, <1>6, <1>7, <1>8, Zenon DEF QueueInv

-----------------------------------------------------------------------------
(* Acceptance, launched runs, retention, and restarts.                     *)

\* A new row, or a passed deadline, changes nothing about any run.
LEMMA AcceptKeeps ==
    ASSUME QueueInv, NEW k \in Start, Accept(k) \/ Expire(k)
    PROVE  QueueInv'
  <1>1. row \in [Start -> {"absent"} \cup Unfinished \cup Finished]
    BY Zenon DEF QueueInv, TypeOK
  <1>2. /\ \/ row' = row
           \/ row[k] = "absent" /\ row' = [row EXCEPT ![k] = "accepted"]
        /\ expired' \in {expired, expired \cup {k}}
        /\ UNCHANGED <<recorded, dir, created, starting, boot, failed, position, after,
                       work, pruning, crashes, faults>>
    BY Zenon DEF Accept, Expire
  <1>3. TypeOK'
    BY <1>2, Zenon DEF QueueInv, TypeOK, Unfinished
  <1>4. ASSUME NEW j \in Start PROVE RowSound(j)'
    <2>1. RowSound(j) /\ RowSound(k)
      BY Zenon DEF QueueInv
    <2> QED
      BY <1>1, <1>2, <2>1, Zenon DEF RowSound, Unlaunched
  <1>5. WorkSound'
    BY <1>1, <1>2, Zenon DEF QueueInv, WorkSound, Unlaunched
  <1>6. PruneSound'
    BY <1>1, <1>2, Zenon DEF QueueInv, PruneSound, TypeOK
  <1> QED
    BY <1>3, <1>4, <1>5, <1>6, Zenon DEF QueueInv

\* A launch publishes the first journal of its start, or fails, or its run ends;
\* the drainer is never about to write that start off.
LEMMA RunKeeps ==
    ASSUME QueueInv, NEW k \in Start, Publish(k) \/ StartFails(k) \/ EndRun(k)
    PROVE  QueueInv'
  <1>1. /\ dir \in [Start -> {"none", "live", "done", "staged", "removed"}]
        /\ created \in [Start -> Nat] /\ RowSound(k) /\ starting \subseteq Start
    BY Zenon DEF QueueInv, TypeOK
  <1>2. k \in starting => dir[k] = "none" /\ created[k] = 0
    BY <1>1, Zenon DEF RowSound
  <1>3. /\ UNCHANGED <<row, recorded, expired, boot, position, after, work, pruning,
                       crashes, faults>>
        /\ failed' \in {failed, failed \cup {k}}
        /\ \/ /\ k \in starting /\ starting' = starting \ {k}
              /\ \/ dir' = [dir EXCEPT ![k] = "live"] /\ created' = [created EXCEPT ![k] = 1]
                 \/ UNCHANGED <<dir, created>>
           \/ /\ dir[k] = "live" /\ dir' = [dir EXCEPT ![k] = "done"]
              /\ UNCHANGED <<created, starting>>
    BY <1>1, <1>2 DEF Publish, StartFails, EndRun, Journal
  <1>4. TypeOK'
    BY <1>1, <1>3 DEF QueueInv, TypeOK
  <1>5. ASSUME NEW j \in Start PROVE RowSound(j)'
    <2>1. RowSound(j)
      BY Zenon DEF QueueInv
    <2> QED
      BY <1>1, <1>2, <1>3, <2>1 DEF RowSound, Unlaunched
  <1>6. WorkSound'
    <2>1. WorkSound /\ (k \in starting => k \notin boot)
      BY <1>1, Zenon DEF QueueInv, RowSound
    <2> QED
      BY <1>1, <1>3, <2>1, Zenon DEF WorkSound, Unlaunched
  <1>7. PruneSound'
    <2>1. PruneSound /\ pruning \in Start \cup {Nobody}
      BY Zenon DEF QueueInv, TypeOK
    <2> QED
      BY <1>1, <1>2, <1>3, <2>1, Zenon DEF PruneSound
  <1> QED
    BY <1>4, <1>5, <1>6, <1>7, Zenon DEF QueueInv

\* The receipt is written while the journal is there.
LEMMA AcknowledgeKeeps ==
    ASSUME QueueInv, NEW k \in Start, AcknowledgeBeforePrune(k)
    PROVE  QueueInv'
  <1>1. row \in [Start -> {"absent"} \cup Unfinished \cup Finished]
    BY Zenon DEF QueueInv, TypeOK
  <1>2. /\ dir[k] \in {"done", "staged"} /\ pruning' = k
        /\ row' = [row EXCEPT ![k] = "dispatched"] /\ recorded' = recorded \cup {k}
        /\ UNCHANGED <<expired, dir, created, starting, boot, failed, position, after, work,
                       crashes, faults>>
    BY Zenon DEF AcknowledgeBeforePrune
  <1>3. TypeOK'
    BY <1>2, Zenon DEF QueueInv, TypeOK, Finished
  <1>4. ASSUME NEW j \in Start PROVE RowSound(j)'
    <2>1. RowSound(j)
      BY Zenon DEF QueueInv
    <2> QED
      BY <1>1, <1>2, <2>1, Zenon DEF RowSound, Unlaunched
  <1>5. WorkSound'
    BY <1>1, <1>2, Zenon DEF QueueInv, WorkSound, Unlaunched
  <1>6. PruneSound'
    BY <1>1, <1>2, Zenon DEF PruneSound
  <1> QED
    BY <1>3, <1>4, <1>5, <1>6, Zenon DEF QueueInv

\* Only an acknowledged journal is staged and removed.
LEMMA PruneKeeps == QueueInv /\ (Prune \/ PruneInterrupted \/ PruneFails) => QueueInv'
  <1> SUFFICES ASSUME QueueInv, Prune \/ PruneInterrupted \/ PruneFails PROVE QueueInv'
    OBVIOUS
  <1> DEFINE k == pruning
  <1>1. /\ k \in Start /\ row[k] = "dispatched" /\ dir[k] \in {"done", "staged"}
        /\ dir \in [Start -> {"none", "live", "done", "staged", "removed"}]
        /\ crashes \in 0 .. MaxCrashes /\ MaxCrashes \in Nat
        /\ faults \in 0 .. MaxFaults /\ MaxFaults \in Nat
    BY StartQueueAssumption, Zenon
       DEF Prune, PruneInterrupted, PruneFails, QueueInv, TypeOK, PruneSound
  <1>2. /\ \/ dir' = dir /\ pruning' = Nobody
           \/ dir' = [dir EXCEPT ![k] = "staged"] /\ pruning' = k
           \/ dir' = [dir EXCEPT ![k] = "removed"] /\ pruning' = Nobody
           \/ dir' = [dir EXCEPT ![k] = "done"] /\ pruning' = Nobody
        /\ crashes' \in 0 .. MaxCrashes /\ faults' \in 0 .. MaxFaults
        /\ UNCHANGED <<row, recorded, expired, created, starting, boot, failed, position,
                       after, work>>
    <2>1. CASE Prune \/ PruneInterrupted
      BY <1>1, <2>1 DEF Prune, PruneInterrupted
    <2>2. CASE PruneFails
      <3>1. /\ faults' \in 0 .. MaxFaults /\ pruning' = Nobody
            /\ UNCHANGED <<row, recorded, expired, created, starting, boot, failed, position,
                           after, work, crashes>>
        BY <1>1, <2>2 DEF PruneFails
      <3>2. PICK back \in {dir[k], "done"} : dir' = [dir EXCEPT ![k] = back]
        BY <2>2, Zenon DEF PruneFails
      <3>3. [dir EXCEPT ![k] = dir[k]] = dir
        BY <1>1, Zenon
      <3> QED
        BY <1>1, <3>1, <3>2, <3>3, Zenon
    <2> QED
      BY <2>1, <2>2, Zenon
  <1> HIDE DEF k
  <1>3. TypeOK'
    BY <1>1, <1>2, Zenon DEF QueueInv, TypeOK
  <1>4. ASSUME NEW j \in Start PROVE RowSound(j)'
    <2>1. RowSound(j) /\ RowSound(k)
      BY <1>1, Zenon DEF QueueInv
    <2> QED
      BY <1>1, <1>2, <2>1, Zenon DEF RowSound, Unlaunched
  <1>5. WorkSound'
    BY <1>1, <1>2, Zenon DEF QueueInv, WorkSound, Unlaunched
  <1>6. PruneSound'
    BY <1>1, <1>2, Zenon DEF PruneSound
  <1> QED
    BY <1>3, <1>4, <1>5, <1>6, Zenon DEF QueueInv

\* A restart ends every launch of the old process before it counts its doubts.
LEMMA RestartKeeps == QueueInv /\ Restart => QueueInv'
  <1> SUFFICES ASSUME QueueInv, Restart PROVE QueueInv'
    OBVIOUS
  <1>1. /\ crashes' \in 0 .. MaxCrashes /\ boot' = {k \in Start : row[k] = "dispatching"}
        /\ starting' = {} /\ failed' = {} /\ after' = Nobody /\ work' = Idle
        /\ UNCHANGED <<row, recorded, expired, dir, created, position, pruning, faults>>
    <2>1. crashes \in 0 .. MaxCrashes /\ MaxCrashes \in Nat
      BY StartQueueAssumption, Zenon DEF QueueInv, TypeOK
    <2> QED
      BY <2>1 DEF Restart
  <1>2. TypeOK'
    BY <1>1, WorkTyped, Zenon DEF QueueInv, TypeOK, Work
  <1>3. ASSUME NEW j \in Start PROVE RowSound(j)'
    <2>1. RowSound(j)
      BY Zenon DEF QueueInv
    <2> QED
      BY <1>1, <2>1, Zenon DEF RowSound, Unlaunched
  <1>4. WorkSound'
    BY <1>1, WorkTyped, BetweenRowsSound, Zenon
  <1> QED
    BY <1>1, <1>2, <1>3, <1>4, PruneKept, Zenon DEF QueueInv

-----------------------------------------------------------------------------
(* The theorems.                                                           *)

\* The inductive invariant: what the drainer found out still holds when it writes.
THEOREM QueueInvariant == Spec => []QueueInv
  <1>1. Init => QueueInv
    <2> SUFFICES ASSUME Init PROVE QueueInv
      OBVIOUS
    <2>1. TypeOK
      BY StartQueueAssumption, WorkTyped DEF Init, TypeOK, Work
    <2>2. \A k \in Start : RowSound(k)
      BY Zenon DEF Init, RowSound, Unlaunched
    <2>3. WorkSound /\ PruneSound
      BY WorkTyped, Zenon DEF Init, WorkSound, PruneSound
    <2> QED
      BY <2>1, <2>2, <2>3, Zenon DEF QueueInv
  <1>2. QueueInv /\ [Next]_vars => QueueInv'
    <2> SUFFICES ASSUME QueueInv, [Next]_vars PROVE QueueInv'
      OBVIOUS
    <2>1. CASE Drainer
      BY <2>1, BeginSweepKeeps, ReconcileObserveKeeps, ReconcileObservationKeeps,
         InspectPendingKeeps, ClaimKeeps, LaunchKeeps, SettleKeeps, Zenon DEF Drainer
    <2>2. CASE Prune \/ PruneInterrupted \/ PruneFails \/ Restart
      BY <2>2, PruneKeeps, RestartKeeps, Zenon
    <2>3. ASSUME NEW k \in Start,
                 \/ Accept(k) \/ Expire(k) \/ Publish(k) \/ StartFails(k)
                 \/ EndRun(k) \/ AcknowledgeBeforePrune(k)
          PROVE  QueueInv'
      BY <2>3, AcceptKeeps, RunKeeps, AcknowledgeKeeps, Zenon
    <2>4. CASE UNCHANGED vars
      <3>1. TypeOK' /\ WorkSound'
        BY <2>4 DEF vars, QueueInv, TypeOK, WorkSound, Unlaunched
      <3> QED
        BY <2>4, <3>1, RowsKept, PruneKept, Zenon DEF vars, QueueInv
    <2> QED
      BY <2>1, <2>2, <2>3, <2>4, Zenon DEF Next
  <1> QED
    BY <1>1, <1>2, PTL DEF Spec

\* An accepted start runs at most once, never while its row waits or after it was
\* rejected, and a receipt is proof of a run: for any number of starts, crashes and
\* failed writes (startintent Dispatch, planes ReconcileObservation, retention).
THEOREM QueueMatchesJournals == Spec => []RowMatchesJournal
  <1>1. QueueInv => RowMatchesJournal
    <2> SUFFICES ASSUME QueueInv, NEW k \in Start
                 PROVE  /\ created[k] <= 1
                        /\ row[k] \in {"accepted", "rejected"} =>
                              created[k] = 0 /\ k \notin starting
                        /\ row[k] = "dispatched" => created[k] > 0
                        /\ dir[k] = "removed" => row[k] = "dispatched"
      BY Zenon DEF RowMatchesJournal, RunsOnce, WaitingNeverRan, ReceiptIsProof
    <2> QED
      BY DEF QueueInv, RowSound, Unlaunched
  <1> QED
    BY <1>1, QueueInvariant, PTL

-----------------------------------------------------------------------------
(* The run journal.                                                        *)
CONSTANTS Openers, MaxEvents, MaxRunFaults
VARIABLES log, torn, state, lock, handle, discarded, runFaults

R == INSTANCE RunJournal WITH faults <- runFaults, MaxFaults <- MaxRunFaults

\* A handle that may append numbers the next record after the last one.
Counts ==
    \A p \in Openers :
        (handle[p].step = "recovering" \/ (handle[p].step = "open" /\ handle[p].failed = ""))
        => handle[p].seq = Len(log)

\* The inductive invariant.
Inv == R!TypeOK /\ R!MonotonicSeq /\ Counts /\ R!AppendedOnce

(* highestEventSeq over a log numbered in order is the length of the log.   *)
LEMMA HighestIsLen ==
    ASSUME R!TypeOK, R!MonotonicSeq
    PROVE  R!Highest(log) = Len(log)
<1> DEFINE S == {0} \cup {r.seq : r \in R!Range(log)}
<1>1. Len(log) \in Nat /\ DOMAIN log = 1 .. Len(log)
  <2>1. log \in Seq(R!Entries)
    BY Zenon DEF R!TypeOK
  <2> QED
    BY <2>1
<1>2. \A x \in S : x \in Nat /\ x <= Len(log)
  BY <1>1 DEF R!Range, R!MonotonicSeq
<1>3. Len(log) \in S
  <2>1. CASE Len(log) = 0
    BY <2>1, Zenon
  <2>2. CASE Len(log) # 0
    <3>1. Len(log) \in DOMAIN log /\ log[Len(log)].seq = Len(log)
      BY <1>1, <2>2 DEF R!MonotonicSeq
    <3> QED
      BY <3>1, Zenon DEF R!Range
  <2> QED
    BY <2>1, <2>2, Zenon
<1>4. R!Max(S) = Len(log)
  <2> HIDE DEF S
  <2>1. \A y \in S : Len(log) >= y
    BY <1>1, <1>2, Zenon
  <2>2. \A x \in S : (\A y \in S : x >= y) => x = Len(log)
    BY <1>1, <1>2, <1>3
  <2> QED
    BY <1>3, <2>1, <2>2, Zenon DEF R!Max
<1> QED
  BY <1>4, Zenon DEF R!Highest

(* A record numbered one past the last extends a log numbered in order; it  *)
(* keeps receipts unique unless it is a second one.                         *)
LEMMA LogExtended ==
    ASSUME R!TypeOK, R!MonotonicSeq, R!AppendedOnce, NEW kind \in R!Kinds \cup {"repaired"},
           log' = Append(log, R!Record(Len(log) + 1, kind)),
           kind = "receipt" => \A i \in DOMAIN log : log[i].kind # "receipt"
    PROVE  /\ log' \in Seq(R!Entries) /\ Len(log') = Len(log) + 1
           /\ R!MonotonicSeq' /\ R!AppendedOnce'
<1> DEFINE e == R!Record(Len(log) + 1, kind)
<1>1. log \in Seq(R!Entries) /\ Len(log) \in Nat /\ e \in R!Entries
  <2>1. log \in Seq(R!Entries)
    BY Zenon DEF R!TypeOK
  <2>2. Len(log) \in Nat
    BY <2>1
  <2>3. e \in R!Entries
    BY <2>2 DEF R!Entries, R!Record
  <2> QED
    BY <2>1, <2>2, <2>3, Zenon
<1>2. log' \in Seq(R!Entries) /\ Len(log') = Len(log) + 1
  BY <1>1
<1>3. /\ DOMAIN log = 1 .. Len(log) /\ DOMAIN log' = 1 .. Len(log) + 1
      /\ \A i \in 1 .. Len(log) : log'[i] = log[i]
      /\ log'[Len(log) + 1] = e
  BY <1>1
<1>4. e.seq = Len(log) + 1 /\ e.kind = kind
  BY Zenon DEF R!Record
<1> HIDE DEF e
<1>5. R!MonotonicSeq'
  BY <1>1, <1>3, <1>4 DEF R!MonotonicSeq
<1>6. R!AppendedOnce'
  BY <1>1, <1>3, <1>4 DEF R!AppendedOnce
<1> QED
  BY <1>2, <1>5, <1>6, Zenon

(* A step that writes nothing to the log and sets one handle, typed and      *)
(* counting from the log when it may append, keeps the invariant.           *)
LEMMA HandleSet ==
    ASSUME Inv, NEW p \in Openers, NEW h \in R!Handles, R!SetHandle(p, h), log' = log,
           lock' \in Openers \cup {R!NoOne}, torn' \in BOOLEAN, discarded' \in Nat,
           runFaults' \in 0 .. MaxRunFaults,
           state' \in [phase : R!Phases \cup {""}, node : R!Nodes, lastSeq : Nat],
           h.step \in {"recovering", "open"} => lock' = p,
           \A q \in Openers \ {p} : handle[q].step \in {"recovering", "open"} => lock' = q,
           (h.step = "recovering" \/ (h.step = "open" /\ h.failed = "")) => h.seq = Len(log)
    PROVE  Inv'
<1>1. handle' \in [Openers -> R!Handles] /\ handle'[p] = h
      /\ \A q \in Openers \ {p} : handle'[q] = handle[q]
  BY Zenon DEF Inv, R!TypeOK, R!SetHandle
<1>2. R!TypeOK'
  BY <1>1, Zenon DEF Inv, R!TypeOK
<1>3. Counts'
  BY <1>1, Zenon DEF Inv, Counts
<1>4. R!MonotonicSeq' /\ R!AppendedOnce'
  BY Zenon DEF Inv, R!MonotonicSeq, R!AppendedOnce
<1> QED
  BY <1>2, <1>3, <1>4, Zenon DEF Inv

(* The same for a step of the lock's holder that also appends the next      *)
(* record: no other handle may append.                                      *)
LEMMA HandleAppends ==
    ASSUME Inv, NEW p \in Openers, NEW h \in R!Handles, R!SetHandle(p, h),
           NEW kind \in R!Kinds \cup {"repaired"},
           log' = Append(log, R!Record(Len(log) + 1, kind)),
           kind = "receipt" => \A i \in DOMAIN log : log[i].kind # "receipt",
           handle[p].step \in {"recovering", "open"},
           lock' \in {p, R!NoOne}, torn' \in BOOLEAN, discarded' \in Nat, runFaults' \in 0 .. MaxRunFaults,
           state' \in [phase : R!Phases \cup {""}, node : R!Nodes, lastSeq : Nat],
           h.step \in {"recovering", "open"} => lock' = p,
           (h.step = "recovering" \/ (h.step = "open" /\ h.failed = "")) => h.seq = Len(log) + 1
    PROVE  Inv'
<1>1. handle' \in [Openers -> R!Handles] /\ handle'[p] = h
      /\ \A q \in Openers \ {p} : handle'[q] = handle[q]
  BY Zenon DEF Inv, R!TypeOK, R!SetHandle
<1>2. log' \in Seq(R!Entries) /\ Len(log') = Len(log) + 1 /\ R!MonotonicSeq' /\ R!AppendedOnce'
  BY LogExtended, Zenon DEF Inv
<1>3. \A q \in Openers \ {p} : handle[q].step \notin {"recovering", "open"}
  BY Zenon DEF Inv, R!TypeOK
<1>4. R!TypeOK'
  BY <1>1, <1>2, <1>3, Zenon DEF Inv, R!TypeOK
<1>5. Counts'
  BY <1>1, <1>2, <1>3, Zenon DEF Inv, Counts
<1> QED
  BY <1>2, <1>4, <1>5, Zenon DEF Inv

(* What Recover and Append make of a handle is a handle.                     *)
LEMMA PhaseType == R!Phase(log) \in R!Phases
BY Zenon DEF R!Phase, R!Phases

LEMMA LivedType ==
    ASSUME NEW h \in R!Handles, NEW kind \in R!Kinds
    PROVE  /\ R!Lived(h, kind) \in R!Handles /\ R!Lived(h, kind).seq = h.seq
           /\ R!Lived(h, kind).step = h.step /\ R!Lived(h, kind).failed = h.failed
BY Zenon DEF R!Lived, R!Handles, R!Phases, R!Nodes

LEMMA HealedType ==
    ASSUME NEW p \in Openers, handle[p] \in R!Handles
    PROVE  /\ R!Healed(p) \in R!Handles /\ R!Healed(p).seq = handle[p].seq
           /\ R!Healed(p).mark = handle[p].mark /\ R!Healed(p).failed = handle[p].failed
BY Zenon DEF R!Healed, R!Handles, R!Nodes

LEMMA StateType ==
    ASSUME NEW h \in R!Handles
    PROVE  R!State(h) \in [phase : R!Phases \cup {""}, node : R!Nodes, lastSeq : Nat]
BY Zenon DEF R!State, R!Handles

LEMMA Succ == \A n \in Nat : n + 1 \in Nat
  OBVIOUS

LEMMA Numbered ==
    ASSUME NEW h \in R!Handles
    PROVE  /\ [h EXCEPT !.seq = @ + 1] \in R!Handles
           /\ [h EXCEPT !.seq = @ + 1].seq = h.seq + 1
           /\ [h EXCEPT !.seq = @ + 1].step = h.step
           /\ [h EXCEPT !.seq = @ + 1].failed = h.failed
<1>1. h.seq \in Nat
  BY Zenon DEF R!Handles
<1>2. h.seq + 1 \in Nat
  BY <1>1, Succ, Zenon
<1> QED
  BY <1>2, Zenon DEF R!Handles

(* A handle's fault budget stays within its bound.                           *)
LEMMA FaultType ==
    ASSUME R!Bounds, R!TypeOK, R!Fault \/ UNCHANGED runFaults
    PROVE  runFaults' \in 0 .. MaxRunFaults
<1>1. runFaults \in 0 .. MaxRunFaults /\ MaxRunFaults \in Nat
  BY Zenon DEF R!TypeOK, R!Bounds
<1> QED
  BY <1>1 DEF R!Fault

LEMMA LenNat == ASSUME R!TypeOK PROVE Len(log) \in Nat
<1>1. log \in Seq(R!Entries)
  BY Zenon DEF R!TypeOK
<1> QED
  BY <1>1

LEMMA ClosedType == R!Closed \in R!Handles /\ R!Closed.step = "closed"
BY Zenon DEF R!Closed, R!Handles, R!Phases, R!Nodes

(* A holder that leaves, whatever it was doing, keeps the invariant.         *)
LEMMA Leaves ==
    ASSUME R!Bounds, Inv, NEW p \in Openers, handle[p].step \in {"recovering", "open"}, R!Leave(p),
           log' = log, torn' \in BOOLEAN, discarded' = discarded, state' = state,
           R!Fault \/ UNCHANGED runFaults
    PROVE  Inv'
<1>1. \A q \in Openers \ {p} : handle[q].step \notin {"recovering", "open"}
  BY Zenon DEF Inv, R!TypeOK
<1>2. /\ discarded' \in Nat /\ lock' \in Openers \cup {R!NoOne}
      /\ state' \in [phase : R!Phases \cup {""}, node : R!Nodes, lastSeq : Nat]
      /\ R!SetHandle(p, R!Closed)
  BY Zenon DEF Inv, R!TypeOK, R!Leave
<1>3. runFaults' \in 0 .. MaxRunFaults
  BY FaultType, Zenon DEF Inv
<1>4. R!Closed \in R!Handles /\ R!Closed.step \notin {"recovering", "open"}
  BY ClosedType, Zenon
<1> QED
  BY <1>1, <1>2, <1>3, <1>4, HandleSet, Zenon

(* Recover: waiting for the lock, reading under it, healing and marking.     *)
LEMMA RecoverKeeps ==
    ASSUME R!Bounds, Inv, NEW p \in Openers,
           R!BeginRecover(p) \/ R!LockTimeout(p) \/ R!Acquire(p) \/ R!FinishRecover(p) \/ R!RecoverFails(p)
    PROVE  Inv'
<1>1. handle[p] \in R!Handles /\ R!TypeOK
  BY Zenon DEF Inv, R!TypeOK
<1>2. CASE R!BeginRecover(p)
  <2> DEFINE h == [R!Closed EXCEPT !.step = "waiting"]
  <2>1. h \in R!Handles /\ h.step = "waiting"
    BY Zenon DEF R!Closed, R!Handles, R!Phases, R!Nodes
  <2>2. R!SetHandle(p, h) /\ UNCHANGED <<log, torn, state, lock, discarded, runFaults>>
    BY <1>2, Zenon DEF R!BeginRecover
  <2> HIDE DEF h
  <2>3. \A q \in Openers : handle[q].step \in {"recovering", "open"} => lock' = q
    BY <2>2, <1>1, Zenon DEF R!TypeOK
  <2>4. /\ lock' \in Openers \cup {R!NoOne} /\ torn' \in BOOLEAN /\ discarded' \in Nat
        /\ runFaults' \in 0 .. MaxRunFaults
        /\ state' \in [phase : R!Phases \cup {""}, node : R!Nodes, lastSeq : Nat]
    BY <2>2, <1>1, Zenon DEF R!TypeOK
  <2> QED
    BY <2>1, <2>2, <2>3, <2>4, HandleSet, Zenon
<1>3. CASE R!LockTimeout(p)
  <2>1. R!SetHandle(p, R!Closed) /\ UNCHANGED <<log, torn, state, lock, discarded, runFaults>>
    BY <1>3, Zenon DEF R!LockTimeout
  <2>2. \A q \in Openers : handle[q].step \in {"recovering", "open"} => lock' = q
    BY <2>1, <1>1, Zenon DEF R!TypeOK
  <2>3. /\ lock' \in Openers \cup {R!NoOne} /\ torn' \in BOOLEAN /\ discarded' \in Nat
        /\ runFaults' \in 0 .. MaxRunFaults
        /\ state' \in [phase : R!Phases \cup {""}, node : R!Nodes, lastSeq : Nat]
    BY <2>1, <1>1, Zenon DEF R!TypeOK
  <2> QED
    BY <2>1, <2>2, <2>3, ClosedType, HandleSet, Zenon
<1>4. CASE R!Acquire(p)
  <2> DEFINE h == [handle[p] EXCEPT !.step = "recovering", !.mark = torn, !.phase = R!Phase(log),
                                    !.seq = R!Reconstructed, !.node = state.node]
  <2>1. R!Reconstructed = Len(log) /\ Len(log) \in Nat
    BY HighestIsLen, LenNat, Zenon DEF Inv, R!Reconstructed
  <2>2. h \in R!Handles /\ h.step = "recovering" /\ h.seq = Len(log)
    BY <1>1, <2>1, PhaseType, Zenon DEF R!TypeOK, R!Handles
  <2>3. /\ R!SetHandle(p, h) /\ lock = R!NoOne /\ lock' = p /\ torn' = FALSE
        /\ discarded' \in {discarded, discarded + 1} /\ UNCHANGED <<log, state, runFaults>>
    BY <1>4, Zenon DEF R!Acquire, R!LockFree
  <2> HIDE DEF h
  <2>4. \A q \in Openers : handle[q].step \notin {"recovering", "open"}
    BY <2>3, <1>1, Zenon DEF R!TypeOK, R!Bounds
  <2>5. /\ discarded' \in Nat /\ runFaults' \in 0 .. MaxRunFaults
        /\ state' \in [phase : R!Phases \cup {""}, node : R!Nodes, lastSeq : Nat]
    <3>1. /\ discarded \in Nat /\ runFaults \in 0 .. MaxRunFaults
          /\ state \in [phase : R!Phases \cup {""}, node : R!Nodes, lastSeq : Nat]
      BY <1>1, Zenon DEF R!TypeOK
    <3>2. discarded' \in Nat
      BY <2>3, <3>1, Succ, Zenon
    <3> QED
      BY <2>3, <3>1, <3>2, Zenon
  <2> QED
    BY <2>2, <2>3, <2>4, <2>5, HandleSet, Zenon
<1>5. CASE R!FinishRecover(p)
  <2> DEFINE marked == IF R!Healed(p).mark THEN [R!Healed(p) EXCEPT !.seq = @ + 1] ELSE R!Healed(p)
             opened == [marked EXCEPT !.step = "open", !.mark = FALSE]
  <2>1. handle[p].step = "recovering" /\ handle[p].seq = Len(log) /\ Len(log) \in Nat /\ lock = p
    <3>1. handle[p].step = "recovering"
      BY <1>5, Zenon DEF R!FinishRecover
    <3>2. handle[p].seq = Len(log)
      BY <3>1, Zenon DEF Inv, Counts
    <3>3. lock = p
      BY <1>1, <3>1, Zenon DEF R!TypeOK
    <3> QED
      BY <1>1, <3>1, <3>2, <3>3, LenNat, Zenon
  <2>2. /\ R!Healed(p) \in R!Handles /\ R!Healed(p).seq = Len(log)
    BY <1>1, <2>1, HealedType, Zenon
  <2>3. /\ opened \in R!Handles /\ opened.step = "open"
        /\ opened.seq = IF R!Healed(p).mark THEN Len(log) + 1 ELSE Len(log)
    <3>1. CASE R!Healed(p).mark
      <4>1. marked = [R!Healed(p) EXCEPT !.seq = @ + 1]
        BY <3>1, Zenon
      <4>2. marked \in R!Handles /\ marked.seq = Len(log) + 1
        BY <4>1, <2>1, <2>2, Numbered, Zenon
      <4> HIDE DEF marked
      <4>3. opened \in R!Handles /\ opened.step = "open" /\ opened.seq = marked.seq
        BY <4>2, Zenon DEF R!Handles
      <4> QED
        BY <3>1, <4>2, <4>3, Zenon
    <3>2. CASE ~R!Healed(p).mark
      <4>1. marked \in R!Handles /\ marked.seq = Len(log)
        BY <3>2, <2>2, Zenon
      <4> HIDE DEF marked
      <4>2. opened \in R!Handles /\ opened.step = "open" /\ opened.seq = marked.seq
        BY <4>1, Zenon DEF R!Handles
      <4> QED
        BY <3>2, <4>1, <4>2, Zenon
    <3> QED
      BY <3>1, <3>2, Zenon
  <2>4. /\ log' = IF R!Healed(p).mark THEN Append(log, R!Record(Len(log) + 1, "repaired")) ELSE log
        /\ \/ R!SetHandle(p, opened) /\ state' \in {state, R!State(opened)} /\ UNCHANGED <<lock, runFaults>>
           \/ R!Fault /\ R!Leave(p) /\ UNCHANGED state
        /\ UNCHANGED <<torn, discarded>>
    BY <1>5, <2>2, Zenon DEF R!FinishRecover
  <2> HIDE DEF opened
  <2>5. /\ torn' \in BOOLEAN /\ discarded' \in Nat /\ runFaults' \in 0 .. MaxRunFaults
        /\ state' \in [phase : R!Phases \cup {""}, node : R!Nodes, lastSeq : Nat]
    <3>1. state' \in [phase : R!Phases \cup {""}, node : R!Nodes, lastSeq : Nat]
      BY <1>1, <2>3, <2>4, StateType, Zenon DEF R!TypeOK
    <3>2. runFaults' \in 0 .. MaxRunFaults
      BY <1>1, <2>4, FaultType, Zenon
    <3> QED
      BY <1>1, <2>4, <3>1, <3>2, Zenon DEF R!TypeOK
  <2>6. PICK g \in {opened, R!Closed} :
            /\ R!SetHandle(p, g) /\ lock' \in {p, R!NoOne}
            /\ g.step \in {"recovering", "open"} => g = opened /\ lock' = p
    BY <2>1, <2>4, ClosedType, Zenon DEF R!Leave
  <2>7. g \in R!Handles /\ (g.step \in {"recovering", "open"} => g.seq = opened.seq)
    BY <2>3, <2>6, ClosedType, Zenon
  <2>8. CASE R!Healed(p).mark
    <3>1. log' = Append(log, R!Record(Len(log) + 1, "repaired"))
          /\ (g.step \in {"recovering", "open"} => g.seq = Len(log) + 1)
      BY <2>3, <2>4, <2>7, <2>8, Zenon
    <3> QED
      BY <2>1, <2>5, <2>6, <2>7, <3>1, HandleAppends, Zenon
  <2>9. CASE ~R!Healed(p).mark
    <3>1. log' = log /\ (g.step \in {"recovering", "open"} => g.seq = Len(log))
      BY <2>3, <2>4, <2>7, <2>9, Zenon
    <3>2. \A q \in Openers \ {p} : handle[q].step \notin {"recovering", "open"}
      BY <1>1, <2>1, Zenon DEF R!TypeOK
    <3> QED
      BY <2>5, <2>6, <2>7, <3>1, <3>2, HandleSet, Zenon
  <2> QED
    BY <2>8, <2>9, Zenon
<1>6. CASE R!RecoverFails(p)
  <2>1. /\ handle[p].step \in {"recovering", "open"} /\ R!Leave(p) /\ R!Fault /\ torn' \in BOOLEAN
        /\ log' = log /\ discarded' = discarded /\ state' = state
    BY <1>6, Zenon DEF R!RecoverFails
  <2> QED
    BY <2>1, Leaves, Zenon
<1> QED
  BY <1>2, <1>3, <1>4, <1>5, <1>6, Zenon

(* Append and AppendIfAbsent: the record, then its checkpoint.               *)
LEMMA AppendKeeps ==
    ASSUME R!Bounds, Inv, NEW p \in Openers, NEW kind \in R!Kinds, R!AppendEvent(p, kind)
    PROVE  Inv'
<1> DEFINE h == [handle[p] EXCEPT !.seq = @ + 1]
           good == [R!Lived(h, kind) EXCEPT !.pending = kind]
           bad == [h EXCEPT !.failed = kind]
<1>1. handle[p] \in R!Handles /\ R!TypeOK /\ Len(log) \in Nat
  BY LenNat, Zenon DEF Inv, R!TypeOK
<1>2. /\ handle[p].step = "open" /\ handle[p].failed = "" /\ handle[p].seq = Len(log)
      /\ lock = p
  <2>1. handle[p].step = "open" /\ handle[p].failed = ""
    BY Zenon DEF R!AppendEvent, R!Ready, R!AppendBlocked
  <2>2. handle[p].seq = Len(log)
    BY <2>1, Zenon DEF Inv, Counts
  <2>3. lock = p
    BY <1>1, <2>1, Zenon DEF R!TypeOK
  <2> QED
    BY <2>1, <2>2, <2>3, Zenon
<1>3. h \in R!Handles /\ h.seq = Len(log) + 1 /\ h.step = "open"
  BY <1>1, <1>2, Numbered, Zenon
<1>4. /\ \/ log' = Append(log, R!Record(h.seq, kind)) /\ R!SetHandle(p, good) /\ UNCHANGED <<torn, runFaults>>
         \/ /\ R!Fault /\ R!SetHandle(p, bad)
            /\ \/ log' = Append(log, R!Record(h.seq, kind)) /\ UNCHANGED torn
               \/ torn' \in BOOLEAN /\ UNCHANGED log
      /\ UNCHANGED <<state, lock, discarded>>
  BY Zenon DEF R!AppendEvent, R!Commit
<1>5. kind = "receipt" => \A i \in DOMAIN log : log[i].kind # "receipt"
  BY Zenon DEF R!AppendEvent, R!Absent
<1> HIDE DEF h
<1>6. good \in R!Handles /\ good.step = "open" /\ good.seq = Len(log) + 1
  <2>1. R!Lived(h, kind) \in R!Handles /\ R!Lived(h, kind).seq = h.seq /\ R!Lived(h, kind).step = h.step
    BY <1>3, LivedType, Zenon
  <2>2. \A g \in R!Handles : /\ [g EXCEPT !.pending = kind] \in R!Handles
                            /\ [g EXCEPT !.pending = kind].step = g.step
                            /\ [g EXCEPT !.pending = kind].seq = g.seq
    BY Zenon DEF R!Handles
  <2> QED
    BY <1>3, <2>1, <2>2, Zenon
<1>7. bad \in R!Handles /\ bad.step = "open" /\ bad.failed # ""
  BY <1>3, Zenon DEF R!Handles, R!Kinds
<1> HIDE DEF good, bad
<1>8. /\ torn' \in BOOLEAN /\ discarded' \in Nat /\ lock' = p /\ lock' \in Openers \cup {R!NoOne}
      /\ runFaults' \in 0 .. MaxRunFaults
      /\ state' \in [phase : R!Phases \cup {""}, node : R!Nodes, lastSeq : Nat]
  <2>1. runFaults' \in 0 .. MaxRunFaults
    BY <1>1, <1>4, FaultType, Zenon
  <2> QED
    BY <1>1, <1>2, <1>4, <2>1, Zenon DEF R!TypeOK
<1>9. CASE log' = Append(log, R!Record(h.seq, kind)) /\ R!SetHandle(p, good)
  <2>1. log' = Append(log, R!Record(Len(log) + 1, kind))
    BY <1>3, <1>9, Zenon
  <2> QED
    BY <1>2, <1>5, <1>6, <1>8, <1>9, <2>1, HandleAppends, Zenon
<1>10. CASE log' = Append(log, R!Record(h.seq, kind)) /\ R!SetHandle(p, bad)
  <2>1. log' = Append(log, R!Record(Len(log) + 1, kind))
    BY <1>3, <1>10, Zenon
  <2> QED
    BY <1>2, <1>5, <1>7, <1>8, <1>10, <2>1, HandleAppends, Zenon
<1>11. CASE log' = log /\ R!SetHandle(p, bad)
  <2>1. \A q \in Openers \ {p} : handle[q].step \notin {"recovering", "open"}
    BY <1>1, <1>2, Zenon DEF R!TypeOK
  <2> QED
    BY <1>7, <1>8, <1>11, <2>1, HandleSet, Zenon
<1> QED
  BY <1>4, <1>9, <1>10, <1>11, Zenon

(* The other steps of a handle that is open.                                 *)
LEMMA OpenKeeps ==
    ASSUME R!Bounds, Inv, NEW p \in Openers,
           \/ R!Checkpoint(p) \/ R!RepairAppendBoundary(p) \/ R!SetMachineState(p)
           \/ R!Close(p) \/ R!Crash(p)
    PROVE  Inv'
<1>1. handle[p] \in R!Handles /\ R!TypeOK /\ Len(log) \in Nat
  BY LenNat, Zenon DEF Inv, R!TypeOK
<1>2. handle[p].step \in {"recovering", "open"} /\ lock = p
      /\ \A q \in Openers \ {p} : handle[q].step \notin {"recovering", "open"}
  <2>1. handle[p].step \in {"recovering", "open"}
    BY Zenon DEF R!Checkpoint, R!RepairAppendBoundary, R!SetMachineState, R!Close, R!Crash, R!Ready
  <2> QED
    BY <1>1, <2>1, Zenon DEF R!TypeOK
<1>3. /\ torn \in BOOLEAN /\ discarded \in Nat /\ lock \in Openers \cup {R!NoOne}
      /\ runFaults \in 0 .. MaxRunFaults
      /\ state \in [phase : R!Phases \cup {""}, node : R!Nodes, lastSeq : Nat]
  BY <1>1, Zenon DEF R!TypeOK
<1>4. CASE R!Checkpoint(p)
  <2> DEFINE h == [handle[p] EXCEPT !.pending = ""]
  <2>1. /\ h \in R!Handles /\ h.step = handle[p].step /\ h.seq = handle[p].seq
        /\ h.failed = handle[p].failed
    BY <1>1, Zenon DEF R!Handles
  <2>2. /\ R!SetHandle(p, h) /\ UNCHANGED <<log, torn, lock, discarded>>
        /\ state' \in {state, R!State(handle[p])} /\ (R!Fault \/ UNCHANGED runFaults)
    BY <1>4, Zenon DEF R!Checkpoint
  <2> HIDE DEF h
  <2>3. /\ runFaults' \in 0 .. MaxRunFaults
        /\ state' \in [phase : R!Phases \cup {""}, node : R!Nodes, lastSeq : Nat]
    BY <1>1, <1>3, <2>2, FaultType, StateType, Zenon
  <2>4. (h.step = "recovering" \/ (h.step = "open" /\ h.failed = "")) => h.seq = Len(log)
    BY <2>1, Zenon DEF Inv, Counts
  <2> QED
    BY <1>2, <1>3, <2>1, <2>2, <2>3, <2>4, HandleSet, Zenon
<1>5. CASE R!RepairAppendBoundary(p)
  <2> DEFINE whole == [handle[p] EXCEPT !.failed = "", !.seq = Len(log)]
             marked == [handle[p] EXCEPT !.failed = "", !.seq = Len(log) + 1]
             unmarked == [marked EXCEPT !.failed = "other"]
             Marker == log' = Append(log, R!Record(Len(log) + 1, "repaired")) /\ torn' = FALSE
  <2>1. R!Highest(log) = Len(log)
    BY HighestIsLen, Zenon DEF Inv
  <2>2. Len(log) + 1 \in Nat
    BY <1>1, Succ, Zenon
  <2>3. /\ whole \in R!Handles /\ whole.seq = Len(log) /\ whole.step = handle[p].step
        /\ marked \in R!Handles /\ marked.seq = Len(log) + 1 /\ marked.step = handle[p].step
    BY <1>1, <2>2, Zenon DEF R!Handles
  <2>4. \A g \in R!Handles : /\ [g EXCEPT !.failed = "other"] \in R!Handles
                            /\ [g EXCEPT !.failed = "other"].step = g.step
                            /\ [g EXCEPT !.failed = "other"].seq = g.seq
                            /\ [g EXCEPT !.failed = "other"].failed = "other"
    BY Zenon DEF R!Handles, R!Kinds
  <2>5. /\ UNCHANGED <<state, lock>> /\ handle[p].step = "open"
        /\ \/ ~torn /\ R!SetHandle(p, whole) /\ UNCHANGED <<log, torn, discarded, runFaults>>
           \/ /\ discarded' = discarded + 1
              /\ \/ Marker /\ R!SetHandle(p, marked) /\ UNCHANGED runFaults
                 \/ /\ R!Fault /\ R!SetHandle(p, unmarked)
                    /\ Marker \/ (torn' \in BOOLEAN /\ UNCHANGED log)
    BY <1>5, <2>1, Zenon DEF R!RepairAppendBoundary, R!Ready
  <2>6. /\ unmarked \in R!Handles /\ unmarked.seq = Len(log) + 1 /\ unmarked.step = "open"
        /\ unmarked.failed = "other"
    BY <2>3, <2>4, <2>5, Zenon
  <2>7. discarded + 1 \in Nat /\ (R!Fault => runFaults' \in 0 .. MaxRunFaults)
    BY <1>1, <1>3, Succ, FaultType, Zenon
  <2>8. torn' \in BOOLEAN /\ discarded' \in Nat /\ runFaults' \in 0 .. MaxRunFaults
        /\ state' \in [phase : R!Phases \cup {""}, node : R!Nodes, lastSeq : Nat]
    BY <1>3, <2>5, <2>7, Zenon
  <2> HIDE DEF whole, marked, unmarked
  <2>9. CASE R!SetHandle(p, whole) /\ UNCHANGED log
    BY <1>2, <1>3, <2>3, <2>5, <2>8, <2>9, HandleSet, Zenon
  <2>10. CASE Marker /\ R!SetHandle(p, marked)
    BY <1>2, <1>3, <2>3, <2>5, <2>8, <2>10, HandleAppends, Zenon
  <2>11. CASE Marker /\ R!SetHandle(p, unmarked)
    BY <1>2, <1>3, <2>5, <2>6, <2>8, <2>11, HandleAppends, Zenon
  <2>12. CASE R!SetHandle(p, unmarked) /\ UNCHANGED log
    BY <1>2, <1>3, <2>5, <2>6, <2>8, <2>12, HandleSet, Zenon
  <2> QED
    BY <2>5, <2>9, <2>10, <2>11, <2>12, Zenon
<1>6. CASE R!SetMachineState(p)
  <2> DEFINE h == [handle[p] EXCEPT !.node = "next"]
  <2>1. /\ h \in R!Handles /\ h.step = handle[p].step /\ h.seq = handle[p].seq
        /\ h.failed = handle[p].failed
    BY <1>1, Zenon DEF R!Handles, R!Nodes
  <2>2. [R!State(handle[p]) EXCEPT !.node = "next"]
            \in [phase : R!Phases \cup {""}, node : R!Nodes, lastSeq : Nat]
    BY <1>1, StateType, Zenon DEF R!Nodes
  <2>3. /\ R!SetHandle(p, h) /\ UNCHANGED <<log, torn, lock, discarded, runFaults>>
        /\ state' \in {state, [R!State(handle[p]) EXCEPT !.node = "next"]}
    BY <1>6, Zenon DEF R!SetMachineState
  <2> HIDE DEF h
  <2>4. state' \in [phase : R!Phases \cup {""}, node : R!Nodes, lastSeq : Nat]
    BY <1>3, <2>2, <2>3, Zenon
  <2>5. (h.step = "recovering" \/ (h.step = "open" /\ h.failed = "")) => h.seq = Len(log)
    BY <2>1, Zenon DEF Inv, Counts
  <2> QED
    BY <1>2, <1>3, <2>1, <2>3, <2>4, <2>5, HandleSet, Zenon
<1>7. CASE R!Close(p) \/ R!Crash(p)
  <2>1. /\ R!Leave(p) /\ log' = log /\ torn' \in BOOLEAN /\ discarded' = discarded /\ state' = state
        /\ (R!Fault \/ UNCHANGED runFaults)
    BY <1>3, <1>7, Zenon DEF R!Close, R!Crash
  <2> QED
    BY <1>2, <2>1, Leaves, Zenon
<1> QED
  BY <1>4, <1>5, <1>6, <1>7, Zenon

(* The invariant is inductive.                                               *)
LEMMA InitInv == ASSUME R!Bounds PROVE R!Init => Inv
<1>1. SUFFICES ASSUME R!Init PROVE Inv
  OBVIOUS
<1>2. R!Record(1, "other") \in R!Entries /\ R!Record(1, "other").seq = 1
  BY Zenon DEF R!Record, R!Entries, R!Kinds
<1>3. log \in Seq(R!Entries) /\ Len(log) = 1 /\ log[1] = R!Record(1, "other")
  <2>1. log = <<R!Record(1, "other")>>
    BY <1>1, Zenon DEF R!Init
  <2> QED
    BY <1>2, <2>1
<1>4. R!TypeOK
  <2>1. state \in [phase : R!Phases \cup {""}, node : R!Nodes, lastSeq : Nat]
    BY <1>1, Zenon DEF R!Init, R!Phases, R!Nodes
  <2>2. handle \in [Openers -> R!Handles] /\ \A p \in Openers : handle[p].step = "closed"
    BY <1>1, ClosedType, Zenon DEF R!Init
  <2>3. torn \in BOOLEAN /\ lock = R!NoOne
    BY <1>1, Zenon DEF R!Init
  <2>4. discarded \in Nat /\ runFaults \in 0 .. MaxRunFaults
    <3>1. discarded = 0 /\ runFaults = 0
      BY <1>1, Zenon DEF R!Init
    <3>2. MaxRunFaults \in Nat
      BY Zenon DEF R!Bounds
    <3> QED
      BY <3>1, <3>2
  <2> QED
    BY <1>3, <2>1, <2>2, <2>3, <2>4, Zenon DEF R!TypeOK
<1>5. R!MonotonicSeq /\ R!AppendedOnce
  BY <1>2, <1>3 DEF R!MonotonicSeq, R!AppendedOnce
<1>6. Counts
  BY <1>1, ClosedType, Zenon DEF R!Init, Counts
<1> QED
  BY <1>4, <1>5, <1>6, Zenon DEF Inv

LEMMA NextInv == ASSUME R!Bounds PROVE Inv /\ [R!Next]_(R!vars) => Inv'
<1>1. ASSUME Inv, R!Next PROVE Inv'
  BY <1>1, RecoverKeeps, AppendKeeps, OpenKeeps, Zenon DEF R!Next
<1>2. ASSUME Inv, UNCHANGED R!vars PROVE Inv'
  BY <1>2, Zenon DEF Inv, R!TypeOK, R!MonotonicSeq, Counts, R!AppendedOnce, R!vars
<1> QED
  BY <1>1, <1>2, Zenon

(* The records of a run are numbered exactly 1, 2, 3, ..., whichever         *)
(* processes wrote them, over failed writes, repairs, crashes and            *)
(* recoveries.                                                               *)
THEOREM RecordsNumberedInOrder == ASSUME R!Bounds PROVE R!Spec => []R!MonotonicSeq
<1>1. Inv => R!MonotonicSeq
  BY Zenon DEF Inv
<1>2. /\ R!Init => Inv
      /\ Inv /\ [R!Next]_(R!vars) => Inv'
  BY InitInv, NextInv
<1> QED
  BY <1>1, <1>2, PTL DEF R!Spec

(* An event appended with AppendIfAbsent is recorded at most once.           *)
THEOREM ConditionalAppendOnce == ASSUME R!Bounds PROVE R!Spec => []R!AppendedOnce
<1>1. Inv => R!AppendedOnce
  BY Zenon DEF Inv
<1>2. /\ R!Init => Inv
      /\ Inv /\ [R!Next]_(R!vars) => Inv'
  BY InitInv, NextInv
<1> QED
  BY <1>1, <1>2, PTL DEF R!Spec

(* The run directory and the handles keep their types, and a process that    *)
(* may write holds the run lock.                                             *)
THEOREM WritersHoldTheLock == ASSUME R!Bounds PROVE R!Spec => []R!TypeOK
<1>1. Inv => R!TypeOK
  BY Zenon DEF Inv
<1>2. /\ R!Init => Inv
      /\ Inv /\ [R!Next]_(R!vars) => Inv'
  BY InitInv, NextInv
<1> QED
  BY <1>1, <1>2, PTL DEF R!Spec

-----------------------------------------------------------------------------
(* What Recover hands out.                                                  *)

\* Recover compares state.json with the phase of the log as it is, not as it was:
\* nobody has appended since it read the log.
RecoveringPhase ==
    \A p \in Openers : handle[p].step = "recovering" => handle[p].phase = R!Phase(log)

\* Only Acquire begins to recover, and nobody writes while a process does.
LEMMA RecoveringAlone ==
    ASSUME Inv, NEW p \in Openers, NEW q \in Openers, handle'[q].step = "recovering",
           \/ R!BeginRecover(p) \/ R!LockTimeout(p) \/ R!FinishRecover(p) \/ R!RecoverFails(p)
           \/ \E kind \in R!Kinds : R!AppendEvent(p, kind)
           \/ R!Checkpoint(p) \/ R!RepairAppendBoundary(p) \/ R!SetMachineState(p)
           \/ R!Close(p) \/ R!Crash(p)
    PROVE  handle'[q] = handle[q] /\ log' = log
<1>1. /\ handle \in [Openers -> R!Handles]
      /\ \A o \in Openers : handle[o].step \in {"recovering", "open"} => lock = o
  BY Zenon DEF Inv, R!TypeOK
<1>2. PICK h : R!SetHandle(p, h)
  BY Zenon DEF R!BeginRecover, R!LockTimeout, R!FinishRecover, R!RecoverFails, R!AppendEvent, R!Commit, R!Checkpoint,
         R!RepairAppendBoundary, R!SetMachineState, R!Close, R!Crash, R!Leave
<1>3. handle'[p] = h /\ (q # p => handle'[q] = handle[q])
  BY <1>1, <1>2, Zenon DEF R!SetHandle
<1>4. h.step # "recovering"
  <2>1. handle[p] \in R!Handles
    BY <1>1, Zenon
  <2>2. CASE R!BeginRecover(p) \/ R!LockTimeout(p) \/ R!RecoverFails(p) \/ R!Close(p) \/ R!Crash(p)
    <3>1. h = R!Closed \/ h = [R!Closed EXCEPT !.step = "waiting"]
      BY <1>1, <1>3, <2>2, Zenon
         DEF R!BeginRecover, R!LockTimeout, R!RecoverFails, R!Close, R!Crash, R!Leave, R!SetHandle
    <3>2. [R!Closed EXCEPT !.step = "waiting"].step = "waiting"
      BY Zenon DEF R!Closed
    <3> QED
      BY <3>1, <3>2, ClosedType, Zenon
  <2>3. CASE R!FinishRecover(p)
    <3>1. R!Healed(p) \in R!Handles
      BY <2>1, HealedType, Zenon
    <3>2. \A m \in R!Handles : [m EXCEPT !.step = "open", !.mark = FALSE].step = "open"
      BY Zenon DEF R!Handles
    <3>3. [R!Healed(p) EXCEPT !.seq = @ + 1] \in R!Handles
      BY <3>1, Numbered, Zenon
    <3>4. h.step = "open" \/ h = R!Closed
      BY <1>1, <1>3, <2>3, <3>1, <3>2, <3>3, Zenon DEF R!FinishRecover, R!Leave, R!SetHandle
    <3> QED
      BY <3>4, ClosedType, Zenon
  <2>4. ASSUME NEW kind \in R!Kinds, R!AppendEvent(p, kind) PROVE h.step # "recovering"
    <3> DEFINE n == [handle[p] EXCEPT !.seq = @ + 1]
    <3>1. n \in R!Handles /\ n.step = "open"
      BY <2>1, <2>4, Numbered, Zenon DEF R!AppendEvent, R!Ready
    <3>2. R!Lived(n, kind) \in R!Handles /\ R!Lived(n, kind).step = "open"
      BY <3>1, LivedType, Zenon
    <3>3. h = [R!Lived(n, kind) EXCEPT !.pending = kind] \/ h = [n EXCEPT !.failed = kind]
      BY <1>1, <1>3, <2>4, Zenon DEF R!AppendEvent, R!Commit, R!SetHandle
    <3> HIDE DEF n
    <3> QED
      BY <3>1, <3>2, <3>3, Zenon DEF R!Handles
  <2>5. CASE R!Checkpoint(p) \/ R!RepairAppendBoundary(p) \/ R!SetMachineState(p)
    <3>1. handle[p].step = "open"
      BY <2>5, Zenon DEF R!Checkpoint, R!RepairAppendBoundary, R!SetMachineState, R!Ready
    <3>2. PICK n \in Nat :
             \/ h = [handle[p] EXCEPT !.pending = ""] \/ h = [handle[p] EXCEPT !.node = "next"]
             \/ h = [handle[p] EXCEPT !.failed = "", !.seq = n]
             \/ h = [[handle[p] EXCEPT !.failed = "", !.seq = n] EXCEPT !.failed = "other"]
      <4>1. R!Highest(log) \in Nat /\ R!Highest(log) + 1 \in Nat
        BY HighestIsLen, LenNat, Succ, Zenon DEF Inv
      <4>2. CASE R!Checkpoint(p)
        BY <1>1, <1>3, <4>2, Zenon DEF R!Checkpoint, R!SetHandle
      <4>3. CASE R!RepairAppendBoundary(p)
        BY <1>1, <1>3, <4>1, <4>3, Zenon DEF R!RepairAppendBoundary, R!SetHandle
      <4>4. CASE R!SetMachineState(p)
        BY <1>1, <1>3, <4>4, Zenon DEF R!SetMachineState, R!SetHandle
      <4> QED
        BY <2>5, <4>2, <4>3, <4>4, Zenon
    <3> QED
      BY <2>1, <3>1, <3>2, Zenon DEF R!Handles
  <2> QED
    BY <2>2, <2>3, <2>4, <2>5, Zenon
<1>5. q # p /\ handle'[q] = handle[q]
  BY <1>3, <1>4, Zenon
<1>6. lock = q
  BY <1>1, <1>5, Zenon
<1>7. log' = log \/ handle[p].step \in {"recovering", "open"}
  BY Zenon DEF R!BeginRecover, R!LockTimeout, R!FinishRecover, R!RecoverFails, R!AppendEvent, R!Ready, R!Checkpoint,
         R!RepairAppendBoundary, R!SetMachineState, R!Close, R!Crash
<1> QED
  BY <1>1, <1>5, <1>6, <1>7, Zenon

LEMMA RecoveringStep == Inv /\ RecoveringPhase /\ [R!Next]_(R!vars) => RecoveringPhase'
<1> SUFFICES ASSUME Inv, RecoveringPhase, [R!Next]_(R!vars),
                    NEW q \in Openers, handle'[q].step = "recovering"
             PROVE  handle'[q].phase = R!Phase(log')
  BY Zenon DEF RecoveringPhase
<1>1. handle \in [Openers -> R!Handles]
  BY Zenon DEF Inv, R!TypeOK
<1>2. ASSUME NEW p \in Openers, R!Acquire(p) PROVE handle'[q].phase = R!Phase(log')
  <2>1. log' = log /\ (q # p => handle'[q] = handle[q])
    BY <1>1, <1>2, Zenon DEF R!Acquire, R!SetHandle
  <2>2. handle'[p].phase = R!Phase(log)
    <3>1. handle[p] \in R!Handles
      BY <1>1, Zenon
    <3> QED
      BY <1>1, <1>2, <3>1, Zenon DEF R!Acquire, R!SetHandle, R!Handles
  <2> QED
    BY <2>1, <2>2, Zenon DEF RecoveringPhase
<1>3. ASSUME handle'[q] = handle[q] /\ log' = log PROVE handle'[q].phase = R!Phase(log')
  BY <1>3, Zenon DEF RecoveringPhase
<1> QED
  BY <1>2, <1>3, RecoveringAlone, Zenon DEF R!Next, R!vars

(* The last record of some kinds, when there is one, is a record of the log. *)
LEMMA LastIsRecord ==
    ASSUME NEW events \in Seq(R!Entries), NEW kinds
    PROVE  R!LastOf(events, kinds) = 0 \/ R!LastOf(events, kinds) \in DOMAIN events
<1> DEFINE S == {0} \cup {i \in DOMAIN events : events[i].kind \in kinds}
           T == {Len(events) - i : i \in S}
<1>1. Len(events) \in Nat /\ DOMAIN events = 1 .. Len(events)
  OBVIOUS
<1>2. S \subseteq 0 .. Len(events) /\ 0 \in S
  BY <1>1
<1> HIDE DEF S
<1>3. T \in SUBSET Nat /\ T # {}
  BY <1>1, <1>2
<1>4. PICK x \in T : \A y \in T : ~ (<<y, x>> \in OpToRel(<, Nat))
  BY <1>3, NatLessThanWellFounded, WFMin, Zenon
<1>5. \A y \in T : ~ (y < x)
  BY <1>3, <1>4, Zenon DEF OpToRel
<1>6. PICK m \in S : x = Len(events) - m
  OBVIOUS
<1>7. \A i \in S : m >= i
  <2> SUFFICES ASSUME NEW i \in S PROVE m >= i
    OBVIOUS
  <2>1. ~ (Len(events) - i < Len(events) - m)
    BY <1>5, <1>6, Zenon
  <2>2. i \in Nat /\ m \in Nat
    BY <1>1, <1>2
  <2> HIDE DEF T
  <2> QED
    BY <1>1, <2>1, <2>2
<1>8. R!Max(S) \in S
  BY <1>7, Zenon DEF R!Max
<1> QED
  BY <1>8, Zenon DEF R!LastOf, S

(* A repair marker is no lifecycle record.                                   *)
LEMMA MarkerKeepsPhase ==
    ASSUME R!TypeOK, NEW seq \in Nat, log' = Append(log, R!Record(seq, "repaired"))
    PROVE  R!Phase(log') = R!Phase(log)
<1> DEFINE kinds == {"finished", "resumed", "rerun", "aborting"}
<1>1. log \in Seq(R!Entries) /\ R!Record(seq, "repaired") \in R!Entries
  BY Zenon DEF R!TypeOK, R!Record, R!Entries
<1>2. /\ DOMAIN log = 1 .. Len(log) /\ DOMAIN log' = 1 .. (Len(log) + 1) /\ Len(log) \in Nat
      /\ \A i \in DOMAIN log : log'[i] = log[i]
      /\ log'[Len(log) + 1] = R!Record(seq, "repaired")
  BY <1>1
<1>3. {i \in DOMAIN log' : log'[i].kind \in kinds} = {i \in DOMAIN log : log[i].kind \in kinds}
  BY <1>2 DEF R!Record
<1>4. R!LastOf(log', kinds) = R!LastOf(log, kinds)
  BY <1>3, Zenon DEF R!LastOf
<1>5. R!LastOf(log, kinds) = 0 \/ R!LastOf(log, kinds) \in DOMAIN log
  BY <1>1, LastIsRecord, Zenon
<1> QED
  BY <1>2, <1>4, <1>5, Zenon DEF R!Phase

(* A Run that Recover hands out agrees with state.json about an ended run,   *)
(* and about a resume that the checkpoint had not passed (Recover, run.go),  *)
(* whatever was torn, marked or interrupted before.                          *)
THEOREM RecoveredRunsAgree == ASSUME R!Bounds PROVE R!Spec => R!RecoverHeals
<1> DEFINE Agree(p) ==
      (handle[p].step = "recovering" /\ handle'[p].step = "open") =>
         /\ R!Phase(log') # "running" => state'.phase = R!Phase(log') /\ state'.node = ""
         /\ (R!LatestActiveResume(log) # 0 /\ state.lastSeq <= log[R!LatestActiveResume(log)].seq)
              => (R!Phase(log') = "running" => state'.phase = "running")
<1>1. R!Init => RecoveringPhase
  BY ClosedType, Zenon DEF R!Init, RecoveringPhase
<1>2. Inv /\ RecoveringPhase /\ [R!Next]_(R!vars) => [\A p \in Openers : Agree(p)]_(R!vars)
  <2> SUFFICES ASSUME Inv, RecoveringPhase, R!Next, NEW q \in Openers,
                      handle[q].step = "recovering", handle'[q].step = "open"
               PROVE  Agree(q)
    BY Zenon DEF R!vars
  <2>1. /\ handle \in [Openers -> R!Handles] /\ handle[q].phase = R!Phase(log) /\ R!TypeOK
        /\ handle[q] \in R!Handles /\ handle[q].seq = Len(log) /\ Len(log) \in Nat
    BY LenNat, Zenon DEF Inv, R!TypeOK, RecoveringPhase, Counts
  <2>2. R!FinishRecover(q)
    <3>1. PICK p \in Openers :
             \/ R!BeginRecover(p) \/ R!LockTimeout(p) \/ R!Acquire(p) \/ R!FinishRecover(p)
             \/ R!RecoverFails(p) \/ \E kind \in R!Kinds : R!AppendEvent(p, kind)
             \/ R!Checkpoint(p) \/ R!RepairAppendBoundary(p) \/ R!SetMachineState(p)
             \/ R!Close(p) \/ R!Crash(p)
      BY Zenon DEF R!Next
    <3>2. PICK h : R!SetHandle(p, h)
      BY <3>1, Zenon DEF R!BeginRecover, R!LockTimeout, R!Acquire, R!FinishRecover, R!RecoverFails, R!AppendEvent,
             R!Commit, R!Checkpoint, R!RepairAppendBoundary, R!SetMachineState, R!Close, R!Crash, R!Leave
    <3>3. p = q
      BY <2>1, <3>2, Zenon DEF R!SetHandle
    <3>4. handle'[q].step = "closed" \/ R!FinishRecover(q)
      BY <2>1, <3>1, <3>3, ClosedType, Zenon
         DEF R!BeginRecover, R!LockTimeout, R!Acquire, R!RecoverFails, R!AppendEvent, R!Checkpoint,
             R!RepairAppendBoundary, R!SetMachineState, R!Close, R!Crash, R!Ready, R!Leave, R!SetHandle, R!Closed
    <3> QED
      BY <3>4, Zenon
  <2> DEFINE h == R!Healed(q)
             marked == IF h.mark THEN [h EXCEPT !.seq = @ + 1] ELSE h
             opened == [marked EXCEPT !.step = "open", !.mark = FALSE]
  <2>3. /\ h \in R!Handles /\ h.phase = R!Phase(log) /\ h.seq = Len(log)
        /\ h.phase # "running" => h.node = ""
    BY <2>1, HealedType, Zenon DEF R!Healed, R!Handles
  <2> HIDE DEF h
  <2>4. opened.phase = h.phase /\ opened.node = h.node
    BY <2>3, Zenon DEF R!Handles
  <2> HIDE DEF opened
  <2>5. /\ state' = IF R!NeedsCheckpoint(q) THEN R!State(opened) ELSE state
        /\ log' = IF h.mark THEN Append(log, R!Record(h.seq + 1, "repaired")) ELSE log
    BY <2>1, <2>2, ClosedType, Zenon DEF R!FinishRecover, R!Leave, R!SetHandle, h, opened
  <2>6. R!Phase(log') = R!Phase(log)
    <3>1. h.seq + 1 \in Nat
      BY <2>1, <2>3, Succ, Zenon
    <3>2. CASE h.mark
      BY <2>1, <2>5, <3>1, <3>2, MarkerKeepsPhase, Zenon
    <3>3. CASE ~h.mark
      BY <2>5, <3>3, Zenon
    <3> QED
      BY <3>2, <3>3, Zenon
  <2>7. R!NeedsCheckpoint(q) => state'.phase = h.phase /\ state'.node = h.node
    BY <2>4, <2>5, Zenon DEF R!State
  <2> QED
    BY <2>1, <2>3, <2>5, <2>6, <2>7, Zenon DEF R!NeedsCheckpoint, R!ResumeAhead
<1>3. /\ R!Init => Inv
      /\ Inv /\ [R!Next]_(R!vars) => Inv'
  BY InitInv, NextInv
<1> QED
  BY <1>1, <1>2, <1>3, RecoveringStep, PTL DEF R!Spec, R!RecoverHeals

=============================================================================
