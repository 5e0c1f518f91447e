------------------------------ MODULE StartQueue ------------------------------
(***************************************************************************)
(* The durable queue of accepted starts and the daemon that drains it      *)
(* (internal/triggerqueue, internal/startintent, the planes'               *)
(* DurableTriggerService) beside the starter goroutines it launches and    *)
(* the retention pass that prunes finished journals.                       *)
(*                                                                         *)
(* A start is one row.  Its acceptance ID fixes the ID of its run, so the  *)
(* run's journal directory is the evidence that it was launched.  Rows     *)
(* survive a crash; the drainer, the launches and the set of rows that     *)
(* were uncertain at boot do not.  Rows are numbered in the order of       *)
(* acceptance, which is the order in which a sweep inspects them.          *)
(***************************************************************************)
EXTENDS Integers, FiniteSets, FiniteSetsExt

CONSTANTS Starts,      \* how many starts are accepted
          PageSize,    \* uncertain rows reconciled per sweep (100)
          Batch,       \* pending rows inspected per sweep (100)
          MaxCrashes, MaxFaults

ASSUME StartQueueAssumption ==
    /\ {Starts, PageSize, Batch} \subseteq Nat \ {0}
    /\ {MaxCrashes, MaxFaults} \subseteq Nat

Start == 1 .. Starts
Nobody == 0
Unfinished == {"accepted", "dispatching"}
Finished == {"dispatched", "rejected"}

VARIABLES
    row,       \* triggers.state, "absent" before the acceptance
    recorded,  \* rows whose run_id is set
    expired,   \* rows whose admission deadline has passed
    dir,       \* the run's journal directory
    created,   \* how often the journal was published
    starting,  \* launches that have not published yet
    boot,      \* bootUncertain
    failed,    \* launches and queue writes that failed in this process
    position,  \* pending_start_sweep: the last row inspected
    after,     \* reconcileCursor
    work,      \* the drainer
    pruning,   \* the run a retention pass may delete
    crashes, faults

vars == <<row, recorded, expired, dir, created, starting, boot, failed, position,
          after, work, pruning, crashes, faults>>

Steps == {"idle", "reconcile", "observed", "pending", "claim", "launch", "settle"}
Outcomes == {"none", "retry", "requeue", "record"} \cup Finished

\* Every variable has its type.
TypeOK ==
    /\ row \in [Start -> {"absent"} \cup Unfinished \cup Finished]
    /\ recorded \subseteq Start /\ expired \subseteq Start
    /\ dir \in [Start -> {"none", "live", "done", "staged", "removed"}]
    /\ created \in [Start -> Nat]
    /\ starting \subseteq Start /\ boot \subseteq Start /\ failed \subseteq Start
    /\ position \in Start \cup {Nobody} /\ after \in Start \cup {Nobody}
    /\ work \in [pc : Steps, on : Start \cup {Nobody}, plan : Outcomes,
                 page : SUBSET Start, seen : SUBSET Start]
    /\ pruning \in Start \cup {Nobody}
    /\ crashes \in 0 .. MaxCrashes /\ faults \in 0 .. MaxFaults

Idle == [pc |-> "idle", on |-> Nobody, plan |-> "none", page |-> {}, seen |-> {}]

-----------------------------------------------------------------------------
(* The store: every transition names the state it leaves. *)

BeginDispatch(k) ==
    row' = IF row[k] = "accepted" THEN [row EXCEPT ![k] = "dispatching"] ELSE row

Finish(k, state) ==
    row' = IF row[k] = "dispatching" THEN [row EXCEPT ![k] = state] ELSE row

\* RetryUnstarted and Requeue.
BackToAccepted(k) ==
    /\ row' = IF row[k] = "dispatching" THEN [row EXCEPT ![k] = "accepted"] ELSE row
    /\ recorded' = IF row[k] = "dispatching" THEN recorded \ {k} ELSE recorded

\* acceptedTriggerJournalDir looks among published and staged journals.
Journal(k) == dir[k] \in {"live", "done", "staged"}

\* Mutant: every sweep starts at the oldest accepted row.
NextPendingOldest ==
    LET accepted == {k \in Start : row[k] = "accepted"}
    IN  IF accepted = {} THEN Nobody ELSE Min(accepted)

\* PendingSweep: the next accepted row after the last one, wrapping around.
NextPending ==
    LET accepted == {k \in Start : row[k] = "accepted"}
        rest == {k \in accepted : k > position}
    IN  IF rest # {} THEN Min(rest)
        ELSE IF accepted # {} THEN Min(accepted) ELSE Nobody

\* Uncertain: the first PageSize dispatching rows after the cursor.
Uncertain ==
    {k \in Start : /\ row[k] = "dispatching" /\ k > after
                   /\ Cardinality({j \in Start : row[j] = "dispatching" /\ after < j /\ j < k})
                        < PageSize}

-----------------------------------------------------------------------------
(* Acceptance. *)

Accept(k) ==
    /\ row[k] = "absent" /\ \A j \in Start : j < k => row[j] # "absent"
    /\ row' = [row EXCEPT ![k] = "accepted"]
    /\ UNCHANGED <<recorded, expired, dir, created, starting, boot, failed, position,
                   after, work, pruning, crashes, faults>>

\* The pinned admission deadline passes.
Expire(k) ==
    /\ row[k] \in Unfinished /\ k \notin expired
    /\ expired' = expired \cup {k}
    /\ UNCHANGED <<row, recorded, dir, created, starting, boot, failed, position,
                   after, work, pruning, crashes, faults>>

-----------------------------------------------------------------------------
(* Drain: ReconcileObserved, then drainPending. *)

BeginSweep ==
    /\ work.pc = "idle"
    /\ after' = IF Uncertain = {} THEN Nobody ELSE after
    /\ work' = IF Uncertain = {} THEN [Idle EXCEPT !.pc = "pending"]
               ELSE [Idle EXCEPT !.pc = "reconcile", !.page = Uncertain]
    /\ UNCHANGED <<row, recorded, expired, dir, created, starting, boot, failed,
                   position, pruning, crashes, faults>>

NextUncertain(page) ==
    IF page = {} THEN [Idle EXCEPT !.pc = "pending"]
    ELSE [Idle EXCEPT !.pc = "reconcile", !.page = page]

\* What ReconcileObservation decides: absence is proof only of a row that was
\* already uncertain when this process started.
Verdict(k) ==
    IF Journal(k) THEN "dispatched" ELSE IF k \in boot THEN "retry" ELSE "none"

\* The observer reads the journal directory.  An unreadable one is an error and
\* leaves the row alone.
ReconcileObserve ==
    /\ work.pc = "reconcile"
    /\ LET k == Min(work.page) IN
        /\ after' = k
        /\ \/ work' = [work EXCEPT !.pc = "observed", !.on = k, !.plan = Verdict(k)]
              /\ UNCHANGED faults
           \/ /\ faults < MaxFaults /\ faults' = faults + 1
              /\ work' = NextUncertain(work.page \ {k})
    /\ UNCHANGED <<row, recorded, expired, dir, created, starting, boot, failed,
                   position, pruning, crashes>>

\* A row that left its state meanwhile is settled as well; a failed write keeps
\* it in boot for a later sweep.
ReconcileObservation ==
    /\ work.pc = "observed"
    /\ work' = NextUncertain(work.page \ {work.on})
    /\ LET k == work.on IN
        \/ /\ \/ work.plan = "dispatched" /\ Finish(k, "dispatched")
                 /\ recorded' = IF row[k] = "dispatching" THEN recorded \cup {k} ELSE recorded
              \/ work.plan = "retry" /\ BackToAccepted(k)
           /\ boot' = boot \ {k}
           /\ UNCHANGED faults
        \/ /\ work.plan = "none"
           /\ UNCHANGED <<row, recorded, boot, faults>>
        \/ /\ work.plan # "none" /\ faults < MaxFaults /\ faults' = faults + 1
           /\ UNCHANGED <<row, recorded, boot>>
    /\ UNCHANGED <<expired, dir, created, starting, failed, position, after, pruning,
                   crashes>>

ToNextPending(seen) == [Idle EXCEPT !.pc = "pending", !.seen = seen]

\* PendingSweep(1), and what drainOrdinary and Dispatch find out before they claim
\* the row: lost authority or a passed deadline reject it, a journal wins over the
\* clock, a failed audit, build or observation leaves it.
InspectPending ==
    /\ work.pc = "pending"
    /\ IF NextPending = Nobody \/ NextPending \in work.seen \/ Cardinality(work.seen) = Batch
       THEN /\ work' = Idle
            /\ position' = IF NextPending = Nobody THEN Nobody ELSE
                           IF Cardinality(work.seen) = Batch THEN position ELSE NextPending
            /\ UNCHANGED faults
       ELSE LET k == NextPending
                go(plan) == [pc |-> "claim", on |-> k, plan |-> plan, page |-> {},
                             seen |-> work.seen \cup {k}]
            IN  /\ position' = k
                /\ \/ work' = go("rejected") /\ UNCHANGED faults
                   \/ /\ work' = go(IF Journal(k) THEN "dispatched"
                                    ELSE IF k \in expired THEN "rejected" ELSE "none")
                      /\ UNCHANGED faults
                   \/ /\ faults < MaxFaults /\ faults' = faults + 1
                      /\ work' = ToNextPending(work.seen \cup {k})
    /\ UNCHANGED <<row, recorded, expired, dir, created, starting, boot, failed, after,
                   pruning, crashes>>

Claim ==
    /\ work.pc = "claim"
    /\ BeginDispatch(work.on)
    /\ work' = IF row[work.on] # "accepted" THEN ToNextPending(work.seen)
               ELSE [work EXCEPT !.pc = IF work.plan = "none" THEN "launch" ELSE "settle"]
    /\ UNCHANGED <<recorded, expired, dir, created, starting, boot, failed, position,
                   after, pruning, crashes, faults>>

\* TriggerPreparedOrdinary: the scheduler refuses the start for now, refuses it for
\* good, or launches its run.
Launch ==
    /\ work.pc = "launch"
    /\ \/ /\ starting' = starting \cup {work.on}
          /\ work' = [work EXCEPT !.pc = "settle", !.plan = "record"]
       \/ /\ work' \in {[work EXCEPT !.pc = "settle", !.plan = "requeue"],
                        [work EXCEPT !.pc = "settle", !.plan = "rejected"]}
          /\ UNCHANGED starting
    /\ UNCHANGED <<row, recorded, expired, dir, created, boot, failed, position, after,
                   pruning, crashes, faults>>

\* RecordDispatch, Requeue or Finish; the write may fail.
Settle ==
    /\ work.pc = "settle"
    /\ work' = ToNextPending(work.seen)
    /\ LET k == work.on IN
        \/ /\ work.plan \in Finished /\ Finish(k, work.plan)
           /\ recorded' = IF work.plan = "dispatched" THEN recorded \cup {k} ELSE recorded
           /\ UNCHANGED <<failed, faults>>
        \/ /\ work.plan = "requeue" /\ BackToAccepted(k)
           /\ UNCHANGED <<failed, faults>>
        \/ /\ work.plan = "record"
           /\ recorded' = IF row[k] = "dispatching" THEN recorded \cup {k} ELSE recorded
           /\ UNCHANGED <<row, failed, faults>>
        \/ /\ faults < MaxFaults /\ faults' = faults + 1
           /\ failed' = IF work.plan = "record" THEN failed ELSE failed \cup {k}
           /\ UNCHANGED <<row, recorded>>
    /\ UNCHANGED <<expired, dir, created, starting, boot, position, after, pruning,
                   crashes>>

Drainer ==
    \/ BeginSweep \/ ReconcileObserve \/ ReconcileObservation
    \/ InspectPending \/ Claim \/ Launch \/ Settle

-----------------------------------------------------------------------------
(* Launched runs. *)

\* The starter publishes the journal before it executes anything; an existing
\* directory refuses it.
Publish(k) ==
    /\ k \in starting
    /\ starting' = starting \ {k}
    /\ IF Journal(k) THEN UNCHANGED <<dir, created>>
       ELSE /\ dir' = [dir EXCEPT ![k] = "live"]
            /\ created' = [created EXCEPT ![k] = @ + 1]
    /\ UNCHANGED <<row, recorded, expired, boot, failed, position, after, work,
                   pruning, crashes, faults>>

StartFails(k) ==
    /\ k \in starting
    /\ starting' = starting \ {k}
    /\ failed' = failed \cup {k}
    /\ UNCHANGED <<row, recorded, expired, dir, created, boot, position, after, work,
                   pruning, crashes, faults>>

EndRun(k) ==
    /\ dir[k] = "live"
    /\ dir' = [dir EXCEPT ![k] = "done"]
    /\ UNCHANGED <<row, recorded, expired, created, starting, boot, failed, position,
                   after, work, pruning, crashes, faults>>

-----------------------------------------------------------------------------
(* Retention, in a process of its own. *)

\* Mutant: the journal goes without a receipt.
AcknowledgeNothing(k) ==
    /\ pruning = Nobody /\ dir[k] \in {"done", "staged"}
    /\ pruning' = k
    /\ UNCHANGED <<row, recorded, expired, dir, created, starting, boot, failed,
                   position, after, work, crashes, faults>>

\* acknowledgeTriggerBeforePrune: the row gets its receipt, or the journal stays.
AcknowledgeBeforePrune(k) ==
    /\ pruning = Nobody /\ dir[k] \in {"done", "staged"}
    /\ row[k] \in {"dispatching", "dispatched"}
    /\ pruning' = k
    /\ row' = [row EXCEPT ![k] = "dispatched"]
    /\ recorded' = recorded \cup {k}
    /\ UNCHANGED <<expired, dir, created, starting, boot, failed, position, after, work,
                   crashes, faults>>

\* pruneOne stages the directory, then removes it; finishInterruptedPrunes removes
\* what an earlier pass staged.
Prune ==
    /\ pruning # Nobody
    /\ IF dir[pruning] = "done"
       THEN dir' = [dir EXCEPT ![pruning] = "staged"] /\ UNCHANGED pruning
       ELSE dir' = [dir EXCEPT ![pruning] = "removed"] /\ pruning' = Nobody
    /\ UNCHANGED <<row, recorded, expired, created, starting, boot, failed, position,
                   after, work, crashes, faults>>

PruneInterrupted ==
    /\ pruning # Nobody /\ crashes < MaxCrashes
    /\ pruning' = Nobody /\ crashes' = crashes + 1
    /\ UNCHANGED <<row, recorded, expired, dir, created, starting, boot, failed,
                   position, after, work, faults>>

\* A failed step of pruneOne: the journal is put back or, when that fails too,
\* stays staged.
PruneFails ==
    /\ pruning # Nobody /\ faults < MaxFaults
    /\ faults' = faults + 1 /\ pruning' = Nobody
    /\ \E back \in {dir[pruning], "done"} : dir' = [dir EXCEPT ![pruning] = back]
    /\ UNCHANGED <<row, recorded, expired, created, starting, boot, failed, position,
                   after, work, crashes>>

-----------------------------------------------------------------------------
(* Crash and restart: NewDurableTriggerServiceWithQueue captures the uncertain rows
   before the first sweep.  The drainer's cursors die, the sweep position does not. *)

\* Mutant: nothing is captured.
RestartForgetful ==
    /\ crashes < MaxCrashes
    /\ crashes' = crashes + 1
    /\ boot' = {}
    /\ starting' = {} /\ failed' = {} /\ after' = Nobody /\ work' = Idle
    /\ UNCHANGED <<row, recorded, expired, dir, created, position, pruning, faults>>

Restart ==
    /\ crashes < MaxCrashes
    /\ crashes' = crashes + 1
    /\ boot' = {k \in Start : row[k] = "dispatching"}
    /\ starting' = {} /\ failed' = {} /\ after' = Nobody /\ work' = Idle
    /\ UNCHANGED <<row, recorded, expired, dir, created, position, pruning, faults>>

Init ==
    /\ row = [k \in Start |-> "absent"]
    /\ recorded = {} /\ expired = {}
    /\ dir = [k \in Start |-> "none"] /\ created = [k \in Start |-> 0]
    /\ starting = {} /\ boot = {} /\ failed = {}
    /\ position = Nobody /\ after = Nobody /\ work = Idle
    /\ pruning = Nobody /\ crashes = 0 /\ faults = 0

Next ==
    \/ Drainer \/ Prune \/ PruneInterrupted \/ PruneFails \/ Restart
    \/ \E k \in Start : \/ Accept(k) \/ Expire(k) \/ Publish(k) \/ StartFails(k)
                        \/ EndRun(k) \/ AcknowledgeBeforePrune(k)

Spec == Init /\ [][Next]_vars

\* The daemon sweeps on a ticker and a launched starter returns.
SweepSpec == Spec /\ WF_vars(Drainer)
                  /\ \A k \in Start : WF_vars(Publish(k) \/ StartFails(k))

-----------------------------------------------------------------------------
(* Properties. *)

\* An accepted start runs at most once, whatever crashes between the launch, the
\* journal, the receipt and the removal of the journal (startintent Dispatch,
\* planes ReconcileObservation, triggerretention.go).
RunsOnce == \A k \in Start : created[k] <= 1

\* A row that waits for its launch, and a row that was rejected, has no run: not
\* behind a clock that passed, an authority that was lost, or a refused dispatch.
\* startintent/service.go, "A deadline can reject only an unlaunched request".
WaitingNeverRan ==
    \A k \in Start : row[k] \in {"accepted", "rejected"} => created[k] = 0 /\ k \notin starting

\* A receipt is never wrong, and the proof of a run outlives the doubt about it: a
\* dispatched row had a run, and only a dispatched row's journal is gone.
ReceiptIsProof ==
    \A k \in Start : /\ row[k] = "dispatched" => created[k] > 0
                     /\ dir[k] = "removed" => row[k] = "dispatched"

\* The queue's rows and the run journals tell one story: a start runs at most once,
\* never while its row waits or after it was rejected, and receipts are proofs.
RowMatchesJournal == RunsOnce /\ WaitingNeverRan /\ ReceiptIsProof

\* Every accepted row is inspected again and again until it is settled, however many
\* rows before it the scheduler keeps refusing (pending_sweep.go, "cannot be pinned
\* by a held prefix").
Inspected == \A k \in Start : (row[k] = "accepted") ~> (work.on = k \/ row[k] # "accepted")

\* A row whose deadline has passed ends dispatched or rejected, and a row that was
\* claimed leaves "dispatching", whatever crashed after the claim; unless its launch
\* or its last queue write failed in this process: such a row waits for the next
\* start of the daemon, which resolves it.
Settled ==
    \A k \in Start :
        /\ (row[k] \in Unfinished /\ k \in expired) ~> (row[k] \in Finished \/ k \in failed)
        /\ (row[k] = "dispatching") ~> (row[k] # "dispatching" \/ k \in failed)

-----------------------------------------------------------------------------
(* What makes RowMatchesJournal inductive. *)

\* The start was never launched, and no launch of it is under way.
Unlaunched(k) == dir[k] = "none" /\ k \notin starting

\* Rows and journals: a launch under way belongs to a claimed row that was not in
\* doubt at boot, and no doubt of boot is about a row that waits again.
RowSound(k) ==
    /\ created[k] = IF dir[k] = "none" THEN 0 ELSE 1
    /\ row[k] \in {"absent", "accepted", "rejected"} => Unlaunched(k) /\ k \notin boot
    /\ k \in starting => dir[k] = "none" /\ k \notin boot
    /\ row[k] = "dispatched" => dir[k] # "none"
    /\ dir[k] = "removed" => row[k] = "dispatched"

\* What the drainer found out about its row still holds when it writes.
WorkSound ==
    /\ work.pc = "reconcile" => work.page # {}
    /\ work.pc \in {"observed", "claim", "launch", "settle"} => work.on \in Start
    /\ work.pc \in {"observed", "claim", "settle"} /\ work.plan = "dispatched"
          => dir[work.on] # "none"
    /\ work.pc = "observed" /\ work.plan = "retry"
          => work.on \in boot /\ dir[work.on] \in {"none", "removed"}
    /\ work.pc = "launch" \/ (work.pc = "settle" /\ work.plan \in {"rejected", "requeue"})
          => /\ row[work.on] = "dispatching"
             /\ Unlaunched(work.on) /\ work.on \notin boot

\* Only a journal whose row has its receipt is being removed.
PruneSound ==
    pruning # Nobody => row[pruning] = "dispatched" /\ dir[pruning] \in {"done", "staged"}

\* The inductive invariant of the start queue.
QueueInv == TypeOK /\ (\A k \in Start : RowSound(k)) /\ WorkSound /\ PruneSound
=============================================================================
