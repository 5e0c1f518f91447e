---------------------------- MODULE ParallelBlock ----------------------------
(***************************************************************************)
(* One visit of a parallel block of the local runner, whose branches may   *)
(* wait for child runs.                                                    *)
(*                                                                         *)
(* The root goroutine (internal/runner/parallel_dispatch.go) launches the  *)
(* branches in order, one worker each, accepts their results and applies   *)
(* the failure policy.  A worker owns one of the block's execution lanes   *)
(* while it can run stages (parallel_slots.go); a durable child wait gives *)
(* the lane back.  A coordinator (child_parallel_capacity.go) counts the   *)
(* branches that can still run: when every unfinished branch waits for a   *)
(* child, the whole run gives its scheduler slot back, so that the         *)
(* children can be admitted at all.  A crash or a shutdown loses the       *)
(* workers, lanes and coordinator, which are rebuilt from the journal.     *)
(*                                                                         *)
(* The stages are abstracted to what a worker may meet at the end of one;  *)
(* gates are stages; a branch waits for at most one child.                 *)
(***************************************************************************)
EXTENDS Integers, FiniteSets, FiniteSetsExt

CONSTANTS Branches,      \* the block declares branches 1 .. Branches
          Lanes,         \* maxConcurrentBranches
          Slots,         \* the instance's run slots (maxParallel)
          Stages,        \* stages of a branch
          Blocks,        \* the blocks considered: [policy, wait, fail, end, faults]
          MaxCrashes     \* bound on crashes and shutdowns

Branch == 1 .. Branches

ASSUME ParallelBlockAssumption ==
    /\ Branches \in Nat \ {0} /\ Lanes \in 1 .. Branches /\ Slots \in Nat \ {0}
    /\ Stages \in Nat \ {0} /\ MaxCrashes \in Nat
    /\ Blocks \subseteq [policy : {"fail_fast", "all_or_nothing", "continue_on_error"},
                         wait : SUBSET Branch, fail : SUBSET Branch, end : SUBSET Branch,
                         faults : Nat]

VARIABLES
    block,     \* the declared block, which no step changes
    started,   \* journal: branches with a branch.started event
    waiting,   \* journal: branches with a child wait that has no continuation
    status,    \* journal: the branch.finished status of each branch, or "open"
    ended,     \* journal: branches whose history ends at a reserved target
    left,      \* journal: the stages each branch has still to run
    child,     \* the child run of each branch: none, queued, running, done
    outcome,   \* what the visit came to: running, paused, finished, failed
    worker,    \* where the worker of each branch is
    result,    \* what a returned worker reports
    restored,  \* branches whose worker re-entered a wait found in the journal
    lane,      \* the branches that hold an execution lane
    capacity,  \* the coordinator's state of each branch
    broken,    \* the coordinator stopped after an uncertain publication
    holds,     \* the run holds its scheduler slot
    claim,     \* the run has a claim on the next slot that frees
    dispatch,  \* the dispatcher's own state
    cause,     \* why the branch context was cancelled
    stopping,  \* the process was asked to shut down
    crashes, faults

journal == <<started, waiting, status, ended, left>>
memory  == <<worker, result, restored, lane, capacity, broken, dispatch, cause, stopping>>
counts  == <<crashes, faults, block>>
vars    == <<journal, child, outcome, memory, holds, claim, counts>>

Policy == block.policy      \* the declared failure policy
MayWait == block.wait       \* the branches with a child-workflow stage
MayFail == block.fail       \* the branches a stage of which may fail
MayTerminate == block.end   \* the branches that may route to @abort / @escalate

Open == {b \in Branch : status[b] = "open"}

\* ChildWaitProjection.Parked: every declared unfinished branch waits.
Parked == waiting # {} /\ Open \subseteq waiting

\* Every variable has its type.
TypeOK ==
    /\ block \in Blocks
    /\ started \subseteq Branch /\ waiting \subseteq Branch /\ ended \subseteq Branch
    /\ status \in [Branch -> {"open", "succeeded", "failed", "cancelled"}]
    /\ left \in [Branch -> 0 .. Stages]
    /\ child \in [Branch -> {"none", "queued", "running", "done"}]
    /\ outcome \in {"running", "paused", "finished", "failed"}
    /\ worker \in [Branch -> {"none", "boundary", "stage", "yield", "parked",
                              "lane", "returned"}]
    /\ result \in [Branch -> {"none", "succeeded", "failed", "terminal",
                              "cancelled", "paused", "error"}]
    /\ restored \subseteq Branch /\ lane \subseteq Branch
    /\ capacity \in [Branch -> {"runnable", "parked", "finished"}]
    /\ broken \in BOOLEAN /\ holds \in BOOLEAN /\ claim \in BOOLEAN
    /\ dispatch \in [queue: SUBSET Branch, failFast: BOOLEAN, terminal: BOOLEAN,
                     draining: BOOLEAN, err: BOOLEAN, cancelling: BOOLEAN]
    /\ cause \in {"none", "fail_fast", "terminal", "error", "shutdown"}
    /\ stopping \in BOOLEAN
    /\ crashes \in 0 .. MaxCrashes /\ faults \in 0 .. block.faults

-----------------------------------------------------------------------------
(* The coordinator of the run's slot.                                      *)

\* Mutant: only branches that have started are counted.
AllRemainingParkedStarted(c) ==
    /\ \A b \in started : c[b] # "runnable"
    /\ \E b \in Branch : c[b] = "parked"

\* allRemainingParked: a declared branch that has not started is runnable.
AllRemainingParked(c) ==
    /\ \A b \in Branch : c[b] # "runnable"
    /\ \E b \in Branch : c[b] = "parked"

\* suspendIfParked: give the slot back once nothing of the block can run.
SuspendIfParked(c) == holds' = (holds /\ ~AllRemainingParked(c))

\* Mutant: the settlement is not checked against an unresolved wait.
FinishUnverified(b, st, error) ==
    \/ /\ broken /\ error
       /\ UNCHANGED <<status, capacity, broken, holds, faults>>
    \/ /\ ~broken /\ ~error
       /\ status' = [status EXCEPT ![b] = st]
       /\ capacity' = [capacity EXCEPT ![b] = "finished"]
       /\ SuspendIfParked(capacity')
       /\ UNCHANGED <<broken, faults>>

\* Mutant: the slot is not given back when the last runnable branch settles.
FinishNoSuspend(b, st, error) ==
    \/ /\ broken /\ error
       /\ UNCHANGED <<status, capacity, broken, holds, faults>>
    \/ /\ ~broken /\ b \in waiting /\ error
       /\ broken' = TRUE
       /\ UNCHANGED <<status, capacity, holds, faults>>
    \/ /\ ~broken /\ b \notin waiting /\ ~error
       /\ status' = [status EXCEPT ![b] = st]
       /\ capacity' = [capacity EXCEPT ![b] = "finished"]
       /\ UNCHANGED <<broken, faults, holds>>

\* Finish: the settlement is published first; a branch with an unresolved wait
\* is refused.  A failed publication may or may not have reached the journal,
\* and stops the coordinator.  error reports what settle returns.
Finish(b, st, error) ==
    \/ /\ broken /\ error
       /\ UNCHANGED <<status, capacity, broken, holds, faults>>
    \/ /\ ~broken /\ b \in waiting /\ error
       /\ broken' = TRUE
       /\ UNCHANGED <<status, capacity, holds, faults>>
    \/ /\ ~broken /\ b \notin waiting /\ ~error
       /\ status' = [status EXCEPT ![b] = st]
       /\ capacity' = [capacity EXCEPT ![b] = "finished"]
       /\ SuspendIfParked(capacity')
       /\ UNCHANGED <<broken, faults>>
    \/ /\ ~broken /\ b \notin waiting /\ error /\ faults < block.faults
       /\ faults' = faults + 1
       /\ broken' = TRUE
       /\ status' \in {status, [status EXCEPT ![b] = st]}
       /\ UNCHANGED <<capacity, holds>>

Settles(r) == CASE r = "succeeded" -> "succeeded"
                [] r = "cancelled" -> "cancelled"
                [] OTHER -> "failed"

-----------------------------------------------------------------------------
(* The dispatcher: the root goroutine of the block.                        *)

Dispatching == outcome = "running"

\* context.WithCancelCause: the first cause stays.
Cancel(why) == cause' = IF cause = "none" THEN why ELSE cause

Stopped == dispatch.err \/ dispatch.terminal \/ dispatch.failFast
Running == {b \in Branch : worker[b] # "none"}

\* launchAvailable takes the queue in order.
CanLaunch ==
    /\ ~dispatch.cancelling /\ ~Stopped /\ ~dispatch.draining
    /\ dispatch.queue # {} /\ Cardinality(lane) < Lanes

\* launch: take a lane, journal branch.started for a branch that has none, and
\* start its worker at a stage boundary.  The append may fail.
Launch ==
    /\ Dispatching /\ CanLaunch
    /\ LET b == Min(dispatch.queue) IN
       \/ /\ started' = started \union {b}
          /\ worker' = [worker EXCEPT ![b] = "boundary"]
          /\ lane' = lane \union {b}
          /\ dispatch' = [dispatch EXCEPT !.queue = @ \ {b}]
          /\ UNCHANGED <<cause, faults>>
       \/ /\ b \notin started /\ faults < block.faults
          /\ faults' = faults + 1
          /\ started' \in {started, started \union {b}}
          /\ dispatch' = [dispatch EXCEPT !.err = TRUE]
          /\ Cancel("error")
          /\ UNCHANGED <<worker, lane>>
    /\ UNCHANGED <<waiting, status, ended, left, child, outcome, result, restored,
                   capacity, broken, holds, claim, stopping, crashes, block>>

\* Mutant: a branch that fails does not trigger the policy.
FailsFastOnTargets(r) == Policy = "fail_fast" /\ r \in {"terminal", "error"}

\* A failed or timed-out branch under fail_fast; an error settles failed too.
FailsFast(r) == Policy = "fail_fast" /\ r \in {"failed", "terminal", "error"}

\* accept: settle the branch (unless it paused), remember the first failure,
\* apply the terminal target and the failure policy, and give the lane back.
Accept(b) ==
    /\ Dispatching /\ ~dispatch.cancelling /\ worker[b] = "returned"
    /\ worker' = [worker EXCEPT ![b] = "none"]
    /\ result' = [result EXCEPT ![b] = "none"]
    /\ restored' = restored \ {b}
    /\ lane' = lane \ {b}
    /\ \E error \in BOOLEAN :
        LET r == result[b]
            err == error \/ r = "error"
            term == r = "terminal"
            fast == FailsFast(r)
            next == [dispatch EXCEPT !.draining = @ \/ r = "paused",
                                     !.err      = @ \/ err,
                                     !.terminal = @ \/ term,
                                     !.failFast = @ \/ fast]
        IN /\ IF r = "paused"
              THEN ~error /\ UNCHANGED <<status, capacity, broken, holds, faults>>
              ELSE Finish(b, Settles(r), error)
           /\ ended' = IF term THEN ended \union {b} ELSE ended
           /\ cause' = IF cause # "none" THEN cause
                       ELSE IF err THEN "error"
                       ELSE IF term THEN "terminal"
                       ELSE IF fast THEN "fail_fast" ELSE "none"
           /\ dispatch' = [next EXCEPT !.cancelling =
                  ~next.draining /\ (next.err \/ next.terminal \/ next.failFast)
                  /\ next.queue # {}]
    /\ UNCHANGED <<started, waiting, left, child, outcome, claim, stopping, crashes, block>>

\* cancelQueuedParallelBranches, one branch at a time: each branch still in the
\* queue is settled cancelled; the first refusal ends the walk.
CancelQueued ==
    /\ Dispatching /\ dispatch.cancelling
    /\ LET b == Min(dispatch.queue) IN
       \E error \in BOOLEAN :
        /\ Finish(b, "cancelled", error)
        /\ dispatch' = [dispatch EXCEPT
               !.queue = IF error THEN @ ELSE @ \ {b},
               !.err = @ \/ error,
               !.cancelling = ~error /\ dispatch.queue # {b}]
    /\ UNCHANGED <<started, waiting, ended, left, child, outcome, worker, result,
                   restored, lane, claim, cause, stopping, crashes, block>>

\* The end of dispatch.run: an error fails the run (run.finished clears its
\* waits), a paused branch leaves it to a later process, and otherwise
\* parallel.finished is appended and the walk goes on.  A run that returns
\* gives its admission back.
Return ==
    /\ Dispatching /\ Running = {} /\ ~CanLaunch /\ ~dispatch.cancelling
    /\ \/ /\ dispatch.err
          /\ outcome' = "failed" /\ holds' = FALSE /\ waiting' = {}
       \/ /\ ~dispatch.err /\ dispatch.draining
          /\ outcome' = "paused" /\ holds' = FALSE /\ UNCHANGED waiting
       \/ /\ ~dispatch.err /\ ~dispatch.draining
          /\ outcome' = "finished" /\ UNCHANGED <<holds, waiting>>
    /\ claim' = FALSE
    /\ UNCHANGED <<started, status, ended, left, child, memory, counts>>

-----------------------------------------------------------------------------
(* A worker: runParallelBranch.                                            *)

Reports(b, r) ==
    /\ worker' = [worker EXCEPT ![b] = "returned"]
    /\ result' = [result EXCEPT ![b] = r]

\* parallelDrainCancellation
Drains == cause \notin {"fail_fast", "terminal"}

\* stopParallelBranchAtBoundary: a cancelled context ends the branch here; a
\* wait found in the journal is restored before anything else runs.
Boundary(b) ==
    /\ worker[b] = "boundary"
    /\ \/ /\ cause # "none"
          /\ Reports(b, IF Drains THEN "paused" ELSE "cancelled")
          /\ UNCHANGED restored
       \/ /\ cause = "none" /\ b \in waiting
          /\ worker' = [worker EXCEPT ![b] = "yield"]
          /\ restored' = restored \union {b}
          /\ UNCHANGED result
       \/ /\ cause = "none" /\ b \notin waiting
          /\ worker' = [worker EXCEPT ![b] = "stage"]
          /\ UNCHANGED <<result, restored>>
    /\ UNCHANGED <<journal, child, outcome, lane, capacity, broken, holds, claim,
                   dispatch, cause, stopping, counts>>

\* The end of a stage, which a cancelled context does not interrupt.  A stage
\* whose journal append fails is an error of the whole run.
FinishStage(b) ==
    /\ worker[b] = "stage"
    /\ \/ /\ left[b] > 1
          /\ left' = [left EXCEPT ![b] = @ - 1]
          /\ worker' = [worker EXCEPT ![b] = "boundary"]
          /\ UNCHANGED <<result, faults>>
       \/ left[b] = 1 /\ Reports(b, "succeeded") /\ UNCHANGED <<left, faults>>
       \/ b \in MayFail /\ Reports(b, "failed") /\ UNCHANGED <<left, faults>>
       \/ b \in MayTerminate /\ Reports(b, "terminal") /\ UNCHANGED <<left, faults>>
       \/ /\ faults < block.faults /\ faults' = faults + 1
          /\ Reports(b, "error") /\ UNCHANGED left
    /\ UNCHANGED <<started, waiting, status, ended, child, outcome, restored, lane,
                   capacity, broken, holds, claim, dispatch, cause, stopping, crashes, block>>

\* waitForChild: a stage that asked for a child journals its exact wait.
WaitForChild(b) ==
    /\ worker[b] = "stage" /\ b \in MayWait /\ child[b] = "none"
    /\ child' = [child EXCEPT ![b] = "queued"]
    /\ waiting' = waiting \union {b}
    /\ worker' = [worker EXCEPT ![b] = "yield"]
    /\ UNCHANGED <<started, status, ended, left, outcome, result, restored, lane,
                   capacity, broken, holds, claim, dispatch, cause, stopping, counts>>

\* suspendChildBranch: park the branch, then give its lane back.  A context that
\* is cancelled by now keeps the wait.  yieldChildCustody and waitForChild name
\* that a drain; a restored wait cancelled after the yield is a plain error.
SuspendChildBranch(b) ==
    /\ worker[b] = "yield"
    /\ \/ /\ cause # "none"
          /\ Reports(b, IF b \in restored THEN "error" ELSE "paused")
          /\ UNCHANGED <<lane, capacity, holds>>
       \/ /\ cause # "none" /\ b \in restored  \* already seen by Yield
          /\ Reports(b, "paused")
          /\ UNCHANGED <<lane, capacity, holds>>
       \/ /\ cause = "none" /\ broken
          /\ Reports(b, "error")
          /\ UNCHANGED <<lane, capacity, holds>>
       \/ /\ cause = "none" /\ ~broken
          /\ capacity' = [capacity EXCEPT ![b] = "parked"]
          /\ SuspendIfParked(capacity')
          /\ lane' = lane \ {b}
          /\ worker' = [worker EXCEPT ![b] = "parked"]
          /\ UNCHANGED result
    /\ UNCHANGED <<journal, child, outcome, restored, broken, claim, dispatch,
                   cause, stopping, counts>>

\* ChildHandoff.Wait returns: the context was cancelled, or the child ended and
\* a lane is free again.
EndWait(b) ==
    /\ worker[b] = "parked"
    /\ \/ /\ cause # "none"
          /\ Reports(b, "paused")
          /\ UNCHANGED lane
       \/ /\ cause = "none" /\ child[b] = "done" /\ Cardinality(lane) < Lanes
          /\ lane' = lane \union {b}
          /\ worker' = [worker EXCEPT ![b] = "lane"]
          /\ UNCHANGED result
    /\ UNCHANGED <<journal, child, outcome, restored, capacity, broken, holds,
                   claim, dispatch, cause, stopping, counts>>

RunningChildren == Cardinality({b \in Branch : child[b] = "running"})
FreeSlots == Slots - RunningChildren - (IF holds THEN 1 ELSE 0)

\* Mutant: the continuation is published without the slot.
ResumeUnslotted(b) ==
    /\ worker[b] = "lane" /\ cause = "none" /\ ~broken
    /\ waiting' = waiting \ {b}
    /\ capacity' = [capacity EXCEPT ![b] = "runnable"]
    /\ worker' = [worker EXCEPT ![b] = "stage"]
    /\ holds' = (holds \/ FreeSlots >= 1)
    /\ restored' = restored \ {b}
    /\ UNCHANGED <<started, status, ended, left, child, outcome, dispatch, cause,
                   stopping, counts, result, lane, broken, claim>>

\* Resume of a parked branch that has a lane: the run reacquires its slot (or
\* leaves a claim on the next one and tries again), then the continuation is
\* published, all under the coordinator's lock.
Resume(b) ==
    /\ worker[b] = "lane"
    /\ \/ /\ cause # "none"
          /\ Reports(b, "paused") /\ lane' = lane \ {b}
          /\ UNCHANGED <<waiting, capacity, broken, holds, claim, faults>>
       \/ /\ cause = "none" /\ broken
          /\ Reports(b, "error") /\ lane' = lane \ {b}
          /\ UNCHANGED <<waiting, capacity, broken, holds, claim, faults>>
       \/ /\ cause = "none" /\ ~broken /\ ~holds /\ FreeSlots < 1
          /\ claim' = TRUE
          /\ worker' = [worker EXCEPT ![b] = "parked"] /\ lane' = lane \ {b}
          /\ UNCHANGED <<result, waiting, capacity, broken, holds, faults>>
       \/ /\ cause = "none" /\ ~broken /\ (holds \/ FreeSlots >= 1)
          /\ holds' = TRUE /\ claim' = FALSE
          /\ waiting' = waiting \ {b}
          /\ capacity' = [capacity EXCEPT ![b] = "runnable"]
          /\ worker' = [worker EXCEPT ![b] = "stage"]
          /\ UNCHANGED <<result, lane, broken, faults>>
       \/ /\ cause = "none" /\ ~broken /\ (holds \/ FreeSlots >= 1)
          /\ faults < block.faults /\ faults' = faults + 1
          /\ holds' = TRUE /\ claim' = FALSE
          /\ waiting' \in {waiting, waiting \ {b}}
          /\ broken' = TRUE
          /\ Reports(b, "error") /\ lane' = lane \ {b}
          /\ UNCHANGED capacity
    /\ restored' = restored \ {b}
    /\ UNCHANGED <<started, status, ended, left, child, outcome, dispatch, cause,
                   stopping, crashes, block>>

-----------------------------------------------------------------------------
(* The scheduler's side of the children, and the process.                  *)

\* A child is admitted while a slot is free that no claim is waiting for.
AdmitChild(b) ==
    /\ child[b] = "queued"
    /\ FreeSlots > (IF claim THEN 1 ELSE 0)
    /\ child' = [child EXCEPT ![b] = "running"]
    /\ UNCHANGED <<journal, outcome, memory, holds, claim, counts>>

EndChild(b) ==
    /\ child[b] = "running"
    /\ child' = [child EXCEPT ![b] = "done"]
    /\ UNCHANGED <<journal, outcome, memory, holds, claim, counts>>

Shutdown ==
    /\ Dispatching /\ ~stopping /\ crashes < MaxCrashes
    /\ stopping' = TRUE
    /\ crashes' = crashes + 1
    /\ Cancel("shutdown")
    /\ UNCHANGED <<journal, child, outcome, worker, result, restored, lane, capacity,
                   broken, dispatch, holds, claim, faults, block>>

NewDispatch(q, t) ==
    [queue |-> q, failFast |-> FALSE, terminal |-> t, draining |-> FALSE,
     err |-> FALSE, cancelling |-> t /\ q # {}]

\* pendingParallel, parallelChildOwner and the head of runConcurrentParallel:
\* the branch states, the coordinator and the queue come from the journal; a
\* settled branch whose history ends at a reserved target cancels the queue.
\* The scheduler counts the run again unless its journal shows it parked.
Rebuilt ==
    /\ outcome' = "running"
    /\ worker' = [b \in Branch |-> "none"]
    /\ result' = [b \in Branch |-> "none"]
    /\ restored' = {} /\ lane' = {}
    /\ capacity' = [b \in Branch |-> IF b \in waiting THEN "parked"
                                     ELSE IF b \in Open THEN "runnable"
                                     ELSE "finished"]
    /\ broken' = FALSE /\ claim' = FALSE
    /\ holds' = ~Parked
    /\ dispatch' = NewDispatch(Open, ended \ Open # {})
    /\ cause' = "none" /\ stopping' = FALSE
    /\ UNCHANGED <<journal, child, faults, block>>

Crash ==
    /\ outcome \in {"running", "paused"} /\ crashes < MaxCrashes
    /\ crashes' = crashes + 1
    /\ Rebuilt

\* The process that follows a shutdown resumes the paused run.
Restart ==
    /\ outcome = "paused" /\ stopping
    /\ Rebuilt
    /\ UNCHANGED crashes

\* beginConcurrentParallel of a fresh visit.
Init ==
    /\ block \in Blocks
    /\ started = {} /\ waiting = {} /\ ended = {}
    /\ status = [b \in Branch |-> "open"]
    /\ left = [b \in Branch |-> Stages]
    /\ child = [b \in Branch |-> "none"]
    /\ outcome = "running"
    /\ worker = [b \in Branch |-> "none"]
    /\ result = [b \in Branch |-> "none"]
    /\ restored = {} /\ lane = {}
    /\ capacity = [b \in Branch |-> "runnable"]
    /\ broken = FALSE /\ holds = TRUE /\ claim = FALSE
    /\ dispatch = NewDispatch(Branch, FALSE)
    /\ cause = "none" /\ stopping = FALSE
    /\ crashes = 0 /\ faults = 0

WorkerNext(b) ==
    Boundary(b) \/ FinishStage(b) \/ SuspendChildBranch(b) \/ EndWait(b) \/ Resume(b)

DispatchNext == Launch \/ CancelQueued \/ Return \/ \E b \in Branch : Accept(b)

Next ==
    \/ DispatchNext
    \/ \E b \in Branch : \/ WorkerNext(b) \/ WaitForChild(b)
                         \/ AdmitChild(b) \/ EndChild(b)
    \/ Shutdown \/ Crash \/ Restart

Spec == Init /\ [][Next]_vars

\* The root goroutine and the workers keep running; a stage and a child run end;
\* the scheduler admits a child it has room for; the daemon comes back.  Lanes
\* and slots are polled against other takers, hence the strong fairness.
FairSpec ==
    /\ Spec
    /\ WF_vars(DispatchNext) /\ WF_vars(Restart)
    /\ \A b \in Branch :
        /\ WF_vars(Boundary(b) \/ FinishStage(b) \/ SuspendChildBranch(b))
        /\ SF_vars(EndWait(b)) /\ SF_vars(Resume(b))
        /\ SF_vars(AdmitChild(b)) /\ WF_vars(EndChild(b))

-----------------------------------------------------------------------------
(* Properties.                                                             *)

\* Stages of the block run only while the run holds its scheduler slot, and on
\* no more lanes than maxConcurrentBranches: a branch that parks, resumes or
\* settles never lends away the permit a sibling is using or about to use, and
\* a restart counts the run again whenever one of its branches can run.
SlotCoversRunnable ==
    LET busy == {b \in Branch : worker[b] = "stage"} IN
    /\ busy # {} => holds
    /\ Cardinality(busy) <= Lanes

\* The slot the process gave back is one its journal shows given back: a crash
\* at any point leaves a journal from which the scheduler takes no more room
\* for the run than it had, so the children admitted meanwhile still fit.
ReleasedSlotIsJournaled ==
    outcome = "running" /\ ~holds => Parked

\* No branch is settled over an unresolved child wait: the journal stays one
\* that ProjectChildWaits accepts ("branch finished with unresolved child
\* custody" is never met), whatever is cancelled, failed or replayed.
NoSettledWait == \A b \in waiting : status[b] = "open"

\* The block comes to an end although parent and children share the slots:
\* when the last branch that can run finishes or parks, the run's slot goes to
\* the children, their ends bring the branches back, and the block finishes.  A
\* failure under another policy may leave the visit paused (PausedOnlyByShutdown).
BlockEnds == Policy = "continue_on_error" => <>[](outcome \in {"finished", "failed"})

\* The fail_fast promise about not starting more work: once a branch is settled
\* failed, no branch that had not started starts, while the process lives.  The
\* dispatcher forgets the failure in a crash, and launches the next branch.
FailFastStartsNothing ==
    [][Policy = "fail_fast" /\ crashes = 0 /\ (\E b \in Branch : status[b] = "failed")
         => started' = started]_vars

-----------------------------------------------------------------------------
(* Why the properties hold: the inductive invariant of the block.          *)

\* What the worker, the queue, the coordinator and the journal know of one branch
\* agrees: a branch is in one place; a worker that runs or may reach a stage has a
\* lane and is counted runnable, and a runnable branch keeps the slot; a branch is
\* counted parked only over a journaled wait, and finished only once settled.
BranchSound(b) ==
    /\ worker[b] # "none" =>
          outcome = "running" /\ b \notin dispatch.queue /\ status[b] = "open"
    /\ worker[b] \in {"boundary", "stage", "yield", "lane"} => b \in lane
    /\ worker[b] = "stage" => capacity[b] = "runnable"
    /\ worker[b] = "yield" => b \in waiting
    /\ worker[b] = "returned" => result[b] # "none"
    /\ b \in dispatch.queue /\ ~dispatch.err => status[b] = "open"
    /\ /\ worker[b] = "boundary" \/ (b \in dispatch.queue /\ ~dispatch.err)
       /\ b \notin waiting
       => capacity[b] = "runnable"
    /\ capacity[b] = "finished" => status[b] # "open"
    /\ capacity[b] = "parked" /\ outcome = "running" /\ ~broken => b \in waiting
    /\ capacity[b] = "runnable" /\ outcome = "running" => holds
    /\ b \in waiting => status[b] = "open"

\* While the first process lives, a failed branch has stopped the launches.
FailureStops ==
    Policy = "fail_fast" /\ crashes = 0 /\ (\E b \in Branch : status[b] = "failed")
      => Stopped

\* The inductive invariant of the block.
BlockInv ==
    /\ TypeOK
    /\ \A b \in Branch : BranchSound(b)
    /\ Cardinality(lane) <= Lanes
    /\ ReleasedSlotIsJournaled
    /\ FailureStops
    /\ stopping => crashes > 0
    /\ dispatch.cancelling => dispatch.queue # {}

-----------------------------------------------------------------------------
(* Statements of the documentation that the code does not keep.            *)

\* What the documented policy promises of a first failure under fail_fast:
\* started siblings cancel at their next stage boundary and the run takes its
\* onFailure route; only a shutdown leaves the visit to a later process.
PausedOnlyByShutdown == outcome = "paused" => stopping

\* A shutdown retains a child wait: without a failed append, a run whose
\* branches all go well does not fail because the process is stopping.
ShutdownRetainsWaits == outcome = "failed" => cause # "shutdown"
=============================================================================
