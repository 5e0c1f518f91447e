------------------------- MODULE ParallelBlockProofs -------------------------
(***************************************************************************)
(* The properties of a parallel block, for any number of branches, lanes,  *)
(* slots, stages, crashes and failed appends.                              *)
(*                                                                         *)
(* The argument: the coordinator counts a branch runnable from before its  *)
(* worker can reach a stage until its wait is journaled, and parked only   *)
(* over such a wait, so the slot goes only when no worker can reach a      *)
(* stage and the journal already shows the run parked (BranchSound).       *)
(* Once a publication failed, the coordinator publishes and gives back     *)
(* nothing more, so that what it still counts need not be right.           *)
(***************************************************************************)
EXTENDS ParallelBlock, FiniteSetTheorems, WellFoundedInduction, TLAPS

-----------------------------------------------------------------------------
(* Operators.                                                              *)

\* A nonempty queue has a first branch.
LEMMA MinOfBranches ==
    ASSUME NEW S \in SUBSET Branch, S # {}
    PROVE  Min(S) \in S
  <1>1. S \subseteq Nat
    BY ParallelBlockAssumption DEF Branch
  <1>2. PICK x \in S : \A y \in S : ~ (<<y, x>> \in OpToRel(<, Nat))
    BY <1>1, NatLessThanWellFounded, WFMin, Zenon
  <1>3. \A y \in S : ~ (y < x)
    BY <1>1, <1>2, Zenon DEF OpToRel
  <1>4. \A y \in S : x <= y
    BY <1>1, <1>3
  <1> QED
    BY <1>4, Zenon DEF Min

\* A set of branches is finite, a part of it is no larger, and one more branch
\* fits while there is room.
LEMMA LaneCount ==
    ASSUME NEW S \in SUBSET Branch, Cardinality(S) <= Lanes
    PROVE  /\ \A T \in SUBSET S : Cardinality(T) <= Lanes
           /\ \A b \in Branch : Cardinality(S) < Lanes => Cardinality(S \union {b}) <= Lanes
  <1>1. IsFiniteSet(Branch)
    BY FS_Interval, ParallelBlockAssumption DEF Branch
  <1>2. IsFiniteSet(S) /\ Cardinality(S) \in Nat
    BY <1>1, FS_Subset, FS_CardinalityType, Zenon
  <1>3. ASSUME NEW T \in SUBSET S PROVE Cardinality(T) <= Lanes
    <2>1. Cardinality(T) <= Cardinality(S) /\ IsFiniteSet(T)
      BY <1>2, FS_Subset, Zenon
    <2>2. Cardinality(T) \in Nat
      BY <2>1, FS_CardinalityType, Zenon
    <2> QED
      BY <1>2, <2>1, <2>2, ParallelBlockAssumption
  <1>4. ASSUME NEW b \in Branch, Cardinality(S) < Lanes
        PROVE  Cardinality(S \union {b}) <= Lanes
    <2>1. Cardinality(S \union {b}) = IF b \in S THEN Cardinality(S) ELSE Cardinality(S) + 1
      BY <1>2, FS_AddElement, Zenon
    <2> QED
      BY <1>2, <1>4, <2>1, ParallelBlockAssumption
  <1> QED
    BY <1>3, <1>4, Zenon

\* Lanes are given back freely.
LEMMA FewerLanes ==
    ASSUME BlockInv, lane' \in SUBSET lane
    PROVE  Cardinality(lane') <= Lanes
  BY LaneCount, Zenon DEF BlockInv, TypeOK

\* A lane is taken while one is free.
LEMMA OneMoreLane ==
    ASSUME BlockInv, NEW b \in Branch, lane' = lane \union {b}, Cardinality(lane) < Lanes
    PROVE  Cardinality(lane') <= Lanes
  BY LaneCount, Zenon DEF BlockInv, TypeOK

\* The slot given back by the coordinator is given back in the journal.
LEMMA SuspendedIsParked ==
    ASSUME \A c \in Branch : /\ capacity'[c] \in {"runnable", "parked", "finished"}
                             /\ capacity'[c] = "finished" => status'[c] # "open"
                             /\ capacity'[c] = "parked" => c \in waiting',
           AllRemainingParked(capacity')
    PROVE  Parked'
  BY Zenon DEF AllRemainingParked, Parked, Open

\* A dispatcher's record.
Dispatch == [queue: SUBSET Branch, failFast: BOOLEAN, terminal: BOOLEAN,
             draining: BOOLEAN, err: BOOLEAN, cancelling: BOOLEAN]

\* What an accepted result adds to the dispatcher's record.
After(d, pause, err, term, fast) ==
    [d EXCEPT !.draining = @ \/ pause, !.err = @ \/ err,
              !.terminal = @ \/ term, !.failFast = @ \/ fast]

\* The record stays one, keeps its queue, and forgets nothing.
LEMMA DispatchAfter ==
    ASSUME NEW d \in Dispatch, NEW pause \in BOOLEAN, NEW err \in BOOLEAN,
           NEW term \in BOOLEAN, NEW fast \in BOOLEAN
    PROVE  /\ After(d, pause, err, term, fast) \in Dispatch
           /\ After(d, pause, err, term, fast).queue = d.queue
           /\ d.err \/ err => After(d, pause, err, term, fast).err
           /\ d.terminal \/ term => After(d, pause, err, term, fast).terminal
           /\ d.failFast \/ fast => After(d, pause, err, term, fast).failFast
  BY DEF Dispatch, After

-----------------------------------------------------------------------------
(* What keeps its conjunct.                                                *)

\* The journal shows the slot given back as long as waits stay and branches settle.
LEMMA ReleasedKept ==
    ASSUME ReleasedSlotIsJournaled, outcome' = "running" => outcome = "running",
           waiting \subseteq waiting',
           \A c \in Branch : status'[c] = "open" => status[c] = "open",
           holds' = holds
    PROVE  ReleasedSlotIsJournaled'
  BY Zenon DEF ReleasedSlotIsJournaled, Parked, Open

\* A failure has stopped the launches as long as no branch settles.
LEMMA StopKept ==
    ASSUME FailureStops, UNCHANGED <<block, status, dispatch>>, crashes' = 0 => crashes = 0
    PROVE  FailureStops'
  BY Zenon DEF FailureStops, Stopped, Policy

\* What settling a branch does: it is refused or fails, and the coordinator is
\* stopped; or the branch, which waits for nothing, is settled and counted finished.
LEMMA FinishEffect ==
    ASSUME BlockInv, NEW b \in Branch, NEW st \in {"succeeded", "failed", "cancelled"},
           NEW error \in BOOLEAN, Finish(b, st, error)
    PROVE  /\ status' \in {status, [status EXCEPT ![b] = st]}
           /\ status' = status \/ b \notin waiting
           /\ faults' \in 0 .. block.faults
           /\ \/ error /\ broken' = TRUE /\ UNCHANGED <<capacity, holds>>
              \/ /\ ~error /\ broken' = FALSE /\ broken = FALSE /\ b \notin waiting
                 /\ status' = [status EXCEPT ![b] = st]
                 /\ capacity' = [capacity EXCEPT ![b] = "finished"]
                 /\ holds' = (holds /\ ~AllRemainingParked(capacity'))
  <1>1. block.faults \in Nat /\ faults \in 0 .. block.faults /\ broken \in BOOLEAN
    BY ParallelBlockAssumption DEF BlockInv, TypeOK
  <1> QED
    BY <1>1 DEF Finish, SuspendIfParked

\* Settling a branch keeps the types.
LEMMA FinishTyped ==
    ASSUME BlockInv, NEW b \in Branch, NEW st \in {"succeeded", "failed", "cancelled"},
           NEW error \in BOOLEAN, Finish(b, st, error)
    PROVE  /\ status' \in [Branch -> {"open", "succeeded", "failed", "cancelled"}]
           /\ capacity' \in [Branch -> {"runnable", "parked", "finished"}]
           /\ broken' \in BOOLEAN /\ holds' \in BOOLEAN /\ faults' \in 0 .. block.faults
  <1>1. /\ status \in [Branch -> {"open", "succeeded", "failed", "cancelled"}]
        /\ capacity \in [Branch -> {"runnable", "parked", "finished"}]
        /\ holds \in BOOLEAN
    BY Zenon DEF BlockInv, TypeOK
  <1> QED
    BY <1>1, FinishEffect, Zenon

\* Settling a branch gives the slot back only in the journal too.
LEMMA FinishReleases ==
    ASSUME BlockInv, NEW b \in Branch, NEW st \in {"succeeded", "failed", "cancelled"},
           NEW error \in BOOLEAN, Finish(b, st, error), UNCHANGED <<waiting, outcome>>
    PROVE  ReleasedSlotIsJournaled'
  <1>1. /\ status \in [Branch -> {"open", "succeeded", "failed", "cancelled"}]
        /\ capacity \in [Branch -> {"runnable", "parked", "finished"}]
        /\ holds \in BOOLEAN /\ ReleasedSlotIsJournaled
    BY Zenon DEF BlockInv, TypeOK
  <1>2. \A c \in Branch : status'[c] = "open" => status[c] = "open"
    BY <1>1, FinishEffect, Zenon
  <1>3. CASE holds' = holds
    BY <1>1, <1>2, <1>3, ReleasedKept, Zenon
  <1>4. CASE holds' # holds /\ outcome = "running"
    <2>1. /\ broken = FALSE /\ status' = [status EXCEPT ![b] = st]
          /\ capacity' = [capacity EXCEPT ![b] = "finished"] /\ AllRemainingParked(capacity')
      BY <1>1, <1>4, FinishEffect, Zenon
    <2>2. \A c \in Branch : /\ capacity[c] = "finished" => status[c] # "open"
                            /\ capacity[c] = "parked" => c \in waiting
      BY <1>4, <2>1, Zenon DEF BlockInv, BranchSound
    <2>3. \A c \in Branch : /\ capacity'[c] \in {"runnable", "parked", "finished"}
                            /\ capacity'[c] = "finished" => status'[c] # "open"
                            /\ capacity'[c] = "parked" => c \in waiting'
      BY <1>1, <2>1, <2>2, Zenon
    <2>4. Parked'
      BY <2>1, <2>3, SuspendedIsParked, Zenon
    <2> QED
      BY <2>4, Zenon DEF ReleasedSlotIsJournaled
  <1>5. CASE outcome # "running"
    BY <1>5, Zenon DEF ReleasedSlotIsJournaled
  <1> QED
    BY <1>3, <1>4, <1>5, Zenon

\* A branch stays sound when a step leaves it alone: the dispatcher and the
\* coordinator may fail meanwhile, and the slot of a runnable branch stays.
LEMMA OthersKept ==
    ASSUME BlockInv, NEW c \in Branch,
           worker'[c] = worker[c], result'[c] = result[c],
           capacity'[c] = capacity[c], status'[c] = status[c],
           c \in lane' <=> c \in lane, c \in waiting' <=> c \in waiting,
           c \in dispatch'.queue <=> c \in dispatch.queue,
           dispatch.err => dispatch'.err, broken => broken', outcome' = outcome,
           capacity[c] = "runnable" /\ holds => holds'
    PROVE  BranchSound(c)'
  BY DEF BlockInv, BranchSound

\* The coordinator keeps the slot while a branch is runnable.
LEMMA RunnableKeepsSlot ==
    ASSUME NEW c \in Branch, capacity'[c] = "runnable",
           holds' = (holds /\ ~AllRemainingParked(capacity'))
    PROVE  holds => holds'
  BY Zenon DEF AllRemainingParked

-----------------------------------------------------------------------------
(* The worker.                                                             *)

\* A stage boundary: a branch that goes on to a stage is counted runnable.
LEMMA BoundaryKeeps ==
    ASSUME BlockInv, NEW b \in Branch, Boundary(b)
    PROVE  BlockInv'
  <1>1. /\ worker[b] = "boundary" /\ BranchSound(b)
        /\ UNCHANGED <<started, waiting, status, ended, left, child, outcome, lane, capacity,
                       broken, holds, claim, dispatch, cause, stopping, crashes, faults, block>>
    BY Zenon DEF Boundary, BlockInv, journal, counts
  <1>2. \/ /\ worker' = [worker EXCEPT ![b] = "returned"] /\ UNCHANGED restored
           /\ result' \in {[result EXCEPT ![b] = "paused"], [result EXCEPT ![b] = "cancelled"]}
        \/ /\ worker' = [worker EXCEPT ![b] = "yield"] /\ b \in waiting
           /\ restored' = restored \union {b} /\ UNCHANGED result
        \/ /\ worker' = [worker EXCEPT ![b] = "stage"] /\ b \notin waiting
           /\ UNCHANGED <<result, restored>>
    BY Zenon DEF Boundary, Reports
  <1>3. TypeOK'
    BY <1>1, <1>2 DEF BlockInv, TypeOK
  <1>4. ASSUME NEW c \in Branch PROVE BranchSound(c)'
    <2>1. /\ worker \in [Branch -> {"none", "boundary", "stage", "yield", "parked",
                                    "lane", "returned"}]
          /\ result \in [Branch -> {"none", "succeeded", "failed", "terminal",
                                    "cancelled", "paused", "error"}]
      BY Zenon DEF BlockInv, TypeOK
    <2>2. CASE c # b
      BY <1>1, <1>2, <2>1, <2>2, OthersKept, Zenon
    <2>3. CASE c = b
      BY <1>1, <1>2, <2>1, <2>3, Zenon DEF BranchSound
    <2> QED
      BY <2>2, <2>3, Zenon
  <1>5. ReleasedSlotIsJournaled' /\ FailureStops' /\ Cardinality(lane') <= Lanes
    BY <1>1, ReleasedKept, StopKept, Zenon DEF BlockInv
  <1> QED
    BY <1>1, <1>3, <1>4, <1>5, Zenon DEF BlockInv

\* The end of a stage leads to a boundary or back to the dispatcher.
LEMMA FinishStageKeeps ==
    ASSUME BlockInv, NEW b \in Branch, FinishStage(b)
    PROVE  BlockInv'
  <1>1. /\ worker[b] = "stage" /\ BranchSound(b)
        /\ UNCHANGED <<started, waiting, status, ended, child, outcome, restored, lane, capacity,
                       broken, holds, claim, dispatch, cause, stopping, crashes, block>>
    BY Zenon DEF FinishStage, BlockInv
  <1>2. \/ /\ worker' = [worker EXCEPT ![b] = "boundary"] /\ UNCHANGED result
        \/ /\ worker' = [worker EXCEPT ![b] = "returned"]
           /\ \E r \in {"succeeded", "failed", "terminal", "error"} :
                 result' = [result EXCEPT ![b] = r]
    BY Zenon DEF FinishStage, Reports
  <1>3. TypeOK'
    <2>1. left \in [Branch -> 0 .. Stages] /\ Stages \in Nat
      BY ParallelBlockAssumption, Zenon DEF BlockInv, TypeOK
    <2>2. left' = left \/ (left[b] > 1 /\ left' = [left EXCEPT ![b] = @ - 1])
      BY Zenon DEF FinishStage
    <2>3. left' \in [Branch -> 0 .. Stages]
      BY <2>1, <2>2
    <2>4. block.faults \in Nat /\ faults \in 0 .. block.faults
      BY ParallelBlockAssumption DEF BlockInv, TypeOK
    <2>5. faults' \in 0 .. block.faults
      BY <2>4 DEF FinishStage
    <2> QED
      BY <1>1, <1>2, <2>3, <2>5 DEF BlockInv, TypeOK
  <1>4. ASSUME NEW c \in Branch PROVE BranchSound(c)'
    <2>1. /\ worker \in [Branch -> {"none", "boundary", "stage", "yield", "parked",
                                    "lane", "returned"}]
          /\ result \in [Branch -> {"none", "succeeded", "failed", "terminal",
                                    "cancelled", "paused", "error"}]
      BY Zenon DEF BlockInv, TypeOK
    <2>2. CASE c # b
      BY <1>1, <1>2, <2>1, <2>2, OthersKept, Zenon
    <2>3. CASE c = b
      BY <1>1, <1>2, <2>1, <2>3, Zenon DEF BranchSound
    <2> QED
      BY <2>2, <2>3, Zenon
  <1>5. ReleasedSlotIsJournaled' /\ FailureStops' /\ Cardinality(lane') <= Lanes
    BY <1>1, ReleasedKept, StopKept, Zenon DEF BlockInv
  <1> QED
    BY <1>1, <1>3, <1>4, <1>5, Zenon DEF BlockInv

\* A wait is journaled while the branch is open and still counted runnable.
LEMMA WaitForChildKeeps ==
    ASSUME BlockInv, NEW b \in Branch, WaitForChild(b)
    PROVE  BlockInv'
  <1>1. /\ worker[b] = "stage" /\ BranchSound(b)
        /\ child' = [child EXCEPT ![b] = "queued"]
        /\ waiting' = waiting \union {b}
        /\ worker' = [worker EXCEPT ![b] = "yield"]
        /\ UNCHANGED <<started, status, ended, left, outcome, result, restored, lane, capacity,
                       broken, holds, claim, dispatch, cause, stopping, crashes, faults, block>>
    BY Zenon DEF WaitForChild, BlockInv, counts
  <1>2. TypeOK'
    BY <1>1 DEF BlockInv, TypeOK
  <1>3. ASSUME NEW c \in Branch PROVE BranchSound(c)'
    <2>1. worker \in [Branch -> {"none", "boundary", "stage", "yield", "parked",
                                 "lane", "returned"}]
      BY Zenon DEF BlockInv, TypeOK
    <2>2. CASE c # b
      BY <1>1, <2>1, <2>2, OthersKept, Zenon
    <2>3. CASE c = b
      BY <1>1, <2>1, <2>3, Zenon DEF BranchSound
    <2> QED
      BY <2>2, <2>3, Zenon
  <1>4. ReleasedSlotIsJournaled' /\ FailureStops' /\ Cardinality(lane') <= Lanes
    BY <1>1, ReleasedKept, StopKept, Zenon DEF BlockInv
  <1> QED
    BY <1>1, <1>2, <1>3, <1>4, Zenon DEF BlockInv

\* A branch is counted parked over its journaled wait; the last one takes the
\* slot of the run with it.
LEMMA SuspendChildBranchKeeps ==
    ASSUME BlockInv, NEW b \in Branch, SuspendChildBranch(b)
    PROVE  BlockInv'
  <1>1. /\ worker[b] = "yield" /\ BranchSound(b)
        /\ UNCHANGED <<started, waiting, status, ended, left, child, outcome, restored, broken,
                       claim, dispatch, cause, stopping, crashes, faults, block>>
    BY Zenon DEF SuspendChildBranch, BlockInv, journal, counts
  <1>2. \/ /\ worker' = [worker EXCEPT ![b] = "returned"]
           /\ result' \in {[result EXCEPT ![b] = "paused"], [result EXCEPT ![b] = "error"]}
           /\ UNCHANGED <<lane, capacity, holds>>
        \/ /\ ~broken
           /\ worker' = [worker EXCEPT ![b] = "parked"] /\ UNCHANGED result
           /\ capacity' = [capacity EXCEPT ![b] = "parked"]
           /\ holds' = (holds /\ ~AllRemainingParked(capacity'))
           /\ lane' = lane \ {b}
    BY Zenon DEF SuspendChildBranch, Reports, SuspendIfParked
  <1>3. TypeOK'
    BY <1>1, <1>2 DEF BlockInv, TypeOK
  <1>4. /\ worker \in [Branch -> {"none", "boundary", "stage", "yield", "parked",
                                  "lane", "returned"}]
        /\ result \in [Branch -> {"none", "succeeded", "failed", "terminal",
                                  "cancelled", "paused", "error"}]
        /\ capacity \in [Branch -> {"runnable", "parked", "finished"}]
    BY Zenon DEF BlockInv, TypeOK
  <1>5. ASSUME NEW c \in Branch PROVE BranchSound(c)'
    <2>1. CASE c # b
      <3>1. capacity[c] = "runnable" /\ holds => holds'
        BY <1>2, <1>4, <2>1, RunnableKeepsSlot, Zenon
      <3> QED
        BY <1>1, <1>2, <1>4, <2>1, <3>1, OthersKept, Zenon
    <2>2. CASE c = b
      BY <1>1, <1>2, <1>4, <2>2 DEF BranchSound
    <2> QED
      BY <2>1, <2>2, Zenon
  <1>6. ReleasedSlotIsJournaled'
    <2>1. CASE holds' = holds
      BY <1>1, <2>1, ReleasedKept, Zenon DEF BlockInv
    <2>2. CASE holds' # holds /\ outcome = "running"
      <3>1. AllRemainingParked(capacity') /\ ~broken'
        BY <1>1, <1>2, <2>2, Zenon DEF BlockInv, TypeOK
      <3>2. \A c \in Branch : /\ capacity'[c] \in {"runnable", "parked", "finished"}
                              /\ capacity'[c] = "finished" => status'[c] # "open"
                              /\ capacity'[c] = "parked" => c \in waiting'
        BY <1>1, <1>3, <1>5, <2>2, <3>1, Zenon DEF BranchSound, TypeOK
      <3>3. Parked'
        BY <3>1, <3>2, SuspendedIsParked, Zenon
      <3> QED
        BY <3>3, Zenon DEF ReleasedSlotIsJournaled
    <2>3. CASE outcome # "running"
      BY <1>1, <2>3, Zenon DEF ReleasedSlotIsJournaled
    <2> QED
      BY <2>1, <2>2, <2>3, Zenon
  <1>7. FailureStops'
    BY <1>1, StopKept, Zenon DEF BlockInv
  <1>8. Cardinality(lane') <= Lanes
    BY <1>2, FewerLanes, Zenon
  <1> QED
    BY <1>1, <1>3, <1>5, <1>6, <1>7, <1>8, Zenon DEF BlockInv

\* The end of a child wait, with a lane or with a cancelled context.
LEMMA EndWaitKeeps ==
    ASSUME BlockInv, NEW b \in Branch, EndWait(b)
    PROVE  BlockInv'
  <1>1. /\ worker[b] = "parked" /\ BranchSound(b)
        /\ UNCHANGED <<started, waiting, status, ended, left, child, outcome, restored, capacity,
                       broken, holds, claim, dispatch, cause, stopping, crashes, faults, block>>
    BY Zenon DEF EndWait, BlockInv, journal, counts
  <1>2. \/ /\ worker' = [worker EXCEPT ![b] = "returned"]
           /\ result' = [result EXCEPT ![b] = "paused"] /\ UNCHANGED lane
        \/ /\ worker' = [worker EXCEPT ![b] = "lane"] /\ UNCHANGED result
           /\ lane' = lane \union {b} /\ Cardinality(lane) < Lanes
    BY Zenon DEF EndWait, Reports
  <1>3. TypeOK'
    BY <1>1, <1>2 DEF BlockInv, TypeOK
  <1>4. ASSUME NEW c \in Branch PROVE BranchSound(c)'
    <2>1. /\ worker \in [Branch -> {"none", "boundary", "stage", "yield", "parked",
                                    "lane", "returned"}]
          /\ result \in [Branch -> {"none", "succeeded", "failed", "terminal",
                                    "cancelled", "paused", "error"}]
      BY Zenon DEF BlockInv, TypeOK
    <2>2. CASE c # b
      BY <1>1, <1>2, <2>1, <2>2, OthersKept, Zenon
    <2>3. CASE c = b
      BY <1>1, <1>2, <2>1, <2>3, Zenon DEF BranchSound
    <2> QED
      BY <2>2, <2>3, Zenon
  <1>5. ReleasedSlotIsJournaled' /\ FailureStops'
    BY <1>1, ReleasedKept, StopKept, Zenon DEF BlockInv
  <1>6. Cardinality(lane') <= Lanes
    BY <1>2, OneMoreLane, Zenon DEF BlockInv
  <1> QED
    BY <1>1, <1>3, <1>4, <1>5, <1>6, Zenon DEF BlockInv

\* A branch that resumes is counted runnable once the run has its slot; the wait
\* leaves the journal only then.
LEMMA ResumeKeeps ==
    ASSUME BlockInv, NEW b \in Branch, Resume(b)
    PROVE  BlockInv'
  <1>1. /\ worker[b] = "lane" /\ BranchSound(b) /\ restored' = restored \ {b}
        /\ UNCHANGED <<started, status, ended, left, child, outcome, dispatch, cause,
                       stopping, crashes, block>>
    BY Zenon DEF Resume, BlockInv
  <1>2. /\ lane' \in {lane, lane \ {b}} /\ claim' \in {claim, TRUE, FALSE}
        /\ broken' \in {broken, TRUE} /\ holds' \in {holds, TRUE}
        /\ waiting' \in {waiting, waiting \ {b}}
        /\ \/ /\ worker' = [worker EXCEPT ![b] = "returned"]
              /\ result' \in {[result EXCEPT ![b] = "paused"], [result EXCEPT ![b] = "error"]}
              /\ UNCHANGED capacity
              /\ \/ UNCHANGED <<waiting, broken, holds>>
                 \/ broken' = TRUE /\ holds' = TRUE
           \/ /\ worker' = [worker EXCEPT ![b] = "parked"]
              /\ UNCHANGED <<result, waiting, capacity, broken, holds>>
           \/ /\ worker' = [worker EXCEPT ![b] = "stage"]
              /\ capacity' = [capacity EXCEPT ![b] = "runnable"]
              /\ holds' = TRUE /\ UNCHANGED <<result, lane, broken>>
    BY Zenon DEF Resume, Reports
  <1>3. block.faults \in Nat /\ faults \in 0 .. block.faults
    BY ParallelBlockAssumption DEF BlockInv, TypeOK
  <1>4. faults' \in 0 .. block.faults
    BY <1>3 DEF Resume
  <1>5. TypeOK'
    <2>1. /\ worker' \in [Branch -> {"none", "boundary", "stage", "yield", "parked",
                                     "lane", "returned"}]
          /\ result' \in [Branch -> {"none", "succeeded", "failed", "terminal",
                                     "cancelled", "paused", "error"}]
          /\ capacity' \in [Branch -> {"runnable", "parked", "finished"}]
      BY <1>2 DEF BlockInv, TypeOK
    <2>2. /\ waiting' \subseteq Branch /\ restored' \subseteq Branch /\ lane' \subseteq Branch
          /\ broken' \in BOOLEAN /\ holds' \in BOOLEAN /\ claim' \in BOOLEAN
      BY <1>1, <1>2, Zenon DEF BlockInv, TypeOK
    <2> QED
      BY <1>1, <1>4, <2>1, <2>2 DEF BlockInv, TypeOK
  <1>6. /\ worker \in [Branch -> {"none", "boundary", "stage", "yield", "parked",
                                  "lane", "returned"}]
        /\ result \in [Branch -> {"none", "succeeded", "failed", "terminal",
                                  "cancelled", "paused", "error"}]
        /\ capacity \in [Branch -> {"runnable", "parked", "finished"}]
        /\ holds \in BOOLEAN
    BY Zenon DEF BlockInv, TypeOK
  <1>7. ASSUME NEW c \in Branch PROVE BranchSound(c)'
    <2>1. CASE c # b
      <3>1. worker'[c] = worker[c]
        BY <1>2, <1>6, <2>1, Zenon
      <3>2. result'[c] = result[c]
        BY <1>2, <1>6, <2>1, Zenon
      <3>3. capacity'[c] = capacity[c]
        BY <1>2, <1>6, <2>1, Zenon
      <3>4. c \in lane' <=> c \in lane
        BY <1>2, <2>1, Zenon
      <3>5. c \in waiting' <=> c \in waiting
        BY <1>2, <2>1, Zenon
      <3>6. (broken => broken') /\ (holds => holds')
        BY <1>2
      <3> QED
        BY <1>1, <3>1, <3>2, <3>3, <3>4, <3>5, <3>6, OthersKept, Zenon
    <2>2. CASE c = b
      BY <1>1, <1>2, <1>6, <2>2 DEF BranchSound
    <2> QED
      BY <2>1, <2>2, Zenon
  <1>8. ReleasedSlotIsJournaled'
    <2>1. holds' = TRUE \/ UNCHANGED <<waiting, holds>>
      BY <1>2, Zenon
    <2> QED
      BY <1>1, <2>1, ReleasedKept, Zenon DEF BlockInv, ReleasedSlotIsJournaled
  <1>9. FailureStops' /\ Cardinality(lane') <= Lanes
    BY <1>1, <1>2, StopKept, FewerLanes, Zenon DEF BlockInv
  <1> QED
    BY <1>1, <1>5, <1>7, <1>8, <1>9, Zenon DEF BlockInv

-----------------------------------------------------------------------------
(* The dispatcher.                                                         *)

\* A launch takes an open branch of the queue and a free lane.
LEMMA LaunchKeeps == BlockInv /\ Launch => BlockInv'
  <1> SUFFICES ASSUME BlockInv, Launch PROVE BlockInv'
    OBVIOUS
  <1> DEFINE b == Min(dispatch.queue)
  <1>1. /\ dispatch \in Dispatch /\ dispatch.queue # {} /\ ~dispatch.err
        /\ Cardinality(lane) < Lanes /\ outcome = "running" /\ ~Stopped
    BY Zenon DEF Launch, CanLaunch, Dispatching, Stopped, BlockInv, TypeOK, Dispatch
  <1>2. b \in dispatch.queue /\ b \in Branch
    BY <1>1, MinOfBranches, Zenon DEF Dispatch
  <1> HIDE DEF b
  <1>3. UNCHANGED <<waiting, status, ended, left, child, outcome, result, restored,
                    capacity, broken, holds, claim, stopping, crashes, block>>
    BY Zenon DEF Launch
  <1>4. \/ /\ started' = started \union {b}
           /\ worker' = [worker EXCEPT ![b] = "boundary"]
           /\ lane' = lane \union {b}
           /\ dispatch' = [dispatch EXCEPT !.queue = @ \ {b}]
           /\ UNCHANGED <<cause, faults>>
        \/ /\ faults < block.faults /\ faults' = faults + 1
           /\ started' \in {started, started \union {b}}
           /\ dispatch' = [dispatch EXCEPT !.err = TRUE]
           /\ cause' \in {cause, "error"}
           /\ UNCHANGED <<worker, lane>>
    BY Zenon DEF Launch, Cancel, b
  <1>5. /\ dispatch' \in Dispatch /\ dispatch'.queue \subseteq dispatch.queue
        /\ dispatch'.cancelling = dispatch.cancelling
        /\ dispatch'.queue = dispatch.queue \/ dispatch'.queue = dispatch.queue \ {b}
        /\ dispatch'.queue = dispatch.queue => dispatch'.err
        /\ dispatch'.failFast = dispatch.failFast /\ dispatch'.terminal = dispatch.terminal
    BY <1>1, <1>2, <1>4, Zenon DEF Dispatch
  <1>6. faults' \in 0 .. block.faults
    <2>1. block.faults \in Nat /\ faults \in 0 .. block.faults
      BY ParallelBlockAssumption DEF BlockInv, TypeOK
    <2> QED
      BY <1>4, <2>1
  <1>7. TypeOK'
    BY <1>2, <1>3, <1>4, <1>5, <1>6 DEF BlockInv, TypeOK, Dispatch
  <1>8. ASSUME NEW c \in Branch PROVE BranchSound(c)'
    <2>1. worker \in [Branch -> {"none", "boundary", "stage", "yield", "parked",
                                 "lane", "returned"}]
      BY DEF BlockInv, TypeOK
    <2>2. CASE c # b
      BY <1>1, <1>3, <1>4, <1>5, <2>1, <2>2, OthersKept, Zenon
    <2>3. CASE c = b
      <3>1. BranchSound(b)
        BY <1>2, Zenon DEF BlockInv
      <3>2. CASE worker' = [worker EXCEPT ![b] = "boundary"] /\ lane' = lane \union {b}
                 /\ dispatch' = [dispatch EXCEPT !.queue = @ \ {b}]
        BY <1>1, <1>2, <1>3, <2>1, <2>3, <3>1, <3>2, Zenon DEF BranchSound, Dispatch
      <3>3. CASE UNCHANGED <<worker, lane>> /\ dispatch' = [dispatch EXCEPT !.err = TRUE]
        BY <1>1, <1>2, <1>3, <2>1, <2>3, <3>1, <3>3, Zenon DEF BranchSound, Dispatch
      <3> QED
        BY <1>4, <3>2, <3>3, Zenon
    <2> QED
      BY <2>2, <2>3, Zenon
  <1>9. ReleasedSlotIsJournaled'
    BY <1>3, ReleasedKept, Zenon DEF BlockInv
  <1>10. FailureStops'
    BY <1>1, <1>3, Zenon DEF BlockInv, FailureStops, Policy
  <1>11. Cardinality(lane') <= Lanes
    BY <1>1, <1>2, <1>4, OneMoreLane, Zenon DEF BlockInv
  <1>12. ~dispatch'.cancelling
    BY <1>5, Zenon DEF Launch, CanLaunch
  <1> QED
    BY <1>3, <1>7, <1>8, <1>9, <1>10, <1>11, <1>12, Zenon DEF BlockInv

\* The cancelled queue: each branch is settled, or the walk ends in an error.
LEMMA CancelQueuedKeeps == BlockInv /\ CancelQueued => BlockInv'
  <1> SUFFICES ASSUME BlockInv, CancelQueued PROVE BlockInv'
    OBVIOUS
  <1> DEFINE b == Min(dispatch.queue)
  <1>1. dispatch \in Dispatch /\ dispatch.queue # {} /\ outcome = "running"
    BY Zenon DEF CancelQueued, Dispatching, BlockInv, TypeOK, Dispatch
  <1>2. b \in dispatch.queue /\ b \in Branch
    BY <1>1, MinOfBranches, Zenon DEF Dispatch
  <1>3. PICK error \in BOOLEAN :
          /\ Finish(b, "cancelled", error)
          /\ dispatch' = [dispatch EXCEPT
                 !.queue = IF error THEN @ ELSE @ \ {b},
                 !.err = @ \/ error,
                 !.cancelling = ~error /\ dispatch.queue # {b}]
    BY Zenon DEF CancelQueued
  <1> HIDE DEF b
  <1>4. UNCHANGED <<started, waiting, ended, left, child, outcome, worker, result,
                    restored, lane, claim, cause, stopping, crashes, block>>
    BY Zenon DEF CancelQueued
  <1>5. /\ dispatch' \in Dispatch
        /\ dispatch'.queue = IF error THEN dispatch.queue ELSE dispatch.queue \ {b}
        /\ dispatch'.err <=> dispatch.err \/ error
        /\ dispatch'.cancelling => ~error /\ dispatch.queue # {b}
        /\ dispatch'.failFast = dispatch.failFast /\ dispatch'.terminal = dispatch.terminal
    BY <1>1, <1>3, Zenon DEF Dispatch
  <1>6. TypeOK'
    <2>1. /\ status' \in [Branch -> {"open", "succeeded", "failed", "cancelled"}]
          /\ capacity' \in [Branch -> {"runnable", "parked", "finished"}]
          /\ broken' \in BOOLEAN /\ holds' \in BOOLEAN /\ faults' \in 0 .. block.faults
      BY <1>2, <1>3, FinishTyped
    <2> QED
      BY <1>4, <1>5, <2>1 DEF BlockInv, TypeOK, Dispatch
  <1>7. /\ status \in [Branch -> {"open", "succeeded", "failed", "cancelled"}]
        /\ capacity \in [Branch -> {"runnable", "parked", "finished"}]
    BY Zenon DEF BlockInv, TypeOK
  <1>8. /\ status' \in {status, [status EXCEPT ![b] = "cancelled"]}
        /\ status' = status \/ b \notin waiting
        /\ \/ error /\ broken' = TRUE /\ UNCHANGED <<capacity, holds>>
           \/ /\ ~error /\ broken' = FALSE /\ broken = FALSE /\ b \notin waiting
              /\ status' = [status EXCEPT ![b] = "cancelled"]
              /\ capacity' = [capacity EXCEPT ![b] = "finished"]
              /\ holds' = (holds /\ ~AllRemainingParked(capacity'))
    BY <1>2, <1>3, FinishEffect, Zenon
  <1>9. ASSUME NEW c \in Branch PROVE BranchSound(c)'
    <2>1. CASE c # b
      <3>1. capacity[c] = "runnable" /\ holds => holds'
        BY <1>7, <1>8, <2>1, RunnableKeepsSlot, Zenon
      <3>2. /\ capacity'[c] = capacity[c] /\ status'[c] = status[c]
            /\ c \in dispatch'.queue <=> c \in dispatch.queue
            /\ dispatch.err => dispatch'.err
            /\ broken => broken'
        BY <1>5, <1>7, <1>8, <2>1
      <3> QED
        BY <1>4, <3>1, <3>2, OthersKept, Zenon
    <2>2. CASE c = b
      <3>1. BranchSound(b)
        BY <1>2, Zenon DEF BlockInv
      <3> QED
        BY <1>1, <1>2, <1>4, <1>5, <1>7, <1>8, <2>2, <3>1, Zenon DEF BranchSound
    <2> QED
      BY <2>1, <2>2
  <1>10. ReleasedSlotIsJournaled'
    BY <1>2, <1>3, <1>4, FinishReleases, Zenon
  <1>11. FailureStops'
    <2>1. \A c \in Branch : status'[c] = "failed" => status[c] = "failed"
      BY <1>7, <1>8, Zenon
    <2> QED
      BY <1>4, <1>5, <2>1, Zenon DEF BlockInv, FailureStops, Policy, Stopped
  <1>12. dispatch'.cancelling => dispatch'.queue # {}
    BY <1>1, <1>2, <1>5, Zenon
  <1> QED
    BY <1>4, <1>6, <1>9, <1>10, <1>11, <1>12, Zenon DEF BlockInv

\* A returned worker is settled unless it paused, and leaves its lane.  What
\* settles a branch failed stops the launches under fail_fast.
LEMMA AcceptKeeps ==
    ASSUME BlockInv, NEW b \in Branch, Accept(b)
    PROVE  BlockInv'
  <1> DEFINE r == result[b]
             term == r = "terminal"
             fast == FailsFast(r)
  <1>1. /\ worker[b] = "returned" /\ outcome = "running" /\ ~dispatch.cancelling
        /\ BranchSound(b) /\ dispatch \in Dispatch
        /\ worker' = [worker EXCEPT ![b] = "none"]
        /\ result' = [result EXCEPT ![b] = "none"]
        /\ restored' = restored \ {b}
        /\ lane' = lane \ {b}
        /\ UNCHANGED <<started, waiting, left, child, outcome, claim, stopping, crashes, block>>
    BY Zenon DEF Accept, Dispatching, BlockInv, TypeOK, Dispatch
  <1>2. /\ r \in {"succeeded", "failed", "terminal", "cancelled", "paused", "error"}
        /\ Settles(r) \in {"succeeded", "failed", "cancelled"}
        /\ Settles(r) = "failed" => r \in {"failed", "terminal", "error", "paused"}
    BY <1>1, Zenon DEF BlockInv, TypeOK, BranchSound, Settles
  <1>3. PICK error \in BOOLEAN :
        LET err == error \/ r = "error"
            next == [dispatch EXCEPT !.draining = @ \/ r = "paused",
                                     !.err      = @ \/ err,
                                     !.terminal = @ \/ term,
                                     !.failFast = @ \/ fast]
        IN /\ IF r = "paused"
              THEN ~error /\ UNCHANGED <<status, capacity, broken, holds, faults>>
              ELSE Finish(b, Settles(r), error)
           /\ ended' = IF term THEN ended \union {b} ELSE ended
           /\ cause' = IF cause # "none" THEN cause
                       ELSE IF err THEN "error"
                       ELSE IF term THEN "terminal"
                       ELSE IF fast THEN "fail_fast" ELSE "none"
           /\ dispatch' = [next EXCEPT !.cancelling =
                  ~next.draining /\ (next.err \/ next.terminal \/ next.failFast)
                  /\ next.queue # {}]
    BY Zenon DEF Accept
  <1>4. /\ dispatch' \in Dispatch /\ dispatch'.queue = dispatch.queue
        /\ dispatch.err => dispatch'.err
        /\ dispatch.terminal => dispatch'.terminal
        /\ dispatch.failFast \/ fast => dispatch'.failFast
        /\ error => dispatch'.err
        /\ dispatch'.cancelling => dispatch'.queue # {}
    <2> DEFINE err == error \/ r = "error"
               pause == r = "paused"
               next == After(dispatch, pause, err, term, fast)
               halt == ~next.draining /\ (next.err \/ next.terminal \/ next.failFast)
                       /\ next.queue # {}
    <2>1. /\ err \in BOOLEAN /\ term \in BOOLEAN /\ fast \in BOOLEAN
          /\ pause \in BOOLEAN
      BY Zenon DEF FailsFast
    <2>2. dispatch' = [next EXCEPT !.cancelling = halt]
      BY <1>3, Zenon DEF After
    <2> HIDE DEF r, term, fast
    <2>3. error => err
      OBVIOUS
    <2> HIDE DEF err, pause
    <2>4. /\ next \in Dispatch /\ next.queue = dispatch.queue
          /\ dispatch.err \/ err => next.err
          /\ dispatch.terminal \/ term => next.terminal
          /\ dispatch.failFast \/ fast => next.failFast
      BY <1>1, <2>1, DispatchAfter
    <2>5. halt \in BOOLEAN /\ (halt => next.queue # {})
      OBVIOUS
    <2> HIDE DEF halt, next
    <2>6. /\ dispatch' \in Dispatch /\ dispatch'.queue = next.queue
          /\ dispatch'.err = next.err /\ dispatch'.terminal = next.terminal
          /\ dispatch'.failFast = next.failFast /\ dispatch'.cancelling = halt
      BY <2>2, <2>4, <2>5, Zenon DEF Dispatch
    <2> QED
      BY <2>3, <2>4, <2>5, <2>6, Zenon
  <1>5. /\ ended' \subseteq Branch
        /\ cause' \in {"none", "fail_fast", "terminal", "error", "shutdown"}
    BY <1>3 DEF BlockInv, TypeOK
  <1> HIDE DEF r, term, fast
  <1>6. /\ status \in [Branch -> {"open", "succeeded", "failed", "cancelled"}]
        /\ capacity \in [Branch -> {"runnable", "parked", "finished"}]
        /\ worker \in [Branch -> {"none", "boundary", "stage", "yield", "parked",
                                  "lane", "returned"}]
        /\ result \in [Branch -> {"none", "succeeded", "failed", "terminal",
                                  "cancelled", "paused", "error"}]
    BY Zenon DEF BlockInv, TypeOK
  <1>7. TypeOK'
    <2>1. /\ status' \in [Branch -> {"open", "succeeded", "failed", "cancelled"}]
          /\ capacity' \in [Branch -> {"runnable", "parked", "finished"}]
          /\ broken' \in BOOLEAN /\ holds' \in BOOLEAN /\ faults' \in 0 .. block.faults
      <3>1. CASE r = "paused"
        BY <1>3, <3>1 DEF BlockInv, TypeOK
      <3>2. CASE r # "paused"
        BY <1>2, <1>3, <3>2, FinishTyped, Zenon
      <3> QED
        BY <3>1, <3>2, Zenon
    <2>2. /\ worker' \in [Branch -> {"none", "boundary", "stage", "yield", "parked",
                                     "lane", "returned"}]
          /\ result' \in [Branch -> {"none", "succeeded", "failed", "terminal",
                                     "cancelled", "paused", "error"}]
      BY <1>1, <1>6, Zenon
    <2> QED
      BY <1>1, <1>4, <1>5, <2>1, <2>2, Zenon DEF BlockInv, TypeOK, Dispatch
  <1>8. \/ r = "paused" /\ UNCHANGED <<status, capacity, broken, holds>>
        \/ /\ r # "paused"
           /\ status' \in {status, [status EXCEPT ![b] = Settles(r)]}
           /\ status' = status \/ b \notin waiting
           /\ \/ error /\ broken' = TRUE /\ UNCHANGED <<capacity, holds>>
              \/ /\ broken' = FALSE /\ broken = FALSE
                 /\ status' = [status EXCEPT ![b] = Settles(r)]
                 /\ capacity' = [capacity EXCEPT ![b] = "finished"]
                 /\ holds' = (holds /\ ~AllRemainingParked(capacity'))
    BY <1>2, <1>3, FinishEffect, Zenon
  <1>9. ASSUME NEW c \in Branch PROVE BranchSound(c)'
    <2>1. CASE c # b
      <3>1. capacity[c] = "runnable" /\ holds => holds'
        BY <1>6, <1>8, <2>1, RunnableKeepsSlot, Zenon
      <3>2. /\ capacity'[c] = capacity[c] /\ status'[c] = status[c]
            /\ worker'[c] = worker[c] /\ result'[c] = result[c]
            /\ broken => broken'
        BY <1>1, <1>6, <1>8, <2>1
      <3> QED
        BY <1>1, <1>4, <2>1, <3>1, <3>2, OthersKept, Zenon
    <2>2. CASE c = b
      <3>1. /\ worker'[b] = "none" /\ b \notin dispatch'.queue
            /\ capacity[b] = "runnable" => holds
            /\ capacity[b] = "finished" => status[b] # "open"
            /\ capacity[b] = "parked" /\ ~broken => b \in waiting
            /\ b \in waiting => status[b] = "open"
        BY <1>1, <1>4, <1>6, Zenon DEF BranchSound
      <3>2. Settles(r) # "open"
        BY <1>2, Zenon
      <3>3. /\ capacity'[b] = "runnable" => holds'
            /\ capacity'[b] = "finished" => status'[b] # "open"
            /\ capacity'[b] = "parked" /\ ~broken' => b \in waiting'
            /\ b \in waiting' => status'[b] = "open"
        BY <1>1, <1>6, <1>8, <3>1, <3>2, Zenon
      <3> QED
        BY <2>2, <3>1, <3>3 DEF BranchSound
    <2> QED
      BY <2>1, <2>2, Zenon
  <1>10. ReleasedSlotIsJournaled'
    <2>1. CASE r = "paused"
      BY <1>1, <1>8, <2>1, ReleasedKept, Zenon DEF BlockInv
    <2>2. CASE r # "paused"
      BY <1>1, <1>2, <1>3, <2>2, FinishReleases, Zenon
    <2> QED
      BY <2>1, <2>2, Zenon
  <1>11. FailureStops'
    <2>1. ASSUME Policy = "fail_fast", NEW c \in Branch, status'[c] = "failed",
                 status[c] # "failed"
          PROVE  dispatch'.failFast
      <3>1. r # "paused" /\ Settles(r) = "failed"
        BY <1>6, <1>8, <2>1, Zenon
      <3>2. fast
        BY <1>2, <2>1, <3>1, Zenon DEF fast, FailsFast
      <3> QED
        BY <1>4, <3>2, Zenon
    <2> QED
      BY <1>1, <1>4, <2>1, Zenon DEF BlockInv, FailureStops, Policy, Stopped
  <1>12. Cardinality(lane') <= Lanes
    BY <1>1, FewerLanes, Zenon
  <1> QED
    BY <1>1, <1>4, <1>7, <1>9, <1>10, <1>11, <1>12, Zenon DEF BlockInv

\* The end of the visit: no worker is left, and waits are forgotten only with the
\* run that failed.
LEMMA ReturnKeeps == BlockInv /\ Return => BlockInv'
  <1> SUFFICES ASSUME BlockInv, Return PROVE BlockInv'
    OBVIOUS
  <1>1. /\ UNCHANGED <<started, status, ended, left, child, worker, result, restored, lane,
                       capacity, broken, dispatch, cause, stopping, crashes, faults, block>>
        /\ claim' = FALSE /\ holds' \in {holds, FALSE}
        /\ outcome' \in {"failed", "paused", "finished"}
        /\ waiting' = waiting \/ (waiting' = {} /\ dispatch.err)
        /\ \A b \in Branch : worker[b] = "none"
    BY Zenon DEF Return, Running, memory, counts
  <1>2. TypeOK'
    <2>1. waiting' \subseteq Branch /\ holds' \in BOOLEAN /\ claim' \in BOOLEAN
      BY <1>1, Zenon DEF BlockInv, TypeOK
    <2>2. outcome' \in {"running", "paused", "finished", "failed"}
      BY <1>1, Zenon
    <2> QED
      BY <1>1, <2>1, <2>2 DEF BlockInv, TypeOK
  <1>3. \A b \in Branch : BranchSound(b)'
    BY <1>1, Zenon DEF BlockInv, BranchSound
  <1>4. ReleasedSlotIsJournaled' /\ FailureStops'
    BY <1>1, StopKept, Zenon DEF BlockInv, ReleasedSlotIsJournaled
  <1> QED
    BY <1>1, <1>2, <1>3, <1>4 DEF BlockInv

-----------------------------------------------------------------------------
(* The children and the process.                                           *)

\* The children run beside the block.
LEMMA ChildKeeps ==
    ASSUME BlockInv, NEW b \in Branch, AdmitChild(b) \/ EndChild(b)
    PROVE  BlockInv'
  <1>1. /\ child' \in {[child EXCEPT ![b] = "running"], [child EXCEPT ![b] = "done"]}
        /\ UNCHANGED <<started, waiting, status, ended, left, outcome, worker, result, restored,
                       lane, capacity, broken, dispatch, cause, stopping, holds, claim,
                       crashes, faults, block>>
    BY Zenon DEF AdmitChild, EndChild, journal, memory, counts
  <1>2. TypeOK'
    BY <1>1 DEF BlockInv, TypeOK
  <1>3. \A c \in Branch : BranchSound(c)'
    BY <1>1, OthersKept, Zenon
  <1>4. ReleasedSlotIsJournaled' /\ FailureStops'
    BY <1>1, ReleasedKept, StopKept, Zenon DEF BlockInv
  <1> QED
    BY <1>1, <1>2, <1>3, <1>4, Zenon DEF BlockInv

\* A shutdown cancels the context and is remembered.
LEMMA ShutdownKeeps == BlockInv /\ Shutdown => BlockInv'
  <1> SUFFICES ASSUME BlockInv, Shutdown PROVE BlockInv'
    OBVIOUS
  <1>1. /\ stopping' = TRUE /\ crashes < MaxCrashes /\ crashes' = crashes + 1
        /\ cause' \in {cause, "shutdown"}
        /\ UNCHANGED <<started, waiting, status, ended, left, child, outcome, worker, result,
                       restored, lane, capacity, broken, dispatch, holds, claim, faults, block>>
    BY Zenon DEF Shutdown, Cancel, journal
  <1>2. crashes' \in 0 .. MaxCrashes /\ crashes' > 0
    BY <1>1, ParallelBlockAssumption DEF BlockInv, TypeOK
  <1>3. TypeOK'
    BY <1>1, <1>2 DEF BlockInv, TypeOK
  <1>4. \A c \in Branch : BranchSound(c)'
    BY <1>1, OthersKept, Zenon
  <1>5. ReleasedSlotIsJournaled' /\ FailureStops'
    BY <1>1, <1>2, ReleasedKept DEF BlockInv, FailureStops
  <1> QED
    BY <1>1, <1>2, <1>3, <1>4, <1>5, Zenon DEF BlockInv

\* A process that follows another counts every branch as the journal shows it.
LEMMA RebuiltKeeps ==
    ASSUME BlockInv, Rebuilt, crashes' \in 0 .. MaxCrashes, crashes' > 0
    PROVE  BlockInv'
  <1>1. /\ outcome' = "running"
        /\ worker' = [b \in Branch |-> "none"] /\ result' = [b \in Branch |-> "none"]
        /\ restored' = {} /\ lane' = {}
        /\ capacity' = [b \in Branch |-> IF b \in waiting THEN "parked"
                                         ELSE IF b \in Open THEN "runnable"
                                         ELSE "finished"]
        /\ broken' = FALSE /\ claim' = FALSE /\ holds' = ~Parked
        /\ cause' = "none" /\ stopping' = FALSE
        /\ UNCHANGED <<started, waiting, status, ended, left, child, faults, block>>
    BY Zenon DEF Rebuilt, journal
  <1>2. /\ dispatch' \in Dispatch /\ dispatch'.queue = Open /\ ~dispatch'.err
        /\ dispatch'.cancelling => dispatch'.queue # {}
    BY Zenon DEF Rebuilt, NewDispatch, Dispatch, Open
  <1>3. TypeOK'
    BY <1>1, <1>2, Zenon DEF BlockInv, TypeOK, Dispatch
  <1>4. ASSUME NEW b \in Branch PROVE BranchSound(b)'
    <2>1. b \in waiting => b \in Open
      BY Zenon DEF BlockInv, BranchSound, Open
    <2>2. b \in Open /\ b \notin waiting => ~Parked
      BY Zenon DEF Parked
    <2>3. b \in Open <=> status[b] = "open"
      BY Zenon DEF Open
    <2> QED
      BY <1>1, <1>2, <2>1, <2>2, <2>3, Zenon DEF BranchSound
  <1>5. ReleasedSlotIsJournaled'
    BY <1>1, Zenon DEF ReleasedSlotIsJournaled, Parked, Open
  <1>6. FailureStops'
    BY DEF FailureStops
  <1>7. Cardinality(lane') <= Lanes
    BY <1>1, FewerLanes, Zenon
  <1> QED
    BY <1>1, <1>2, <1>3, <1>4, <1>5, <1>6, <1>7, Zenon DEF BlockInv

-----------------------------------------------------------------------------
(* The theorems.                                                           *)

\* A fresh visit is sound.
LEMMA InitSound == Init => BlockInv
  <1> SUFFICES ASSUME Init PROVE BlockInv
    OBVIOUS
  <1>1. /\ dispatch \in Dispatch /\ dispatch.queue = Branch /\ ~dispatch.cancelling
        /\ ~dispatch.err
    BY Zenon DEF Init, NewDispatch, Dispatch
  <1>2. block.faults \in Nat /\ Stages \in 0 .. Stages /\ 0 \in 0 .. MaxCrashes
    BY ParallelBlockAssumption DEF Init
  <1>3. TypeOK
    <2>1. /\ status \in [Branch -> {"open", "succeeded", "failed", "cancelled"}]
          /\ left \in [Branch -> 0 .. Stages]
          /\ child \in [Branch -> {"none", "queued", "running", "done"}]
          /\ worker \in [Branch -> {"none", "boundary", "stage", "yield", "parked",
                                    "lane", "returned"}]
          /\ result \in [Branch -> {"none", "succeeded", "failed", "terminal",
                                    "cancelled", "paused", "error"}]
          /\ capacity \in [Branch -> {"runnable", "parked", "finished"}]
      BY <1>2, Zenon DEF Init
    <2>2. faults \in 0 .. block.faults /\ crashes \in 0 .. MaxCrashes
      BY <1>2 DEF Init
    <2> QED
      BY <1>1, <2>1, <2>2, Zenon DEF Init, TypeOK, Dispatch
  <1>4. \A b \in Branch : BranchSound(b)
    BY <1>1, Zenon DEF Init, BranchSound
  <1>5. Cardinality(lane) <= Lanes
    BY FS_EmptySet, ParallelBlockAssumption DEF Init
  <1>6. ReleasedSlotIsJournaled /\ FailureStops
    BY Zenon DEF Init, ReleasedSlotIsJournaled, FailureStops
  <1> QED
    BY <1>1, <1>3, <1>4, <1>5, <1>6, Zenon DEF BlockInv, Init

\* Every step of the dispatcher, the workers, the children and the process.
LEMMA StepSound == BlockInv /\ [Next]_vars => BlockInv'
  <1> SUFFICES ASSUME BlockInv, [Next]_vars PROVE BlockInv'
    OBVIOUS
  <1>1. CASE DispatchNext
    BY <1>1, LaunchKeeps, CancelQueuedKeeps, ReturnKeeps, AcceptKeeps, Zenon DEF DispatchNext
  <1>2. ASSUME NEW b \in Branch, WorkerNext(b) PROVE BlockInv'
    BY <1>2, BoundaryKeeps, FinishStageKeeps, SuspendChildBranchKeeps, EndWaitKeeps,
       ResumeKeeps, Zenon DEF WorkerNext
  <1>3. ASSUME NEW b \in Branch, WaitForChild(b) \/ AdmitChild(b) \/ EndChild(b) PROVE BlockInv'
    BY <1>3, WaitForChildKeeps, ChildKeeps, Zenon
  <1>4. CASE Crash
    <2>1. crashes' \in 0 .. MaxCrashes /\ crashes' > 0
      BY <1>4, ParallelBlockAssumption DEF Crash, BlockInv, TypeOK
    <2> QED
      BY <1>4, <2>1, RebuiltKeeps, Zenon DEF Crash
  <1>5. CASE Restart
    <2>1. crashes' \in 0 .. MaxCrashes /\ crashes' > 0
      BY <1>5, Zenon DEF Restart, BlockInv, TypeOK
    <2> QED
      BY <1>5, <2>1, RebuiltKeeps, Zenon DEF Restart
  <1>6. CASE UNCHANGED vars
    <2>1. UNCHANGED <<started, waiting, status, ended, left, child, outcome, worker, result,
                      restored, lane, capacity, broken, dispatch, cause, stopping, holds, claim,
                      crashes, faults, block>>
      BY <1>6, Zenon DEF vars, journal, memory, counts
    <2>2. TypeOK'
      BY <2>1 DEF BlockInv, TypeOK
    <2>3. \A b \in Branch : BranchSound(b)'
      BY <2>1, OthersKept, Zenon
    <2>4. ReleasedSlotIsJournaled' /\ FailureStops'
      BY <2>1, ReleasedKept, StopKept, Zenon DEF BlockInv
    <2> QED
      BY <2>1, <2>2, <2>3, <2>4, Zenon DEF BlockInv
  <1> QED
    BY <1>1, <1>2, <1>3, <1>4, <1>5, <1>6, ShutdownKeeps, Zenon DEF Next

\* The inductive invariant of the block: workers, queue, coordinator and journal
\* agree about every branch, for any number of branches, crashes and failed appends.
THEOREM BlockInvariant == Spec => []BlockInv
  BY InitSound, StepSound, PTL DEF Spec

\* Stages run only while the run holds its slot, on no more lanes than the block
\* has: the coordinator never gives the permit of a working branch away.
THEOREM BlockSlots == Spec => []SlotCoversRunnable
  <1>1. BlockInv => SlotCoversRunnable
    <2> SUFFICES ASSUME BlockInv PROVE SlotCoversRunnable
      OBVIOUS
    <2> DEFINE busy == {b \in Branch : worker[b] = "stage"}
    <2>1. busy \in SUBSET lane
      BY Zenon DEF BlockInv, BranchSound
    <2>2. Cardinality(busy) <= Lanes
      BY <2>1, LaneCount, Zenon DEF BlockInv, TypeOK
    <2>3. busy # {} => holds
      BY Zenon DEF BlockInv, BranchSound
    <2> QED
      BY <2>2, <2>3, Zenon DEF SlotCoversRunnable
  <1> QED
    BY <1>1, BlockInvariant, PTL

\* The slot given back is given back in the journal at every moment of the visit,
\* so a crash there takes no more room than the run had.
THEOREM BlockReleases == Spec => []ReleasedSlotIsJournaled
  <1>1. BlockInv => ReleasedSlotIsJournaled
    BY Zenon DEF BlockInv
  <1> QED
    BY <1>1, BlockInvariant, PTL

\* No branch is settled over an unresolved child wait.
THEOREM BlockWaits == Spec => []NoSettledWait
  <1>1. BlockInv => NoSettledWait
    BY Zenon DEF BlockInv, TypeOK, BranchSound, NoSettledWait
  <1> QED
    BY <1>1, BlockInvariant, PTL

\* Under fail_fast nothing starts after a failure, while the process lives.
THEOREM BlockFailsFast == Spec => FailFastStartsNothing
  <1>1. ASSUME BlockInv, [Next]_vars,
               Policy = "fail_fast", crashes = 0, \E b \in Branch : status[b] = "failed"
        PROVE  started' = started
    <2>1. Stopped
      BY <1>1, Zenon DEF BlockInv, FailureStops
    <2>2. ~Launch
      BY <2>1, Zenon DEF Launch, CanLaunch
    <2>3. ~Launch /\ Next => started' = started
      BY Zenon DEF Next, DispatchNext, WorkerNext, CancelQueued, Return, Accept, Boundary, FinishStage,
             SuspendChildBranch, EndWait, Resume, WaitForChild, AdmitChild, EndChild,
             Shutdown, Crash, Restart, Rebuilt, journal
    <2> QED
      BY <1>1, <2>2, <2>3 DEF vars, journal
  <1>2. BlockInv /\ [Next]_vars =>
          (Policy = "fail_fast" /\ crashes = 0 /\ (\E b \in Branch : status[b] = "failed")
             => started' = started)
    BY <1>1, Zenon
  <1> QED
    BY <1>2, BlockInvariant, PTL DEF Spec, FailFastStartsNothing
=============================================================================
