# Goobers: a TLA+ verification project

Goobers runs coding workflows over the items of a backlog. One Go binary is the
daemon, the local runner and the command line; the same semantics run in the
cloud on Temporal and PostgreSQL. This directory models the parts of it where an
ordering that nobody tested can do harm, checks them with TLC on small instances
and proves their safety properties with TLAPS for every size.

The parts that are modelled decide *who may work* (claims, custody, slots,
budgets), *what is remembered* (the two journals, the start queue) and *who goes
on* (parallel blocks, interventions).

| Module | Models (under `src/`) | Proofs | Run |
| --- | --- | --- | --- |
| `ClaimLease` | nothing: what a claim promises, the abstract specification | `ClaimLedgerProofs` | through the two below |
| `ClaimLedger` | `internal/localscheduler/claim.go`, `shared_*.go`, `claim_provider_release.go`, `claim_verification.go`; its callers in `internal/claimsclient`, `cmd/goobers/claimhistory.go` | `ClaimLedgerProofs` | `claims_shared` |
| `SharedCustody` | `internal/sharedclaim`, `internal/claimsclient/shared.go`, `internal/cloud/claims` (shared transitions) | `ClaimCustodyProofs` | `custody_file`, `custody_plane` |
| `ClaimLifecycle` | renewal, recovery gate and sweep of the daemon, terminal cleanup | `ClaimCustodyProofs` | `lifecycle` |
| `RunAdmission` | `internal/localscheduler/scheduler.go`, `conditions.go` (slots), `continuation_claims.go`, `childsuspension.go`, `childadmission.go`, `reconcile.go`; the wait loop of `internal/runner/child_handoff_runtime.go` | `RunAdmissionProofs` | `admission_slots`, `admission_live` |
| `RunBudget` | `internal/localscheduler/conditions.go` (windows), `budgethistory.go`, rate reset | `RunBudgetProofs` | `budget` |
| `StartQueue` | `internal/triggerqueue`, `internal/startintent`, the durable trigger service, journal retention | `DurableRunProofs` | `starts` |
| `ParallelBlock` | `internal/runner/parallel_*.go`, `child_parallel_capacity.go`, `child_handoff_runtime.go` | `ParallelBlockProofs` | `block` |
| `Interventions` | `internal/intervention`, resumption in `internal/runner/run.go`, cleanup and sweep beside it | `InterventionsProofs` | `interventions` |
| `RunJournal` | `internal/journal/run.go`, `reader.go`, `eventlog.go` | `DurableRunProofs` | `journal_recovery` |
| `InstanceLog` | `internal/journal/instance.go`, `compact.go`, `instancegen.go`, `instancetickskips.go`, `internal/instanceannotations/fold.go` | `InstanceLogProofs` | `instance_log` |

`PROJECT.json` maps every definition to its lines, lists all parts of the system
with their status, the hazards, the mutants and the theorems. `MC<Module>` gives
the constants of a module their values for TLC.

How the parts interact. A start is accepted in the start queue, charged to the
rolling budgets and given a slot by admission. The run claims its item in the
ledger of its instance, under shared admission also at the provider, and the
daemon renews and recovers that claim. The run's journal is what every restart
believes: admission, the start queue, renewal and parallel blocks rebuild their
memory from it. A parent that waits for a child lends its slot
(`RunAdmission`), a parallel block lends one slot for all its branches
(`ParallelBlock`), and an intervention brings an ended run back with its slot and
its claim (`Interventions`). The modules meet at these interfaces: each abstracts
its neighbour to what it may do there (a refused start, a phase in a journal, any
later deadline), so that a property of one does not rest on a choice made in
another. `ClaimLedger` and `SharedCustody` are tied together by `ClaimLease`, which
both implement.

## 1. The claim ledger

`entries` and `history` are the file `claims.json`. A caller takes the claims lock,
opens the file, performs one operation and lets go (`File.Locked`), so each
operation is one action and starts from what `load` finds (`Loaded`). An absent key
is the entry `NoEntry`. Time 0 is Go's zero time, the value of an unset deadline.

`Persist` has the three outcomes of an atomic file replacement: it succeeded; it
failed and the old file is in place; the rename landed, the directory fsync failed,
and the caller is told of a failure although the file is new. It also demands that
the old file passes validation, since `load` refuses it otherwise.

Three variables are not in the file. `authority[k][r]` is the deadline up to which
run `r` was told that it owns `k`; it ends with the deadline, a release, a
revocation, or the process (`RunStops`). `revokedAck` are the revocations
acknowledged to an operator. `acquiredLog` are the `claim.acquired` events of the
instance journal, which `claimHistoryForRun` adds to the durable history and prefers
to it (`ReclaimSet`); they are best-effort, and a journal without them is the case `journalled = FALSE`.

A call with a stale incarnation does nothing in the code and is a stutter here.
Only item-only claims in the initial file are of the old format, as no code creates
a new one.

Run `claims_shared`: a run under shared admission beside a local one.

* `AuthorityExclusive`: two runs are never both inside an acknowledged lease of one
  scoped item.
* `LoadableLedger`: no sequence of operations writes a file that the next open
  refuses, which would stop every claim operation of the instance.
* `RevocationPermanent`: after an acknowledged revocation the run gets no new time
  on the item, although entries are released and histories pruned.
* `CustodyKept`: a shared claim changes its owner or leaves only after release
  custody was reserved, so the remote lease is never forgotten.
* `VerificationOfIncarnation`: a provider observation is never credited to a later
  incarnation than the one it saw.
* `ImplementsClaimLease`: the refinement of section 3.

Bounds: each property relates one item with both of its keys and at most two runs.
`Lease = 1` and `MaxTime = 3` let a lease be taken, lapse and be taken again, and
`HistoryTTL = 1` lets a history be pruned. Publication and merge locks are in the
model and in the proofs, not in this instance; `LedgerPublication` is about publication
locks only, since a run may extend a merge lock it holds. Deadlock is not checked: the
clock is bounded and runs may stop.

Assumed of the callers, not checked by the ledger: a continuation takes over the claims
of a run that has stopped, under the same claim policy (`ReclaimAll`); the provider
never shortens the lease of an owner it renews (`FinishSharedAdmission`, section 2 models
the provider); the `expected` entry of a verification is the current one, otherwise the
call changes nothing.

The code and its comments disagree (section 12 says how to reproduce this):

* `ItemExclusive`: run r1 releases an item-only claim, r2 claims the scoped key of the
  same item, r1 takes its item-only key back. `refusePlannedClaims` looks for an
  item-only claim behind a scoped key and not the other way round.
* `SharedReclaimNeedsRemote`: the entry that `claimHistoryForRun` builds from a
  journal event has no shared deadline and overrides the history entry that has one,
  so `ReclaimAll` admits a shared item locally.
* `FailedClaimLeavesItem`: when the directory fsync fails, a claim reported as failed
  is in the file (`internal/journal/fsio.go:94` says a failed write "never touches the
  target"). It cannot break `AuthorityExclusive`; the item is blocked until the lease
  lapses.

## 2. Shared custody at the provider

Several instances share one item. `remote` is the provider's record (a git ref that
is only fast-forwarded): a revision, an owner, an expiry. `local` is each instance's
claim entry. A transition of a `Proc` reserves local custody, reads the record, sends
a compare-and-swap and finalizes the entry, with provider I/O outside every lock; it
is one action per step. `requests` are swaps under way: they are delivered late or
never, also after the sender gave up (`Fail`). The file client holds a per-item
transition lock; the claims plane (`Plane`) holds none and uses tokens.

* `RemoteBacksAdmission`: whoever is admitted locally owns the record, and the lease
  there does not end before the local one. Checked for both clients.
* `NoTimeAfterRevocation`: a revocation wins over an admission acknowledged later.
* `ImplementsClaimLease`: the instances together implement the lease.
* `ReleaseCompletes`: a reserved release is completed. Fairness: a transition goes on,
  the provider answers, and the recovery sweep retries releases on every interval;
  it is checked for the file client only, whose sweep this is.

Bounds: two instances with one request each for the file client, two overlapping
requests of one instance for the plane, a lease of two units, one transition that
breaks off. `MaxRev` ends the admissions: with 1 an admission, the swaps that compete
with it and its release happen, with 3 a second admission follows. `DateLag` is
the precision of the provider's Date header. A claim whose release has begun counts as
not admitted (`Admitted`); the execution fence (`execution.go`) looks at the deadline and
at revocation only, so between the two steps of a release the run is not fenced yet. The
encoding of the record and visibility labels are left out.

Disagreement, `ReleasedStaysReleased`: the file client's release of an admission whose
swap is still on its way finds an empty record and returns without advancing the
revision; the late swap then succeeds, and leaves a lease that no ledger knows until
it lapses. `internal/sharedclaim/lease.go:30`: "release advances rather than deletes
the revision so a delayed writer cannot succeed against a recreated record". The
plane has a narrower case of it: a release that finds the lapsed lease of another
owner writes no revision either.

## 3. The abstract lease

`ClaimLease` says what a claim promises, whatever keeps it: a lease ends by itself, and
nobody gains time on an item while another claimant is inside a lease of it.
`ClaimLedger` implements it with `authority` as the leases of its runs, `SharedCustody`
with the local deadline of every run incarnation that its instance admits. Both mappings
are an `INSTANCE ... WITH` named `Claims`, checked by TLC as `ImplementsClaimLease` and
proved for every size; `LeaseExclusive` proves that the abstract specification excludes.

## 4. Renewal and recovery of claims

A lease is short and is renewed as long as its run executes. A renewal pass snapshots
the ledger and probes liveness without the lock (`BeginRenewal`), then renews entry by
entry under it (`RenewExpected`). A sweep picks the claims of ended runs (`Recover`) and
frees those and the expired ones later (`FinishRecover`); the daemon's loop and the
claims plane both sweep. After a crash the registry of driven runs is empty while their
journals say running; startup goes through `starting`, `renewed`, `recovered`,
`resumed`, and `gate` opens with the first completed pass.

* `WorkingRunKeepsClaim`: a run that executes, or that crash resume has yet to look at,
  loses a claim only by releasing it.
* `NoResurrection`: a renewal applied after its snapshot went stale gives nothing back
  to a run that has ended.
* `AbandonedLeaseBounded`: a claim outlives the last sign of life of its run, or the
  grace of a startup, by one lease and one pass at most.
* `EndedClaimsReturn`: claims of an ended run come back although its cleanup timed out,
  sweeps failed or the daemon crashed. Fairness: supervision restarts the daemon, its
  loop goroutine runs, and a cleanup is not blocked for ever.

The one timing assumption is `Budget < Lease`: a pass completes within `Budget` of the
start of the last one (`Tick` waits for it). In the code the loop's ticker is five
minutes and the lease thirty. Bounds: one item, two runs, `Lease = 2`, `Budget = 1`, one
crash or failure anywhere. A sweep that fails leaves everything, or some claims of ended
runs (`LeftBehind`). Crash resume may give up on any run; a generated child that it
defers is one of those. Left out: interventions (section 8), publication, shared and
reconcile claims, and the one-shot `goobers run`, which has no gate.

## 5. Run admission

`active` and `totalActive` are the counters of `Conditions`. `admitted` and `reconciled`
are the two maps of the scheduler: runs admitted by this process, and runs that startup
found in the journals. `waiting` holds the continuation claims, ordered by age (ties are
broken by run ID in the code, by arrival here). `releases[r][g]` counts the release
functions of generation `g` of run `r` that somebody still has to call; `leases` are the
suspensions hosts hold. `journal` is the phase a restart would find.

`dispatch` takes the slot and registers the admission in two critical sections and is two
actions; everything else holds `admissionMu` throughout and is one. Generations never
repeat in the code; the model reuses one that nothing refers to any more
(`FreshGeneration`), which the code could not tell from a new one. `Forget` does the same
for run IDs. A run ID is new when it is dispatched (`NewRunID`); a worker that assigns one
which is in use would overwrite its admission. `ReserveChild` gives the slot back when its journal append fails: no step.
Gates that are not about slots (budgets, quota, pull requests, memory, disk) can refuse a
start; in the model the start does not happen. A parent that asks for its slot and is
refused by policy (`permanentDispatchRefusal`) changes nothing and asks again;
`admission_live` assumes its workflow stays enabled. Caps are constants: a configuration reload
is not modelled.

* `SlotsMatchOwners`: the counters are exactly the runs in flight. No slot leaks and none
  is returned twice.
* `OwnersBacked`: the owners an admission counts are its uncalled release functions; a
  late call never takes away another owner's admission.
* `TurnKept`: once a waiting parent could take its slot, it still can after any step that
  leaves it waiting.
* `ParkedParentResumes` (run `admission_live`): a waiting parent that keeps asking gets a
  slot, however many new runs compete.

Bounds. Three runs are the fewest in which two claims are ordered and a third run competes
for the slot they wait for; two generations and two owners are the fewest in which a
release is late and an owner remains.

Fairness (`Fairness`). A dispatch that took its slot registers it: straight-line code. A
host that waits asks again: `resumeChildCapacity` loops with a timer of one second. A run
that occupies a slot ends and is released: every stage has a time limit and the release is
deferred. A parent whose slot is lent is not assumed to end. Steps of people, crashes and
expiring claims are left out of `LiveSpec`: each may rightly end a wait. Deadlock is not
checked there, because run IDs are bounded and every one may end up parked or finished.

Disagreement, `ClaimsHaveAdmission`: after a restart a restored parent waits, is refused
and becomes a claim; its wait is cancelled, and `ReleaseReconciled` ends the admission
without clearing the claim, unlike every other path. The claim holds a slot against new
starts for up to ten minutes.

## 6. Rolling budgets and the start queue

`RunBudget`: `starts` is the window in memory, `log` the `run.started` events it is rebuilt
from, `marker` the operator's reset. A caller reads the clock (`ReadClock`) before it waits
for the scheduler's lock (`Dispatch`, `ReserveChild`). An event may be lost (best effort),
echoed by the run's driver (`Publish`), or be the second of a retried start. `admitted` is
what really happened and no part of the code's state: each admission with its time, the place
of its event in the log and the reset it was decided under.

* `RollingBudget`: no unforced start is the (limit + 1)-th recorded one of an hour or a day,
  shortened by the time a caller may wait.
* `ChargedOnce`: an echo, a restart or a reset charges nothing twice.

Bounds: one run, one child, two callers, an hour of two ticks and a day of four, one crash,
one lost event. One workflow; pool, quota, memory and disk refusals, legacy events without
run IDs, `SetCadenceBudgetsDisabled` and a clock that steps back are left out. An
admission and the append of its event are one step, with or without the event.

Disagreements. `HourlyCountExact`: a start older than its predecessor can be appended, and
`countSince` stops at it and misses newer ones (`conditions.go:537`: "starts is assumed
sorted ascending"). `RetriedStartCharged`: a run launched again under its reserved ID is
charged twice in memory, but a restart takes its second event for an echo.

`StartQueue`: `row` is the durable state of an accepted start, `dir` the journal directory
of its run, which is the evidence of its launch. The drainer (`work`) reconciles the rows
that were uncertain at boot page by page, inspects pending rows from where its last sweep
ended, claims a row, launches, and settles; any queue write may fail, the daemon may
restart between any two steps, and retention removes finished journals; a pass that
fails puts the journal back or leaves it staged.

* `RowMatchesJournal`: a start runs at most once, never while its row waits or after it was
  rejected; a receipt is never wrong, and only a journal with a receipt is removed.
* `Inspected`: every waiting row is looked at, however many rows before it are refused.
* `Settled`: an expired row ends dispatched or rejected and a claimed row leaves
  `dispatching`, unless its launch or last write failed in this process.

Fairness (`SweepSpec`): the daemon sweeps on a ticker, and a launched starter returns.
Bounds: two rows with pages of one row, so that every cursor moves; two restarts, one failed
write. Deduplication of a resent key, batches, schedule demand, engine-driven starts, the
capacity of the queue and the retention of its old rows are left out. Uncertain rows are
paged in the order of their acceptance, in the code by a random ID: the rows are alike, so
either order is any order.

## 7. Parallel blocks

One visit of a block. The dispatcher launches branches in order and applies the failure
policy; workers own execution lanes; the coordinator (`capacity`) counts the branches that
can still run, and when all unfinished ones wait for children the run gives its scheduler
slot back. `started`, `waiting`, `status`, `ended` and `left` are the journal, from which
`Restart` rebuilds workers, lanes and coordinator.

* `SlotCoversRunnable`: stages run only while the run holds its slot, on no more lanes than
  there are.
* `ReleasedSlotIsJournaled`: a slot given back is one the journal shows as given back.
* `NoSettledWait`: no branch is settled over an unresolved child wait.
* `FailFastStartsNothing`: after a failure under `fail_fast` no branch starts in the process.
* `BlockEnds`: under `continue_on_error` the block ends, although parent and children share
  the slots. Fairness: dispatcher, workers and the restarted daemon go on; a child ends;
  lanes and slots are polled against other takers, hence strong fairness of the retries.

Bounds: three branches, two lanes, one slot, one stage (gates are stages), one crash or
shutdown, three blocks that differ in policy, failures, reserved ends and a failed append.
The invariants were also checked with two stages and two crashes (2,561,495 states). Left
out: forks and workspaces of branches, map items, branch timeouts, more than one child per
branch, a context cancelled between the check and the suspension in `Park`, the step limit at
a boundary, a gate that returns because it was cancelled, errors in merging the branches after
the dispatch loop (these end the branch or the visit as failures and shutdowns in the model
do), and a stage with uncertain child custody, whose branch is paused and reports an error at
once (`parallelInvocationFailed`): it stays unsettled while the visit fails.

Disagreements. `PausedOnlyByShutdown`: a sibling parked on a child when `fail_fast` cancels
reports a drain, which pauses the run instead of taking `onFailure`
(`docs/design/static-fan-out-fan-in.md:258`). `FailFastStartsNothing` without its
`crashes = 0`: the replayed block does not see that a branch failed, and a crash before the
queue is cancelled lets queued branches start. `ShutdownRetainsWaits`: a shutdown between
the yield of a restored wait and its parking fails the branch and the run, unlike the two
neighbouring exits.

## 8. Interventions

One run with one item, and deliveries of requests to approve, override, rerun or deny. A
request resolves what it read from the journal, takes the intervention slot, checks again,
takes a place in the scheduler and the claim, records its marker and resumes the run. Beside
it run the driver and its cleanup, the sweep, the cleanup of a restarted daemon, other runs.

* `ActsOncePerKey`: what is asked for under an idempotency key resumes the run once, reruns
  it once and denies it once. It is stated per key and action: a client that uses one key for
  two different interventions is refused only if the second resolved after the marker of the
  first (`replayIntervention`), so both may be carried out.
* `PlaceFollowsRun`: a driven run has a place in the scheduler. Once a run has ended and
  driver and intervention are gone, nobody owns a place for it, with one exception: an
  intervention whose run failed without a result asks the journal for the phase, and when that
  read fails it keeps the place (`finishExecution`, `PhaseUnread`), which `Close` then leaves
  retained. `unread` remembers such a read; a retained place of an ended run implies it. It
  lasts until a later intervention reads a terminal phase or the daemon restarts.
* `InterventionKeepsClaim`: an active intervention loses its claim only to terminal cleanup
  and to its own failure, never to a sweep. That its lease does not expire is assumed
  (`OtherRuns`): it is taken anew with the claim, and renewed once the run is driven.
* `SlotFreed`: an accepted intervention frees the slot. Fairness: requests and the driver
  go on until they return.

Bounds: a request, its retry under the same key, and a request for something else under the
same key or its own, in four combinations; two segments of the run; one restart. The driver
may return with the run ended, with an error that leaves it running (`DriverFails`), or with
a failed cleanup. Its last journal close and the release of its place are one step. A request
that has returned is forgotten (`Gone`). The watchdog and cancel requests (which also release
a place), engine-driven runs and refusals over content are left out.

Disagreements. `ResumedRunHoldsItsClaim`: `run.finished` is durable before cleanup releases
the claims; an approval in between reacquires the claim, which the cleanup then releases.
`DenialOfCurrentEscalation`: under the slot a denial looks again for its key but not at the
phase, so a run that was resumed meanwhile can be denied.

## 9. The journals

`RunJournal`: `log` and `torn` are `events.jsonl`, `state` is `state.json`. An append is the
fsynced record and the checkpoint after it; a process may stop around both. A failed write
leaves nothing, a torn record, or a whole record whose fsync failed, and the handle refuses
to append until it is repaired. Two processes contend for the run lock.

* `MonotonicSeq`: records are numbered 1, 2, 3, ... without gap or repetition.
* `AppendedOnce`: a conditional append is in the log once, also when a failed attempt had
  reached the disk.
* `RecoverHeals`: `Recover` brings a stale `state.json` in line with the log.

Bounds: five records, two faults. Branch cursors, reasons, transcripts, artifacts, the
publication lock and the pruning reservation are left out. `RepairAppendBoundary` may be
called on any open journal, whatever failed before (heartbeats and the origin of a child
call it), and its own corrective append may fail. Any kind of event may follow any other:
the order of a run's life is its runner's business and no property here needs it.
Disagreement, `RepairLeavesTrace`: the torn
tail is truncated before the corrective event is appended, and a stop in between leaves no
trace (`reader.go:340`).

`InstanceLog`: the journal of the instance, shared by its processes, with generations on
disk (`files`), the `pointer` to the current one, handles that number from what they last
saw, and a reader's incremental `fold` without the lock.

* `Parseable`: the current generation parses and is numbered in order.
* `CommittedKept`: an acknowledged event stays until a compaction drops it, and the latest
  trigger survives every compaction.
* `FoldOfOneGeneration`: the unlocked fold never mixes generations.
* `NoSequenceReused`: a sequence readers have seen is not given to another record, while only
  tick skips are dropped. With retention passes (drop `~retention`) it fails: a retention
  pass may drop the record of the highest sequence (`compact.go:269`), which the tick-skip
  compaction takes care to keep.

Bounds: two processes, three events, three generations, one fault anywhere. The log's
identity file and its removal, the commit export, dry runs and power loss beyond torn records
are left out. A retention pass drops a prefix in time order, except the latest trigger; the
other checkpoints it keeps are left out. A reader reads the pointer and the size of its
generation in one step, and a log that does not exist yet is an empty one.

## 10. What is proved

`tlapm` checks every proof; the theorems hold for every value of the constants that meets the
`ASSUME` of the module: any number of runs, items, instances, branches, faults, any leases.
Safety properties are seldom inductive; each proof rests on an inductive invariant, defined
in the component's module and checked with TLC before it was proved. Two proof modules cover
two components each: `DurableRunProofs` extends `StartQueue` and has `RunJournal` as the
instance `R`, `ClaimCustodyProofs` extends `SharedCustody` and has `ClaimLifecycle` as `L`.
What an instance assumes of its constants (`Bounds` in its module) is a hypothesis of its
theorems; the runs of that module evaluate it.

| Theorem | Property |
| --- | --- |
| `LedgerExclusive`, `LedgerLoadable`, `LedgerRevocation`, `LedgerCustody` | the four of `ClaimLedger`, from `LedgerInvariant` |
| `LedgerImplementsLease`, `LeaseExclusive` | `ClaimLedger` implements `ClaimLease`, which excludes |
| `LedgerVerification`, `LedgerPublication` | `VerificationOfIncarnation`; `PublicationSingleGrant` |
| `CustodyRemoteBacksAdmission`, `CustodyNoTimeAfterRevocation`, `CustodyImplementsClaimLease` | the safety properties of `SharedCustody`, from `CustodyInvariant` |
| `LifecycleKeepsClaims`, `LifecycleNoResurrection`, `LifecycleLeaseBounded` | the safety properties of `ClaimLifecycle`, from `LifecycleInvariant` |
| `AdmissionSlots`, `AdmissionOwners`, `AdmissionTurn` | the safety properties of `RunAdmission`, from `AdmissionInvariant` |
| `QueueMatchesJournals` | `RowMatchesJournal`, from `QueueInvariant` |
| `BlockSlots`, `BlockReleases`, `BlockWaits`, `BlockFailsFast` | the safety properties of `ParallelBlock`, from `BlockInvariant` |
| `RecordsNumberedInOrder`, `ConditionalAppendOnce`, `RecoveredRunsAgree` | the properties of `RunJournal` |
| `BudgetsHold`, `AdmissionsChargedOnce` | the properties of `RunBudget`, from `BudgetInvariant` |
| `KeysActOnce`, `PlaceAlwaysFollowsRun`, `ClaimKeptByIntervention` | the safety properties of `Interventions`, from `InterventionInvariant` |
| `AlwaysParseable`, `CommittedAlwaysKept`, `FoldNeverMixes`, `SequencesNeverReused` | the properties of `InstanceLog`, from `LogInvariant` |

**The ledger** (`IInv`). `AuthorityBacked`: the file backs every lease a run was told it has;
exclusion follows, since an entry has one run. Half-failed writes are why deadlines are
compared with `>=`. `Consistent`: entries and history agree; load validation alone is not
inductive, because reclaiming builds local entries from history. `RevocationRecorded`: an
acknowledged revocation is in the history, which pruning keeps. `LocalLeaseBounded`: a local
lease ends within one lease duration, so a renewal or takeover never shortens what a run was
told. The writes are argued once (`PersistKeeps`, `StoreClaimStep`, `UpdateEntryStep`,
`DeleteStep`); an action shows that the entry it writes meets the conditions of one of them.

**Shared custody** (`CustodyInv`). A swap acts only on the revision it read, so what was true
of the record then is still true when it arrives (`SwapsSound`). A tombstone under way can end
a lease only while the owner's instance keeps it in release custody (`TombstonesFenced`). An
acknowledged admission still finds its lease at the provider unless a newer transition took
over (`TransitionSound`), and then the token or the lock stops it from finalizing. The same
invariant covers both clients; `LockExclusive` is the file client's part.

**Renewal** (`LifecycleInv`). The claim of a working run was granted since the last completed
pass began, hence lasts until `lastPass + Lease`; while the gate is open the clock is at most
`lastPass + Budget`. With `Budget < Lease` it never looks expired to a sweep or a claimant. The
pass under way is the second half: a working run's claim is newer than its start or still on its
list under the incarnation that the list names. A sweep's time is never ahead of the clock, and a
sweep that is ready holds an open gate. For `AbandonedLeaseBounded` the invariant says that what
a pass has left to renew was tracked when it began, or has evidence since.

**Admission** (`AdmissionInv`). `SlotsMatchOwners` needs `OnePlace`: a run both admitted and
restored would occupy two slots and be counted once. `SlotTaken`, `SlotReturned` and `SlotsKept`
count once; each action shows which run enters or leaves the holders. `TurnKept` is an action
property about everyone in front of a waiting parent: claims are ordered by age, a start counts
all claims as if they held slots, and a slot or a claim that goes away lets at most one younger
claim pass.

**The start queue** (`QueueInv`). What the drainer found out about a row still holds when it
writes: a row it launches, requeues or rejects was never launched and is not in doubt from
before; a receipt it writes has a journal. Only a row with a receipt has its journal removed.

**The block** (`BlockInv`). A branch is counted runnable from before its worker can reach a stage
until its wait is journaled, and while one is runnable the run holds its slot; a branch is
counted parked only over a journaled wait; a coordinator that broke publishes nothing more.

**The run journal**. The log is numbered by position and a handle's counter is its length
(`Inv`); a failed record on disk is what the repair or the next `Recover` counts again.
`RecoveredRunsAgree` follows the phase of the log through the corrective record that `Recover`
may append (`RecoveringPhase`).

**Rolling budgets** (`BudgetInv`). Every charge in memory stands for an admission of its own,
and every admission that no restart can forget has its charge while it counts, with no charge
after it that is more than `MaxWait` older (`Stands`; the pairing is a witness that the
invariant quantifies). That last clause is what `countSince` needs, which stops at the first
old charge it meets from the end: within a window shortened by `MaxWait` it misses none. A
restart rebuilds the pairing from the log: an event is that of an admission, the echo of a
child, or comes after an earlier event of its run (`Caused`), so `Charges` keeps one per
admission; `OwnEvent` gives back the time. A limit is compared by mapping the admissions of a
window one to one into the positions that `countSince` counts.

**Interventions** (`InterventionInv`). The slot, the places in the scheduler and the driver go
with the steps of the requests (`SlotSound`), so one request writes at a time. A request is
bound to the segment of the journal that it read: if nobody ended or resumed the run since,
what it read of its key still holds (`ReadSound`), and a rerun looks again under the slot. The
run side (`RunSound`) says when a place may be retained for an ended run. A marker of the key
comes before whatever is done under it (`JournalSound`), which is why a second delivery that
reads later is a replay.

**The instance journal** (`LogInv`). In every generation, also those rotated away, records are
numbered upwards and triggers stand in the order of their appends (`Ordered`); only the end may
be torn. A compaction selects positions and keeps their order. The reader without a lock has
folded the beginning of one generation, and what it has read and not yet counted goes on from
there (`FoldSound`). `HighestKept` carries `NoSequenceReused`: without retention the current
generation has the highest sequence of all.

`TypeOK` is part of every inductive invariant, so it is proved for every module with proofs
(`LedgerTyped`, `AdmissionTyped` and `WritersHoldTheLock` state it).

What sorts or selects is defined so that it can be reasoned about: the records that a
compaction keeps and the charges that a restart rebuilds are listed by the k-th position of a
finite set (`Nth`), and `Phase` and `Segment` of an intervention look for the last event of a
type with `Max`. No proof needs an induction over data of its own; the facts on finite sets
that they use (a set of numbers has a k-th element, an injection bounds a cardinality) rest on
the cardinality and well-foundedness theorems of the library.

Only model-checked: liveness (`ParkedParentResumes`, `ReleaseCompletes`, `EndedClaimsReturn`,
`Inspected`, `Settled`, `BlockEnds`, `SlotFreed`), since the prover does neither fairness nor
`ENABLED`. Every safety property that a run checks is also proved.

## 11. Not modelled

`PROJECT.json` gives the reason for every part. Scheduler triggers, the instance lock, cloud
leases and fences, the Temporal engine, dispatcher and worker hosts, the live journal plane
and worktree leases are not modelled; gates, run semantics and the workflow compiler are pure
functions over recorded data; harness, providers, credentials, HTTP planes, telemetry and
configuration are I/O or static data to the parts above. What is left out *within* a modelled
part is said in its section.

## 12. Running it

    tlc -workers 2 -config <Config>.cfg MC<Module>
    tlapm <Module>Proofs.tla

| Run | Config | Distinct states |
| --- | --- | --- |
| `claims_shared` | `ClaimsShared` | 117,518 |
| `custody_file` / `custody_plane` | `CustodyFile` / `CustodyPlane` | 160,260 / 275,252 |
| `lifecycle` | `Lifecycle` | 468,617 |
| `admission_slots` / `admission_live` | `AdmissionSlots` / `AdmissionLive` | 686,183 / 4,104 |
| `budget` | `RunBudget` | 778,087 |
| `starts` | `StartQueue` | 185,784 |
| `block` | `ParallelBlock` | 80,705 |
| `interventions` | `Interventions` | 178,079 |
| `journal_recovery` | `JournalRecovery` | 488,366 |
| `instance_log` | `InstanceLog` | 1,350,701 |

Every run finishes within five minutes on two cores. `tlapm` takes between four and fifteen
minutes for a proof module.

Every run passes. The statements that the code does not keep are named in the sections above
and stand at the end of their modules; no run checks them. To see one fail, put it in the
place of the properties of its module's config (`INVARIANTS` for a state formula, `PROPERTIES`
for one with `[]`, without symmetry). Two need other constants: `RetriedStartCharged` needs
`MaxCrashes = 2`, and the plane's `ReleasedStaysReleased` needs both instances in `Instance` and
`Plane`, the three processes in `Proc`, and `Owner = {o1, o2}`.

The operators that `PROJECT.json` lists as `as` under `mutants` are plausible mistakes: put in
the place of the definition `of`, they make TLC report the property listed with them.
