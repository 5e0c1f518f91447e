--------------------------- MODULE Interventions ---------------------------
(***************************************************************************)
(* Operator interventions on one run that holds one work item: approve,    *)
(* override, rerun (or retry) a stage, and deny.  A request reads the      *)
(* journal, then takes the run's intervention slot, its place in the       *)
(* scheduler and its claim, records an idempotency marker and resumes the  *)
(* run from the pause or the terminal event it has read.  Beside it run    *)
(* the goroutine that drives the run, its terminal cleanup, the recovery   *)
(* sweep, the terminal cleanup of a restarted daemon, and other runs.      *)
(*                                                                         *)
(* "escalated" stands for the resumable terminal phases (escalated and     *)
(* failed), "completed" for the others.  Requests that are refused for     *)
(* their own content (unknown gate, forbidden actor) change nothing and    *)
(* are left out, and so are runs driven by an external engine.             *)
(***************************************************************************)
EXTENDS Integers, Sequences, FiniteSets, FiniteSetsExt

CONSTANTS
    Request,       \* deliveries; two with one key are a client's retry
    Asked,         \* what may be asked: functions from Request to [action, key]
    NoOne,
    MaxSegments,   \* bound on the ends of a segment the run can be resumed from
    MaxCrashes

Actions == {"approve", "override", "rerun", "deny"}

ASSUME InterventionsAssumption ==
    /\ \A f \in Asked : /\ DOMAIN f = Request
                        /\ \A q \in Request :
                              f[q].action \in Actions
    /\ Request \cap {NoOne, "start", "restored"} = {}
    /\ NoOne \notin {"start", "restored", "run", "other"}
    /\ MaxSegments \in Nat /\ MaxCrashes \in Nat

VARIABLES
    journal,     \* the run's events
    driver,      \* who drives the run and so holds the run directory lock
    finalizing,  \* the driver has appended run.finished and cleans up
    holder,      \* who holds the item: "run", "other" or NoOne
    slot,        \* the active intervention
    op,          \* how far each request is
    owners,      \* the owners of the run's place in the scheduler
    retained,    \* the place is kept between interventions
    unread,      \* history: it was kept by one that could not read the phase
    sweep,       \* the recovery sweep has seen the claim of a terminal run
    cleanup,     \* a restarted daemon has the run on its cleanup queue
    asked,       \* what each request asks for, and its idempotency key
    crashes

vars == <<journal, driver, finalizing, holder, slot, op, owners, retained, unread,
          sweep, cleanup, asked, crashes>>

-----------------------------------------------------------------------------
(* The journal.  Annotations leave the phase as it is.                      *)
Ends == {"escalated", "completed"}
Stops == Ends \cup {"paused"}
Resumption == {"resumed", "evaluated"}
Event(type, action, key) == [type |-> type, action |-> action, key |-> key]
Plain(type) == Event(type, "none", NoOne)
Annotation == {"marker", "denied"}

\* The index of the last event of one of the types, or 0.
LastOf(events, types) == Max({0} \cup {i \in DOMAIN events : events[i].type \in types})

\* Reader.Phase, with the pause at a gate told apart from running.
Phase(events) ==
    LET type == events[LastOf(events, Stops \cup Resumption \cup {"started"})].type
    IN IF type \in Stops THEN type ELSE "running"

Terminal == Phase(journal) \in Ends

\* latestTerminalSequence and unresolvedGatePause: what a request is bound to.
Segment(events) == LastOf(events, Stops)

\* interventionCompleted.
Completed(action, e) ==
    \/ e.type = "resumed" /\ e.action = action
    \/ e.type = "evaluated" /\ action = "approve"

Markers(events, q) ==
    {i \in DOMAIN events : events[i].type = "marker" /\ events[i].key = asked[q].key}

(* replayIntervention: the key was first used for another intervention, or  *)
(* for this one and it was carried out.                                     *)
Replayed(events, q) ==
    LET m == Min(Markers(events, q)) IN
    /\ Markers(events, q) # {}
    /\ \/ events[m].action # asked[q].action
       \/ \E i \in (m + 1) .. Len(events) : Completed(asked[q].action, events[i])

\* scanEscalationResolution.
Denied(events, q) ==
    \E i \in DOMAIN events : events[i].type = "denied" /\ events[i].key = asked[q].key

-----------------------------------------------------------------------------
(* A request.  seen is the length of the journal it has read.               *)
NewOp == [step |-> "idle", seen |-> 0, err |-> "none"]
Step(q, step) == op' = [op EXCEPT ![q].step = step]
\* The request is answered, or died with the daemon, and forgotten.
Gone == [NewOp EXCEPT !.step = "done"]
Done(q) == op' = [op EXCEPT ![q] = Gone]
Seen(q) == SubSeq(journal, 1, op[q].seen)

Resumable(q, phase) ==
    IF asked[q].action = "approve" THEN phase \in {"escalated", "paused"}
                             ELSE phase = "escalated"

Resolve(q) ==
    /\ op[q].step = "idle"
    /\ IF \/ IF asked[q].action = "deny" THEN Denied(journal, q) ELSE Replayed(journal, q)
          \/ ~Resumable(q, Phase(journal))
       THEN Done(q)
       ELSE op' = [op EXCEPT ![q].step = "resolved", ![q].seen = Len(journal)]
    /\ UNCHANGED <<journal, driver, finalizing, holder, slot, owners, retained, unread,
                   sweep, cleanup, asked, crashes>>

(* The end of an attempt that never resumed the run: Close.                 *)
Abandon(q) ==
    /\ slot' = NoOne
    /\ owners' = owners \ {q}
    /\ Done(q)

(* beginExecution, up to the claims: the slot, the runner registry and the  *)
(* scheduler, each of which may refuse.  A run restored by a restart has no *)
(* second owner.                                                            *)
BeginExecution(q) ==
    /\ op[q].step = "resolved" /\ asked[q].action # "deny"
    /\ \/ /\ slot = NoOne /\ "restored" \notin owners
          /\ slot' = q
          /\ owners' = owners \cup {q}
          /\ Step(q, "begun")
       \/ Done(q) /\ UNCHANGED <<slot, owners>>
    /\ UNCHANGED <<journal, driver, finalizing, holder, retained, unread, sweep,
                   cleanup, asked, crashes>>

\* recheckRerunAcceptance, under the slot.
RecheckRerun(q) ==
    /\ op[q].step = "begun" /\ asked[q].action = "rerun"
    /\ IF \/ Replayed(journal, q)
          \/ Phase(journal) # "escalated"
          \/ Segment(journal) # Segment(Seen(q))
       THEN Abandon(q)
       ELSE Step(q, "rechecked") /\ UNCHANGED <<slot, owners>>
    /\ UNCHANGED <<journal, driver, finalizing, holder, retained, unread, sweep,
                   cleanup, asked, crashes>>

(* reacquireClaims: History and ReclaimAll under the claims lock, which may *)
(* time out.                                                                *)
ReacquireClaims(q) ==
    /\ op[q].step = IF asked[q].action = "rerun" THEN "rechecked" ELSE "begun"
    /\ asked[q].action # "deny"
    /\ \/ /\ holder \in {"run", NoOne}
          /\ holder' = "run"
          /\ Step(q, "claimed")
          /\ UNCHANGED <<slot, owners>>
       \/ Abandon(q) /\ UNCHANGED holder
    /\ UNCHANGED <<journal, driver, finalizing, retained, unread, sweep, cleanup, asked, crashes>>

Released == IF holder = "run" THEN NoOne ELSE holder

\* Mutant of GiveUp: an early return that forgets Close.
GiveUpUnclosed(q) ==
    /\ op[q].step = "claimed"
    /\ Done(q)
    /\ UNCHANGED <<journal, driver, finalizing, holder, slot, owners, retained, unread,
                   sweep, cleanup, asked, crashes>>

(* The request budget ran out or the marker could not be written.  Only a   *)
(* rerun gives its claims back at once; the others are left to the sweep.   *)
GiveUp(q) ==
    /\ op[q].step = "claimed"
    /\ Abandon(q)
    /\ holder' = IF asked[q].action = "rerun" THEN Released ELSE holder
    /\ UNCHANGED <<journal, driver, finalizing, retained, unread, sweep, cleanup, asked, crashes>>

(* recordInterventionMarker.  The key is looked up in the events read       *)
(* before; to append, journal.Recover waits for the run directory lock.     *)
RecordMarker(q) ==
    /\ op[q].step = "claimed"
    /\ \/ Markers(Seen(q), q) # {} /\ UNCHANGED journal
       \/ /\ Markers(Seen(q), q) = {} /\ driver = NoOne
          /\ journal' = Append(journal, Event("marker", asked[q].action, asked[q].key))
    /\ Step(q, "marked")
    /\ UNCHANGED <<driver, finalizing, holder, slot, owners, retained, unread, sweep,
                   cleanup, asked, crashes>>

\* Mutant of Bound: the generation the request has read is not compared.
BoundToPhase(q) == Phase(journal) = Phase(Seen(q))

(* validateTerminalGeneration, and the pause a human decision is bound to.  *)
Bound(q) ==
    /\ Phase(journal) = Phase(Seen(q))
    /\ Segment(journal) = Segment(Seen(q))

Resumes(q) ==
    /\ journal' = Append(journal,
           Event(IF Phase(journal) = "paused" THEN "evaluated" ELSE "resumed",
                 asked[q].action, asked[q].key))
    /\ driver' = q
    /\ Step(q, "running")
    /\ UNCHANGED holder

\* The runner is back with an error.
Fails(q, err) == op' = [op EXCEPT ![q].step = "returned", ![q].err = err]

(* A resume from a pause that finds the run ended runs the terminal cleanup *)
(* again and reports the phase with its error.  Every other refusal, of a   *)
(* changed generation or of anything else, reports no phase.                *)
ResumeRefused(q) ==
    /\ \/ Phase(Seen(q)) = "paused" /\ Terminal /\ Fails(q, "failed") /\ holder' = Released
       \/ Fails(q, "unreported") /\ UNCHANGED holder
       \/ /\ Phase(Seen(q)) = "escalated" /\ Phase(journal) = "escalated" /\ ~Bound(q)
          /\ Fails(q, "generation") /\ UNCHANGED holder
    /\ UNCHANGED <<journal, driver>>

\* Runner.ResumeFromTerminal, Runner.RerunStage, or Runner.Resume of a pause.
ResumeRun(q) ==
    /\ op[q].step = "marked" /\ driver = NoOne
    /\ (Bound(q) /\ Resumes(q)) \/ ResumeRefused(q)
    /\ UNCHANGED <<finalizing, slot, owners, retained, unread, sweep, cleanup, asked, crashes>>

\* Mutant of FinishExecution: the retained place is not given up.
FinishRetained(q) ==
    /\ op[q].step = "returned"
    /\ retained' = (retained \/ ~Terminal)
    /\ unread' = FALSE
    /\ holder' = IF Terminal /\ op[q].err # "none" THEN Released ELSE holder
    /\ Abandon(q)
    /\ UNCHANGED <<journal, driver, finalizing, sweep, cleanup, asked, crashes>>

\* The phase is reported, or read: one that has not ended keeps its place.
PhaseKnown(q) ==
    /\ retained' = IF Terminal THEN retained /\ op[q].err = "generation" ELSE TRUE
    /\ unread' = (unread /\ Terminal /\ op[q].err = "generation")
    /\ holder' = IF Terminal /\ op[q].err # "none" THEN Released ELSE holder

\* The runner reported none and it cannot be read: the place is kept.
PhaseUnread(q) ==
    /\ op[q].err \in {"generation", "unreported"}
    /\ retained' = TRUE /\ unread' = TRUE
    /\ UNCHANGED holder

\* finishExecution after the runner returned, and Close.
FinishExecution(q) ==
    /\ op[q].step = "returned"
    /\ PhaseKnown(q) \/ PhaseUnread(q)
    /\ Abandon(q)
    /\ UNCHANGED <<journal, driver, finalizing, sweep, cleanup, asked, crashes>>

-----------------------------------------------------------------------------
(* Deny: the slot, then the journal is scanned again and written.           *)
BeginDeny(q) ==
    /\ op[q].step = "resolved" /\ asked[q].action = "deny"
    /\ IF slot = NoOne THEN slot' = q /\ Step(q, "begun")
                       ELSE slot' = slot /\ Done(q)
    /\ UNCHANGED <<journal, driver, finalizing, holder, owners, retained, unread, sweep,
                   cleanup, asked, crashes>>

(* The denial is there already, or the journal cannot be written, or it is  *)
(* appended.                                                                *)
DenyEscalation(q) ==
    /\ op[q].step = "begun" /\ asked[q].action = "deny"
    /\ \/ UNCHANGED journal
       \/ /\ ~Denied(journal, q) /\ driver = NoOne
          /\ journal' = Append(journal, Event("denied", "deny", asked[q].key))
    /\ Abandon(q)
    /\ UNCHANGED <<driver, finalizing, holder, retained, unread, sweep, cleanup, asked, crashes>>

-----------------------------------------------------------------------------
(* The goroutine that drives the run.                                       *)
Segments == Cardinality({i \in DOMAIN journal : journal[i].type \in {"escalated", "paused"}})
Driving == driver # NoOne /\ ~finalizing

\* The driver returns to its caller, which gives up its place.
DriverReturns(err) ==
    /\ driver' = NoOne
    /\ finalizing' = FALSE
    /\ op' = IF driver \in Request
             THEN [op EXCEPT ![driver].step = "returned", ![driver].err = err]
             ELSE op
    /\ owners' = IF driver \in Request THEN owners ELSE owners \ {driver}

Pause ==
    /\ Driving /\ Segments < MaxSegments
    /\ journal' = Append(journal, Plain("paused"))
    /\ DriverReturns("none")
    /\ UNCHANGED <<holder, slot, retained, unread, sweep, cleanup, asked, crashes>>

(* A workspace, a read or an append fails: the run is left running, and     *)
(* nobody drives it until the daemon is restarted.                          *)
DriverFails ==
    /\ Driving
    /\ DriverReturns("unreported")
    /\ UNCHANGED <<journal, holder, slot, retained, unread, sweep, cleanup, asked, crashes>>

Finish(end) ==
    /\ Driving
    /\ end = "escalated" => Segments < MaxSegments
    /\ journal' = Append(journal, Plain(end))
    /\ finalizing' = TRUE
    /\ UNCHANGED <<driver, holder, slot, op, owners, retained, unread, sweep, cleanup,
                   asked, crashes>>

(* FinalizeTerminal releases every claim of the run, or fails and leaves    *)
(* them to the sweep; it is not reached, and no phase reported, when the    *)
(* append failed with its record on the disk.  The journal is closed after  *)
(* it.                                                                      *)
FinalizeTerminal ==
    /\ finalizing
    /\ \/ holder' = Released /\ DriverReturns("none")
       \/ holder' = holder /\ \E err \in {"failed", "unreported"} : DriverReturns(err)
    /\ UNCHANGED <<journal, slot, retained, unread, sweep, cleanup, asked, crashes>>

-----------------------------------------------------------------------------
(* The rest of the daemon.                                                  *)
SweepRead ==
    /\ ~sweep /\ holder = "run" /\ Terminal
    /\ sweep' = TRUE
    /\ UNCHANGED <<journal, driver, finalizing, holder, slot, op, owners, retained, unread,
                   cleanup, asked, crashes>>

\* Mutant of Swept: the sweep does not ask for interventions.
SweptAlways == Terminal

(* Under the claims lock an active intervention is asked for, and the phase *)
(* is read again.                                                           *)
Swept == slot = NoOne /\ Terminal

SweepRelease ==
    /\ sweep
    /\ sweep' = FALSE
    /\ holder' = IF Swept THEN Released ELSE holder
    /\ UNCHANGED <<journal, driver, finalizing, slot, op, owners, retained, unread,
                   cleanup, asked, crashes>>

(* startupTerminalFinalizer: runs that were terminal when the daemon        *)
(* started, in the background and once each.                                *)
StartupFinalize ==
    /\ cleanup
    /\ cleanup' = FALSE
    /\ holder' = Released
    /\ UNCHANGED <<journal, driver, finalizing, slot, op, owners, retained, unread, sweep, asked,
                   crashes>>

(* The lease of a run that nobody drives runs out, and other runs take and  *)
(* release the item.  That the lease ReclaimAll has renewed outlasts the    *)
(* intervention, or is renewed by its driver, is assumed.                   *)
OtherRuns ==
    /\ \/ holder = "run" /\ driver = NoOne /\ slot = NoOne /\ holder' = NoOne
       \/ holder = NoOne /\ holder' = "other"
       \/ holder = "other" /\ holder' = NoOne
    /\ UNCHANGED <<journal, driver, finalizing, slot, op, owners, retained, unread, sweep,
                   cleanup, asked, crashes>>

(* A crash and the restart: a run that was running is driven again, one     *)
(* that had ended is queued for cleanup, one that waits at a gate is left.  *)
Restart ==
    /\ crashes < MaxCrashes
    /\ crashes' = crashes + 1
    /\ driver' = IF Phase(journal) = "running" THEN "restored" ELSE NoOne
    /\ owners' = IF Phase(journal) = "running" THEN {"restored"} ELSE {}
    /\ retained' = FALSE /\ unread' = FALSE
    /\ finalizing' = FALSE
    /\ slot' = NoOne
    /\ sweep' = FALSE
    /\ cleanup' = Terminal
    /\ op' = [q \in Request |-> IF op[q].step = "idle" THEN op[q]
                                ELSE Gone]
    /\ UNCHANGED <<journal, holder, asked>>

-----------------------------------------------------------------------------
Init ==
    /\ asked \in Asked
    /\ journal = <<Plain("started")>>
    /\ driver = "start" /\ owners = {"start"}
    /\ retained = FALSE /\ unread = FALSE
    /\ finalizing = FALSE
    /\ holder = "run"
    /\ slot = NoOne
    /\ op = [q \in Request |-> NewOp]
    /\ sweep = FALSE /\ cleanup = FALSE
    /\ crashes = 0

RequestNext(q) ==
    \/ BeginExecution(q) \/ RecheckRerun(q) \/ ReacquireClaims(q) \/ GiveUp(q)
    \/ RecordMarker(q) \/ ResumeRun(q) \/ FinishExecution(q)
    \/ BeginDeny(q) \/ DenyEscalation(q)

DriverNext == Pause \/ DriverFails \/ FinalizeTerminal \/ \E end \in Ends : Finish(end)

Next ==
    \/ \E q \in Request : Resolve(q) \/ RequestNext(q)
    \/ DriverNext
    \/ SweepRead \/ SweepRelease \/ StartupFinalize \/ OtherRuns
    \/ Restart

Spec == Init /\ [][Next]_vars

(* Requests and the driver of the run go on until they return.              *)
FairSpec ==
    /\ Spec
    /\ \A q \in Request : WF_vars(RequestNext(q))
    /\ WF_vars(DriverNext)

-----------------------------------------------------------------------------
\* The keys that are used; events of the run itself have none.
Keys == {f[q].key : f \in Asked, q \in Request} \cup {NoOne}

\* Every variable has its type.
TypeOK ==
    /\ journal \in Seq([type : Stops \cup Annotation \cup Resumption \cup {"started"},
                       action : Actions \cup {"none"}, key : Keys])
    /\ driver \in Request \cup {"start", "restored", NoOne}
    /\ finalizing \in BOOLEAN
    /\ holder \in {"run", "other", NoOne}
    /\ slot \in Request \cup {NoOne}
    /\ op \in [Request -> [step : {"idle", "resolved", "begun", "rechecked", "claimed",
                                   "marked", "running", "returned", "done"},
                           seen : Nat, err : {"none", "failed", "generation", "unreported"}]]
    /\ owners \subseteq Request \cup {"start", "restored"}
    /\ retained \in BOOLEAN /\ unread \in BOOLEAN
    /\ sweep \in BOOLEAN /\ cleanup \in BOOLEAN
    /\ asked \in Asked /\ crashes \in 0 .. MaxCrashes

(* An intervention, that is what is asked for under one idempotency key,    *)
(* resumes the run at most once, although its request is delivered twice,   *)
(* resolved before another intervention and carried out after it, or        *)
(* repeated after a crash between the marker and the resume.  A key that is *)
(* used for two different interventions may resume the run for both: the    *)
(* snapshot of the second can be older than the marker of the first.        *)
ResumedOncePerKey ==
    \A i, j \in DOMAIN journal :
        /\ journal[i].type \in Resumption /\ journal[j].type \in Resumption
        /\ journal[i].key = journal[j].key /\ journal[i].action = journal[j].action
        => i = j

(* A rerun is accepted once: its key is not marked for it again once a      *)
(* rerun was carried out, however stale the resolution of a second delivery *)
(* is (recheckRerunAcceptance).                                             *)
RerunAcceptedOnce ==
    \A i, j, k \in DOMAIN journal :
        /\ i < j /\ j < k
        /\ journal[i].type = "marker" /\ journal[i].action = "rerun"
        /\ journal[k].type = "marker" /\ journal[k].action = "rerun"
        /\ journal[k].key = journal[i].key
        => ~Completed("rerun", journal[j])

(* A denial is recorded once per key: the scan before the slot may be       *)
(* stale, the one under it decides (denyEscalation).                        *)
DeniedOncePerKey ==
    \A i, j \in DOMAIN journal :
        /\ journal[i].type = "denied" /\ journal[j].type = "denied"
        /\ journal[i].key = journal[j].key
        => i = j

(* What is asked for under an idempotency key is done once, however often   *)
(* its request is delivered (internal/intervention/service.go).             *)
ActsOncePerKey == ResumedOncePerKey /\ RerunAcceptedOnce /\ DeniedOncePerKey

(* An intervention that has the claim does not lose it to the sweep, which  *)
(* may have seen the claim before it: only to terminal cleanup and to its   *)
(* own failure (Service.Active).                                            *)
InterventionKeepsClaim ==
    [][/\ slot # NoOne /\ holder = "run" /\ holder' # "run"
       /\ op[slot].step \in {"claimed", "marked", "running"}
       => FinalizeTerminal \/ StartupFinalize \/ GiveUp(slot) \/ ResumeRun(slot)
          \/ Restart]_vars

(* A driven run has a place in the scheduler.  An ended run that nobody     *)
(* drives and no intervention is active on has no owner of its place, and   *)
(* the place is retained in one case only: the last intervention that       *)
(* decided on it could not read the phase (finishExecution).  It is then    *)
(* leaked until a later intervention reads the phase or the daemon is       *)
(* restarted; no pause, failure or overtaking does it otherwise.            *)
PlaceFollowsRun ==
    /\ driver # NoOne => driver \in owners
    /\ Terminal /\ driver = NoOne /\ slot = NoOne =>
          owners = {} /\ (retained => unread)

(* An intervention that was accepted ends and frees the slot: it waits for  *)
(* a driver that ends, and no two wait for each other.                      *)
SlotFreed == slot # NoOne ~> slot = NoOne

-----------------------------------------------------------------------------
(* Statements of the code's comments and docs that it does not keep.        *)

(* A run that an intervention drives holds its item.                        *)
ResumedRunHoldsItsClaim ==
    driver \in Request /\ ~finalizing => holder = "run"

(* A denial is recorded of a run that has ended and stays so: the escalation *)
(* the operator has reviewed is still the one the run is in.                 *)
DenialOfCurrentEscalation ==
    [][\A q \in Request :
          DenyEscalation(q) /\ journal' # journal
          => Segment(journal) = Segment(Seen(q)) /\ Phase(journal) = "escalated"]_vars
-----------------------------------------------------------------------------
(* What makes it so: the inductive invariant.                               *)

Active == {"begun", "rechecked", "claimed", "marked", "running", "returned"}
Pending == {"resolved", "begun", "rechecked", "claimed", "marked"}

(* The slot, the places in the scheduler and the driver go with the steps   *)
(* of the requests.                                                         *)
SlotSound(q) ==
    /\ op[q].step \in Active => slot = q
    /\ slot = q => op[q].step \in Active
    /\ q \in owners => op[q].step \in Active
    /\ op[q].step \in Active /\ asked[q].action # "deny" => q \in owners
    /\ op[q].step \in Active \ {"begun"} => asked[q].action # "deny"
    /\ op[q].step = "running" => driver = q
    /\ driver = q => op[q].step = "running"
    /\ op[q].step = "returned" => driver = NoOne

(* The journal of a driven run says so until it ends, and a place is        *)
(* retained for a run that has ended only while its intervention has still  *)
(* to give it up, or because its phase could not be read.                   *)
RunSound ==
    /\ \A s \in {"start", "restored"} : s \in owners <=> driver = s
    /\ finalizing => driver # NoOne /\ Terminal
    /\ driver # NoOne /\ ~finalizing => Phase(journal) = "running"
    /\ retained => driver \notin {"start", "restored"}
    /\ retained /\ Terminal /\ ~unread =>
          /\ slot \in Request
          /\ \/ op[slot].step = "running"
             \/ op[slot].step = "returned" /\ op[slot].err # "generation"

(* What a request has read is still there, and had no trace of its being    *)
(* carried out; a rerun that was rechecked is still not carried out.        *)
ReadSound(q) ==
    /\ op[q].step \in Pending =>
          /\ op[q].seen \in 1 .. Len(journal)
          /\ Resumable(q, Phase(Seen(q)))
          /\ asked[q].action # "deny" =>
                \A i \in 1 .. op[q].seen :
                   ~ (/\ journal[i].type \in Resumption
                      /\ journal[i].key = asked[q].key /\ journal[i].action = asked[q].action)
    /\ op[q].step = "marked" => Markers(journal, q) # {}
    /\ op[q].step \in {"rechecked", "claimed"} /\ asked[q].action = "rerun"
          => ~Replayed(journal, q)

(* The journal begins with the start, and a marker of the key comes before  *)
(* what is done under it.                                                   *)
JournalSound ==
    /\ journal # <<>> /\ journal[1].type = "started"
    /\ \A i \in DOMAIN journal :
          /\ journal[i].type = "evaluated" => journal[i].action = "approve"
          /\ journal[i].type \in Resumption =>
                \E m \in 1 .. (i - 1) :
                   journal[m].type = "marker" /\ journal[m].key = journal[i].key

InterventionInv ==
    /\ TypeOK
    /\ \A q \in Request : SlotSound(q) /\ ReadSound(q)
    /\ RunSound
    /\ JournalSound
    /\ ActsOncePerKey
=============================================================================
