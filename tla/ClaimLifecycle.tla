--------------------------- MODULE ClaimLifecycle ---------------------------
(***************************************************************************)
(* How the daemon keeps the claims of its runs alive and takes back those  *)
(* of runs that are gone.  A lease is short and is renewed as long as its  *)
(* run executes: a renewal pass snapshots the ledger and probes liveness   *)
(* without the claims lock, then renews entry by entry under the lock.  A  *)
(* recovery sweep deletes leases that expired and those of runs that       *)
(* ended; the periodic loop, the claims plane and the stages ask for it.   *)
(*                                                                         *)
(* The daemon may crash.  The registry of runs it drives is then empty     *)
(* while their journals still say running, and the next daemon renews from *)
(* the journals before its recovery gate opens.                            *)
(***************************************************************************)
EXTENDS Integers

CONSTANTS
    Item,        \* backlog items
    Run, NoRun,
    Sweeper,     \* the callers of the recovery sweep: the loop and the plane
    Loop,        \* the periodic loop, which also sweeps at startup
    Lease,       \* DefaultClaimLease
    Budget,      \* a renewal pass completes within Budget of the start of the last
    MaxTime,     \* bound on the clock
    MaxFaults    \* bound on crashes, failed passes and failed releases

\* What the constants are: above all, a pass is quicker than a lease.
Bounds ==
    /\ NoRun \notin Run
    /\ Loop \in Sweeper
    /\ Lease \in Nat /\ Budget \in Nat /\ Budget < Lease
    /\ MaxTime \in Nat /\ MaxFaults \in Nat

ASSUME LifecycleAssumption == Bounds

VARIABLES
    now,
    entries,    \* the claim ledger
    phase,      \* the phase each run's journal reconstructs to
    owner,      \* what the goroutine that owns a run is doing in this process
    daemon,     \* how far startup is
    gate,       \* claimRecoveryGate.renewalRebuilt
    renewal,    \* the renewal pass under way
    lastPass,   \* when the last completed renewal pass began
    sweep,      \* the recovery sweep each caller is in
    evidence,   \* when a run was last tracked, or was granted grace
    faults

vars == <<now, entries, phase, owner, daemon, gate, renewal, lastPass, sweep,
          evidence, faults>>

-----------------------------------------------------------------------------
(* A free item has no run; its times are then 0.                            *)
Entry == [run : Run \cup {NoRun}, at : Nat, until : Nat]
Free == [run |-> NoRun, at |-> 0, until |-> 0]
Expired(e, t) == e.until <= t

(* A live renewal by the same run continues its claim; every other grant    *)
(* begins a new one.                                                        *)
Granted(k, r) ==
    [run |-> r, until |-> now + Lease,
     at |-> IF entries[k].run = r /\ ~Expired(entries[k], now)
            THEN entries[k].at ELSE now]

NoPass == [on |-> FALSE, left |-> {}, began |-> 0]
NoSweep == [step |-> "idle", at |-> 0, terminal |-> {}]

Startup == {"starting", "renewed", "recovered"}
Up == Startup \cup {"resumed", "steady"}

(* The runs a claim must be kept for: those driven by this process, and     *)
(* those that crash resume has still to look at.                            *)
Working == {r \in Run : \/ owner[r] = "driving"
                        \/ daemon \in Startup \cup {"down"} /\ phase[r] = "running"}

Faulty == faults < MaxFaults /\ faults' = faults + 1

-----------------------------------------------------------------------------
(* A run in this process.                                                   *)
StartRun(r) ==
    /\ daemon = "steady" /\ phase[r] = "none"
    /\ phase' = [phase EXCEPT ![r] = "running"]
    /\ owner' = [owner EXCEPT ![r] = "driving"]
    /\ UNCHANGED <<now, entries, daemon, gate, renewal, lastPass, sweep, evidence, faults>>

Claim(r, k) ==
    /\ owner[r] = "driving"
    /\ \/ entries[k].run \in {r, NoRun}
       \/ Expired(entries[k], now)
    /\ entries' = [entries EXCEPT ![k] = Granted(k, r)]
    /\ UNCHANGED <<now, phase, owner, daemon, gate, renewal, lastPass, sweep, evidence,
                   faults>>

Release(r, k) ==
    /\ owner[r] = "driving" /\ entries[k].run = r
    /\ entries' = [entries EXCEPT ![k] = Free]
    /\ UNCHANGED <<now, phase, owner, daemon, gate, renewal, lastPass, sweep, evidence,
                   faults>>

(* The run waits for an operator at a human gate: its journal still says    *)
(* running, but no goroutine drives it.                                     *)
Pause(r) ==
    /\ owner[r] = "driving"
    /\ owner' = [owner EXCEPT ![r] = "none"]
    /\ evidence' = [evidence EXCEPT ![r] = now]
    /\ UNCHANGED <<now, entries, phase, daemon, gate, renewal, lastPass, sweep, faults>>

(* run.finished is appended before the terminal cleanup begins.             *)
Finish(r) ==
    /\ owner[r] = "driving"
    /\ phase' = [phase EXCEPT ![r] = "ended"]
    /\ owner' = [owner EXCEPT ![r] = "finishing"]
    /\ UNCHANGED <<now, entries, daemon, gate, renewal, lastPass, sweep, evidence, faults>>

ReleaseForRun(r) ==
    [k \in Item |-> IF entries[k].run = r THEN Free ELSE entries[k]]

(* The cleanup releases every claim of the run, or times out at the claims  *)
(* lock and leaves them to the sweep.                                       *)
FinalizeTerminal(r) ==
    /\ owner[r] = "finishing"
    /\ owner' = [owner EXCEPT ![r] = "none"]
    /\ \/ entries' = ReleaseForRun(r) /\ UNCHANGED faults
       \/ Faulty /\ UNCHANGED entries
    /\ evidence' = [evidence EXCEPT ![r] = now]
    /\ UNCHANGED <<now, phase, daemon, gate, renewal, lastPass, sweep>>

-----------------------------------------------------------------------------
(* The renewal pass.  A run that is not tracked is not live, except that    *)
(* the pass of a starting daemon also takes a journal that says running,    *)
(* and a journal it could not read, for a live run.                         *)
Holders == {entries[k].run : k \in Item} \ {NoRun}
Tracked == {r \in Run : owner[r] # "none"}
(* A variant that takes a running journal for a live run in every pass.     *)
LiveByJournal(unknown) ==
    {r \in Holders : \/ r \in Tracked
                     \/ phase[r] = "running" \/ (daemon = "starting" /\ r \in unknown)}

LiveHolders(unknown) ==
    {r \in Holders : \/ r \in Tracked
                     \/ daemon = "starting" /\ (phase[r] = "running" \/ r \in unknown)}

BeginRenewal(unknown) ==
    LET live == LiveHolders(unknown) IN
    /\ daemon \in {"starting", "resumed", "steady"}
    /\ ~renewal.on /\ sweep[Loop].step = "idle"
    /\ unknown \subseteq Holders /\ (unknown = {} \/ daemon = "starting")
    /\ renewal' = [on |-> TRUE, began |-> now,
                   left |-> {<<k, entries[k].run, entries[k].at>> :
                                k \in {i \in Item : entries[i].run \in live}}]
    /\ evidence' = IF daemon = "starting"
                   THEN [r \in Run |-> IF r \in live THEN now ELSE evidence[r]]
                   ELSE evidence
    /\ UNCHANGED <<now, entries, phase, owner, daemon, gate, lastPass, sweep, faults>>

(* A variant that trusts the snapshot.                                      *)
MatchingAssumed(k, r, at) == TRUE

(* Only the incarnation of the snapshot is renewed, expired or not.         *)
MatchingEntry(k, r, at) == entries[k].run = r /\ entries[k].at = at

RenewExpected(k, r, at) ==
    /\ <<k, r, at>> \in renewal.left
    /\ entries' = IF MatchingEntry(k, r, at)
                  THEN [entries EXCEPT ![k] = Granted(k, r)]
                  ELSE entries
    /\ renewal' = [renewal EXCEPT !.left = @ \ {<<k, r, at>>}]
    /\ UNCHANGED <<now, phase, owner, daemon, gate, lastPass, sweep, evidence, faults>>

(* Startup refuses to go on after a failed pass.  The periodic pass and the *)
(* one after crash resume are best effort; the loop sweeps after its pass   *)
(* in any case, as of the time its ticker fired.                            *)
AfterPass ==
    /\ renewal' = NoPass
    /\ sweep' = IF daemon = "steady"
                THEN [sweep EXCEPT ![Loop] = [NoSweep EXCEPT !.step = "due", !.at = renewal.began]]
                ELSE sweep

EndRenewal ==
    /\ renewal.on /\ renewal.left = {}
    /\ AfterPass
    /\ gate' = TRUE
    /\ lastPass' = renewal.began
    /\ daemon' = CASE daemon = "starting" -> "renewed"
                   [] daemon = "resumed"  -> "steady"
                   [] OTHER -> daemon
    /\ UNCHANGED <<now, entries, phase, owner, evidence, faults>>

FailRenewal ==
    /\ renewal.on /\ renewal.left # {} /\ daemon # "starting"
    /\ Faulty
    /\ AfterPass
    /\ daemon' = "steady"
    /\ UNCHANGED <<now, entries, phase, owner, gate, lastPass, evidence>>

-----------------------------------------------------------------------------
(* The recovery sweep.  Which holders ended is read without the claims      *)
(* lock.                                                                    *)
Sweep(s, at) ==
    sweep' = [sweep EXCEPT ![s] =
        [step |-> "ready", at |-> at,
         terminal |-> {c \in Item \X Run :
                          entries[c[1]].run = c[2] /\ phase[c[2]] = "ended"}]]

(* A variant without the recovery gate.                                     *)
RecoverUngated(s) ==
    /\ daemon \in Up
    /\ \/ s # Loop /\ sweep[s].step = "idle" /\ Sweep(s, now)
       \/ s = Loop /\ daemon = "renewed" /\ sweep[s].step = "idle" /\ Sweep(s, now)
       \/ s = Loop /\ sweep[s].step = "due" /\ Sweep(s, sweep[s].at)
    /\ UNCHANGED <<now, entries, phase, owner, daemon, gate, renewal, lastPass, evidence,
                   faults>>

Recover(s) ==
    /\ daemon \in Up /\ gate
    /\ \/ s # Loop /\ sweep[s].step = "idle" /\ Sweep(s, now)
       \/ s = Loop /\ daemon = "renewed" /\ sweep[s].step = "idle" /\ Sweep(s, now)
       \/ s = Loop /\ sweep[s].step = "due" /\ Sweep(s, sweep[s].at)
    /\ UNCHANGED <<now, entries, phase, owner, daemon, gate, renewal, lastPass, evidence,
                   faults>>

(* A variant that leaves ended runs to their expiry.                        *)
RecoveredExpiredOnly(s, k) == Expired(entries[k], sweep[s].at)

(* Under the lock: every lease that expired by the time of the sweep, and   *)
(* every lease the snapshot knows for that of an ended run, if that run     *)
(* still holds it and has still ended.                                      *)
Recovered(s, k) ==
    \/ Expired(entries[k], sweep[s].at)
    \/ <<k, entries[k].run>> \in sweep[s].terminal /\ phase[entries[k].run] = "ended"

\* What a failure may leave behind: everything, when the lock timed out or the write
\* of the expired leases failed, else claims of ended runs, released one by one.
LeftBehind(s) ==
    LET recovered == {k \in Item : Recovered(s, k)} IN
    {recovered} \cup SUBSET {k \in recovered : ~Expired(entries[k], sweep[s].at)}

FinishRecover(s) ==
    /\ sweep[s].step = "ready"
    /\ sweep' = [sweep EXCEPT ![s] = NoSweep]
    /\ daemon' = IF s = Loop /\ daemon = "renewed" THEN "recovered" ELSE daemon
    /\ \E left \in LeftBehind(s) :
          /\ entries' = [k \in Item |-> IF Recovered(s, k) /\ k \notin left
                                        THEN Free ELSE entries[k]]
          /\ IF left = {} THEN UNCHANGED faults ELSE Faulty
    /\ UNCHANGED <<now, phase, owner, gate, renewal, lastPass, evidence>>

-----------------------------------------------------------------------------
(* A crash loses what the process knew; the ledger and the journals stay.   *)
Crash ==
    /\ daemon \in Up /\ Faulty
    /\ daemon' = "down"
    /\ owner' = [r \in Run |-> "none"]
    /\ gate' = FALSE
    /\ renewal' = NoPass
    /\ sweep' = [s \in Sweeper |-> NoSweep]
    /\ lastPass' = 0
    /\ evidence' = [r \in Run |-> IF r \in Tracked THEN now ELSE evidence[r]]
    /\ UNCHANGED <<now, entries, phase>>

Boot ==
    /\ daemon = "down"
    /\ daemon' = "starting"
    /\ UNCHANGED <<now, entries, phase, owner, gate, renewal, lastPass, sweep, evidence,
                   faults>>

(* Crash resume drives every run whose journal says running, except those   *)
(* whose workflow is no longer configured; of these it only warns.          *)
ResumeStartupRuns(warned) ==
    /\ daemon = "recovered"
    /\ warned \subseteq {r \in Run : phase[r] = "running"}
    /\ daemon' = "resumed"
    /\ owner' = [r \in Run |-> IF phase[r] = "running" /\ r \notin warned
                               THEN "driving" ELSE "none"]
    /\ evidence' = [r \in Run |-> IF r \in warned THEN now ELSE evidence[r]]
    /\ UNCHANGED <<now, entries, phase, gate, renewal, lastPass, sweep, faults>>

(* The daemon completes each pass within Budget of the start of the one     *)
(* before: the ticker's interval is a sixth of the lease.  The first pass   *)
(* has a budget of its own and may begin any time after a crash.            *)
Tick ==
    /\ now < MaxTime
    /\ daemon \in Up \ {"starting"} => now < lastPass + Budget
    /\ renewal.on => now < renewal.began + Budget
    /\ now' = now + 1
    /\ UNCHANGED <<entries, phase, owner, daemon, gate, renewal, lastPass, sweep, evidence,
                   faults>>

-----------------------------------------------------------------------------
Init ==
    /\ now = 0
    /\ entries = [k \in Item |-> Free]
    /\ phase = [r \in Run |-> "none"]
    /\ owner = [r \in Run |-> "none"]
    /\ daemon = "down"
    /\ gate = FALSE
    /\ renewal = NoPass
    /\ lastPass = 0
    /\ sweep = [s \in Sweeper |-> NoSweep]
    /\ evidence = [r \in Run |-> 0]
    /\ faults = 0

RunNext ==
    \E r \in Run :
        \/ StartRun(r) \/ Pause(r) \/ Finish(r) \/ FinalizeTerminal(r)
        \/ \E k \in Item : Claim(r, k) \/ Release(r, k)

LoopNext ==
    \/ \E unknown \in SUBSET Run : BeginRenewal(unknown)
    \/ \E c \in renewal.left : RenewExpected(c[1], c[2], c[3])
    \/ EndRenewal
    \/ Recover(Loop) \/ FinishRecover(Loop)
    \/ Boot
    \/ \E warned \in SUBSET Run : ResumeStartupRuns(warned)

Next ==
    \/ RunNext \/ LoopNext \/ FailRenewal \/ Crash \/ Tick
    \/ \E s \in Sweeper \ {Loop} : Recover(s) \/ FinishRecover(s)

Spec == Init /\ [][Next]_vars

(* Supervision restarts the daemon, its loop goroutine keeps running, and   *)
(* the cleanup of a run that ended is not blocked forever.                  *)
FairSpec ==
    /\ Spec
    /\ WF_vars(LoopNext)
    /\ \A r \in Run : WF_vars(FinalizeTerminal(r))

-----------------------------------------------------------------------------
\* Every variable has its type.
TypeOK ==
    /\ now \in 0..MaxTime
    /\ entries \in [Item -> Entry]
    /\ phase \in [Run -> {"none", "running", "ended"}]
    /\ owner \in [Run -> {"none", "driving", "finishing"}]
    /\ daemon \in Up \cup {"down"}
    /\ gate \in BOOLEAN
    /\ renewal \in [on : BOOLEAN, began : 0..MaxTime,
                    left : SUBSET (Item \X Run \X (0..MaxTime))]
    /\ lastPass \in 0..MaxTime
    /\ sweep \in [Sweeper -> [step : {"idle", "due", "ready"}, at : 0..MaxTime,
                              terminal : SUBSET (Item \X Run)]]
    /\ evidence \in [Run -> 0..MaxTime]
    /\ faults \in 0..MaxFaults

(* A run that executes, or that crash resume has yet to look at, keeps its  *)
(* claims until it releases them itself: no sweep, no claimant and no       *)
(* restart, however long the daemon was down, takes one away.               *)
WorkingRunKeepsClaim ==
    [][\A k \in Item :
          entries[k].run \in Working /\ entries'[k].run # entries[k].run
          => Release(entries[k].run, k)]_vars

(* Liveness is probed on a snapshot and applied later; a claim that was     *)
(* released or reaped in between is not brought back for a run that ended.  *)
NoResurrection ==
    [][\A k \in Item : \A r \in Run :
          phase[r] = "ended" /\ entries'[k].run = r => entries[k].run = r]_vars

(* A claim outlives its run's last sign of life, or the grace of a startup, *)
(* by one lease and one renewal pass at most, however many passes follow.   *)
AbandonedLeaseBounded ==
    \A k \in Item :
        entries[k].run \in Run \ (Working \cup Tracked)
        => entries[k].until <= evidence[entries[k].run] + Budget + Lease

(* The claims of an ended run are given back even when its own cleanup      *)
(* timed out, sweeps failed or the daemon crashed.                          *)
EndedClaimsReturn ==
    \A k \in Item : \A r \in Run :
        (phase[r] = "ended" /\ entries[k].run = r) ~> (entries[k].run # r)

-----------------------------------------------------------------------------
(* Why the safety properties hold: the inductive invariant.                *)

(* A run is driven only by a daemon that has resumed, as its journal says. *)
RunSound(r) ==
    /\ owner[r] # "none" => daemon \in {"resumed", "steady"}
    /\ owner[r] = "driving" => phase[r] = "running"
    /\ owner[r] = "finishing" => phase[r] = "ended"
    /\ evidence[r] <= now

(* The passes keep to their budget, and no sweep is ahead of the clock or  *)
(* of the gate.                                                            *)
PassSound ==
    /\ gate <=> daemon \in Up \ {"starting"}
    /\ lastPass <= now
    /\ gate => now <= lastPass + Budget
    /\ IF renewal.on
       THEN /\ daemon \in {"starting", "resumed", "steady"}
            /\ renewal.began <= now /\ now <= renewal.began + Budget
       ELSE renewal.left = {}
    /\ \A c \in renewal.left : c[2] \in Tracked \/ evidence[c[2]] >= renewal.began
    /\ \A s \in Sweeper : sweep[s].at <= now /\ (sweep[s].step = "ready" => gate)

(* The claim of a working run was granted since the last pass began, and   *)
(* since the one under way began unless that has still to come to it.      *)
EntrySound(k) ==
    /\ entries[k].run # NoRun => phase[entries[k].run] # "none"
    /\ entries[k].at <= now /\ entries[k].until <= now + Lease
    /\ entries[k].run \in Working =>
          /\ gate => entries[k].until >= lastPass + Lease
          /\ renewal.on => \/ entries[k].until >= renewal.began + Lease
                           \/ <<k, entries[k].run, entries[k].at>> \in renewal.left

(* The inductive invariant of the claims' lifecycle.                       *)
LifecycleInv ==
    /\ TypeOK
    /\ \A r \in Run : RunSound(r)
    /\ PassSound
    /\ \A k \in Item : EntrySound(k)
    /\ AbandonedLeaseBounded
=============================================================================
