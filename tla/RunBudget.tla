------------------------------ MODULE RunBudget ------------------------------
(***************************************************************************)
(* The rolling run budgets of one workflow (internal/localscheduler:       *)
(* Conditions.admitProviderWorkflow, dispatch, ReserveChild and the        *)
(* reconstruction of the window after a restart).                          *)
(*                                                                         *)
(* Admissions append to `starts', in memory.  A run.started event goes to  *)
(* the instance log: best effort for an ordinary dispatch, required for a  *)
(* generated child.  A restart rebuilds `starts' from the log, keeping the *)
(* first event of each admission after the operator's reset marker.        *)
(*                                                                         *)
(* Every caller reads the clock BEFORE it waits for the scheduler's lock,  *)
(* so the time it charges may be up to MaxWait old when it is appended.    *)
(***************************************************************************)
EXTENDS Integers, Sequences, FiniteSets, FiniteSetsExt

CONSTANTS Run,           \* ordinary runs (IDs reserved by the start queue)
          Child,         \* generated children, charged to this workflow
          Caller,        \* tick, drain, signal and child-launch goroutines
          SpecHour,      \* the workflow's maxRunsPerHour
          SpecDay,       \* the workflow's maxRunsPerDay; 0 is no daily cap
          OverrideHour,  \* runConditions.workflowBudgets, NoOverride if absent
          OverrideDay,   \* runConditions.workflowDailyBudgets
          Hour, Day,     \* budgetWindow and dayWindow
          MaxWait,       \* longest wait between reading the clock and the lock
          MaxTime, MaxCrashes, MaxLost

NoOverride == -1
NoTime == -1

ASSUME RunBudgetAssumption ==
    /\ Run \cap Child = {}
    /\ SpecDay \in Nat /\ {SpecHour, OverrideHour, OverrideDay} \subseteq Nat \cup {NoOverride}
    /\ Hour \in Nat /\ Day \in Nat /\ Hour <= Day
    /\ {MaxWait, MaxTime, MaxCrashes, MaxLost} \subseteq Nat /\ MaxWait <= Hour

VARIABLES
    clock,     \* the wall clock
    starts,    \* Conditions.starts of the workflow
    log,       \* the run.started events of the instance log
    marker,    \* the rate-reset file
    floor,     \* the marker the current process applied when it started
    seen,      \* the time each waiting caller read
    run,       \* how far each run got
    admitted,  \* every admission so far, in lock order
    crashes, lost

vars == <<clock, starts, log, marker, floor, seen, run, admitted, crashes, lost>>

Runs == Run \cup Child

Times == 0 .. MaxTime \cup {NoTime}

Events == [run : Runs, at : 0 .. MaxTime, attempt : Nat]

Admissions ==
    [run : Runs, at : 0 .. MaxTime, dated : 0 .. MaxTime, forced : BOOLEAN, first : BOOLEAN,
     event : Nat, started : BOOLEAN, floor : Times, epoch : Nat]

\* Every variable has its type.
TypeOK ==
    /\ clock \in 0 .. MaxTime
    /\ starts \in Seq(0 .. MaxTime)
    /\ log \in Seq(Events)
    /\ marker \in Times /\ floor \in Times
    /\ seen \in [Caller -> Times]
    /\ run \in [Runs -> {"new", "launched", "unstarted", "published"}]
    /\ admitted \in Seq(Admissions)
    /\ crashes \in 0 .. MaxCrashes /\ lost \in 0 .. MaxLost

-----------------------------------------------------------------------------
(* Limits and windows. *)

HourLimit ==
    IF OverrideHour > 0 THEN OverrideHour
    ELSE IF SpecHour <= 0 THEN 10 ELSE SpecHour

DayLimit == IF OverrideDay > 0 THEN OverrideDay ELSE SpecDay

Stopped == OverrideHour = 0 \/ OverrideDay = 0

\* Drops the prefix older than the cutoff: the loop stops at the first start
\* that is not, whatever follows it.
PruneStarts(s, now, window) ==
    SubSeq(s, Min({i \in DOMAIN s : s[i] >= now - window} \cup {Len(s) + 1}), Len(s))

\* Counts back from the end and stops at the first start older than the cutoff.
CountSince(s, cutoff) ==
    Len(s) - Max({i \in DOMAIN s : s[i] < cutoff} \cup {0})

Refused(now, forced) ==
    LET recent == PruneStarts(starts, now, Day) IN
    \/ Stopped
    \/ ~forced /\ CountSince(recent, now - Hour) >= HourLimit
    \/ ~forced /\ DayLimit > 0 /\ Len(recent) >= DayLimit

Charged(now) == Append(PruneStarts(starts, now, Day), now)

-----------------------------------------------------------------------------
(* The instance log and what a restart makes of it. *)

IsChild(r, events) == \E i \in DOMAIN events : events[i].run = r /\ events[i].attempt > 0

\* Mutant: every event charges, as if echoes were admissions.
ChargesEchoes(events, i) == IsChild(events[i].run, events) => events[i].attempt > 0

\* An event of a child without an attempt is its driver's echo; any other event
\* charges unless an earlier one has the same run (or the same attempt).
Charges(events, i) ==
    /\ IsChild(events[i].run, events) => events[i].attempt > 0
    /\ ~\E j \in 1 .. i - 1 : /\ events[j].run = events[i].run
                              /\ events[j].attempt = events[i].attempt

\* The k-th smallest of a finite set of numbers.
Nth(S, k) == CHOOSE i \in S : Cardinality({j \in S : j <= i}) = k

Charging(events, cutoff) ==
    {i \in DOMAIN events : Charges(events, i) /\ events[i].at > cutoff}

ReconstructBudgetStarts(events, cutoff) ==
    LET kept == Charging(events, cutoff)
    IN  [k \in 1 .. Cardinality(kept) |-> events[Nth(kept, k)].at]

Event(r, at, attempt) == [run |-> r, at |-> at, attempt |-> attempt]

\* What is remembered of an admission: `event' is its place in the log, or 0 if
\* its event was lost.
Admission(r, dated, forced, logged, started) ==
    [run |-> r, at |-> clock, dated |-> dated, forced |-> forced,
     event |-> IF logged THEN Len(log) + 1 ELSE 0,
     started |-> started, first |-> ~\E i \in DOMAIN log : log[i].run = r /\ r \in Run,
     floor |-> floor, epoch |-> crashes]

-----------------------------------------------------------------------------
(* Steps. *)

\* s.now() (or the drain's s.Now()) before Tick, Signal, TriggerPreparedOrdinary
\* or ReserveChild takes its lock.
ReadClock(c) ==
    /\ seen[c] = NoTime
    /\ seen' = [seen EXCEPT ![c] = clock]
    /\ UNCHANGED <<clock, starts, log, marker, floor, run, admitted, crashes, lost>>

\* dispatch: the admission, the best-effort run.started and the launch.
Dispatch(c, r, forced, logged) ==
    /\ seen[c] # NoTime /\ run[r] \in {"new", "unstarted"}
    /\ ~Refused(seen[c], forced)
    /\ logged \/ lost < MaxLost
    /\ starts' = Charged(seen[c])
    /\ log' = IF logged THEN Append(log, Event(r, clock, 0)) ELSE log
    /\ lost' = IF logged THEN lost ELSE lost + 1
    /\ run' = [run EXCEPT ![r] = "launched"]
    /\ admitted' = Append(admitted, Admission(r, clock, forced, logged, TRUE))
    /\ seen' = [seen EXCEPT ![c] = NoTime]
    /\ UNCHANGED <<clock, marker, floor, crashes>>

\* ReserveChild: a failed append gives the slot back; the charge stays.
ReserveChild(c, r, logged) ==
    /\ seen[c] # NoTime /\ run[r] \in {"new", "unstarted"}
    /\ ~Refused(seen[c], FALSE)
    /\ logged \/ lost < MaxLost
    /\ starts' = Charged(seen[c])
    /\ log' = IF logged THEN Append(log, Event(r, seen[c], Len(log) + 1)) ELSE log
    /\ lost' = IF logged THEN lost ELSE lost + 1
    /\ run' = IF logged THEN [run EXCEPT ![r] = "launched"] ELSE run
    /\ admitted' = Append(admitted, Admission(r, seen[c], FALSE, logged, logged))
    /\ seen' = [seen EXCEPT ![c] = NoTime]
    /\ UNCHANGED <<clock, marker, floor, crashes>>

\* A refusal keeps what it pruned.
Refuse(c) ==
    /\ seen[c] # NoTime /\ Refused(seen[c], FALSE)
    /\ starts' = IF Stopped THEN starts ELSE PruneStarts(starts, seen[c], Day)
    /\ seen' = [seen EXCEPT ![c] = NoTime]
    /\ UNCHANGED <<clock, log, marker, floor, run, admitted, crashes, lost>>

\* The starter publishes the run's journal; an engine-driven run also echoes
\* run.started to the instance log.  Only a later restart tells the difference.
Publish(r, echo) ==
    /\ run[r] = "launched" /\ crashes < MaxCrashes
    /\ run' = [run EXCEPT ![r] = "published"]
    /\ log' = IF echo THEN Append(log, Event(r, clock, 0)) ELSE log
    /\ UNCHANGED <<clock, starts, marker, floor, seen, admitted, crashes, lost>>

\* A child launch that fails after its reservation is retried.
LaunchFails(r) ==
    /\ r \in Child /\ run[r] = "launched"
    /\ run' = [run EXCEPT ![r] = "unstarted"]
    /\ UNCHANGED <<clock, starts, log, marker, floor, seen, admitted, crashes, lost>>

\* goobers reset-rate-limit; read when the scheduler next starts.  A behaviour
\* has at most one, and one that a restart may still read.
WriteRateReset ==
    /\ marker = NoTime /\ crashes < MaxCrashes
    /\ marker' = clock
    /\ UNCHANGED <<clock, starts, log, floor, seen, run, admitted, crashes, lost>>

\* Mutant: the history is rebuilt over the hourly window only.
RestartHourly ==
    /\ crashes < MaxCrashes
    /\ crashes' = crashes + 1
    /\ floor' = marker
    /\ starts' = ReconstructBudgetStarts(log, Max({clock - Hour, marker}))
    /\ run' = [r \in Runs |-> IF run[r] = "launched" THEN "unstarted" ELSE run[r]]
    /\ seen' = [c \in Caller |-> NoTime]
    /\ UNCHANGED <<clock, log, marker, admitted, lost>>

\* reconcileDurableState.  A launch without a journal is retried under its ID.
Restart ==
    /\ crashes < MaxCrashes
    /\ crashes' = crashes + 1
    /\ floor' = marker
    /\ starts' = ReconstructBudgetStarts(log, Max({clock - Day, marker}))
    /\ run' = [r \in Runs |-> IF run[r] = "launched" THEN "unstarted" ELSE run[r]]
    /\ seen' = [c \in Caller |-> NoTime]
    /\ UNCHANGED <<clock, log, marker, admitted, lost>>

Tick ==
    /\ clock < MaxTime
    /\ \A c \in Caller : seen[c] = NoTime \/ clock - seen[c] < MaxWait
    /\ clock' = clock + 1
    /\ UNCHANGED <<starts, log, marker, floor, seen, run, admitted, crashes, lost>>

Init ==
    /\ clock = 0 /\ starts = <<>> /\ log = <<>>
    /\ marker = NoTime /\ floor = NoTime
    /\ seen = [c \in Caller |-> NoTime]
    /\ run = [r \in Runs |-> "new"]
    /\ admitted = <<>> /\ crashes = 0 /\ lost = 0

Next ==
    \/ \E c \in Caller : ReadClock(c) \/ Refuse(c)
    \/ \E c \in Caller, r \in Run, forced, logged \in BOOLEAN : Dispatch(c, r, forced, logged)
    \/ \E c \in Caller, r \in Child, logged \in BOOLEAN : ReserveChild(c, r, logged)
    \/ \E r \in Runs, echo \in BOOLEAN : Publish(r, echo)
    \/ \E r \in Runs : LaunchFails(r)
    \/ WriteRateReset \/ Restart \/ Tick

Spec == Init /\ [][Next]_vars

-----------------------------------------------------------------------------
(* Properties. *)

\* The admissions before the i-th that still count when it is decided: they
\* belong to the window that ends with it, and the operator has not reset them.
Earlier(i, window) ==
    {j \in 1 .. i - 1 : /\ admitted[j].started
                        /\ admitted[j].at > admitted[i].at - window
                        /\ admitted[j].dated > admitted[i].floor}

Unforced == {i \in DOMAIN admitted : admitted[i].started /\ ~admitted[i].forced}

\* An admission no restart can forget: its event is in the log, and no earlier
\* event of the same run hides it.
Logged(i) == admitted[i].event # 0
Kept(i) == Logged(i) /\ admitted[i].first

\* However callers wait for the lock, and however often the daemon restarts, no
\* unforced start is the (limit + 1)-th recorded one of an hour or a day,
\* shortened by the time a caller may wait.  conditions.go admitProviderWorkflow
\* and budgethistory.go.
RollingBudget ==
    \A i \in Unforced :
        /\ Cardinality({j \in Earlier(i, Hour - MaxWait) : Kept(j)}) < HourLimit
        /\ DayLimit > 0 => Cardinality({j \in Earlier(i, Day - MaxWait) : Kept(j)}) < DayLimit

\* The window never holds more charges than there were admissions in it that the
\* operator has not reset (or whose event was lost, which the echo then stands
\* for): an echo, a restart or a reset charges nothing twice.
\* budgethistory.go reconstructBudgetStarts, "counts admissions, not their
\* journal echoes".
ChargedOnce ==
    Cardinality({k \in DOMAIN starts : starts[k] > clock - Hour})
        <= Cardinality({i \in DOMAIN admitted :
                            \/ ~Logged(i)
                            \/ /\ admitted[i].at > clock - Hour
                               /\ admitted[i].dated > floor \/ admitted[i].epoch = crashes})

-----------------------------------------------------------------------------
(* Statements of the code's comments that it does not keep. *)

\* The hourly count misses no start of the hour: "starts is assumed sorted
\* ascending (Admit only ever appends now, which advances monotonically call to
\* call)", conditions.go pruneStarts.  Violated once a caller waits for the lock:
\* its older start, appended last, hides the newer ones from countSince.
HourlyCountExact ==
    CountSince(PruneStarts(starts, clock, Day), clock - Hour)
        = Cardinality({k \in DOMAIN starts : starts[k] >= clock - Hour})

\* Every logged admission is charged, also the second one of a run that the start
\* queue retries after a crash.  Violated: reconstructBudgetStarts takes the
\* second run.started of a run for an echo of the first.
RetriedStartCharged ==
    \A i \in Unforced : Cardinality({j \in Earlier(i, Hour) : Logged(j)}) < HourLimit
-----------------------------------------------------------------------------
(* What makes it so: the inductive invariant.                               *)

\* A caller holds the time it has read for MaxWait at most.
ClockSound ==
    \A c \in Caller : seen[c] # NoTime => seen[c] <= clock /\ clock - seen[c] <= MaxWait

\* What is logged at or after the a-th admission's event is at most MaxWait older
\* than the admission, the event is of no other admission, and no earlier event
\* of the run hides one that is kept.
OwnEvent(a) ==
    LET e == admitted[a].event IN
    /\ e \in DOMAIN log
    /\ log[e].run = admitted[a].run /\ log[e].at = admitted[a].dated
    /\ admitted[a].run \in Child => log[e].attempt = e
    /\ \A i \in DOMAIN log : i >= e => log[i].at >= admitted[a].at - MaxWait
    /\ \A b \in DOMAIN admitted : admitted[b].event = e => a = b
    /\ Kept(a) /\ admitted[a].run \in Run =>
          \A i \in DOMAIN log : i < e => log[i].run # admitted[a].run

\* An admission is charged at most MaxWait before it is made.
AdmissionSound(a) ==
    /\ admitted[a].at <= clock
    /\ admitted[a].dated <= admitted[a].at /\ admitted[a].at - admitted[a].dated <= MaxWait
    /\ Logged(a) => OwnEvent(a)

\* An event is that of an admission, or the echo of a child that has one, or the
\* echo of a run that has an earlier event or an admission whose event was lost.
Caused(i) ==
    \/ \E a \in DOMAIN admitted : admitted[a].event = i
    \/ /\ log[i].run \in Child /\ log[i].attempt = 0
       /\ \E j \in DOMAIN log : log[j].run = log[i].run /\ log[j].attempt > 0
    \/ /\ log[i].run \in Run
       /\ \/ \E j \in DOMAIN log : j < i /\ log[j].run = log[i].run
          \/ \E a \in DOMAIN admitted : admitted[a].run = log[i].run /\ ~Logged(a)

\* Attempts are numbered by their place in the log, and only children have one.
EventSound(i) ==
    /\ log[i].attempt \in {0, i} /\ (log[i].run \in Run => log[i].attempt = 0)
    /\ Caused(i)

\* A run that was launched was admitted, and a child's event is in the log.
RunSound(r) ==
    run[r] # "new" =>
        /\ r \in Run => \E a \in DOMAIN admitted : admitted[a].run = r
        /\ r \in Child => \E i \in DOMAIN log : log[i].run = r /\ log[i].attempt > 0

\* Every charge of s stands for an admission of its own, g[k], and every admission
\* that no restart forgets has its charge while it is in the window, with none
\* after it that is more than MaxWait older.
Distinct(s, g) == \A k, l \in DOMAIN s : g[k] = g[l] => k = l

ForAdmission(s, g) ==
    \A k \in DOMAIN s :
        \/ ~Logged(g[k])
        \/ /\ s[k] <= admitted[g[k]].at
           /\ admitted[g[k]].dated > floor \/ admitted[g[k]].epoch = crashes

Counted(j) ==
    /\ Kept(j) /\ admitted[j].dated > floor
    /\ admitted[j].at - MaxWait > clock - Day

Covers(s, g, j) ==
    \E k \in DOMAIN s :
        /\ g[k] = j
        /\ \A l \in DOMAIN s : l >= k => s[l] >= admitted[j].at - MaxWait

Stands(s, g) ==
    /\ g \in [DOMAIN s -> DOMAIN admitted]
    /\ Distinct(s, g) /\ ForAdmission(s, g)
    /\ \A j \in DOMAIN admitted : Counted(j) => Covers(s, g, j)

StartsSound == \E g \in [DOMAIN starts -> DOMAIN admitted] : Stands(starts, g)

BudgetInv ==
    /\ TypeOK /\ ClockSound
    /\ \A a \in DOMAIN admitted : AdmissionSound(a)
    /\ \A i \in DOMAIN log : EventSound(i)
    /\ \A r \in Runs : RunSound(r)
    /\ StartsSound /\ RollingBudget

=============================================================================
