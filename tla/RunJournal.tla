---------------------------- MODULE RunJournal -----------------------------
(***************************************************************************)
(* One run's journal directory (src/internal/journal/run.go, reader.go,    *)
(* eventlog.go): the append-only events.jsonl, the checkpoint state.json   *)
(* derived from it, and the run lock that the processes which want to      *)
(* write (the daemon, a resume, `goobers run abort') contend for.          *)
(*                                                                         *)
(* An append is two durable steps, the fsynced record and the checkpoint   *)
(* after it, and a process may stop before, between and after them.  A     *)
(* failed write leaves nothing, a torn record, or a whole record whose     *)
(* fsync failed, and the handle refuses to append until it is repaired.    *)
(***************************************************************************)
EXTENDS Integers, Sequences, FiniteSets, FiniteSetsExt

CONSTANTS Openers,      \* the processes that open the run for writing
          MaxEvents,    \* bound: records of the log
          MaxFaults     \* bound: failed writes and crashes

NoOne == "no one"

\* What the openers and the bounds are.
Bounds == NoOne \notin Openers /\ MaxEvents \in Nat /\ MaxFaults \in Nat

ASSUME RunJournalAssumption == Bounds

VARIABLES log,        \* the complete records of events.jsonl
          torn,       \* does a partial record follow them?
          state,      \* state.json
          lock,       \* who holds the run lock
          handle,     \* opener -> its Run, and how far its Recover or Append is
          discarded,  \* torn records discarded so far
          faults

vars == <<log, torn, state, lock, handle, discarded, faults>>

(***************************************************************************)
(* Records.  "aborting" is a gate the runner executed with the target      *)
(* @abort; "receipt" an event appended with AppendIfAbsent; "other" any    *)
(* event without a part in the run's lifecycle.                            *)
(***************************************************************************)
Kinds == {"finished", "resumed", "rerun", "aborting", "receipt", "other"}
Record(seq, kind) == [seq |-> seq, kind |-> kind]

Highest(events) == Max({0} \cup {r.seq : r \in Range(events)})

\* The index of the last record whose kind is one of `kinds', or 0.
LastOf(events, kinds) == Max({0} \cup {i \in DOMAIN events : events[i].kind \in kinds})

\* reconstructPhase: the newest lifecycle record decides.
Phase(events) ==
    LET i == LastOf(events, {"finished", "resumed", "rerun", "aborting"})
    IN IF i = 0 \/ events[i].kind \in {"resumed", "rerun"} THEN "running"
       ELSE IF events[i].kind = "finished" THEN "finished" ELSE "aborted"

\* latestActiveResume: the run.resumed no run.finished follows, or 0.
LatestActiveResume(events) ==
    LET i == LastOf(events, {"resumed", "finished"})
    IN IF i # 0 /\ events[i].kind = "resumed" THEN i ELSE 0

(***************************************************************************)
(* Handles.  `phase' and `node' are the Run's fields of that name, `failed'*)
(* the kind of the record that set its appendErr, `pending' the kind of a  *)
(* record it has fsynced and not yet checkpointed.                         *)
(***************************************************************************)
Closed == [step |-> "closed", seq |-> 0, phase |-> "", node |-> "", failed |-> "",
           pending |-> "", mark |-> FALSE]
State(h) == [phase |-> h.phase, node |-> h.node, lastSeq |-> h.seq]

\* applyLifecycle.
Lived(h, kind) ==
    CASE kind = "finished" -> [h EXCEPT !.phase = "finished", !.node = ""]
      [] kind = "resumed"  -> [h EXCEPT !.phase = "running", !.node = "target"]
      [] kind = "rerun"    -> [h EXCEPT !.phase = "running", !.node = "stage"]
      [] OTHER             -> h

SetHandle(p, h) == handle' = [handle EXCEPT ![p] = h]
Leave(p) == lock' = NoOne /\ SetHandle(p, Closed)
Fault == faults < MaxFaults /\ faults' = faults + 1

\* Recover up to the run lock: nothing of the log is read yet.
BeginRecover(p) ==
    /\ handle[p] = Closed
    /\ SetHandle(p, [Closed EXCEPT !.step = "waiting"])
    /\ UNCHANGED <<log, torn, state, lock, discarded, faults>>

\* acquireJournalLockPath: polled until free, and given up at the timeout.
LockFree == lock = NoOne
LockTimeout(p) ==
    /\ handle[p].step = "waiting" /\ lock # NoOne
    /\ SetHandle(p, Closed)
    /\ UNCHANGED <<log, torn, state, lock, discarded, faults>>

\* What Recover numbers the next record from.
FromCheckpoint == state.lastSeq
Reconstructed == Highest(log)

\* Recover under the lock: one read of the log, then the torn tail goes.
Acquire(p) ==
    /\ handle[p].step = "waiting" /\ LockFree
    /\ lock' = p
    /\ torn' = FALSE
    /\ discarded' = IF torn THEN discarded + 1 ELSE discarded
    /\ SetHandle(p, [handle[p] EXCEPT !.step = "recovering", !.mark = torn,
                                      !.phase = Phase(log),
                                      !.seq = Reconstructed, !.node = state.node])
    /\ UNCHANGED <<log, state, faults>>

(***************************************************************************)
(* The rest of Recover.  Healed(p) is the handle after the comparison with *)
(* state.json: a terminal log clears the node; a resume the checkpoint has *)
(* not passed restores its target.                                         *)
(***************************************************************************)
ResumeAhead(p) ==
    LET i == LatestActiveResume(log)
    IN handle[p].phase = "running" /\ i # 0 /\ state.lastSeq <= log[i].seq
Healed(p) ==
    LET h == handle[p]
    IN [h EXCEPT !.node = IF h.phase # "running" THEN ""
                          ELSE IF ResumeAhead(p) THEN "target" ELSE @]

\* needsCheckpoint.
NeedsCheckpointIfTorn(p) == handle[p].mark
NeedsCheckpoint(p) ==
    \/ handle[p].mark
    \/ handle[p].phase # "running" /\ (state.phase # handle[p].phase \/ state.node # "")
    \/ ResumeAhead(p) /\ (state.phase # "running" \/ state.node # "target")

FinishRecover(p) ==
    /\ handle[p].step = "recovering"
    /\ LET h == Healed(p)
           marked == IF h.mark THEN [h EXCEPT !.seq = @ + 1] ELSE h
           opened == [marked EXCEPT !.step = "open", !.mark = FALSE]
       IN /\ h.mark => Len(log) < MaxEvents
          /\ log' = IF h.mark THEN Append(log, Record(h.seq + 1, "repaired")) ELSE log
          /\ \/ /\ state' = IF NeedsCheckpoint(p) THEN State(opened) ELSE state
                /\ SetHandle(p, opened)
                /\ UNCHANGED <<lock, faults>>
             \/ NeedsCheckpoint(p) /\ Fault /\ Leave(p) /\ UNCHANGED state
    /\ UNCHANGED <<torn, discarded>>

\* The repair marker of Recover cannot be written: Recover gives up.
RecoverFails(p) ==
    /\ handle[p].step = "recovering" /\ handle[p].mark
    /\ Fault /\ Leave(p)
    /\ torn' \in BOOLEAN
    /\ UNCHANGED <<log, state, discarded>>

(***************************************************************************)
(* Append.  The sequence advances before the write; a write that fails     *)
(* leaves nothing, a torn record, or the whole record.                     *)
(***************************************************************************)
Ready(p) == handle[p].step = "open" /\ handle[p].pending = ""

AppendBlocked(h) == h.failed # ""

Commit(p, kind) ==
    LET h == [handle[p] EXCEPT !.seq = @ + 1]
    IN /\ Len(log) < MaxEvents
       /\ \/ /\ log' = Append(log, Record(h.seq, kind))
             /\ SetHandle(p, [Lived(h, kind) EXCEPT !.pending = kind])
             /\ UNCHANGED <<torn, faults>>
          \/ /\ Fault
             /\ \/ log' = Append(log, Record(h.seq, kind)) /\ UNCHANGED torn
                \/ torn' \in BOOLEAN /\ UNCHANGED log
             /\ SetHandle(p, [h EXCEPT !.failed = kind])

\* AppendIfAbsent reads the log under the handle's lock.
AbsentUnread(p, kind) == TRUE
Absent(p, kind) == kind = "receipt" => \A i \in DOMAIN log : log[i].kind # "receipt"

\* Append and AppendIfAbsent up to the fsync; they fail without a write while
\* an earlier failure is not repaired.
AppendEvent(p, kind) ==
    /\ Ready(p) /\ ~AppendBlocked(handle[p])
    /\ Absent(p, kind)
    /\ Commit(p, kind)
    /\ UNCHANGED <<state, lock, discarded>>

\* The checkpoint after the record; a failing one is the caller's error.
Checkpoint(p) ==
    /\ handle[p].step = "open" /\ handle[p].pending # ""
    /\ SetHandle(p, [handle[p] EXCEPT !.pending = ""])
    /\ \/ state' = State(handle[p]) /\ UNCHANGED faults
       \/ Fault /\ UNCHANGED state
    /\ UNCHANGED <<log, torn, lock, discarded>>

\* RepairAppendBoundary: truncate, number from the log, and mark the repair,
\* which may fail as any append; without a failure before it changes nothing.
RepairAppendBoundary(p) ==
    /\ Ready(p)
    /\ LET seq == Highest(log)
           whole == [handle[p] EXCEPT !.failed = "", !.seq = seq]
           marked == [handle[p] EXCEPT !.failed = "", !.seq = seq + 1]
           marker == Append(log, Record(seq + 1, "repaired"))
       IN \/ ~torn /\ SetHandle(p, whole) /\ UNCHANGED <<log, torn, discarded, faults>>
          \/ /\ torn /\ Len(log) < MaxEvents
             /\ discarded' = discarded + 1
             /\ \/ /\ log' = marker /\ torn' = FALSE
                   /\ SetHandle(p, marked) /\ UNCHANGED faults
                \/ /\ Fault /\ SetHandle(p, [marked EXCEPT !.failed = "other"])
                   /\ \/ log' = marker /\ torn' = FALSE
                      \/ torn' \in BOOLEAN /\ UNCHANGED log
    /\ UNCHANGED <<state, lock>>

\* The runner moves on and checkpoints where it pauses.
SetMachineState(p) ==
    /\ Ready(p) /\ handle[p].phase = "running" /\ handle[p].node # "next"
    /\ SetHandle(p, [handle[p] EXCEPT !.node = "next"])
    /\ state' \in {state, [State(handle[p]) EXCEPT !.node = "next"]}
    /\ UNCHANGED <<log, torn, lock, discarded, faults>>

Close(p) ==
    /\ Ready(p)
    /\ Leave(p)
    /\ UNCHANGED <<log, torn, state, discarded, faults>>

\* The process stops; the operating system frees its lock.
Crash(p) ==
    /\ handle[p].step \in {"recovering", "open"}
    /\ Fault /\ Leave(p)
    /\ UNCHANGED <<log, torn, state, discarded>>

\* Create has published run.started and its checkpoint.
Init ==
    /\ log = <<Record(1, "other")>> /\ torn = FALSE
    /\ state = [phase |-> "running", node |-> "", lastSeq |-> 1]
    /\ lock = NoOne
    /\ handle = [p \in Openers |-> Closed]
    /\ discarded = 0 /\ faults = 0

Next == \E p \in Openers :
    \/ BeginRecover(p) \/ LockTimeout(p) \/ Acquire(p) \/ FinishRecover(p) \/ RecoverFails(p)
    \/ \E kind \in Kinds : AppendEvent(p, kind)
    \/ Checkpoint(p) \/ RepairAppendBoundary(p) \/ SetMachineState(p)
    \/ Close(p) \/ Crash(p)

Spec == Init /\ [][Next]_vars

-----------------------------------------------------------------------------
Phases == {"running", "finished", "aborted"}
Nodes == {"", "target", "stage", "next"}
Entries == [seq : Nat, kind : Kinds \cup {"repaired"}]
Handles == [step : {"closed", "waiting", "recovering", "open"}, seq : Nat,
            phase : Phases \cup {""}, node : Nodes, failed : Kinds \cup {""},
            pending : Kinds \cup {""}, mark : BOOLEAN]

\* Type invariant of the run directory and the handles; a process between
\* the lock and its Close holds the lock.
TypeOK ==
    /\ log \in Seq(Entries)
    /\ torn \in BOOLEAN /\ lock \in Openers \cup {NoOne}
    /\ state \in [phase : Phases \cup {""}, node : Nodes, lastSeq : Nat]
    /\ handle \in [Openers -> Handles]
    /\ \A p \in Openers : handle[p].step \in {"recovering", "open"} => lock = p
    /\ discarded \in Nat /\ faults \in 0 .. MaxFaults

\* The records of a run are numbered exactly 1, 2, 3, ... with no gap and no
\* repetition (MonotonicSeq), whichever processes wrote them, over failed
\* writes, repairs, crashes and recoveries.
MonotonicSeq == \A i \in DOMAIN log : log[i].seq = i

\* An event appended with AppendIfAbsent is in the log at most once, also when
\* an attempt that failed had reached the disk and is made again.
AppendedOnce ==
    \A i, j \in DOMAIN log : (log[i].kind = "receipt" /\ log[j].kind = "receipt") => i = j

\* When Recover hands out a Run over a log that shows the run as ended, state.json
\* says so too and names no node; over a log whose resume the checkpoint had not
\* passed, state.json shows the run as running.
RecoverHeals ==
    [][\A p \in Openers :
         (handle[p].step = "recovering" /\ handle'[p].step = "open") =>
            /\ Phase(log') # "running" => state'.phase = Phase(log') /\ state'.node = ""
            /\ (LatestActiveResume(log) # 0 /\ state.lastSeq <= log[LatestActiveResume(log)].seq)
                 => (Phase(log') = "running" => state'.phase = "running")]_vars

-----------------------------------------------------------------------------
(* A statement of the code's comments that it does not keep.               *)

\* Every torn record that was discarded has left a `repaired' record by the
\* time a Run is handed out over the log.
RepairLeavesTrace ==
    \A p \in Openers : handle[p].step = "open" =>
        Cardinality({i \in DOMAIN log : log[i].kind = "repaired"}) >= discarded
=============================================================================
