---------------------------- MODULE InstanceLog ----------------------------
(***************************************************************************)
(* The instance journal, <instance-root>/scheduler/events.jsonl            *)
(* (src/internal/journal/instance.go, compact.go, instancegen.go,          *)
(* instancetickskips.go): one append-only file shared by every process of  *)
(* the instance, compacted while it is in use by writing the next          *)
(* generation and moving a pointer, and folded incrementally by readers    *)
(* that take no lock (src/internal/instanceannotations/fold.go).           *)
(*                                                                         *)
(* Writers hold the journal lock for a whole operation, so an operation is *)
(* one step whose outcome says how far it got: the process may stop, or    *)
(* the disk refuse, after any of its writes.  A partial write leaves a     *)
(* torn record at the end of the file.                                     *)
(***************************************************************************)
EXTENDS Integers, Sequences, FiniteSets, FiniteSetsExt, Functions

CONSTANTS Procs,        \* the processes that open the instance journal
          MaxRecords,   \* bound: events handed to Append
          MaxGen,       \* bound: generations
          MaxFaults     \* bound: failed or interrupted operations, crashes

ASSUME InstanceLogAssumption ==
    /\ IsFiniteSet(Procs)
    /\ {MaxRecords, MaxGen, MaxFaults} \subseteq Nat

VARIABLES retention, \* does the instance run retention passes, or only tick-skip ones?
          files,    \* the generations on disk -> the records of each
          pointer,  \* the generation the pointer file names
          handle,   \* process -> its open InstanceLog, or Closed
          fold,     \* the incremental fold of a reader
          offered,  \* events handed to Append so far
          acked,    \* the records whose Append returned without error
          dropped,  \* the events a compaction dropped
          faults

vars == <<retention, files, pointer, handle, fold, offered, acked, dropped, faults>>

Gens == 0 .. MaxGen
Closed == [gen |-> -1, seq |-> 0]

\* A record carries the number of the event it records (0: a repair marker),
\* its sequence and its kind.  A torn record is bytes without a newline.
Kinds == {"trigger.fired", "tick.skipped"}
Record(id, seq, kind) == [id |-> id, seq |-> seq, kind |-> kind]
TornRecord == Record(0, 0, "torn")

Current == files[pointer]
Torn(f) == f # <<>> /\ f[Len(f)] = TornRecord
Whole(f) == IF Torn(f) THEN SubSeq(f, 1, Len(f) - 1) ELSE f

\* sequenceFromTailOrFull: the highest sequence of the complete records.
Highest(f) == Max({0} \cup {r.seq : r \in Range(Whole(f))})

Fault == faults < MaxFaults /\ faults' = faults + 1

(***************************************************************************)
(* A writer commits `recs' one appendEvent at a time onto the truncated    *)
(* file; n of them are written whole, and a write that fails leaves        *)
(* nothing or a torn record.  A record written whole whose fsync failed is *)
(* in the file although the caller got an error.                           *)
(***************************************************************************)
Outcomes == {"ok", "unsynced", "torn", "none"}
Reaches(recs, n, o) == IF n = Len(recs) THEN o \in {"ok", "unsynced"}
                                        ELSE o \in {"torn", "none"}
\* Every writer truncates a torn tail before it writes.
Base(f) == Whole(f)
Written(f, recs, n, o) ==
    Base(f) \o SubSeq(recs, 1, n) \o (IF o = "torn" THEN <<TornRecord>> ELSE <<>>)
SetCurrent(f) == files' = [files EXCEPT ![pointer] = f]

\* The repair marker a torn tail calls for, numbered after `top'.
Repair(f, top) == IF Torn(f) THEN <<Record(0, top + 1, "repaired")>> ELSE <<>>

\* OpenInstanceLog: truncate a torn tail, mark the repair, number from the tail.
Open(p) ==
    /\ handle[p] = Closed
    /\ LET top == Highest(Current)
           recs == Repair(Current, top)
       IN \E n \in 0 .. Len(recs), o \in Outcomes :
            /\ Reaches(recs, n, o)
            /\ recs = <<>> => o = "ok"
            /\ SetCurrent(Written(Current, recs, n, o))
            /\ IF o = "ok"
               THEN /\ handle' = [handle EXCEPT
                                    ![p] = [gen |-> pointer, seq |-> top + Len(recs)]]
                    /\ UNCHANGED faults
               ELSE Fault /\ UNCHANGED handle
    /\ UNCHANGED <<retention, pointer, fold, offered, acked, dropped>>

\* The sequence an Append numbers from: never below what the tail shows, nor
\* below what this handle has used.
TopOfHandle(p) == handle[p].seq
Top(p) == Max({Highest(Current), handle[p].seq})

\* ensureActiveFile: the file the handle writes, reopened after a rotation.
ActiveAsOpened(p) == handle[p].gen
Active(p) == pointer

AppendTo(g, p, kind) ==
    LET top == Top(p)
        mark == Repair(files[g], top)
        recs == Append(mark, Record(offered + 1, top + Len(mark) + 1, kind))
    IN \E n \in 0 .. Len(recs), o \in Outcomes :
         /\ Reaches(recs, n, o)
         /\ files' = [files EXCEPT ![g] = Written(@, recs, n, o)]
         /\ handle' = [handle EXCEPT ![p] = [gen |-> g, seq |-> top + Min({n + 1, Len(recs)})]]
         /\ IF o = "ok" THEN acked' = acked \cup {recs[Len(recs)]} /\ UNCHANGED faults
                        ELSE Fault /\ UNCHANGED acked

\* InstanceLog.Append.
AppendEvent(p, kind) ==
    /\ handle[p] # Closed
    /\ offered < MaxRecords
    /\ AppendTo(Active(p), p, kind)
    /\ offered' = offered + 1
    /\ UNCHANGED <<retention, pointer, fold, dropped>>

\* InstanceLog.Close, or the end of the process.
Close(p) ==
    /\ handle[p] # Closed
    /\ handle' = [handle EXCEPT ![p] = Closed]
    /\ UNCHANGED <<retention, files, pointer, fold, offered, acked, dropped, faults>>

(***************************************************************************)
(* Compaction.  Records are appended in time order, so the records before  *)
(* the cut are a prefix; the cut itself may be anywhere.                   *)
(***************************************************************************)
LatestTrigger(f, i) == /\ f[i].kind = "trigger.fired"
                       /\ \A j \in i + 1 .. Len(f) : f[j].kind # "trigger.fired"

\* compactInstanceEventsData: an aged record goes unless a restart needs it.
AgedOut(f, cut) == {i \in 1 .. cut : ~LatestTrigger(f, i)}

\* dropTickSkipsBefore: aged skips go, the record of the highest sequence stays.
AgedSkipsAll(f, cut) == {i \in 1 .. cut : f[i].kind = "tick.skipped"}
AgedSkips(f, cut) == {i \in 1 .. cut : f[i].kind = "tick.skipped" /\ f[i].seq # Highest(f)}

\* The k-th of a set of positions.
Nth(S, k) == CHOOSE i \in S : Cardinality({j \in S : j <= i}) = k

Kept(f, out) == LET whole == Whole(f)
                    keep == (DOMAIN whole) \ out
                IN [k \in 1 .. Cardinality(keep) |-> whole[Nth(keep, k)]]
                   \o (IF Torn(f) THEN <<TornRecord>> ELSE <<>>)

\* cleanupStaleInstanceEventsGenerations: all but the last two generations.
Stale(g) == {k \in DOMAIN files : k <= g - 2}

(***************************************************************************)
(* installCompactedGeneration: write the next generation, advance the      *)
(* pointer, reopen, reclaim old generations.  It may stop after the write  *)
(* and after the pointer; a generation that cannot be removed stays.       *)
(***************************************************************************)
Install(p, out) ==
    /\ pointer < MaxGen
    /\ out # {}
    /\ LET next == pointer + 1
           grown == [g \in DOMAIN files \cup {next} |->
                        IF g = next THEN Kept(Current, out) ELSE files[g]]
       IN \/ /\ Fault
             /\ files' = grown
             /\ UNCHANGED <<pointer, handle, dropped>>
          \/ /\ pointer' = next
             /\ dropped' = dropped \cup {Current[i].id : i \in out}
             /\ \/ /\ \E gone \in {{}, Stale(next)} :
                        files' = Restrict(grown, DOMAIN grown \ gone)
                   /\ handle' = IF handle[p] = Closed THEN handle
                                ELSE [handle EXCEPT ![p].gen = next]
                   /\ UNCHANGED faults
                \/ /\ Fault
                   /\ files' = grown
                   /\ UNCHANGED handle
    /\ UNCHANGED <<retention, fold, offered, acked>>

\* InstanceLog.Compact; without a handle, the offline CompactInstanceEvents.
Compact(p) ==
    /\ retention
    /\ \E cut \in 1 .. Len(Whole(Current)) : Install(p, AgedOut(Whole(Current), cut))

\* InstanceLog.CompactTickSkips.
CompactTickSkips(p) ==
    /\ handle[p] # Closed
    /\ \E cut \in 1 .. Len(Whole(Current)) : Install(p, AgedSkips(Whole(Current), cut))

(***************************************************************************)
(* Fold.refresh, without the journal lock: the state (which generation is  *)
(* current), the path to read, the events after the fold's sequence, and   *)
(* the state again; the events count only if the generation is still the   *)
(* same.                                                                   *)
(***************************************************************************)
Reset(g, step) == [step |-> step, gen |-> g, seq |-> 0, seen |-> {}, path |-> 0, got |-> {}]
NoFold == Reset(-1, "idle")

ReadState ==
    /\ fold.step = "idle"
    /\ fold' = IF fold.gen = pointer THEN [fold EXCEPT !.step = "resolve"]
                                     ELSE Reset(pointer, "resolve")

Resolve ==
    /\ fold.step = "resolve"
    /\ fold' = [fold EXCEPT !.step = "read", !.path = pointer]

\* ReadInstanceLogAfterSeq: a file that is gone holds no events.
ReadAfterSeq ==
    /\ fold.step = "read"
    /\ fold' = [fold EXCEPT !.step = "check",
           !.got = {r \in UNION {Range(Whole(files[g])) : g \in DOMAIN files \cap {fold.path}} :
                        r.seq > fold.seq}]

Apply == [fold EXCEPT !.step = "idle", !.seen = @ \cup fold.got, !.path = 0, !.got = {},
                      !.seq = Max({@} \cup {r.seq : r \in fold.got})]

CheckStateSkipped ==
    /\ fold.step = "check"
    /\ fold' = Apply
CheckState ==
    /\ fold.step = "check"
    /\ fold' = IF fold.gen = pointer THEN Apply ELSE Reset(pointer, "idle")

Refresh == (ReadState \/ Resolve \/ ReadAfterSeq \/ CheckState)
           /\ UNCHANGED <<retention, files, pointer, handle, offered, acked, dropped, faults>>

Init ==
    /\ retention \in BOOLEAN
    /\ files = [g \in {0} |-> <<>>]
    /\ pointer = 0
    /\ handle = [p \in Procs |-> Closed]
    /\ fold = NoFold
    /\ offered = 0 /\ acked = {} /\ dropped = {} /\ faults = 0

Next ==
    \/ \E p \in Procs : Open(p) \/ Close(p) \/ Compact(p) \/ CompactTickSkips(p)
    \/ \E p \in Procs, kind \in Kinds : AppendEvent(p, kind)
    \/ Refresh

Spec == Init /\ [][Next]_vars

-----------------------------------------------------------------------------
Records == [id : 0 .. MaxRecords, seq : Nat, kind : Kinds \cup {"repaired", "torn"}]

\* Type invariant of the journal directory, the handles and the fold.
TypeOK ==
    /\ retention \in BOOLEAN
    /\ DOMAIN files \subseteq Gens
    /\ \A g \in DOMAIN files : files[g] \in Seq(Records)
    /\ pointer \in DOMAIN files
    /\ handle \in [Procs -> {Closed} \cup [gen : Gens, seq : Nat]]
    /\ fold \in [step : {"idle", "resolve", "read", "check"}, gen : Gens \cup {-1}, seq : Nat,
                 seen : SUBSET Records, path : Gens, got : SUBSET Records]
    /\ offered \in 0 .. MaxRecords /\ faults \in 0 .. MaxFaults
    /\ acked \subseteq Records /\ dropped \subseteq 0 .. offered

\* Whatever the interleaving of writers, failed writes, repairs and
\* rotations, the current generation parses and is numbered in order: a torn
\* record is never followed by another (truncateTornTail before every append),
\* and every complete record's sequence is above the one before it
\* (sequenceFromTailOrFull).
Parseable ==
    LET whole == Whole(Current)
    IN /\ \A i \in DOMAIN whole : whole[i] # TornRecord
       /\ \A i \in 1 .. Len(whole) - 1 : whole[i].seq < whole[i + 1].seq

\* An event whose Append returned without error is in the current generation
\* until a compaction drops it: no append lands in a generation that was
\* rotated away, and no interrupted compaction loses or hides one.  And however
\* often the journal is compacted, the latest scheduled trigger that was
\* committed (or a later one) is still there for restart reconciliation.
CommittedKept ==
    \A r \in acked :
        /\ r.id \in dropped \/ r \in Range(Whole(Current))
        /\ r.kind = "trigger.fired" =>
              \E s \in Range(Current) : s.kind = "trigger.fired" /\ s.id >= r.id

\* The unlocked incremental fold never mixes generations: between refreshes it
\* has folded exactly the records of one generation up to its own sequence.
FoldOfOneGeneration ==
    (fold.step = "idle" /\ fold.gen \in DOMAIN files) =>
        fold.seen = {r \in Range(Whole(files[fold.gen])) : r.seq <= fold.seq}

\* The records some generation shows to readers.
Readable == UNION {Range(Whole(files[g])) : g \in DOMAIN files}

\* A sequence that readers have seen is never given to another record: every
\* record that becomes readable has a sequence above all that were readable
\* before, so that a reader holding a watermark misses nothing.  So it is while
\* compaction drops tick skips only (dropTickSkipsBefore keeps the record of the
\* highest sequence); a retention pass that drops the last record lets a process
\* that opens the log afterwards number from below it.
NoSequenceReused ==
    [][~retention => \A r \in Range(Whole(files'[pointer'])) \ Readable :
           \A s \in Readable : r.seq > s.seq]_vars
-----------------------------------------------------------------------------
(* What makes it so: the inductive invariant.                              *)

\* The complete records of a generation are numbered upwards from 1, and list
\* the triggers in the order in which they were handed to Append, `last' so far.
Ordered(whole, last) ==
    /\ \A i \in DOMAIN whole :
          whole[i].kind # "torn" /\ whole[i].seq > 0 /\ whole[i].id <= last
    /\ \A i, j \in DOMAIN whole :
          i < j => /\ whole[i].seq < whole[j].seq
                   /\ whole[i].kind = "trigger.fired" /\ whole[j].kind = "trigger.fired"
                      => whole[i].id < whole[j].id

\* The records of a generation.
RecordsOf(g) == Range(Whole(files[g]))

\* The fold is behind the pointer.  It holds the records of its generation up to
\* its own sequence, and what it has read of that generation but not yet counted
\* goes on from there without a gap.
FoldSound ==
    /\ fold.gen <= pointer
    /\ fold.step \in {"read", "check"} => fold.gen <= fold.path /\ fold.path <= pointer
    /\ fold.gen = -1 => fold.step = "idle"
    /\ fold.gen \in DOMAIN files =>
          /\ fold.seen = {r \in RecordsOf(fold.gen) : r.seq <= fold.seq}
          /\ fold.seq = 0 \/ \E r \in RecordsOf(fold.gen) : r.seq = fold.seq
          /\ fold.step = "check" /\ fold.path = fold.gen =>
                /\ fold.got \subseteq {r \in RecordsOf(fold.gen) : r.seq > fold.seq}
                /\ \A r \in RecordsOf(fold.gen) \ fold.got : \A s \in fold.got :
                      r.seq > fold.seq => r.seq > s.seq

\* While no retention pass runs, the current generation keeps the highest sequence.
HighestKept ==
    ~retention => \A g \in DOMAIN files : \A r \in RecordsOf(g) : r.seq <= Highest(Current)

LogInv ==
    /\ TypeOK
    /\ \A g \in DOMAIN files : Ordered(Whole(files[g]), offered)
    /\ CommittedKept
    /\ FoldSound
    /\ HighestKept
=============================================================================
