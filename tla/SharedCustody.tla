---------------------------- MODULE SharedCustody ----------------------------
(***************************************************************************)
(* Cross-instance admission to one backlog item.  Every instance keeps its *)
(* own claim entry; a versioned record at the provider (a git ref that is  *)
(* only ever fast-forwarded) arbitrates between the instances.             *)
(*                                                                         *)
(* A transition reserves local custody, reads the record, sends a          *)
(* compare-and-swap and finalizes the local entry, with provider I/O       *)
(* outside every local lock.  Between any two of these steps other         *)
(* instances act, the clock runs, an operator revokes, and the transition  *)
(* may end: a timeout, a refused call, a crashed process.  A request that  *)
(* was sent may still reach the provider long after its sender gave up.    *)
(*                                                                         *)
(* Two clients run the same protocol.  The file client holds a per-item    *)
(* transition lock across the whole transition.  The claims plane of the   *)
(* cloud control plane holds no lock: each transition stamps the row with  *)
(* a new token, which is checked before the swap and at the end.           *)
(***************************************************************************)
EXTENDS Integers

CONSTANTS
    Instance,        \* instances that share the repository
    Plane,           \* the instances whose claims are kept by the claims plane
    Proc,            \* concurrent claim requests and sweeps
    At,              \* the instance a Proc belongs to
    Owner, NoOwner,  \* run incarnations of the instances
    Home,            \* the instance of an incarnation
    NoProc,
    DateLag,         \* how far a Date header may lag behind the provider clock
    TTL,             \* the lease asked for, in units of the provider clock
    MaxTime,         \* bound on the clock
    MaxRev,          \* bound on the revisions of the record
    MaxFaults        \* bound on transitions that end early

ASSUME CustodyAssumption ==
    /\ Plane \subseteq Instance
    /\ At \in [Proc -> Instance]
    /\ Home \in [Owner -> Instance]
    /\ NoOwner \notin Owner
    /\ NoProc \notin Proc
    /\ DateLag \in {0, 1}     \* cut to whole units
    /\ TTL \in Nat \ {0, 1}   \* the TTL must exceed the provider clock precision
    /\ MaxTime \in Nat /\ MaxRev \in Nat /\ MaxFaults \in Nat

VARIABLES
    now,       \* the time; the clocks of instances and provider run alike
    remote,    \* the provider's record: revision, owner and expiry
    local,     \* the claim entry of each instance
    revoked,   \* incarnations whose revocation is in the history
    op,        \* the transition of each Proc
    requests,  \* swaps under way to the provider
    faults     \* transitions that ended early so far

vars == <<now, remote, local, revoked, op, requests, faults>>

-----------------------------------------------------------------------------
(* The record at the provider: revision 0 is an absent record, no owner at  *)
(* a later revision is the tombstone of a release.                          *)
Record == [rev : Nat, owner : Owner \cup {NoOwner}, expires : Nat]
Tombstone(rev) == [rev |-> rev, owner |-> NoOwner, expires |-> 0]

\* The HTTP Date header is the provider clock cut to whole units.
ProviderDates == (now - DateLag) .. now

\* Observation.Held, by a provider date.
Held(date) == remote.owner # NoOwner /\ date < remote.expires

(* The local claim entry; expiry and shared deadline are always equal.      *)
Entry == [owner : Owner \cup {NoOwner}, deadline : Nat,
          admissionPending : BOOLEAN, releasePending : BOOLEAN,
          revoked : BOOLEAN, token : Proc \cup {NoProc}]
NoEntry == [owner |-> NoOwner, deadline |-> 0, admissionPending |-> FALSE,
            releasePending |-> FALSE, revoked |-> FALSE, token |-> NoProc]

\* The run of the entry is admitted: the execution fence lets it work and nobody
\* has begun to release the claim (the fence itself does not look at that).
Admitted(i) ==
    /\ local[i].owner # NoOwner
    /\ ~local[i].releasePending /\ ~local[i].revoked
    /\ local[i].deadline > now

(* A transition: its step, its incarnation, the admission deadline it may   *)
(* grant and the swap it prepared (the revision it read, the record it      *)
(* writes).                                                                 *)
Step == {"idle", "acquire", "swap", "sent", "acked", "release", "confirm", "released"}
NoSwap == Tombstone(0)
Transition == [step : Step, owner : Owner \cup {NoOwner}, deadline : Nat, swap : Record]
Idle == [step |-> "idle", owner |-> NoOwner, deadline |-> 0, swap |-> NoSwap]

\* The transition lock of the file client admits one transition at a time.
LockFree(p) ==
    At[p] \notin Plane => \A q \in Proc : At[q] = At[p] => op[q].step = "idle"

\* Each transition of the plane stamps the row with a new token.
Token(p) == IF At[p] \in Plane THEN p ELSE NoProc

\* Mutant of Current: a transition that was overtaken may finish.
CurrentAssumed(p) == TRUE

\* The plane's token check; the file client needs none under its lock.
Current(p) == At[p] \in Plane => local[At[p]].token = p

End(p) == op' = [op EXCEPT ![p] = Idle]
Advance(p, step) == op' = [op EXCEPT ![p].step = step]

-----------------------------------------------------------------------------
(* Admission and renewal: claimShared, Acquire, AcquireUntil.               *)

\* The local ledger refuses the reservation.
ReservationRefused(i, o) ==
    \/ o \in revoked
    \/ /\ local[i].owner # NoOwner
       /\ \/ local[i].releasePending \/ local[i].revoked
          \/ local[i].owner # o

(* BeginSharedAdmission, then the admission deadline is taken before the    *)
(* provider is asked: a TTL less the precision of its clock, from now.      *)
BeginSharedAdmission(p, o) ==
    LET i == At[p]
        entry == IF local[i].owner = NoOwner
                 THEN [NoEntry EXCEPT !.owner = o, !.deadline = now]
                 ELSE local[i]
    IN /\ Home[o] = i
       /\ op[p].step = "idle" /\ LockFree(p)
       /\ ~ReservationRefused(i, o)
       /\ local' = [local EXCEPT ![i] = [entry EXCEPT !.admissionPending = TRUE,
                                                       !.token = Token(p)]]
       /\ op' = [op EXCEPT ![p] = [step |-> "acquire", owner |-> o,
                                   deadline |-> now + TTL - 1, swap |-> NoSwap]]
       /\ UNCHANGED <<now, remote, revoked, requests, faults>>

\* The lease of one incarnation is never shortened.
RenewedExpiry(o, date) ==
    IF remote.owner = o /\ remote.expires > date + TTL
    THEN remote.expires ELSE date + TTL

(* The swap of a transition.  The file client sends it at once; the plane   *)
(* first rechecks its intent.                                               *)
Prepare(p, swap) ==
    /\ op' = [op EXCEPT ![p].step = IF At[p] \in Plane THEN "swap" ELSE "sent",
                        ![p].swap = swap]
    /\ requests' = IF At[p] \in Plane THEN requests ELSE requests \cup {swap}

AcquireSwap(p, date) ==
    [rev |-> remote.rev, owner |-> op[p].owner,
     expires |-> RenewedExpiry(op[p].owner, date)]

\* Mutant of AcquireRead: whoever reads last takes the lease.
AcquireReadSteals(p) ==
    /\ op[p].step = "acquire"
    /\ \E date \in ProviderDates : Prepare(p, AcquireSwap(p, date))
    /\ UNCHANGED <<now, remote, local, revoked, faults>>

\* Acquire reads the record: another holder ends the attempt.
AcquireRead(p) ==
    /\ op[p].step = "acquire"
    /\ \E date \in ProviderDates :
          IF Held(date) /\ remote.owner # op[p].owner
          THEN End(p) /\ UNCHANGED requests
          ELSE Prepare(p, AcquireSwap(p, date))
    /\ UNCHANGED <<now, remote, local, revoked, faults>>

(* The plane rechecks its intent after the read, immediately before the     *)
(* swap is sent.                                                            *)
IntentHolds(p) ==
    LET e == local[At[p]] IN
    /\ e.owner = op[p].owner /\ e.token = p
    /\ IF op[p].swap.owner = NoOwner
       THEN e.releasePending
       ELSE ~e.releasePending /\ e.admissionPending /\ ~e.revoked

SendSwap(p) ==
    /\ op[p].step = "swap"
    /\ \/ /\ IntentHolds(p)
          /\ requests' = requests \cup {op[p].swap}
          /\ Advance(p, "sent")
       \/ /\ ~IntentHolds(p)
          /\ End(p)
          /\ UNCHANGED requests
    /\ UNCHANGED <<now, remote, local, revoked, faults>>

\* Mutant of Swapped: the provider overwrites unconditionally.
SwappedAlways(q) == TRUE

\* Only a child of the current revision can fast-forward the ref.
Swapped(q) == q.rev = remote.rev

(* A swap can still matter while its parent is the current revision or its  *)
(* sender waits; forgetting the others changes nothing anybody can see.     *)
StillMatters(q) ==
    \/ q.rev = remote'.rev
    \/ \E p \in Proc : op'[p].step = "sent" /\ op'[p].swap = q

(* The provider handles one swap.  The sender, if it still waits, learns    *)
(* the outcome; an acknowledgment dated past the lease is an error.         *)
DeliverSwap(q) ==
    /\ remote' = IF Swapped(q) THEN [q EXCEPT !.rev = remote.rev + 1] ELSE remote
    /\ \E date \in ProviderDates :
          LET acked == Swapped(q) /\ (q.owner = NoOwner \/ date < q.expires)
              next == IF q.owner = NoOwner THEN "released" ELSE "acked" IN
          op' = [p \in Proc |->
                   IF op[p].step = "sent" /\ op[p].swap = q
                   THEN IF acked THEN [op[p] EXCEPT !.step = next] ELSE Idle
                   ELSE op[p]]
    /\ requests' = {r \in requests \ {q} : StillMatters(r)}
    /\ UNCHANGED <<now, local, revoked, faults>>

\* Mutant of FinishSharedAdmission: a revocation during the swap is missed.
FinishAdmissionRevoked(p) ==
    LET i == At[p] IN
    /\ op[p].step = "acked"
    /\ local' = IF /\ local[i].owner = op[p].owner
                   /\ local[i].admissionPending /\ ~local[i].releasePending
                   /\ op[p].deadline > now /\ Current(p)
                THEN [local EXCEPT ![i].admissionPending = FALSE,
                                   ![i].deadline = op[p].deadline]
                ELSE local
    /\ End(p)
    /\ UNCHANGED <<now, remote, revoked, requests, faults>>

(* FinishSharedAdmission on the exact reserved incarnation; revocation, a   *)
(* release and the deadline win over a late acknowledgment.                 *)
FinishSharedAdmission(p) ==
    LET i == At[p] IN
    /\ op[p].step = "acked"
    /\ local' = IF /\ local[i].owner = op[p].owner
                   /\ local[i].admissionPending /\ ~local[i].releasePending
                   /\ ~local[i].revoked
                   /\ op[p].deadline > now /\ Current(p)
                THEN [local EXCEPT ![i].admissionPending = FALSE,
                                   ![i].deadline = op[p].deadline]
                ELSE local
    /\ End(p)
    /\ UNCHANGED <<now, remote, revoked, requests, faults>>

-----------------------------------------------------------------------------
(* Release: releaseShared, Release and ConfirmOwnerGone (file client),      *)
(* releaseSharedRemote (plane).                                             *)

\* BeginSharedRelease: a release that is already reserved is retried.
BeginSharedRelease(p) ==
    LET i == At[p] IN
    /\ op[p].step = "idle" /\ LockFree(p)
    /\ local[i].owner # NoOwner
    /\ local' = [local EXCEPT ![i].releasePending = TRUE, ![i].token = Token(p),
                              ![i].admissionPending = i \in Plane /\ @]
    /\ op' = [op EXCEPT ![p] = [Idle EXCEPT !.step = "release",
                                            !.owner = local[i].owner]]
    /\ UNCHANGED <<now, remote, revoked, requests, faults>>

(* The read that starts a release.  A record of another owner is not        *)
(* touched.  The file client leaves an empty record as it is; the plane     *)
(* writes a tombstone over it too.                                          *)
ReleaseRead(p) ==
    LET cleared == IF At[p] \in Plane THEN {op[p].owner, NoOwner} ELSE {op[p].owner}
    IN /\ op[p].step = "release"
       /\ \/ /\ remote.owner \in cleared
             /\ Prepare(p, Tombstone(remote.rev))
          \/ /\ remote.owner \notin cleared
             /\ Advance(p, IF remote.owner = NoOwner THEN "released" ELSE "confirm")
             /\ UNCHANGED requests
       /\ UNCHANGED <<now, remote, local, revoked, faults>>

\* ConfirmOwnerGone: a second read; a return of this incarnation is an error.
ConfirmOwnerGone(p) ==
    /\ op[p].step = "confirm"
    /\ IF remote.owner = op[p].owner THEN End(p) ELSE Advance(p, "released")
    /\ UNCHANGED <<now, remote, local, revoked, requests, faults>>

\* Mutant of FinishProviderRelease: the end of the transition is forgotten.
FinishReleaseForgotten(p) ==
    /\ op[p].step = "released"
    /\ End(p)
    /\ UNCHANGED <<now, remote, local, revoked, requests, faults>>

\* FinishProviderRelease and releaseToHistory: custody of the item ends.
FinishProviderRelease(p) ==
    LET i == At[p] IN
    /\ op[p].step = "released"
    /\ local' = IF local[i].owner = op[p].owner /\ local[i].releasePending /\ Current(p)
                THEN [local EXCEPT ![i] = NoEntry] ELSE local
    /\ End(p)
    /\ UNCHANGED <<now, remote, revoked, requests, faults>>

\* RevokeSharedExecution, without waiting for a transition under way.
RevokeSharedExecution(i) ==
    /\ local[i].owner # NoOwner
    /\ ~local[i].revoked
    /\ local' = [local EXCEPT ![i].revoked = TRUE,
                              ![i].deadline = IF @ > now THEN now ELSE @]
    /\ revoked' = revoked \cup {local[i].owner}
    /\ UNCHANGED <<now, remote, op, requests, faults>>

-----------------------------------------------------------------------------
(* The provider fails or does not answer in time, the process is cancelled  *)
(* or crashes: the transition ends wherever it is.  What was sent is still  *)
(* under way.                                                               *)
Fail(p) ==
    /\ op[p].step # "idle"
    /\ faults < MaxFaults
    /\ faults' = faults + 1
    /\ End(p)
    /\ UNCHANGED <<now, remote, local, revoked>>
    /\ requests' = {q \in requests : StillMatters(q)}

Tick ==
    /\ now < MaxTime
    /\ now' = now + 1
    /\ UNCHANGED <<remote, local, revoked, op, requests, faults>>

Init ==
    /\ now = 1
    /\ remote = Tombstone(0)
    /\ local = [i \in Instance |-> NoEntry]
    /\ revoked = {}
    /\ op = [p \in Proc |-> Idle]
    /\ requests = {}
    /\ faults = 0

(* MaxRev stops new admissions; under the transition lock every release     *)
(* that is due still fits.  Two releases through the plane can take turns   *)
(* writing tombstones, so there the bound stops every swap.                 *)
AdmissionNext(p) ==
    \/ \E o \in Owner : remote.rev < MaxRev /\ BeginSharedAdmission(p, o)
    \/ AcquireRead(p)
    \/ (At[p] \in Plane => remote.rev < MaxRev) /\ SendSwap(p)
    \/ FinishSharedAdmission(p)

ReleaseNext(p) ==
    \/ BeginSharedRelease(p)
    \/ ReleaseRead(p)
    \/ ConfirmOwnerGone(p)
    \/ FinishProviderRelease(p)

Next ==
    \/ \E p \in Proc : AdmissionNext(p) \/ ReleaseNext(p) \/ Fail(p)
    \/ \E q \in requests : DeliverSwap(q)
    \/ \E i \in Instance : RevokeSharedExecution(i)
    \/ Tick

Spec == Init /\ [][Next]_vars

(* Transitions go on, the provider answers, and the recovery sweep retries  *)
(* a release until it is done (RecoverWithResolver runs every interval).    *)
FairSpec ==
    /\ Spec
    /\ \A p \in Proc :
          /\ WF_vars(AcquireRead(p)) /\ WF_vars(SendSwap(p))
          /\ WF_vars(FinishSharedAdmission(p))
          /\ WF_vars(ReleaseNext(p))
    /\ WF_vars(\E q \in requests : DeliverSwap(q))

-----------------------------------------------------------------------------
\* Every variable has its type.
TypeOK ==
    /\ now \in Nat \ {0}
    /\ remote \in Record
    /\ local \in [Instance -> Entry]
    /\ revoked \subseteq Owner
    /\ op \in [Proc -> Transition]
    /\ requests \subseteq Record
    /\ faults \in 0 .. MaxFaults

(* Whoever is admitted locally owns the record, and the lease there does    *)
(* not end before the local one, although the record was written before the *)
(* local entry, later swaps of old transitions may still arrive, and a      *)
(* renewal may be under way (AcquireUntil, FinishSharedAdmission).          *)
RemoteBacksAdmission ==
    \A i \in Instance :
       Admitted(i) => /\ remote.owner = local[i].owner
                      /\ remote.expires >= local[i].deadline

\* The admissions of all instances as leases on the one item.
AdmittedUntil(o) ==
    LET i == Home[o] IN
    IF local[i].owner = o /\ Admitted(i) THEN local[i].deadline ELSE 0

Claims == INSTANCE ClaimLease
          WITH Item <- {"item"}, Claimant <- Owner,
               lease <- [i \in {"item"} |-> [o \in Owner |-> AdmittedUntil(o)]]

(* The instances together implement the lease: no run is admitted while a   *)
(* run of another instance is, whatever is delayed, lost or retried.        *)
ImplementsClaimLease == Claims!Spec

(* An operator's revocation wins over an admission whose swap is            *)
(* acknowledged after it: a revoked incarnation is never given time again.  *)
NoTimeAfterRevocation ==
    [][\A i \in Instance :
          /\ local[i].owner # NoOwner
          /\ local[i].owner \in revoked
          /\ local'[i].owner = local[i].owner
          => local'[i].deadline <= local[i].deadline]_vars

(* A release that was reserved is completed: a crash, an error or a lost    *)
(* answer between reservation, swap and finalization never leaves the item  *)
(* in custody for ever.                                                     *)
ReleaseCompletes ==
    \A i \in Instance : local[i].releasePending ~> ~local[i].releasePending

-----------------------------------------------------------------------------
(* What makes these inductive.  A swap acts only on the revision it read, so *)
(* what was true of the record then still is when the swap arrives.          *)

\* The transition has prepared its swap, and no answer has come.
Prepared(p) == op[p].step \in {"swap", "sent"}

\* An admission's swap of the current revision: it extends the lease it read, or
\* replaces one that has ended.
SwapSound(s) ==
    /\ s.rev <= remote.rev
    /\ s.rev = remote.rev /\ s.owner # NoOwner /\ remote.owner # NoOwner =>
          \/ s.owner = remote.owner /\ s.expires >= remote.expires
          \/ remote.expires <= now

SwapsSound ==
    /\ \A s \in requests : SwapSound(s)
    /\ \A p \in Proc : Prepared(p) => SwapSound(op[p].swap)

\* A tombstone under way can still end the lease in the record.
Ending(s) == s.owner = NoOwner /\ s.rev = remote.rev /\ remote.owner # NoOwner

\* It can do so only while the owner's instance keeps it in release custody.
TombstonesFenced ==
    \A s \in requests : Ending(s) =>
       LET e == local[Home[remote.owner]] IN e.owner = remote.owner /\ e.releasePending

\* Entries are of the instance's own runs, and remember a revocation.
LocalSound ==
    \A i \in Instance : local[i].owner # NoOwner =>
       /\ Home[local[i].owner] = i
       /\ local[i].owner \in revoked => local[i].revoked

\* The transition lock of the file client.
LockExclusive ==
    \A p, q \in Proc :
       p # q /\ At[p] = At[q] /\ At[p] \notin Plane
          => op[p].step = "idle" \/ op[q].step = "idle"

\* What a transition knows of its own swap and, once it has been answered, of
\* the record: the lease it was granted is still there, or the lease it gave
\* back is not ended a second time, unless a newer transition has taken over.
TransitionSound(p) ==
    LET o == op[p] e == local[At[p]] IN
    /\ o.step # "idle" => o.owner \in Owner /\ Home[o.owner] = At[p]
    /\ o.step = "acquire" => o.deadline <= now + TTL - 1
    /\ o.step = "swap" => At[p] \in Plane
    /\ Prepared(p) =>
          /\ o.swap.owner \in {NoOwner, o.owner}
          /\ o.swap.owner # NoOwner => o.swap.expires >= o.deadline
          /\ Ending(o.swap) => remote.owner = o.owner
    /\ o.step = "release" /\ At[p] \notin Plane => e.owner = o.owner /\ e.releasePending
    /\ o.step \in {"confirm", "released"} /\ Current(p) =>
          \A s \in requests : Ending(s) => remote.owner # o.owner
    /\ /\ o.step = "acked" /\ Current(p)
       /\ e.owner = o.owner /\ ~e.releasePending /\ o.deadline > now
       => remote.owner = o.owner /\ remote.expires >= o.deadline

\* The inductive invariant of the shared claim and its custody at the provider.
CustodyInv ==
    /\ TypeOK /\ RemoteBacksAdmission
    /\ SwapsSound /\ TombstonesFenced /\ LocalSound /\ LockExclusive
    /\ \A p \in Proc : TransitionSound(p)

-----------------------------------------------------------------------------
(* A statement of the code's comments that it does not keep.               *)

(* A swap of an incarnation whose custody has ended never succeeds: a       *)
(* release makes every revision an earlier attempt read unusable.           *)
ReleasedStaysReleased ==
    [][\A o \in Owner :
          remote'.owner = o /\ remote'.rev # remote.rev
             => local[Home[o]].owner = o]_vars

=============================================================================
