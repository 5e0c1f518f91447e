----------------------------- MODULE ClaimLedger -----------------------------
(***************************************************************************)
(* The claim ledger of internal/localscheduler: the durable map from a     *)
(* backlog item to the run that may work on it, with the per-run history   *)
(* that is committed together with it.                                     *)
(*                                                                         *)
(* entries and history are the file claims.json.  Every caller takes the   *)
(* claims lock, opens the file afresh, calls one operation and closes, so  *)
(* an operation is one action; what interleaves is the operations of       *)
(* different runs, the daemon and the operator (each a process of its own, *)
(* which may stop between two of them), the clock, and the three ways a    *)
(* write can end.                                                          *)
(*                                                                         *)
(* authority, revokedAck and acquiredLog are not in the file: authority is *)
(* the deadline up to which each run was told it owns an item (and has     *)
(* neither released it nor been revoked), revokedAck the revocations       *)
(* acknowledged to an operator, and acquiredLog the claim.acquired events  *)
(* of the instance journal.                                                *)
(***************************************************************************)
EXTENDS Integers

CONSTANTS
    ScopedKey,       \* storage keys with a gaggle and a provider
    LegacyKey,       \* storage keys of item-only claims (one per external ID)
    LegacyOf,        \* the item-only key with the external ID of a scoped key
    PublicationKey,  \* scoped keys of publication locks
    MergeLockKey,    \* scoped keys of merge locks
    Run, NoRun,
    Owner, NoOwner,  \* shared-claim incarnations
    OwnerRun,        \* the run of an incarnation
    NoKey,           \* the answer "ownership unresolved" of a migration
    Lease,           \* the lease duration
    HistoryTTL,      \* how long a run without claims keeps its history
    ObservationTime, \* times at which a provider observation may be made
    MaxTime          \* bound on the clock

Key == ScopedKey \cup LegacyKey

\* Runs whose pinned workflow policy is shared admission.
SharedRun == {OwnerRun[o] : o \in Owner}

ASSUME KeyAssumption ==
    /\ ScopedKey \cap LegacyKey = {}
    /\ LegacyOf \in [ScopedKey -> LegacyKey]
    /\ PublicationKey \subseteq ScopedKey
    /\ MergeLockKey \subseteq ScopedKey
    /\ NoKey \notin Key

ASSUME RunAssumption ==
    /\ NoRun \notin Run
    /\ NoOwner \notin Owner
    /\ OwnerRun \in [Owner -> Run]

ASSUME TimeAssumption ==
    /\ Lease \in Nat \ {0}
    /\ HistoryTTL \in Nat
    /\ ObservationTime \subseteq Nat \ {0}
    /\ MaxTime \in Nat

VARIABLES
    now,          \* l.now(); time 0 is Go's zero time
    entries,      \* the entries of the file; an absent key holds the zero entry
    history,      \* the history of the file, by run and key
    authority,    \* authority[k][r]: the live deadline last granted to r for k
    revokedAck,   \* pairs <<r, k>> whose revocation was acknowledged
    acquiredLog   \* pairs <<r, k>> with a claim.acquired event

vars == <<now, entries, history, authority, revokedAck, acquiredLog>>

-----------------------------------------------------------------------------
(* Claim entries (ClaimEntry) and history entries.                          *)

Entry == [held : BOOLEAN, run : Run \cup {NoRun}, owner : Owner \cup {NoOwner},
          claimedAt : Nat, renewedAt : Nat, expiresAt : Nat, deadline : Nat,
          releasePending : BOOLEAN, admissionPending : BOOLEAN,
          revoked : BOOLEAN, observedAt : Nat]

NoEntry == [held |-> FALSE, run |-> NoRun, owner |-> NoOwner,
            claimedAt |-> 0, renewedAt |-> 0, expiresAt |-> 0, deadline |-> 0,
            releasePending |-> FALSE, admissionPending |-> FALSE,
            revoked |-> FALSE, observedAt |-> 0]

\* A claim granted now; a zero deadline is a local-only claim.
Fresh(r, o, expires, deadline) ==
    [held |-> TRUE, run |-> r, owner |-> o,
     claimedAt |-> now, renewedAt |-> 0, expiresAt |-> expires, deadline |-> deadline,
     releasePending |-> FALSE, admissionPending |-> FALSE,
     revoked |-> FALSE, observedAt |-> 0]

\* The negation of expired(now).
Live(e) == e.expiresAt > now
Pending(e) == e.releasePending \/ e.admissionPending
LastGrantedAt(e) == IF e.renewedAt > e.claimedAt THEN e.renewedAt ELSE e.claimedAt

(* A history entry keeps what retention, load validation, reclaiming and    *)
(* the revocation check read of it.                                         *)
HistoryEntry == [recorded : BOOLEAN, owner : Owner \cup {NoOwner},
                 deadline : Nat, expiresAt : Nat, revoked : BOOLEAN,
                 activity : Nat]

NoHistory == [recorded |-> FALSE, owner |-> NoOwner, deadline |-> 0,
              expiresAt |-> 0, revoked |-> FALSE, activity |-> 0]

HistoryOf(e, activity) ==
    [recorded |-> TRUE, owner |-> e.owner, deadline |-> e.deadline,
     expiresAt |-> IF e.deadline = 0 THEN 0 ELSE e.expiresAt,
     revoked |-> e.revoked, activity |-> activity]

\* Mutant of RetainedHistory: the TTL prunes revocations too.
RetainedHistoryByTTL(es, hs) ==
    [r \in Run |->
        IF \/ \E k \in Key : es[k].held /\ es[k].run = r
           \/ \E k \in Key : hs[r][k].recorded /\ hs[r][k].activity > now - HistoryTTL
        THEN hs[r]
        ELSE [k \in Key |-> NoHistory]]

(* What persist and load keep of the history: everything of a run that     *)
(* holds a claim or was active within the TTL, and every revocation.       *)
RetainedHistory(es, hs) ==
    [r \in Run |->
        IF \/ \E k \in Key : es[k].held /\ es[k].run = r
           \/ \E k \in Key : hs[r][k].recorded /\ hs[r][k].activity > now - HistoryTTL
        THEN hs[r]
        ELSE [k \in Key |-> IF hs[r][k].revoked THEN hs[r][k] ELSE NoHistory]]

\* What an operation finds after opening the file.
Loaded == RetainedHistory(entries, history)

RecordHistory(k, e) ==
    [Loaded EXCEPT ![e.run][k] = HistoryOf(e, LastGrantedAt(e))]
RecordReleasedHistory(k, e, at) ==
    [Loaded EXCEPT ![e.run][k] = HistoryOf(e, at)]

\* Mutant of ContinueLease: a fresh claim inherits the old observation.
ContinueObservation(prev, e) ==
    IF prev.held /\ prev.run = e.run
    THEN IF Live(prev)
         THEN [e EXCEPT !.claimedAt = prev.claimedAt, !.renewedAt = now,
                        !.observedAt = prev.observedAt]
         ELSE [e EXCEPT !.observedAt = prev.observedAt]
    ELSE e

\* A live lease of the same run continues; anything else starts afresh.
ContinueLease(prev, e) ==
    IF prev.held /\ prev.run = e.run /\ Live(prev)
    THEN [e EXCEPT !.claimedAt = prev.claimedAt, !.renewedAt = now,
                   !.observedAt = prev.observedAt]
    ELSE e

\* The validity a ledger file must have to be opened at all.
ValidShared(k, e) ==
    IF e.owner = NoOwner /\ e.deadline = 0
    THEN TRUE
    ELSE /\ e.owner # NoOwner /\ e.deadline # 0
         /\ k \in ScopedKey
         /\ e.expiresAt = e.deadline

ValidLedger(es, hs) ==
    /\ \A k \in Key :
          es[k].held => /\ ValidShared(k, es[k])
                        /\ es[k].admissionPending => es[k].owner # NoOwner
                        /\ es[k].owner # NoOwner => OwnerRun[es[k].owner] = es[k].run
    /\ \A r \in Run, k \in Key :
          hs[r][k].recorded =>
             /\ ValidShared(k, hs[r][k])
             /\ hs[r][k].owner # NoOwner => OwnerRun[hs[r][k].owner] = r

-----------------------------------------------------------------------------
(* persist, after load accepted the file: a file that fails validation      *)
(* stops every operation.  ok is what the caller is told.  A write that     *)
(* fails before the rename changes nothing; one whose rename landed and     *)
(* whose directory fsync failed is reported as failed too, and the file has *)
(* changed.                                                                 *)

Persist(es, hs, ok) ==
    /\ ValidLedger(entries, history)
    /\ \/ /\ entries' = es
          /\ history' = RetainedHistory(es, hs)
       \/ /\ ~ok
          /\ UNCHANGED <<entries, history>>

\* Run r no longer works under k, nor under the item-only key k came from.
Dropped(k, r) ==
    [j \in Key |-> IF j = k \/ (k \in ScopedKey /\ j = LegacyOf[k])
                   THEN [authority[j] EXCEPT ![r] = 0]
                   ELSE authority[j]]

\* storeClaim: commit ownership and history together, then journal it.
StoreClaim(k, e) ==
    \E ok \in BOOLEAN :
       /\ Persist([entries EXCEPT ![k] = e], RecordHistory(k, e), ok)
       /\ authority' = IF ok THEN [authority EXCEPT ![k][e.run] = e.expiresAt]
                             ELSE authority
       /\ acquiredLog' = IF ok THEN acquiredLog \cup {<<e.run, k>>}
                               ELSE acquiredLog
       /\ UNCHANGED <<now, revokedAck>>

(* Delete the entry of k and record its release.  When the deletion lands,  *)
(* run or operator have agreed that the run is done with the item.          *)
RemoveEntry(k) ==
    \E ok \in BOOLEAN :
       /\ Persist([entries EXCEPT ![k] = NoEntry],
                  RecordReleasedHistory(k, entries[k], now), ok)
       /\ authority' = IF entries' = entries THEN authority
                                             ELSE Dropped(k, entries[k].run)
       /\ UNCHANGED <<now, revokedAck, acquiredLog>>

\* Replace the entry of k by e, with no new grant; auth is what it takes away.
UpdateEntry(k, e, auth) ==
    \E ok \in BOOLEAN :
       /\ Persist([entries EXCEPT ![k] = e], RecordHistory(k, e), ok)
       /\ authority' = IF entries' = entries THEN authority ELSE auth
       /\ UNCHANGED <<now, revokedAck, acquiredLog>>

-----------------------------------------------------------------------------
(* Local claims: claim, RenewEntry, ReclaimAll, release, forceRelease,      *)
(* RecoverExpired, MigrateLegacyClaims.                                     *)

\* An item-only claim excludes every scoped claimant while it is live.
LegacyHolds(k) ==
    /\ k \in ScopedKey
    /\ LET e == entries[LegacyOf[k]] IN e.held /\ (Pending(e) \/ Live(e))

\* Mutant of ClaimRefused: a live claim of another run is overwritten.
ClaimRefusedUnlessPending(k, r) ==
    \/ LegacyHolds(k)
    \/ LET e == entries[k] IN
          e.held /\ (Pending(e) \/ (Live(e) /\ k \in PublicationKey))

ClaimRefused(k, r) ==
    \/ LegacyHolds(k)
    \/ LET e == entries[k] IN
          /\ e.held
          /\ Pending(e) \/ (Live(e) /\ (e.run # r \/ k \in PublicationKey))

claim(k, r) ==
    /\ ~ClaimRefused(k, r)
    /\ ~Loaded[r][k].revoked
    /\ entries[k].deadline = 0
    /\ ~(entries[k].owner # NoOwner /\ Live(entries[k]))
    /\ StoreClaim(k, ContinueLease(entries[k], Fresh(r, NoOwner, now + Lease, 0)))

\* A run pinned to shared admission claims locally only for a publication.
ClaimScoped(k, r) ==
    /\ r \in SharedRun => k \in PublicationKey
    /\ claim(k, r)

\* RenewExpected and RenewEntry on a held local claim: its own run claims again.
RenewEntry(k) ==
    /\ entries[k].held
    /\ k \notin PublicationKey
    /\ claim(k, entries[k].run)

(* The claims an intervention or a continuation takes over from run q: the  *)
(* durable history and, when the instance journal can be read, the          *)
(* claim.acquired events, which have no shared deadline and win over it.    *)
ReclaimSet(q, journalled) ==
    {k \in Key \ (PublicationKey \cup MergeLockKey) :
        Loaded[q][k].recorded \/ (journalled /\ <<q, k>> \in acquiredLog)}
ReclaimedAsShared(q, k, journalled) ==
    Loaded[q][k].deadline # 0 /\ ~(journalled /\ <<q, k>> \in acquiredLog)

ReclaimRefused(k, r) ==
    \/ Pending(entries[k])
    \/ Loaded[r][k].revoked
    \/ entries[k].deadline # 0
    \/ /\ k \in ScopedKey
       /\ LET e == entries[LegacyOf[k]] IN
             e.held /\ (Pending(e) \/ (Live(e) /\ e.run # r))
    \/ entries[k].held /\ Live(entries[k]) /\ entries[k].run # r

\* All of the set or none of it, in one write.
ReclaimAll(q, r, journalled) ==
    LET keys == ReclaimSet(q, journalled)
        es == [k \in Key |->
                 IF k \in keys
                 THEN ContinueLease(entries[k], Fresh(r, NoOwner, now + Lease, 0))
                 ELSE entries[k]]
        hs == [Loaded EXCEPT ![r] =
                 [k \in Key |-> IF k \in keys
                                THEN HistoryOf(es[k], LastGrantedAt(es[k]))
                                ELSE Loaded[r][k]]]
    IN /\ keys # {}
       \* of the callers: a continuation follows a finished run, under its policy
       /\ q # r => \A k \in Key : authority[k][q] = 0
       /\ q \in SharedRun <=> r \in SharedRun
       /\ \A k \in keys : /\ ~ReclaimedAsShared(q, k, journalled)
                          /\ ~ReclaimRefused(k, r)
       /\ \E ok \in BOOLEAN :
             /\ Persist(es, hs, ok)
             /\ authority' = IF ok THEN [k \in Key |->
                                           IF k \in keys
                                           THEN [authority[k] EXCEPT ![r] = now + Lease]
                                           ELSE authority[k]]
                                   ELSE authority
             /\ acquiredLog' = IF ok THEN acquiredLog \cup {<<r, k>> : k \in keys}
                                     ELSE acquiredLog
             /\ UNCHANGED <<now, revokedAck>>

\* release: closed is the verified-publication release code.
Release(k, closed) ==
    /\ entries[k].held
    /\ ~Pending(entries[k])
    /\ k \in PublicationKey => closed
    /\ entries[k].deadline = 0
    /\ RemoveEntry(k)

\* forceRelease: override is an operator's audited publication override.
ForceRelease(k, override) ==
    /\ entries[k].held
    /\ k \in PublicationKey => override
    /\ ~Pending(entries[k])
    /\ entries[k].deadline = 0
    /\ RemoveEntry(k)

\* Mutant of Reapable: lapsed shared claims are reaped like local ones.
ReapableShared(k) ==
    LET e == entries[k] IN e.held /\ ~Pending(e) /\ ~Live(e)

\* The reaper: every expired local claim in one write.
Reapable(k) ==
    LET e == entries[k] IN
    e.held /\ e.deadline = 0 /\ ~Pending(e) /\ ~Live(e)

RecoverExpired ==
    /\ \E k \in Key : Reapable(k)
    /\ \E ok \in BOOLEAN :
          Persist([k \in Key |-> IF Reapable(k) THEN NoEntry ELSE entries[k]],
                  [r \in Run |-> [k \in Key |->
                     IF Reapable(k) /\ entries[k].run = r
                     THEN HistoryOf(entries[k], now) ELSE Loaded[r][k]]], ok)
    /\ UNCHANGED <<now, authority, revokedAck, acquiredLog>>

\* to[l] is the scoped key the resolver found for the item-only claim l.
MigrateLegacyClaims(to) ==
    LET moved == {l \in LegacyKey : /\ entries[l].held
                                    /\ ~Pending(entries[l])
                                    /\ to[l] # NoKey}
        target(k) == k \in ScopedKey /\ LegacyOf[k] \in moved /\ to[LegacyOf[k]] = k
    IN /\ moved # {}
       /\ \A l \in moved : ~entries[to[l]].held
       /\ \E ok \in BOOLEAN :
             Persist([k \in Key |-> IF k \in moved THEN NoEntry
                                    ELSE IF target(k) THEN entries[LegacyOf[k]]
                                    ELSE entries[k]], Loaded, ok)
       /\ UNCHANGED <<now, authority, revokedAck, acquiredLog>>

-----------------------------------------------------------------------------
(* Shared admission, release with provider cleanup, revocation and claim    *)
(* verification.  A caller passes the incarnation it saw; the call changes  *)
(* nothing unless that is still the entry, so the entry stands for it.      *)

\* Mutant of AdmissionRefused: only custody and revocation are respected.
AdmissionRefusedByState(k, o) ==
    LET current == entries[k] IN
    current.held /\ (current.releasePending \/ current.revoked)

\* Another run or incarnation holds k, or its release or revocation is due.
AdmissionRefused(k, o) ==
    LET current == entries[k] IN
    /\ current.held
    /\ \/ current.releasePending \/ current.revoked
       \/ current.owner # NoOwner /\ current.owner # o
       \/ Live(current) /\ current.run # OwnerRun[o]

\* Reserve k for owner o before the remote store is asked.
BeginSharedAdmission(k, o) ==
    LET current == entries[k]
        convert == ~current.held \/ current.owner = NoOwner
        reserved == IF convert THEN Fresh(OwnerRun[o], o, now, now) ELSE current
    IN /\ k \notin PublicationKey
       /\ ~Loaded[OwnerRun[o]][k].revoked
       /\ ~LegacyHolds(k)
       /\ ~AdmissionRefused(k, o)
       /\ ~current.admissionPending   \* else it is answered without a write
       /\ UpdateEntry(k, [reserved EXCEPT !.admissionPending = TRUE],
                      IF convert THEN Dropped(k, OwnerRun[o]) ELSE authority)

\* Mutant of FinishSharedAdmission: the expiry keeps its reserved value.
FinishAdmissionDeadlineOnly(k, d) ==
    LET current == entries[k] IN
    /\ current.held /\ current.admissionPending /\ ~current.releasePending
    /\ ~current.revoked
    /\ d > now /\ d >= current.expiresAt
    /\ StoreClaim(k, [current EXCEPT !.admissionPending = FALSE, !.deadline = d])

(* The remote store acknowledged the lease up to d.  Leases of one owner    *)
(* are requested one after the other and never shortened remotely.          *)
FinishSharedAdmission(k, d) ==
    LET current == entries[k] IN
    /\ current.held /\ current.admissionPending /\ ~current.releasePending
    /\ ~current.revoked
    /\ d > now /\ d >= current.expiresAt
    /\ StoreClaim(k, [current EXCEPT !.admissionPending = FALSE,
                                     !.deadline = d, !.expiresAt = d])

(* Reserve cleanup custody; with expiredOnly, only of a lapsed lease.       *)
BeginProviderRelease(k, shared, expiredOnly) ==
    LET current == entries[k] IN
    /\ k \notin PublicationKey
    /\ current.held
    /\ expiredOnly => ~Live(current)
    /\ (current.deadline # 0) = shared
    /\ ~current.releasePending
    /\ UpdateEntry(k, [current EXCEPT !.releasePending = TRUE,
                                      !.admissionPending = FALSE],
                   Dropped(k, current.run))

\* The provider acknowledged the cleanup of the reserved incarnation.
FinishProviderRelease(k) ==
    /\ entries[k].held /\ entries[k].releasePending
    /\ RemoveEntry(k)

RevokeSharedExecution(k) ==
    LET e == entries[k]
        cut == IF e.deadline > now
               THEN [e EXCEPT !.deadline = now, !.expiresAt = now] ELSE e
    IN /\ e.held /\ k \notin PublicationKey /\ e.deadline # 0
       /\ \/ /\ e.revoked
             /\ ValidLedger(entries, history)
             /\ revokedAck' = revokedAck \cup {<<e.run, k>>}
             /\ UNCHANGED <<now, entries, history, authority, acquiredLog>>
          \/ /\ ~e.revoked
             /\ \E ok \in BOOLEAN :
                   /\ Persist([entries EXCEPT ![k] = [cut EXCEPT !.revoked = TRUE]],
                              RecordHistory(k, [cut EXCEPT !.revoked = TRUE]), ok)
                   /\ revokedAck' = IF ok THEN revokedAck \cup {<<e.run, k>>}
                                          ELSE revokedAck
             /\ authority' = IF entries' = entries THEN authority
                                                   ELSE Dropped(k, e.run)
             /\ UNCHANGED <<now, acquiredLog>>

\* A provider observation of the current incarnation, made at time t.
RecordClaimVerification(k, t) ==
    LET current == entries[k] IN
    /\ current.held /\ Live(current)
    /\ t >= current.claimedAt /\ t <= now
    /\ t > current.observedAt
    /\ UpdateEntry(k, [current EXCEPT !.observedAt = t], authority)

\* The run's process ends without releasing anything.
RunStops(r) ==
    /\ authority' = [k \in Key |-> [authority[k] EXCEPT ![r] = 0]]
    /\ UNCHANGED <<now, entries, history, revokedAck, acquiredLog>>

Tick ==
    /\ now < MaxTime
    /\ now' = now + 1
    /\ authority' = [k \in Key |-> [r \in Run |->
                       IF authority[k][r] > now' THEN authority[k][r] ELSE 0]]
    /\ UNCHANGED <<entries, history, revokedAck, acquiredLog>>

-----------------------------------------------------------------------------
(* The file may hold item-only claims written before claims were scoped.    *)
(* Their runs were pinned before shared admission existed.                  *)
Init ==
    /\ now = 1
    /\ \E holder \in [LegacyKey -> (Run \ SharedRun) \cup {NoRun}] :
          /\ entries = [k \in Key |->
                IF k \in ScopedKey \/ holder[k] = NoRun THEN NoEntry
                ELSE Fresh(holder[k], NoOwner, now + Lease, 0)]
          /\ authority = [k \in Key |-> [r \in Run |->
                IF k \in LegacyKey /\ holder[k] = r THEN now + Lease ELSE 0]]
    /\ history = [r \in Run |-> [k \in Key |-> NoHistory]]
    /\ revokedAck = {}
    /\ acquiredLog = {}

LocalNext ==
    \/ \E k \in ScopedKey, r \in Run : ClaimScoped(k, r)
    \/ \E k \in Key : RenewEntry(k)
    \/ \E q, r \in Run, journalled \in BOOLEAN : ReclaimAll(q, r, journalled)
    \/ \E k \in Key, b \in BOOLEAN : Release(k, b)
    \/ \E k \in Key, b \in BOOLEAN : ForceRelease(k, b)
    \/ RecoverExpired
    \/ \E to \in [LegacyKey -> ScopedKey \cup {NoKey}] :
          /\ \A l \in LegacyKey : to[l] # NoKey => LegacyOf[to[l]] = l
          /\ MigrateLegacyClaims(to)

CustodyNext ==
    \/ \E k \in ScopedKey, o \in Owner : BeginSharedAdmission(k, o)
    \/ \E k \in Key, d \in 1 .. MaxTime + Lease : FinishSharedAdmission(k, d)
    \/ \E k \in Key, b, c \in BOOLEAN : BeginProviderRelease(k, b, c)
    \/ \E k \in Key : FinishProviderRelease(k)
    \/ \E k \in Key : RevokeSharedExecution(k)
    \/ \E k \in Key, t \in ObservationTime : RecordClaimVerification(k, t)

Next == LocalNext \/ CustodyNext \/ (\E r \in Run : RunStops(r)) \/ Tick

Spec == Init /\ [][Next]_vars

-----------------------------------------------------------------------------
\* No run pinned to shared admission ever acquires an item-only claim.
Acquirable == (Run \X ScopedKey) \cup ((Run \ SharedRun) \X LegacyKey)

\* Every variable has its type.
TypeOK ==
    /\ now \in Nat \ {0}
    /\ entries \in [Key -> Entry]
    /\ history \in [Run -> [Key -> HistoryEntry]]
    /\ authority \in [Key -> [Run -> Nat]]
    /\ revokedAck \subseteq Run \X Key
    /\ acquiredLog \subseteq Acquirable

(* Exactly-once processing of an item: two runs are never both inside a     *)
(* lease of one scoped key that the ledger acknowledged to them, whatever   *)
(* claims, renewals, takeovers, reaping and half-failed writes come between *)
(* the two answers (claim, ReclaimAll, RecoverExpired, storeClaim).         *)
AuthorityExclusive ==
    \A k \in ScopedKey, r, s \in Run :
       authority[k][r] > now /\ authority[k][s] > now => r = s

Claims == INSTANCE ClaimLease
          WITH Item <- ScopedKey, Claimant <- Run,
               lease <- [k \in ScopedKey |-> authority[k]]

(* The ledger implements the lease it stands for: time on an item is given  *)
(* only while no other run is inside a lease of it, by a claim, a renewal,  *)
(* a takeover and a shared admission alike, and everything else the ledger  *)
(* does only takes time away.                                               *)
ImplementsClaimLease == Claims!Spec

(* The file always passes the validation of the next open: no sequence of   *)
(* transitions writes a ledger that load refuses, which would stop every    *)
(* claim operation of the instance (validateSharedClaims).                  *)
LoadableLedger == ValidLedger(entries, history)

\* What one step keeps of an acknowledged revocation.
NoTimeAfterRevocation ==
    \A r \in Run, k \in Key :
       <<r, k>> \in revokedAck => authority'[k][r] <= authority[k][r]

(* A revocation acknowledged to the operator holds for good: its run never  *)
(* obtains new time on the item, although entries are released, histories   *)
(* pruned and items migrated or taken over (revokeSharedExecution,          *)
(* retainedHistory).                                                        *)
RevocationPermanent == [][NoTimeAfterRevocation]_vars

\* The incarnation of a key changes only from cleanup custody.
OwnerLeavesByRelease ==
    \A k \in Key :
       entries[k].deadline # 0 /\ entries'[k].owner # entries[k].owner
          => entries[k].releasePending

(* A shared claim leaves the ledger or changes its owner only after cleanup *)
(* custody was reserved: expiry, the reaper and other claimants never drop  *)
(* the record that the remote lease still has to be released.               *)
CustodyKept == [][OwnerLeavesByRelease]_vars

(* The provider observation kept with a claim was made of this incarnation, *)
(* never of an earlier claim of the same run (RecordClaimVerification,      *)
(* continueLease).                                                          *)
VerificationOfIncarnation ==
    \A k \in Key : entries[k].observedAt # 0
                      => entries[k].observedAt >= entries[k].claimedAt

\* What one step leaves of a live publication lock.
GrantedOnce ==
    \A k \in PublicationKey :
       entries[k].held /\ Live(entries[k]) /\ entries'[k].held
          => /\ entries'[k].claimedAt = entries[k].claimedAt
             /\ entries'[k].expiresAt = entries[k].expiresAt

(* A live publication lock is never granted a second time nor extended, not *)
(* even for the run that holds it (publication claims are not re-entrant;   *)
(* merge locks are, and are not meant here).                                *)
PublicationSingleGrant == [][GrantedOnce]_vars

-----------------------------------------------------------------------------
(* Statements of the code's comments and docs that it does not keep.        *)

(* An item has one owner: two runs are never both inside acknowledged       *)
(* leases of one item, one under its item-only key, one under a scoped key. *)
ItemExclusive ==
    \A k \in ScopedKey, r, s \in Run :
       authority[k][r] > now /\ authority[LegacyOf[k]][s] > now => r = s

(* What was admitted remotely is not taken over through the local-only      *)
(* path: a run whose history says shared gets no local claim of the item.   *)
SharedReclaimNeedsRemote ==
    [][\A r \in Run, k \in Key :
          history[r][k].deadline # 0 /\ authority'[k][r] > authority[k][r]
             => entries'[k].deadline # 0]_vars

(* A claim whose write was reported as failed leaves the item as it was: an *)
(* entry that appears in the file was acknowledged to its run (storeClaim,  *)
(* writeFileAtomic); reservations and migrated claims are not such grants.  *)
FailedClaimLeavesItem ==
    [][\A k \in Key :
          LET e == entries'[k] IN
          (~entries[k].held /\ e.held /\ ~Pending(e) /\ (\A j \in Key : entries[j] # e))
             => authority'[k][e.run] = e.expiresAt]_vars

-----------------------------------------------------------------------------
(* The inductive invariant behind the safety properties.                    *)

(* Entries and history of one file agree: what is valid for load, that an   *)
(* absent claim has no leftovers, that item-only claims belong to runs      *)
(* pinned before shared admission, and that the revocation of a held claim  *)
(* is also in the history of its run.                                       *)
Consistent(es, hs) ==
    /\ es \in [Key -> Entry]
    /\ hs \in [Run -> [Key -> HistoryEntry]]
    /\ ValidLedger(es, hs)
    /\ \A k \in Key : es[k].held => es[k].run \in Run
    /\ \A k \in Key : ~es[k].held => es[k] = NoEntry
    /\ \A l \in LegacyKey : es[l].run \notin SharedRun
    /\ \A l \in LegacyKey, r \in Run : hs[r][l].recorded => r \notin SharedRun
    /\ \A k \in Key : es[k].held => (es[k].revoked <=> hs[es[k].run][k].revoked)
    /\ \A r \in Run, k \in Key :
          hs[r][k].revoked => hs[r][k].recorded /\ r \in SharedRun

\* An acknowledged revocation is in the history.
RevocationRecorded ==
    \A r \in Run, k \in Key : <<r, k>> \in revokedAck => history[r][k].revoked

\* The file backs every lease a run was told it has.
AuthorityBacked ==
    \A k \in ScopedKey, r \in Run :
       authority[k][r] > now =>
          /\ entries[k].held
          /\ entries[k].run = r
          /\ entries[k].expiresAt >= authority[k][r]

\* No local lease runs longer than one renewal from now.
LocalLeaseBounded ==
    \A k \in Key : entries[k].deadline = 0 => entries[k].expiresAt <= now + Lease

IInv ==
    /\ TypeOK
    /\ Consistent(entries, history)
    /\ RevocationRecorded
    /\ AuthorityBacked
    /\ LocalLeaseBounded

=============================================================================
