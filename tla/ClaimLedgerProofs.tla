-------------------------- MODULE ClaimLedgerProofs --------------------------
(***************************************************************************)
(* Proofs that the claim ledger keeps its safety properties, and           *)
(* implements the abstract lease, for every set of items, runs and owners, *)
(* every lease and every history TTL.                                      *)
(***************************************************************************)
EXTENDS ClaimLedger, TLAPS

(* What a retention pass may change: it forgets entries of idle runs, and   *)
(* never a revocation or the history of a run with a claim                  *)
(* (retainedHistory).                                                       *)
LEMMA RetainedHistoryKeeps ==
    ASSUME NEW es, NEW hs, Consistent(es, hs), now \in Nat
    PROVE  LET kept == RetainedHistory(es, hs) IN
           /\ kept \in [Run -> [Key -> HistoryEntry]]
           /\ \A r \in Run, k \in Key :
                 /\ kept[r][k] = hs[r][k] \/ kept[r][k] = NoHistory
                 /\ kept[r][k].revoked <=> hs[r][k].revoked
                 /\ kept[r][k].deadline # 0 => hs[r][k].deadline # 0
  <1> DEFINE kept == RetainedHistory(es, hs)
  <1>1. NoHistory \in HistoryEntry /\ ~NoHistory.revoked /\ NoHistory.deadline = 0
    BY Zenon DEF NoHistory, HistoryEntry
  <1>2. \A r \in Run : hs[r] \in [Key -> HistoryEntry]
    BY Zenon DEF Consistent
  <1>3. \A r \in Run : \/ kept[r] = hs[r]
                       \/ kept[r] = [k \in Key |-> IF hs[r][k].revoked THEN hs[r][k]
                                                   ELSE NoHistory]
    BY Zenon DEF RetainedHistory
  <1>4. kept = [r \in Run |-> kept[r]]
    BY Zenon DEF RetainedHistory
  <1> HIDE DEF kept
  <1>5. kept \in [Run -> [Key -> HistoryEntry]]
    <2>1. ASSUME NEW r \in Run PROVE kept[r] \in [Key -> HistoryEntry]
      <3>1. CASE kept[r] = hs[r]
        BY <1>2, <3>1, Zenon
      <3>2. CASE kept[r] = [k \in Key |-> IF hs[r][k].revoked THEN hs[r][k]
                                          ELSE NoHistory]
        BY <1>1, <1>2, <3>2, Zenon
      <3> QED
        BY <1>3, <3>1, <3>2, Zenon
    <2> QED
      BY <2>1, <1>4, Zenon
  <1>6. \A r \in Run, k \in Key :
           /\ kept[r][k] = hs[r][k] \/ kept[r][k] = NoHistory
           /\ kept[r][k].revoked <=> hs[r][k].revoked
           /\ kept[r][k].deadline # 0 => hs[r][k].deadline # 0
    <2> SUFFICES ASSUME NEW r \in Run, NEW k \in Key
                 PROVE  /\ kept[r][k] = hs[r][k] \/ kept[r][k] = NoHistory
                        /\ kept[r][k].revoked <=> hs[r][k].revoked
                        /\ kept[r][k].deadline # 0 => hs[r][k].deadline # 0
      OBVIOUS
    <2>1. CASE kept[r] = hs[r]
      BY <2>1, Zenon
    <2>2. CASE kept[r] = [j \in Key |-> IF hs[r][j].revoked THEN hs[r][j] ELSE NoHistory]
      <3>1. kept[r][k] = IF hs[r][k].revoked THEN hs[r][k] ELSE NoHistory
        BY <2>2, Zenon
      <3> QED
        BY <3>1, <1>1, Zenon
    <2> QED
      BY <1>3, <2>1, <2>2, Zenon
  <1> QED
    BY <1>5, <1>6, Zenon DEF kept

(* Retention keeps a consistent file consistent.                            *)
LEMMA RetainedHistoryConsistent ==
    ASSUME NEW es, NEW hs, Consistent(es, hs), now \in Nat
    PROVE  Consistent(es, RetainedHistory(es, hs))
  <1> DEFINE kept == RetainedHistory(es, hs)
  <1>1. /\ kept \in [Run -> [Key -> HistoryEntry]]
        /\ \A r \in Run, k \in Key :
              /\ kept[r][k] = hs[r][k] \/ kept[r][k] = NoHistory
              /\ kept[r][k].revoked <=> hs[r][k].revoked
    BY RetainedHistoryKeeps, Zenon
  <1> HIDE DEF kept
  <1>2. ~NoHistory.recorded /\ ~NoHistory.revoked
    BY Zenon DEF NoHistory
  <1>3. ValidLedger(es, kept)
    BY <1>1, <1>2 DEF Consistent, ValidLedger
  <1>4. \A l \in LegacyKey, r \in Run : kept[r][l].recorded => r \notin SharedRun
    BY <1>1, <1>2, Zenon DEF Consistent, Key
  <1>5. \A k \in Key : es[k].held => (es[k].revoked <=> kept[es[k].run][k].revoked)
    BY <1>1 DEF Consistent
  <1>6. \A r \in Run, k \in Key :
          kept[r][k].revoked => kept[r][k].recorded /\ r \in SharedRun
    BY <1>1, <1>2, Zenon DEF Consistent
  <1>7. Consistent(es, kept)
    BY <1>1, <1>3, <1>4, <1>5, <1>6, Zenon DEF Consistent
  <1> QED
    BY <1>7, Zenon DEF kept

(* Writing one valid claim together with its history keeps the file         *)
(* consistent (storeClaim and the single-entry transitions).                *)
LEMMA PutConsistent ==
    ASSUME NEW es, NEW hs, Consistent(es, hs),
           NEW k \in Key, NEW e \in Entry, NEW a \in Nat,
           e.held, e.run \in Run, ValidShared(k, e),
           e.admissionPending => e.owner # NoOwner,
           e.owner # NoOwner => OwnerRun[e.owner] = e.run,
           k \in LegacyKey => e.run \notin SharedRun,
           e.revoked => e.run \in SharedRun
    PROVE  Consistent([es EXCEPT ![k] = e],
                      [hs EXCEPT ![e.run][k] = HistoryOf(e, a)])
  <1> DEFINE h == HistoryOf(e, a)
             fs == [es EXCEPT ![k] = e]
             gs == [hs EXCEPT ![e.run][k] = h]
  <1>1. /\ h \in HistoryEntry
        /\ h.recorded /\ h.owner = e.owner /\ h.deadline = e.deadline
        /\ h.revoked = e.revoked
        /\ h.deadline # 0 => h.expiresAt = e.expiresAt
    BY Zenon DEF HistoryOf, HistoryEntry, Entry
  <1>2. /\ es \in [Key -> Entry] /\ hs \in [Run -> [Key -> HistoryEntry]]
        /\ fs \in [Key -> Entry]
        /\ \A j \in Key : fs[j] = IF j = k THEN e ELSE es[j]
    BY DEF Consistent
  <1> HIDE DEF h, fs
  <1>3. /\ gs \in [Run -> [Key -> HistoryEntry]]
        /\ \A r \in Run, j \in Key :
              gs[r][j] = IF r = e.run /\ j = k THEN h ELSE hs[r][j]
    BY <1>1, <1>2, Zenon
  <1> HIDE DEF gs
  <1>4. ValidShared(k, h)
    BY <1>1, Zenon DEF ValidShared
  <1>5. ValidLedger(fs, gs)
    <2>1. \A j \in Key :
            fs[j].held => /\ ValidShared(j, fs[j])
                          /\ fs[j].admissionPending => fs[j].owner # NoOwner
                          /\ fs[j].owner # NoOwner => OwnerRun[fs[j].owner] = fs[j].run
      BY <1>2 DEF Consistent, ValidLedger
    <2>2. \A r \in Run, j \in Key :
            gs[r][j].recorded =>
               /\ ValidShared(j, gs[r][j])
               /\ gs[r][j].owner # NoOwner => OwnerRun[gs[r][j].owner] = r
      BY <1>1, <1>3, <1>4 DEF Consistent, ValidLedger
    <2> QED
      BY <2>1, <2>2, Zenon DEF ValidLedger
  <1>6. \A j \in Key : /\ fs[j].held => fs[j].run \in Run
                       /\ ~fs[j].held => fs[j] = NoEntry
    BY <1>2, Zenon DEF Consistent
  <1>7. /\ \A l \in LegacyKey : fs[l].run \notin SharedRun
        /\ \A l \in LegacyKey, r \in Run : gs[r][l].recorded => r \notin SharedRun
    <2>1. LegacyKey \subseteq Key
      BY Zenon DEF Key
    <2>2. ASSUME NEW l \in LegacyKey PROVE fs[l].run \notin SharedRun
      BY <1>2, <2>1, Zenon DEF Consistent
    <2>3. ASSUME NEW l \in LegacyKey, NEW r \in Run, gs[r][l].recorded
          PROVE  r \notin SharedRun
      BY <1>3, <2>1, <2>3 DEF Consistent
    <2> QED
      BY <2>2, <2>3, Zenon
  <1>8. \A j \in Key : fs[j].held => (fs[j].revoked <=> gs[fs[j].run][j].revoked)
    BY <1>1, <1>2, <1>3, <1>6 DEF Consistent
  <1>9. \A r \in Run, j \in Key :
          gs[r][j].revoked => gs[r][j].recorded /\ r \in SharedRun
    BY <1>1, <1>3 DEF Consistent
  <1>10. Consistent(fs, gs)
    BY <1>2, <1>3, <1>5, <1>6, <1>7, <1>8, <1>9, Zenon DEF Consistent
  <1> QED
    BY <1>10, Zenon DEF fs, gs, h

(* Deleting claims keeps the file consistent.                               *)
LEMMA DeleteConsistent ==
    ASSUME NEW es, NEW hs, Consistent(es, hs), NEW fs \in [Key -> Entry],
           \A k \in Key : fs[k] = NoEntry \/ fs[k] = es[k]
    PROVE  Consistent(fs, hs)
  <1>1. ~NoEntry.held /\ NoEntry.run = NoRun
    BY Zenon DEF NoEntry
  <1>2. NoRun \notin SharedRun
    BY RunAssumption, Zenon DEF SharedRun
  <1>3. ValidLedger(fs, hs)
    BY <1>1 DEF Consistent, ValidLedger
  <1> QED
    BY <1>1, <1>2, <1>3, Zenon DEF Consistent, Key

(* The three outcomes of a write (persist): the file stays consistent, no   *)
(* revocation in it is lost, and the caller is told of success only when    *)
(* the new entries are in the file.                                         *)
LEMMA PersistKeeps ==
    ASSUME IInv, NEW es, NEW hs, NEW ok \in BOOLEAN,
           Consistent(es, hs), Persist(es, hs, ok),
           \A r \in Run, k \in Key : history[r][k].revoked => hs[r][k].revoked
    PROVE  /\ Consistent(entries', history')
           /\ \A r \in Run, k \in Key : history[r][k].revoked => history'[r][k].revoked
           /\ entries' = es \/ (~ok /\ entries' = entries)
  <1>1. CASE entries' = es /\ history' = RetainedHistory(es, hs)
    <2>1. now \in Nat
      BY Zenon DEF IInv, TypeOK
    <2> QED
      BY <1>1, <2>1, RetainedHistoryKeeps, RetainedHistoryConsistent, Zenon
  <1>2. CASE ~ok /\ UNCHANGED <<entries, history>>
    BY <1>2, Zenon DEF IInv
  <1> QED
    BY <1>1, <1>2, Zenon DEF Persist

(* What an operation reads after opening the file.                          *)
LEMMA LoadedKeeps ==
    ASSUME IInv
    PROVE  /\ Consistent(entries, Loaded)
           /\ \A r \in Run, k \in Key :
                 /\ Loaded[r][k].revoked <=> history[r][k].revoked
                 /\ Loaded[r][k] = history[r][k] \/ Loaded[r][k] = NoHistory
  <1>1. now \in Nat /\ Consistent(entries, history)
    BY Zenon DEF IInv, TypeOK
  <1> QED
    BY <1>1, RetainedHistoryKeeps, RetainedHistoryConsistent, Zenon DEF Loaded

(* Taking time away from a run on an item.                                  *)
LEMMA DroppedFacts ==
    ASSUME TypeOK, NEW k \in Key, NEW r \in Run
    PROVE  /\ Dropped(k, r) \in [Key -> [Run -> Nat]]
           /\ \A j \in Key, s \in Run :
                 Dropped(k, r)[j][s] = authority[j][s] \/ Dropped(k, r)[j][s] = 0
           /\ Dropped(k, r)[k][r] = 0
           /\ \A s \in Run : s # r => Dropped(k, r)[k][s] = authority[k][s]
  <1>1. \A j \in Key : authority[j] \in [Run -> Nat]
    BY Zenon DEF TypeOK
  <1> QED
    BY <1>1, Zenon DEF Dropped, TypeOK

(* Time that is kept or taken away is not given to a revoked run.           *)
LEMMA TimeTakenAway ==
    ASSUME authority \in [Key -> [Run -> Nat]],
           \A j \in Key, s \in Run :
              authority'[j][s] = authority[j][s] \/ authority'[j][s] = 0
    PROVE  NoTimeAfterRevocation
  <1>1. ASSUME NEW s \in Run, NEW j \in Key, <<s, j>> \in revokedAck
        PROVE  authority'[j][s] <= authority[j][s]
    <2>1. authority[j][s] \in Nat
      OBVIOUS
    <2>2. authority'[j][s] = authority[j][s] \/ authority'[j][s] = 0
      OBVIOUS
    <2> QED
      BY <2>1, <2>2
  <1> QED
    BY <1>1, Zenon DEF NoTimeAfterRevocation

(* One entry of the file replaced, with its history: the common core of     *)
(* storeClaim and of the transitions that grant no new lease.  auth is the  *)
(* authority left to the runs afterwards.                                   *)
LEMMA WriteEntryStep ==
    ASSUME IInv, NEW k \in Key, NEW e \in Entry, NEW ok \in BOOLEAN,
           Persist([entries EXCEPT ![k] = e],
                   [Loaded EXCEPT ![e.run][k] = HistoryOf(e, LastGrantedAt(e))], ok),
           e.held, e.run \in Run, ValidShared(k, e),
           e.admissionPending => e.owner # NoOwner,
           e.owner # NoOwner => OwnerRun[e.owner] = e.run,
           k \in LegacyKey => e.run \notin SharedRun,
           e.revoked => e.run \in SharedRun,
           Loaded[e.run][k].revoked => e.revoked,
           e.deadline = 0 => e.expiresAt <= now + Lease,
           entries[k].deadline # 0 => e.owner = entries[k].owner \/ entries[k].releasePending
    PROVE  /\ Consistent(entries', history')
           /\ \A r \in Run, j \in Key : history[r][j].revoked => history'[r][j].revoked
           /\ \/ entries' = [entries EXCEPT ![k] = e]
              \/ ~ok /\ entries' = entries
           /\ OwnerLeavesByRelease
           /\ \A j \in Key : entries'[j].deadline = 0 => entries'[j].expiresAt <= now + Lease
           /\ e.revoked /\ ok => history'[e.run][k].revoked
  <1> DEFINE es == [entries EXCEPT ![k] = e]
             hs == [Loaded EXCEPT ![e.run][k] = HistoryOf(e, LastGrantedAt(e))]
  <1>1. /\ Consistent(entries, Loaded)
        /\ \A r \in Run, j \in Key : Loaded[r][j].revoked <=> history[r][j].revoked
    BY LoadedKeeps, Zenon
  <1>2. LastGrantedAt(e) \in Nat
    BY Zenon DEF LastGrantedAt, Entry
  <1>3. Consistent(es, hs)
    BY <1>1, <1>2, PutConsistent, Zenon
  <1>4. \A r \in Run, j \in Key :
           hs[r][j] = IF r = e.run /\ j = k THEN HistoryOf(e, LastGrantedAt(e))
                                           ELSE Loaded[r][j]
    BY <1>1 DEF Consistent
  <1>5. HistoryOf(e, LastGrantedAt(e)).revoked = e.revoked
    BY Zenon DEF HistoryOf
  <1>6. \A j \in Key : es[j] = IF j = k THEN e ELSE entries[j]
    BY Zenon DEF IInv, TypeOK
  <1> HIDE DEF es, hs
  <1>7. \A r \in Run, j \in Key : history[r][j].revoked => hs[r][j].revoked
    BY <1>1, <1>4, <1>5
  <1>8. Persist(es, hs, ok)
    BY Zenon DEF es, hs
  <1>9. /\ Consistent(entries', history')
        /\ \A r \in Run, j \in Key : history[r][j].revoked => history'[r][j].revoked
        /\ entries' = es \/ (~ok /\ entries' = entries)
    BY <1>3, <1>7, <1>8, PersistKeeps
  <1>10. OwnerLeavesByRelease
    BY <1>6, <1>9, Zenon DEF OwnerLeavesByRelease
  <1>11. \A j \in Key : entries'[j].deadline = 0 => entries'[j].expiresAt <= now + Lease
    BY <1>6, <1>9, Zenon DEF IInv, LocalLeaseBounded
  <1>12. e.revoked /\ ok => history'[e.run][k].revoked
    BY <1>6, <1>9 DEF Consistent
  <1> QED
    BY <1>9, <1>10, <1>11, <1>12, Zenon DEF es

\* A file that is consistent after a step is so in the next state.
LEMMA ConsistentNext ==
    ASSUME Consistent(entries', history')
    PROVE  Consistent(entries, history)'
  BY Zenon DEF Consistent, ValidLedger, ValidShared

(* Assembling the invariant of the next state.                              *)
LEMMA NextInvariant ==
    ASSUME IInv,
           now' = now, authority' \in [Key -> [Run -> Nat]],
           revokedAck' \subseteq Run \X Key, acquiredLog' \subseteq Acquirable,
           Consistent(entries', history'),
           \A r \in Run, k \in Key : <<r, k>> \in revokedAck' => history'[r][k].revoked,
           \A k \in Key : entries'[k].deadline = 0 => entries'[k].expiresAt <= now + Lease,
           \A k \in ScopedKey, r \in Run :
              authority'[k][r] > now =>
                 /\ entries'[k].held
                 /\ entries'[k].run = r
                 /\ entries'[k].expiresAt >= authority'[k][r]
    PROVE  IInv'
  <1>1. TypeOK'
    BY Zenon DEF IInv, TypeOK, Consistent
  <1>2. Consistent(entries, history)'
    BY ConsistentNext, Zenon
  <1>3. RevocationRecorded' /\ AuthorityBacked' /\ LocalLeaseBounded'
    BY Zenon DEF RevocationRecorded, AuthorityBacked, LocalLeaseBounded
  <1> QED
    BY <1>1, <1>2, <1>3, Zenon DEF IInv

(* A claim that storeClaim may write for k: a valid unrevoked claim of a    *)
(* run whose shared custody, if there is any, stays with its owner.         *)
Storable(k, e) ==
    /\ e.held /\ e.run \in Run /\ ValidShared(k, e)
    /\ ~e.admissionPending /\ ~e.revoked /\ ~Loaded[e.run][k].revoked
    /\ e.owner # NoOwner => OwnerRun[e.owner] = e.run
    /\ k \in LegacyKey => e.run \notin SharedRun
    /\ e.deadline = 0 => e.expiresAt <= now + Lease
    /\ entries[k].deadline # 0 => e.owner = entries[k].owner
    /\ k \in ScopedKey /\ entries[k].held /\ Live(entries[k])
          => e.run = entries[k].run /\ e.expiresAt >= entries[k].expiresAt

(* storeClaim grants e: no other run may be inside a live lease of the      *)
(* item, and the run itself keeps at least the time it had.                 *)
LEMMA StoreClaimStep ==
    ASSUME IInv, NEW k \in Key, NEW e \in Entry, StoreClaim(k, e), Storable(k, e)
    PROVE  IInv' /\ NoTimeAfterRevocation /\ OwnerLeavesByRelease
  <1>0. PICK ok \in BOOLEAN :
         /\ Persist([entries EXCEPT ![k] = e], RecordHistory(k, e), ok)
         /\ authority' = IF ok THEN [authority EXCEPT ![k][e.run] = e.expiresAt]
                               ELSE authority
         /\ acquiredLog' = IF ok THEN acquiredLog \cup {<<e.run, k>>}
                                 ELSE acquiredLog
         /\ UNCHANGED <<now, revokedAck>>
    BY Zenon DEF StoreClaim
  <1>1. /\ Consistent(entries', history')
        /\ \A r \in Run, j \in Key : history[r][j].revoked => history'[r][j].revoked
        /\ \/ entries' = [entries EXCEPT ![k] = e]
           \/ ~ok /\ entries' = entries
        /\ OwnerLeavesByRelease
        /\ \A j \in Key : entries'[j].deadline = 0 => entries'[j].expiresAt <= now + Lease
    <2>1. Persist([entries EXCEPT ![k] = e],
                  [Loaded EXCEPT ![e.run][k] = HistoryOf(e, LastGrantedAt(e))], ok)
      BY <1>0, Zenon DEF RecordHistory
    <2>2. /\ e.held /\ e.run \in Run /\ ValidShared(k, e)
          /\ e.admissionPending => e.owner # NoOwner
          /\ e.owner # NoOwner => OwnerRun[e.owner] = e.run
          /\ k \in LegacyKey => e.run \notin SharedRun
          /\ e.revoked => e.run \in SharedRun
          /\ Loaded[e.run][k].revoked => e.revoked
          /\ e.deadline = 0 => e.expiresAt <= now + Lease
          /\ entries[k].deadline # 0
                => e.owner = entries[k].owner \/ entries[k].releasePending
      BY Zenon DEF Storable
    <2> QED
      BY <2>1, <2>2, WriteEntryStep, Zenon
  <1>2. /\ authority \in [Key -> [Run -> Nat]] /\ e.expiresAt \in Nat
        /\ entries \in [Key -> Entry] /\ now \in Nat
        /\ \A j \in Key : entries[j].expiresAt \in Nat
    BY Zenon DEF IInv, TypeOK, Entry
  <1>3. /\ authority' \in [Key -> [Run -> Nat]]
        /\ \A j \in Key, r \in Run :
              authority'[j][r] = IF ok /\ j = k /\ r = e.run THEN e.expiresAt
                                                             ELSE authority[j][r]
    BY <1>0, <1>2, Zenon DEF Storable
  <1>4. NoTimeAfterRevocation
    <2>1. <<e.run, k>> \notin revokedAck
      BY LoadedKeeps, Zenon DEF IInv, RevocationRecorded, Storable
    <2>2. ASSUME NEW r \in Run, NEW j \in Key, <<r, j>> \in revokedAck
          PROVE  authority'[j][r] <= authority[j][r]
      <3>1. ~(r = e.run /\ j = k)
        BY <2>1, <2>2, Zenon
      <3>2. authority[j][r] \in Nat /\ authority'[j][r] = authority[j][r]
        BY <1>2, <1>3, <3>1, Zenon
      <3> QED
        BY <3>2
    <2> QED
      BY <2>2, Zenon DEF NoTimeAfterRevocation
  <1>5. ASSUME NEW j \in ScopedKey, NEW r \in Run, authority'[j][r] > now
        PROVE  /\ entries'[j].held /\ entries'[j].run = r
               /\ entries'[j].expiresAt >= authority'[j][r]
    <2>1. j \in Key
      BY Zenon DEF Key
    <2>2. authority[j][r] > now =>
             entries[j].held /\ entries[j].run = r /\ entries[j].expiresAt >= authority[j][r]
      BY Zenon DEF IInv, AuthorityBacked
    <2>3. CASE j # k \/ (~ok /\ entries' = entries)
      <3>1. entries'[j] = entries[j]
        BY <1>1, <1>2, <2>1, <2>3, Zenon
      <3>2. authority'[j][r] = authority[j][r]
        BY <1>3, <2>1, <2>3, Zenon
      <3> QED
        BY <1>5, <2>2, <3>1, <3>2, Zenon
    <2>4. CASE j = k /\ entries' = [entries EXCEPT ![k] = e]
      <3>1. entries'[j] = e
        BY <1>2, <2>1, <2>4, Zenon
      <3>2. CASE ok /\ r = e.run
        <4>1. authority'[j][r] = e.expiresAt
          BY <1>3, <2>1, <2>4, <3>2, Zenon
        <4> QED
          BY <1>2, <3>1, <3>2, <4>1 DEF Storable
      <3>3. CASE ~(ok /\ r = e.run)
        <4>1. authority'[j][r] = authority[j][r] /\ authority[j][r] \in Nat
          BY <1>2, <1>3, <2>1, <3>3, Zenon
        <4>2. /\ entries[j].held /\ entries[j].run = r
              /\ entries[j].expiresAt >= authority[j][r] /\ authority[j][r] > now
          BY <1>5, <2>2, <4>1, Zenon
        <4>3. Live(entries[k])
          BY <1>2, <2>1, <2>4, <4>1, <4>2 DEF Live
        <4>4. e.run = entries[j].run /\ e.expiresAt >= entries[j].expiresAt
          BY <2>4, <4>2, <4>3, Zenon DEF Storable
        <4>5. entries[j].expiresAt \in Nat
          BY <1>2, <2>1, Zenon
        <4> QED
          BY <1>2, <3>1, <4>1, <4>2, <4>4, <4>5 DEF Storable
      <3> QED
        BY <3>2, <3>3, Zenon
    <2> QED
      BY <1>1, <2>3, <2>4, Zenon
  <1>6. acquiredLog' \subseteq Acquirable /\ revokedAck' \subseteq Run \X Key
    <2>1. /\ acquiredLog \subseteq Acquirable /\ revokedAck \subseteq Run \X Key
          /\ <<e.run, k>> \in Acquirable
      BY Zenon DEF IInv, TypeOK, Storable, Acquirable, Key
    <2> QED
      BY <1>0, <2>1, Zenon
  <1>7. \A r \in Run, j \in Key : <<r, j>> \in revokedAck' => history'[r][j].revoked
    BY <1>0, <1>1, Zenon DEF IInv, RevocationRecorded
  <1>8. now' = now
    BY <1>0, Zenon
  <1>9. IInv'
    BY <1>1, <1>3, <1>5, <1>6, <1>7, <1>8, NextInvariant, Zenon
  <1> QED
    BY <1>1, <1>4, <1>9, Zenon

(* A claim that a transition may write for k, leaving the runs the          *)
(* authority auth: it grants no time and forgets no revocation.             *)
Updatable(k, e, auth) ==
    /\ e.held /\ e.run \in Run /\ ValidShared(k, e)
    /\ e.admissionPending => e.owner # NoOwner
    /\ e.owner # NoOwner => OwnerRun[e.owner] = e.run
    /\ k \in LegacyKey => e.run \notin SharedRun
    /\ e.revoked => e.run \in SharedRun
    /\ Loaded[e.run][k].revoked => e.revoked
    /\ e.deadline = 0 => e.expiresAt <= now + Lease
    /\ entries[k].deadline # 0 => e.owner = entries[k].owner
    /\ \A j \in Key, r \in Run : auth[j][r] = authority[j][r] \/ auth[j][r] = 0
    /\ \A r \in Run : k \in ScopedKey /\ auth[k][r] > now
                         => e.run = r /\ e.expiresAt >= auth[k][r]

(* A transition that grants no time: auth takes time away or leaves it, and *)
(* what it leaves on the item is backed by the new entry.                   *)
LEMMA UpdateEntryStep ==
    ASSUME IInv, NEW k \in Key, NEW e \in Entry, NEW auth \in [Key -> [Run -> Nat]],
           UpdateEntry(k, e, auth), Updatable(k, e, auth)
    PROVE  IInv' /\ NoTimeAfterRevocation /\ OwnerLeavesByRelease
  <1>0. PICK ok \in BOOLEAN :
         /\ Persist([entries EXCEPT ![k] = e], RecordHistory(k, e), ok)
         /\ authority' = IF entries' = entries THEN authority ELSE auth
         /\ UNCHANGED <<now, revokedAck, acquiredLog>>
    BY Zenon DEF UpdateEntry
  <1>1. /\ Consistent(entries', history')
        /\ \A r \in Run, j \in Key : history[r][j].revoked => history'[r][j].revoked
        /\ \/ entries' = [entries EXCEPT ![k] = e]
           \/ ~ok /\ entries' = entries
        /\ OwnerLeavesByRelease
        /\ \A j \in Key : entries'[j].deadline = 0 => entries'[j].expiresAt <= now + Lease
    <2>1. Persist([entries EXCEPT ![k] = e],
                  [Loaded EXCEPT ![e.run][k] = HistoryOf(e, LastGrantedAt(e))], ok)
      BY <1>0, Zenon DEF RecordHistory
    <2>2. /\ e.held /\ e.run \in Run /\ ValidShared(k, e)
          /\ e.admissionPending => e.owner # NoOwner
          /\ e.owner # NoOwner => OwnerRun[e.owner] = e.run
          /\ k \in LegacyKey => e.run \notin SharedRun
          /\ e.revoked => e.run \in SharedRun
          /\ Loaded[e.run][k].revoked => e.revoked
          /\ e.deadline = 0 => e.expiresAt <= now + Lease
          /\ entries[k].deadline # 0
                => e.owner = entries[k].owner \/ entries[k].releasePending
      BY Zenon DEF Updatable
    <2> QED
      BY <2>1, <2>2, WriteEntryStep, Zenon
  <1>2. /\ authority \in [Key -> [Run -> Nat]] /\ authority' \in [Key -> [Run -> Nat]]
        /\ entries \in [Key -> Entry] /\ now \in Nat
    BY <1>0, Zenon DEF IInv, TypeOK
  <1>3. \A j \in Key, r \in Run :
           authority'[j][r] = authority[j][r] \/ authority'[j][r] = 0
    <2>1. \A j \in Key, r \in Run : auth[j][r] = authority[j][r] \/ auth[j][r] = 0
      BY Zenon DEF Updatable
    <2>2. authority' = authority \/ authority' = auth
      BY <1>0, Zenon
    <2> QED
      BY <2>1, <2>2, Zenon
  <1>4. NoTimeAfterRevocation
    BY <1>2, <1>3, TimeTakenAway, Zenon
  <1>5. ASSUME NEW j \in ScopedKey, NEW r \in Run, authority'[j][r] > now
        PROVE  /\ entries'[j].held /\ entries'[j].run = r
               /\ entries'[j].expiresAt >= authority'[j][r]
    <2>1. j \in Key /\ authority'[j][r] = authority[j][r]
      BY <1>2, <1>3, <1>5 DEF Key
    <2>2. entries[j].held /\ entries[j].run = r /\ entries[j].expiresAt >= authority[j][r]
      BY <1>5, <2>1, Zenon DEF IInv, AuthorityBacked
    <2>3. CASE j # k \/ entries' = entries
      BY <1>1, <1>2, <2>1, <2>2, <2>3, Zenon
    <2>4. CASE j = k /\ entries' # entries
      <3>1. entries'[k] = e /\ authority' = auth
        BY <1>0, <1>1, <1>2, <2>4, Zenon
      <3> QED
        BY <1>5, <2>4, <3>1, Zenon DEF Updatable
    <2> QED
      BY <2>3, <2>4, Zenon
  <1>6. acquiredLog' \subseteq Acquirable /\ revokedAck' \subseteq Run \X Key
    BY <1>0, Zenon DEF IInv, TypeOK
  <1>7. \A r \in Run, j \in Key : <<r, j>> \in revokedAck' => history'[r][j].revoked
    BY <1>0, <1>1, Zenon DEF IInv, RevocationRecorded
  <1>8. now' = now
    BY <1>0, Zenon
  <1>9. IInv'
    BY <1>1, <1>2, <1>5, <1>6, <1>7, <1>8, NextInvariant, Zenon
  <1> QED
    BY <1>1, <1>4, <1>9, Zenon

(* A set of claims deleted in one write, each with its released history.    *)
LEMMA DeleteStep ==
    ASSUME IInv, NEW es \in [Key -> Entry], NEW hs,
           NEW ok \in BOOLEAN, Persist(es, hs, ok),
           \A k \in Key :
              \/ es[k] = entries[k]
              \/ /\ es[k] = NoEntry
                 /\ entries[k].deadline # 0 => entries[k].releasePending,
           hs \in [Run -> [Key -> HistoryEntry]],
           \A r \in Run, k \in Key :
              \/ hs[r][k] = Loaded[r][k]
              \/ /\ hs[r][k] = HistoryOf(entries[k], now)
                 /\ entries[k].held /\ entries[k].run = r
    PROVE  /\ Consistent(entries', history')
           /\ \A r \in Run, k \in Key : history[r][k].revoked => history'[r][k].revoked
           /\ entries' = es \/ entries' = entries
           /\ OwnerLeavesByRelease
           /\ \A k \in Key : entries'[k].deadline = 0 => entries'[k].expiresAt <= now + Lease
  <1>1. /\ Consistent(entries, Loaded)
        /\ \A r \in Run, j \in Key : Loaded[r][j].revoked <=> history[r][j].revoked
    BY LoadedKeeps, Zenon
  <1>2. /\ entries \in [Key -> Entry] /\ now \in Nat
    BY Zenon DEF IInv, TypeOK
  <1>3. \A k \in Key :
           LET h == HistoryOf(entries[k], now) IN
           /\ h.recorded /\ h.owner = entries[k].owner /\ h.deadline = entries[k].deadline
           /\ h.revoked = entries[k].revoked
           /\ h.deadline # 0 => h.expiresAt = entries[k].expiresAt
    BY Zenon DEF HistoryOf
  <1>4. ValidLedger(entries, hs)
    <2>1. ASSUME NEW r \in Run, NEW k \in Key, hs[r][k].recorded
          PROVE  /\ ValidShared(k, hs[r][k])
                 /\ hs[r][k].owner # NoOwner => OwnerRun[hs[r][k].owner] = r
      <3>1. CASE /\ hs[r][k] = HistoryOf(entries[k], now)
                 /\ entries[k].held /\ entries[k].run = r
        <4>1. /\ hs[r][k].owner = entries[k].owner
              /\ hs[r][k].deadline = entries[k].deadline
              /\ hs[r][k].deadline # 0 => hs[r][k].expiresAt = entries[k].expiresAt
          BY <1>3, <3>1
        <4>2. /\ ValidShared(k, entries[k])
              /\ entries[k].owner # NoOwner => OwnerRun[entries[k].owner] = r
          BY <1>1, <3>1, Zenon DEF Consistent, ValidLedger
        <4> QED
          BY <4>1, <4>2, Zenon DEF ValidShared
      <3>2. CASE hs[r][k] = Loaded[r][k]
        <4>1. ValidLedger(entries, Loaded) /\ Loaded[r][k].recorded
          BY <1>1, <2>1, <3>2, Zenon DEF Consistent
        <4>2. /\ ValidShared(k, Loaded[r][k])
              /\ Loaded[r][k].owner # NoOwner => OwnerRun[Loaded[r][k].owner] = r
          BY <4>1, Zenon DEF ValidLedger
        <4> QED
          BY <3>2, <4>2, Zenon
      <3> QED
        BY <3>1, <3>2, Zenon
    <2> QED
      BY <1>1, <2>1, Zenon DEF Consistent, ValidLedger
  <1>5. Consistent(entries, hs)
    <2>1. LegacyKey \subseteq Key
      BY Zenon DEF Key
    <2>2. \A l \in LegacyKey, r \in Run : hs[r][l].recorded => r \notin SharedRun
      BY <1>1, <2>1 DEF Consistent
    <2>3. \A k \in Key :
             entries[k].held => (entries[k].revoked <=> hs[entries[k].run][k].revoked)
      <3> SUFFICES ASSUME NEW k \in Key, entries[k].held
                   PROVE  entries[k].revoked <=> hs[entries[k].run][k].revoked
        OBVIOUS
      <3>1. /\ entries[k].run \in Run
            /\ entries[k].revoked <=> Loaded[entries[k].run][k].revoked
        BY <1>1, Zenon DEF Consistent
      <3>2. CASE hs[entries[k].run][k] = HistoryOf(entries[k], now)
        BY <1>3, <3>1, <3>2, Zenon
      <3>3. CASE hs[entries[k].run][k] = Loaded[entries[k].run][k]
        BY <3>1, <3>3, Zenon
      <3> QED
        BY <3>1, <3>2, <3>3
    <2>4. \A r \in Run, k \in Key :
             hs[r][k].revoked => hs[r][k].recorded /\ r \in SharedRun
      <3> SUFFICES ASSUME NEW r \in Run, NEW k \in Key, hs[r][k].revoked
                   PROVE  hs[r][k].recorded /\ r \in SharedRun
        OBVIOUS
      <3>1. Loaded[r][k].revoked => Loaded[r][k].recorded /\ r \in SharedRun
        BY <1>1, Zenon DEF Consistent
      <3>2. CASE hs[r][k] = Loaded[r][k]
        BY <3>1, <3>2, Zenon
      <3>3. CASE /\ hs[r][k] = HistoryOf(entries[k], now)
                 /\ entries[k].held /\ entries[k].run = r
        <4>1. hs[r][k].recorded /\ entries[k].revoked
          BY <1>3, <3>3, Zenon
        <4>2. Loaded[r][k].revoked
          BY <1>1, <3>3, <4>1, Zenon DEF Consistent
        <4> QED
          BY <3>1, <4>1, <4>2, Zenon
      <3> QED
        BY <3>2, <3>3, Zenon
    <2> QED
      BY <1>1, <1>4, <2>2, <2>3, <2>4, Zenon DEF Consistent
  <1>6. Consistent(es, hs)
    BY <1>5, DeleteConsistent
  <1>7. \A r \in Run, k \in Key : history[r][k].revoked => hs[r][k].revoked
    <2> SUFFICES ASSUME NEW r \in Run, NEW k \in Key, history[r][k].revoked
                 PROVE  hs[r][k].revoked
      OBVIOUS
    <2>1. Loaded[r][k].revoked
      BY <1>1, Zenon
    <2>2. CASE /\ hs[r][k] = HistoryOf(entries[k], now)
               /\ entries[k].held /\ entries[k].run = r
      <3>1. entries[k].revoked
        BY <1>1, <2>1, <2>2, Zenon DEF Consistent
      <3> QED
        BY <1>3, <2>2, <3>1, Zenon
    <2> QED
      BY <2>1, <2>2
  <1>8. NoEntry.deadline = 0 /\ NoEntry.expiresAt = 0 /\ Lease \in Nat
    BY TimeAssumption, Zenon DEF NoEntry
  <1>9. /\ Consistent(entries', history')
        /\ \A r \in Run, k \in Key : history[r][k].revoked => history'[r][k].revoked
        /\ entries' = es \/ entries' = entries
    BY <1>6, <1>7, PersistKeeps
  <1>10. OwnerLeavesByRelease
    BY <1>2, <1>9, Zenon DEF OwnerLeavesByRelease
  <1>11. \A k \in Key : entries'[k].deadline = 0 => entries'[k].expiresAt <= now + Lease
    BY <1>2, <1>8, <1>9 DEF IInv, LocalLeaseBounded
  <1> QED
    BY <1>9, <1>10, <1>11, Zenon

(* RemoveEntry: release, force release and finished provider release.       *)
LEMMA RemoveEntryStep ==
    ASSUME IInv, NEW k \in Key, RemoveEntry(k), entries[k].held,
           entries[k].deadline # 0 => entries[k].releasePending
    PROVE  IInv' /\ NoTimeAfterRevocation /\ OwnerLeavesByRelease
  <1> DEFINE es == [entries EXCEPT ![k] = NoEntry]
             hs == RecordReleasedHistory(k, entries[k], now)
  <1> PICK ok \in BOOLEAN :
         /\ Persist(es, hs, ok)
         /\ authority' = IF entries' = entries THEN authority
                                               ELSE Dropped(k, entries[k].run)
         /\ UNCHANGED <<now, revokedAck, acquiredLog>>
    BY Zenon DEF RemoveEntry
  <1>1. /\ TypeOK /\ entries \in [Key -> Entry] /\ now \in Nat
        /\ entries[k] \in Entry /\ entries[k].run \in Run
        /\ authority \in [Key -> [Run -> Nat]]
    BY Zenon DEF IInv, TypeOK, Consistent
  <1>2. /\ es \in [Key -> Entry]
        /\ \A j \in Key : es[j] = IF j = k THEN NoEntry ELSE entries[j]
    <2>1. NoEntry \in Entry
      BY Zenon DEF NoEntry, Entry
    <2> QED
      BY <1>1, <2>1, Zenon
  <1>3. HistoryOf(entries[k], now) \in HistoryEntry
    BY <1>1, Zenon DEF HistoryOf, HistoryEntry, Entry
  <1>4. /\ hs \in [Run -> [Key -> HistoryEntry]]
        /\ \A r \in Run, j \in Key :
              \/ hs[r][j] = Loaded[r][j]
              \/ /\ hs[r][j] = HistoryOf(entries[j], now)
                 /\ entries[j].held /\ entries[j].run = r
    <2>1. Loaded \in [Run -> [Key -> HistoryEntry]]
      BY LoadedKeeps, Zenon DEF Consistent
    <2> QED
      BY <1>1, <1>3, <2>1, Zenon DEF RecordReleasedHistory
  <1> HIDE DEF hs
  <1>5. /\ Consistent(entries', history')
        /\ \A r \in Run, j \in Key : history[r][j].revoked => history'[r][j].revoked
        /\ entries' = es \/ entries' = entries
        /\ OwnerLeavesByRelease
        /\ \A j \in Key : entries'[j].deadline = 0 => entries'[j].expiresAt <= now + Lease
    <2> HIDE DEF es
    <2> QED
      BY <1>2, <1>4, DeleteStep
  <1>6. /\ authority' \in [Key -> [Run -> Nat]]
        /\ \A j \in Key, r \in Run :
              authority'[j][r] = authority[j][r] \/ authority'[j][r] = 0
        /\ entries' # entries => authority'[k][entries[k].run] = 0
    BY <1>1, DroppedFacts
  <1>7. NoTimeAfterRevocation
    BY <1>1, <1>6, TimeTakenAway, Zenon
  <1>8. ASSUME NEW j \in ScopedKey, NEW r \in Run, authority'[j][r] > now
        PROVE  /\ entries'[j].held /\ entries'[j].run = r
               /\ entries'[j].expiresAt >= authority'[j][r]
    <2>1. j \in Key /\ authority'[j][r] = authority[j][r]
      BY <1>1, <1>6, <1>8 DEF Key
    <2>2. entries[j].held /\ entries[j].run = r /\ entries[j].expiresAt >= authority[j][r]
      BY <1>8, <2>1, Zenon DEF IInv, AuthorityBacked
    <2>3. entries' = entries \/ j # k
      BY <1>1, <1>6, <1>8, <2>2
    <2> QED
      BY <1>2, <1>5, <2>1, <2>2, <2>3, Zenon
  <1>9. acquiredLog' \subseteq Acquirable /\ revokedAck' \subseteq Run \X Key
    BY Zenon DEF IInv, TypeOK
  <1>10. \A r \in Run, j \in Key : <<r, j>> \in revokedAck' => history'[r][j].revoked
    BY <1>5, Zenon DEF IInv, RevocationRecorded
  <1>11. IInv'
    BY <1>5, <1>6, <1>8, <1>9, <1>10, NextInvariant, Zenon
  <1> QED
    BY <1>5, <1>7, <1>11, Zenon

(* A new claim has the fields it was asked for and no pending transition.   *)
LEMMA FreshEntry ==
    ASSUME NEW r \in Run, NEW o \in Owner \cup {NoOwner}, NEW x \in Nat, NEW d \in Nat,
           now \in Nat
    PROVE  LET f == Fresh(r, o, x, d) IN
           /\ f \in Entry
           /\ f.held /\ f.run = r /\ f.owner = o /\ f.deadline = d /\ f.expiresAt = x
           /\ ~f.admissionPending /\ ~f.releasePending /\ ~f.revoked
  <1>1. Fresh(r, o, x, d) =
           [held |-> TRUE, run |-> r, owner |-> o, claimedAt |-> now, renewedAt |-> 0,
            expiresAt |-> x, deadline |-> d, releasePending |-> FALSE,
            admissionPending |-> FALSE, revoked |-> FALSE, observedAt |-> 0]
    BY Zenon DEF Fresh
  <1>2. Fresh(r, o, x, d) \in Entry
    BY <1>1 DEF Entry
  <1> QED
    BY <1>1, <1>2

(* A new local claim holds its item for one lease from now.                 *)
LEMMA FreshLease ==
    ASSUME NEW r \in Run, now \in Nat
    PROVE  LET f == Fresh(r, NoOwner, now + Lease, 0) IN
           /\ f \in Entry
           /\ f.held /\ f.run = r /\ f.owner = NoOwner /\ f.deadline = 0
           /\ f.expiresAt = now + Lease
           /\ ~f.admissionPending /\ ~f.releasePending /\ ~f.revoked
  <1>1. PICK x \in Nat : x = now + Lease
    BY TimeAssumption
  <1>2. NoOwner \in Owner \cup {NoOwner} /\ 0 \in Nat
    OBVIOUS
  <1>3. LET f == Fresh(r, NoOwner, x, 0) IN
        /\ f \in Entry
        /\ f.held /\ f.run = r /\ f.owner = NoOwner /\ f.deadline = 0
        /\ f.expiresAt = x
        /\ ~f.admissionPending /\ ~f.releasePending /\ ~f.revoked
    BY <1>2, FreshEntry
  <1> QED
    BY <1>1, <1>3, Zenon

(* The entry a local claim or takeover writes.                              *)
LEMMA ContinuedLease ==
    ASSUME TypeOK, NEW k \in Key, NEW r \in Run
    PROVE  LET e == ContinueLease(entries[k], Fresh(r, NoOwner, now + Lease, 0)) IN
           /\ e \in Entry
           /\ e.held /\ e.run = r /\ e.owner = NoOwner /\ e.deadline = 0
           /\ e.expiresAt = now + Lease
           /\ ~e.admissionPending /\ ~e.releasePending /\ ~e.revoked
           /\ ValidShared(k, e)
  <1> DEFINE f == Fresh(r, NoOwner, now + Lease, 0)
  <1>1. entries[k] \in Entry /\ now \in Nat /\ now + Lease \in Nat
    BY TimeAssumption DEF TypeOK
  <1>2. /\ f \in Entry
        /\ f.held /\ f.run = r /\ f.owner = NoOwner /\ f.deadline = 0
        /\ f.expiresAt = now + Lease
        /\ ~f.admissionPending /\ ~f.releasePending /\ ~f.revoked
    BY <1>1, FreshLease, Zenon
  <1> HIDE DEF f
  <1>3. /\ ContinueLease(entries[k], f) \in Entry
        /\ ContinueLease(entries[k], f).held
        /\ ContinueLease(entries[k], f).run = r
        /\ ContinueLease(entries[k], f).owner = NoOwner
        /\ ContinueLease(entries[k], f).deadline = 0
        /\ ContinueLease(entries[k], f).expiresAt = now + Lease
        /\ ~ContinueLease(entries[k], f).admissionPending
        /\ ~ContinueLease(entries[k], f).releasePending
        /\ ~ContinueLease(entries[k], f).revoked
    BY <1>1, <1>2, Zenon DEF ContinueLease, Entry
  <1>4. ValidShared(k, ContinueLease(entries[k], f))
    BY <1>3, Zenon DEF ValidShared
  <1> QED
    BY <1>3, <1>4, Zenon DEF f

(* claim, for a claimant that may hold a key of this kind.                  *)
LEMMA ClaimStep ==
    ASSUME IInv, NEW k \in Key, NEW r \in Run, claim(k, r),
           k \in LegacyKey => r \notin SharedRun
    PROVE  IInv' /\ NoTimeAfterRevocation /\ OwnerLeavesByRelease
  <1> DEFINE e == ContinueLease(entries[k], Fresh(r, NoOwner, now + Lease, 0))
  <1>1. /\ e \in Entry
        /\ e.held /\ e.run = r /\ e.owner = NoOwner /\ e.deadline = 0
        /\ e.expiresAt = now + Lease
        /\ ~e.admissionPending /\ ~e.releasePending /\ ~e.revoked
        /\ ValidShared(k, e)
    BY ContinuedLease, Zenon DEF IInv
  <1>2. now + Lease \in Nat
    BY TimeAssumption DEF IInv, TypeOK
  <1>3. StoreClaim(k, e) /\ ~Loaded[r][k].revoked /\ entries[k].deadline = 0
    BY Zenon DEF claim
  <1>4. entries[k].held /\ Live(entries[k]) => entries[k].run = r
    BY Zenon DEF claim, ClaimRefused
  <1>5. entries[k].expiresAt <= now + Lease
    BY <1>3, Zenon DEF IInv, LocalLeaseBounded
  <1>6. entries[k].expiresAt \in Nat
    BY Zenon DEF IInv, TypeOK, Entry
  <1> HIDE DEF e
  <1>7. Storable(k, e)
    <2>1. e.expiresAt >= entries[k].expiresAt /\ e.expiresAt <= now + Lease
      BY <1>1, <1>2, <1>5, <1>6
    <2>2. entries[k].held /\ Live(entries[k]) => e.run = entries[k].run
      BY <1>1, <1>4, Zenon
    <2>3. ~Loaded[e.run][k].revoked /\ (k \in LegacyKey => e.run \notin SharedRun)
      BY <1>1, <1>3, Zenon
    <2> QED
      BY <1>1, <1>3, <2>1, <2>2, <2>3, Zenon DEF Storable
  <1> QED
    BY <1>1, <1>3, <1>7, StoreClaimStep, Zenon

(* An entry of the file as the invariant describes it.                      *)
LEMMA HeldEntry ==
    ASSUME IInv, NEW k \in Key
    PROVE  /\ entries[k] \in Entry
           /\ entries[k].held =>
                 /\ entries[k].run \in Run
                 /\ ValidShared(k, entries[k])
                 /\ entries[k].admissionPending => entries[k].owner # NoOwner
                 /\ entries[k].owner # NoOwner => OwnerRun[entries[k].owner] = entries[k].run
                 /\ k \in LegacyKey => entries[k].run \notin SharedRun
                 /\ entries[k].revoked <=> Loaded[entries[k].run][k].revoked
                 /\ entries[k].revoked => entries[k].run \in SharedRun
           /\ ~entries[k].held => entries[k].deadline = 0 /\ ~entries[k].releasePending
  <1>1. /\ Consistent(entries, history)
        /\ \A r \in Run : Loaded[r][k].revoked <=> history[r][k].revoked
    BY LoadedKeeps, Zenon DEF IInv
  <1>2. NoEntry.deadline = 0 /\ ~NoEntry.releasePending
    BY Zenon DEF NoEntry
  <1> QED
    BY <1>1, <1>2, Zenon DEF Consistent, ValidLedger

\* Reserving k for an incarnation, fresh or converted, keeps the invariant.
LEMMA BeginSharedAdmissionStep ==
    ASSUME IInv, NEW k \in ScopedKey, NEW o \in Owner, BeginSharedAdmission(k, o)
    PROVE  IInv' /\ NoTimeAfterRevocation /\ OwnerLeavesByRelease
  <1> DEFINE r == OwnerRun[o]
             convert == ~entries[k].held \/ entries[k].owner = NoOwner
             reserved == IF convert THEN Fresh(r, o, now, now) ELSE entries[k]
             e == [reserved EXCEPT !.admissionPending = TRUE]
             auth == IF convert THEN Dropped(k, r) ELSE authority
  <1>1. /\ r \in Run /\ r \in SharedRun /\ k \in Key /\ k \notin LegacyKey
        /\ now \in Nat \ {0} /\ TypeOK /\ authority \in [Key -> [Run -> Nat]]
    BY RunAssumption, KeyAssumption, Zenon DEF IInv, TypeOK, Key, SharedRun
  <1>2. /\ UpdateEntry(k, e, auth)
        /\ ~Loaded[r][k].revoked
        /\ entries[k].held => /\ ~entries[k].revoked
                              /\ entries[k].owner = NoOwner \/ entries[k].owner = o
                              /\ Live(entries[k]) => entries[k].run = r
    BY Zenon DEF BeginSharedAdmission, AdmissionRefused
  <1>3. /\ reserved \in Entry /\ reserved.held /\ reserved.run = r /\ reserved.owner = o
        /\ ValidShared(k, reserved) /\ reserved.deadline # 0 /\ ~reserved.revoked
        /\ ~convert => reserved = entries[k]
    <2>1. CASE convert
      <3> DEFINE f == Fresh(r, o, now, now)
      <3>1. /\ f \in Entry /\ f.held /\ f.run = r /\ f.owner = o /\ f.deadline = now
            /\ f.expiresAt = now /\ ~f.revoked
        <4>1. r \in Run /\ o \in Owner \cup {NoOwner} /\ now \in Nat
          BY <1>1, Zenon
        <4> HIDE DEF r
        <4> QED
          BY <4>1, FreshEntry
      <3>2. o # NoOwner
        BY RunAssumption, Zenon
      <3>3. ValidShared(k, f)
        BY <1>1, <3>1, <3>2, Zenon DEF ValidShared
      <3> HIDE DEF f
      <3>4. reserved = f
        BY <2>1, Zenon DEF f
      <3> QED
        BY <1>1, <2>1, <3>1, <3>3, <3>4, Zenon
    <2>2. CASE ~convert
      BY <1>1, <1>2, <2>2, HeldEntry, Zenon DEF ValidShared
    <2> QED
      BY <2>1, <2>2, Zenon
  <1>4. /\ auth \in [Key -> [Run -> Nat]]
        /\ \A j \in Key, s \in Run : auth[j][s] = authority[j][s] \/ auth[j][s] = 0
        /\ convert => auth[k][r] = 0
    BY <1>1, DroppedFacts
  <1> HIDE DEF reserved, auth
  <1>5. /\ e \in Entry /\ e.held /\ e.run = r /\ e.owner = o
        /\ e.deadline = reserved.deadline /\ e.expiresAt = reserved.expiresAt
        /\ ~e.revoked
    BY <1>3, Zenon DEF Entry
  <1>6. ValidShared(k, e)
    BY <1>3, <1>5, Zenon DEF ValidShared
  <1>7. ASSUME NEW s \in Run, auth[k][s] > now
        PROVE  e.run = s /\ e.expiresAt >= auth[k][s]
    <2>1. auth[k][s] = authority[k][s]
      BY <1>1, <1>4, <1>7
    <2>2. entries[k].held /\ entries[k].run = s /\ entries[k].expiresAt >= authority[k][s]
      BY <1>7, <2>1, Zenon DEF IInv, AuthorityBacked
    <2>3. Live(entries[k])
      <3>1. entries[k].expiresAt \in Nat
        BY <1>1, HeldEntry, Zenon DEF Entry
      <3>2. authority[k][s] \in Nat /\ authority[k][s] > now /\ now \in Nat
        BY <1>1, <1>7, <2>1, Zenon
      <3> QED
        BY <2>2, <3>1, <3>2 DEF Live
    <2>4. s = r
      BY <1>2, <2>2, <2>3, Zenon
    <2>5. ~convert
      BY <1>1, <1>4, <1>7, <2>4
    <2> QED
      BY <1>3, <1>5, <2>1, <2>2, <2>4, <2>5, Zenon
  <1>8. entries[k].deadline # 0 => e.owner = entries[k].owner
    BY <1>1, <1>2, <1>5, HeldEntry, Zenon DEF ValidShared
  <1>9. OwnerRun[o] = r /\ o # NoOwner
    BY RunAssumption, Zenon
  <1> HIDE DEF e, r
  <1>10. Updatable(k, e, auth)
    <2>1. Loaded[e.run][k].revoked => e.revoked
      BY <1>2, <1>5, Zenon
    <2>2. e.owner # NoOwner /\ OwnerRun[e.owner] = e.run /\ e.deadline # 0
      BY <1>3, <1>5, <1>9, Zenon
    <2> QED
      BY <1>1, <1>4, <1>5, <1>6, <1>7, <1>8, <2>1, <2>2, Zenon DEF Updatable
  <1> QED
    BY <1>1, <1>2, <1>4, <1>5, <1>10, UpdateEntryStep, Zenon

\* Granting the remotely acknowledged deadline keeps the invariant.
LEMMA FinishSharedAdmissionStep ==
    ASSUME IInv, NEW k \in Key, NEW d \in Nat, FinishSharedAdmission(k, d)
    PROVE  IInv' /\ NoTimeAfterRevocation /\ OwnerLeavesByRelease
  <1> DEFINE c == entries[k]
             e == [c EXCEPT !.admissionPending = FALSE, !.deadline = d, !.expiresAt = d]
  <1>1. /\ StoreClaim(k, e)
        /\ c.held /\ c.admissionPending /\ ~c.revoked
        /\ d > now /\ d >= c.expiresAt /\ now \in Nat
    BY Zenon DEF FinishSharedAdmission, IInv, TypeOK
  <1>2. /\ c \in Entry /\ c.run \in Run /\ ValidShared(k, c) /\ c.owner # NoOwner
        /\ OwnerRun[c.owner] = c.run
        /\ k \in LegacyKey => c.run \notin SharedRun
        /\ ~Loaded[c.run][k].revoked
    BY <1>1, HeldEntry, Zenon
  <1> HIDE DEF c
  <1>3. /\ e \in Entry /\ e.held /\ e.run = c.run /\ e.owner = c.owner
        /\ e.deadline = d /\ e.expiresAt = d
        /\ ~e.admissionPending /\ ~e.revoked
    BY <1>1, <1>2, Zenon DEF Entry
  <1>4. ValidShared(k, e) /\ e.deadline # 0
    BY <1>1, <1>2, <1>3 DEF ValidShared
  <1> HIDE DEF e
  <1>5. Storable(k, e)
    BY <1>1, <1>2, <1>3, <1>4, Zenon DEF Storable, c
  <1> QED
    BY <1>1, <1>3, <1>5, StoreClaimStep, Zenon

\* Reserving cleanup custody keeps the invariant.
LEMMA BeginProviderReleaseStep ==
    ASSUME IInv, NEW k \in Key, NEW shared \in BOOLEAN, NEW expiredOnly \in BOOLEAN,
           BeginProviderRelease(k, shared, expiredOnly)
    PROVE  IInv' /\ NoTimeAfterRevocation /\ OwnerLeavesByRelease
  <1> DEFINE c == entries[k]
             e == [c EXCEPT !.releasePending = TRUE, !.admissionPending = FALSE]
             auth == Dropped(k, c.run)
  <1>1. UpdateEntry(k, e, auth) /\ c.held /\ TypeOK /\ now \in Nat
    BY Zenon DEF BeginProviderRelease, IInv, TypeOK
  <1>2. /\ c \in Entry /\ c.run \in Run /\ ValidShared(k, c)
        /\ c.owner # NoOwner => OwnerRun[c.owner] = c.run
        /\ k \in LegacyKey => c.run \notin SharedRun
        /\ c.revoked <=> Loaded[c.run][k].revoked
        /\ c.revoked => c.run \in SharedRun
        /\ c.deadline = 0 => c.expiresAt <= now + Lease
    BY <1>1, HeldEntry, Zenon DEF IInv, LocalLeaseBounded
  <1>3. /\ auth \in [Key -> [Run -> Nat]]
        /\ \A j \in Key, r \in Run : auth[j][r] = authority[j][r] \/ auth[j][r] = 0
        /\ auth[k][c.run] = 0
    BY <1>1, <1>2, DroppedFacts
  <1>4. \A r \in Run : k \in ScopedKey => ~(auth[k][r] > now)
    <2>1. ASSUME NEW r \in Run, k \in ScopedKey, auth[k][r] > now PROVE FALSE
      <3>1. auth[k][r] = authority[k][r]
        BY <1>1, <1>3, <2>1
      <3>2. c.run = r
        BY <2>1, <3>1, Zenon DEF IInv, AuthorityBacked
      <3> QED
        BY <1>1, <1>3, <2>1, <3>2
    <2> QED
      BY <2>1, Zenon
  <1> HIDE DEF c, auth
  <1>5. /\ e \in Entry /\ e.held /\ e.run = c.run /\ e.owner = c.owner
        /\ e.deadline = c.deadline /\ e.expiresAt = c.expiresAt
        /\ ~e.admissionPending /\ e.revoked = c.revoked
    BY <1>1, <1>2, Zenon DEF Entry
  <1>6. ValidShared(k, e)
    BY <1>2, <1>5, Zenon DEF ValidShared
  <1> HIDE DEF e
  <1>7. entries[k].owner = e.owner
    BY <1>5, Zenon DEF c
  <1>8. Updatable(k, e, auth)
    BY <1>1, <1>2, <1>3, <1>4, <1>5, <1>6, <1>7, Zenon DEF Updatable
  <1> QED
    BY <1>1, <1>3, <1>5, <1>8, UpdateEntryStep, Zenon

\* Recording a provider observation keeps the invariant.
LEMMA RecordClaimVerificationStep ==
    ASSUME IInv, NEW k \in Key, NEW t \in Nat, RecordClaimVerification(k, t)
    PROVE  IInv' /\ NoTimeAfterRevocation /\ OwnerLeavesByRelease
  <1> DEFINE c == entries[k]
             e == [c EXCEPT !.observedAt = t]
  <1>1. /\ UpdateEntry(k, e, authority) /\ c.held
        /\ authority \in [Key -> [Run -> Nat]]
    BY Zenon DEF RecordClaimVerification, IInv, TypeOK
  <1>2. /\ c \in Entry /\ c.run \in Run /\ ValidShared(k, c)
        /\ c.admissionPending => c.owner # NoOwner
        /\ c.owner # NoOwner => OwnerRun[c.owner] = c.run
        /\ k \in LegacyKey => c.run \notin SharedRun
        /\ c.revoked <=> Loaded[c.run][k].revoked
        /\ c.revoked => c.run \in SharedRun
        /\ c.deadline = 0 => c.expiresAt <= now + Lease
    BY <1>1, HeldEntry, Zenon DEF IInv, LocalLeaseBounded
  <1>3. \A r \in Run : k \in ScopedKey /\ authority[k][r] > now
                          => c.run = r /\ c.expiresAt >= authority[k][r]
    BY Zenon DEF IInv, AuthorityBacked
  <1> HIDE DEF c
  <1>4. /\ e \in Entry /\ e.held /\ e.run = c.run /\ e.owner = c.owner
        /\ e.deadline = c.deadline /\ e.expiresAt = c.expiresAt
        /\ e.admissionPending = c.admissionPending /\ e.revoked = c.revoked
    BY <1>1, <1>2, Zenon DEF Entry
  <1>5. ValidShared(k, e)
    BY <1>2, <1>4, Zenon DEF ValidShared
  <1> HIDE DEF e
  <1>6. entries[k].owner = e.owner
    BY <1>4, Zenon DEF c
  <1>7. Updatable(k, e, authority)
    BY <1>1, <1>2, <1>3, <1>4, <1>5, <1>6, Zenon DEF Updatable
  <1> QED
    BY <1>1, <1>4, <1>7, UpdateEntryStep, Zenon

\* Revoking, first or repeated, keeps the invariant.
LEMMA RevokeSharedExecutionStep ==
    ASSUME IInv, NEW k \in Key, RevokeSharedExecution(k)
    PROVE  IInv' /\ NoTimeAfterRevocation /\ OwnerLeavesByRelease
  <1> DEFINE c == entries[k]
             cut == IF c.deadline > now
                    THEN [c EXCEPT !.deadline = now, !.expiresAt = now] ELSE c
             e == [cut EXCEPT !.revoked = TRUE]
  <1>1. /\ c.held /\ c.deadline # 0 /\ TypeOK /\ now \in Nat \ {0}
        /\ authority \in [Key -> [Run -> Nat]] /\ entries \in [Key -> Entry]
        /\ revokedAck \subseteq Run \X Key /\ acquiredLog \subseteq Acquirable
    BY Zenon DEF RevokeSharedExecution, IInv, TypeOK
  <1>2. /\ c \in Entry /\ c.run \in Run /\ ValidShared(k, c)
        /\ c.owner # NoOwner /\ OwnerRun[c.owner] = c.run
        /\ k \in LegacyKey => c.run \notin SharedRun
        /\ c.revoked <=> Loaded[c.run][k].revoked
    BY <1>1, HeldEntry, Zenon DEF ValidShared
  <1>3. c.run \in SharedRun
    BY <1>2, RunAssumption, Zenon DEF SharedRun, Entry
  <1>4. CASE /\ c.revoked
             /\ revokedAck' = revokedAck \cup {<<c.run, k>>}
             /\ UNCHANGED <<now, entries, history, authority, acquiredLog>>
    <2>1. history[c.run][k].revoked
      BY <1>2, <1>4, LoadedKeeps, Zenon
    <2>2. \A r \in Run, j \in Key : <<r, j>> \in revokedAck' => history'[r][j].revoked
      BY <1>4, <2>1, Zenon DEF IInv, RevocationRecorded
    <2>3. /\ Consistent(entries', history') /\ now' = now
          /\ authority' \in [Key -> [Run -> Nat]]
      BY <1>1, <1>4, Zenon DEF IInv
    <2>4. acquiredLog' \subseteq Acquirable /\ revokedAck' \subseteq Run \X Key
      BY <1>1, <1>2, <1>4
    <2>5. \A j \in Key : entries'[j].deadline = 0 => entries'[j].expiresAt <= now + Lease
      BY <1>4, Zenon DEF IInv, LocalLeaseBounded
    <2>6. \A j \in ScopedKey, r \in Run : authority'[j][r] > now =>
             /\ entries'[j].held /\ entries'[j].run = r
             /\ entries'[j].expiresAt >= authority'[j][r]
      BY <1>4, Zenon DEF IInv, AuthorityBacked
    <2> HIDE DEF c
    <2>7. IInv'
      BY <2>2, <2>3, <2>4, <2>5, <2>6, NextInvariant, Zenon
    <2>8. NoTimeAfterRevocation
      BY <1>1, <1>4, TimeTakenAway, Zenon
    <2>9. OwnerLeavesByRelease
      BY <1>4, Zenon DEF OwnerLeavesByRelease
    <2> QED
      BY <2>7, <2>8, <2>9, Zenon
  <1>5. CASE /\ ~c.revoked
             /\ \E ok \in BOOLEAN :
                   /\ Persist([entries EXCEPT ![k] = e], RecordHistory(k, e), ok)
                   /\ revokedAck' = IF ok THEN revokedAck \cup {<<c.run, k>>}
                                          ELSE revokedAck
             /\ authority' = IF entries' = entries THEN authority ELSE Dropped(k, c.run)
             /\ UNCHANGED <<now, acquiredLog>>
    <2>1. /\ cut \in Entry /\ cut.held /\ cut.run = c.run /\ cut.owner = c.owner
          /\ cut.deadline # 0 /\ cut.expiresAt = cut.deadline
          /\ cut.admissionPending = c.admissionPending
      <3>1. c.expiresAt = c.deadline
        BY <1>1, <1>2, Zenon DEF ValidShared
      <3>2. CASE c.deadline > now
        BY <1>1, <1>2, <3>2, Zenon DEF Entry
      <3>3. CASE ~(c.deadline > now)
        BY <1>1, <1>2, <3>1, <3>3, Zenon
      <3> QED
        BY <3>2, <3>3, Zenon
    <2> HIDE DEF cut
    <2>2. /\ e \in Entry /\ e.held /\ e.run = c.run /\ e.owner = c.owner
          /\ e.deadline # 0 /\ e.expiresAt = e.deadline /\ e.revoked
          /\ e.deadline = cut.deadline
      BY <2>1, Zenon DEF Entry
    <2>3. ValidShared(k, e)
      BY <1>2, <2>2, Zenon DEF ValidShared
    <2> HIDE DEF e
    <2>4. PICK ok \in BOOLEAN :
             /\ Persist([entries EXCEPT ![k] = e], RecordHistory(k, e), ok)
             /\ revokedAck' = IF ok THEN revokedAck \cup {<<c.run, k>>}
                                    ELSE revokedAck
      BY <1>5, Zenon
    <2>5. /\ Consistent(entries', history')
          /\ \A r \in Run, j \in Key : history[r][j].revoked => history'[r][j].revoked
          /\ \/ entries' = [entries EXCEPT ![k] = e]
             \/ ~ok /\ entries' = entries
          /\ OwnerLeavesByRelease
          /\ \A j \in Key : entries'[j].deadline = 0 => entries'[j].expiresAt <= now + Lease
          /\ ok => history'[c.run][k].revoked
      <3>1. Persist([entries EXCEPT ![k] = e],
                    [Loaded EXCEPT ![e.run][k] = HistoryOf(e, LastGrantedAt(e))], ok)
        BY <2>4, Zenon DEF RecordHistory
      <3>2. /\ e.run \in Run
            /\ e.admissionPending => e.owner # NoOwner
            /\ e.owner # NoOwner => OwnerRun[e.owner] = e.run
            /\ k \in LegacyKey => e.run \notin SharedRun
            /\ e.revoked => e.run \in SharedRun
            /\ Loaded[e.run][k].revoked => e.revoked
            /\ e.deadline = 0 => e.expiresAt <= now + Lease
            /\ entries[k].deadline # 0
                  => e.owner = entries[k].owner \/ entries[k].releasePending
        BY <1>2, <1>3, <2>2, Zenon
      <3> HIDE DEF c
      <3>3. /\ Consistent(entries', history')
            /\ \A r \in Run, j \in Key : history[r][j].revoked => history'[r][j].revoked
            /\ \/ entries' = [entries EXCEPT ![k] = e]
               \/ ~ok /\ entries' = entries
            /\ OwnerLeavesByRelease
            /\ \A j \in Key : entries'[j].deadline = 0 => entries'[j].expiresAt <= now + Lease
            /\ e.revoked /\ ok => history'[e.run][k].revoked
        BY <2>2, <2>3, <3>1, <3>2, WriteEntryStep, Zenon
      <3> QED
        BY <2>2, <3>3, Zenon
    <2>6. /\ authority' \in [Key -> [Run -> Nat]]
          /\ \A j \in Key, r \in Run :
                authority'[j][r] = authority[j][r] \/ authority'[j][r] = 0
          /\ entries' # entries => authority'[k][c.run] = 0
      <3> HIDE DEF c, e, cut
      <3>1. /\ Dropped(k, c.run) \in [Key -> [Run -> Nat]]
            /\ \A j \in Key, r \in Run :
                  \/ Dropped(k, c.run)[j][r] = authority[j][r]
                  \/ Dropped(k, c.run)[j][r] = 0
            /\ Dropped(k, c.run)[k][c.run] = 0
        <4>1. TypeOK /\ c.run \in Run
          BY <1>1, <1>2, Zenon
        <4> QED
          BY <4>1, DroppedFacts, Zenon
      <3>2. CASE entries' = entries
        <4>1. authority' = authority
          BY <1>5, <3>2, Zenon
        <4> QED
          BY <1>1, <3>2, <4>1, Zenon
      <3>3. CASE entries' # entries
        <4>1. authority' = Dropped(k, c.run)
          BY <1>5, <3>3, Zenon
        <4> QED
          BY <3>1, <4>1, Zenon
      <3> QED
        BY <3>2, <3>3, Zenon
    <2>7. NoTimeAfterRevocation
      BY <1>1, <2>6, TimeTakenAway, Zenon
    <2>8. ASSUME NEW j \in ScopedKey, NEW r \in Run, authority'[j][r] > now
          PROVE  /\ entries'[j].held /\ entries'[j].run = r
                 /\ entries'[j].expiresAt >= authority'[j][r]
      <3>1. j \in Key /\ authority'[j][r] = authority[j][r]
        BY <1>1, <2>6, <2>8 DEF Key
      <3>2. entries[j].held /\ entries[j].run = r /\ entries[j].expiresAt >= authority[j][r]
        BY <2>8, <3>1, Zenon DEF IInv, AuthorityBacked
      <3>3. entries' = entries \/ j # k
        BY <1>1, <2>6, <2>8, <3>2
      <3> QED
        BY <1>1, <2>5, <3>1, <3>2, <3>3, Zenon
    <2>9. \A r \in Run, j \in Key : <<r, j>> \in revokedAck' => history'[r][j].revoked
      BY <2>4, <2>5, Zenon DEF IInv, RevocationRecorded
    <2>10. acquiredLog' \subseteq Acquirable /\ revokedAck' \subseteq Run \X Key
      <3> HIDE DEF c
      <3>1. /\ acquiredLog' = acquiredLog
            /\ revokedAck' = revokedAck \/ revokedAck' = revokedAck \cup {<<c.run, k>>}
        BY <1>5, <2>4, Zenon
      <3>2. <<c.run, k>> \in Run \X Key
        BY <1>2, Zenon
      <3>3. revokedAck \subseteq Run \X Key /\ acquiredLog \subseteq Acquirable
        BY <1>1, Zenon
      <3> QED
        BY <3>1, <3>2, <3>3, Zenon
    <2>11. IInv'
      BY <1>5, <2>5, <2>6, <2>8, <2>9, <2>10, NextInvariant, Zenon
    <2> QED
      BY <2>5, <2>7, <2>11, Zenon
  <1> QED
    BY <1>4, <1>5, Zenon DEF RevokeSharedExecution

\* The reaper removes only lapsed local claims.
LEMMA RecoverExpiredStep ==
    ASSUME IInv, RecoverExpired
    PROVE  IInv' /\ NoTimeAfterRevocation /\ OwnerLeavesByRelease
  <1> DEFINE es == [k \in Key |-> IF Reapable(k) THEN NoEntry ELSE entries[k]]
             hs == [r \in Run |-> [k \in Key |->
                      IF Reapable(k) /\ entries[k].run = r
                      THEN HistoryOf(entries[k], now) ELSE Loaded[r][k]]]
  <1>1. /\ entries \in [Key -> Entry] /\ now \in Nat
        /\ authority \in [Key -> [Run -> Nat]]
        /\ Loaded \in [Run -> [Key -> HistoryEntry]]
        /\ revokedAck \subseteq Run \X Key /\ acquiredLog \subseteq Acquirable
    BY LoadedKeeps, Zenon DEF IInv, TypeOK, Consistent
  <1>2. PICK ok \in BOOLEAN : Persist(es, hs, ok)
    BY Zenon DEF RecoverExpired
  <1>3. UNCHANGED <<now, authority, revokedAck, acquiredLog>>
    BY Zenon DEF RecoverExpired
  <1>4. /\ es \in [Key -> Entry]
        /\ \A k \in Key : es[k] = IF Reapable(k) THEN NoEntry ELSE entries[k]
    <2>1. NoEntry \in Entry
      BY Zenon DEF NoEntry, Entry
    <2> QED
      BY <1>1, <2>1, Zenon
  <1>5. \A k \in Key : HistoryOf(entries[k], now) \in HistoryEntry
    BY <1>1, Zenon DEF HistoryOf, HistoryEntry, Entry
  <1>6. /\ hs \in [Run -> [Key -> HistoryEntry]]
        /\ \A r \in Run, k \in Key :
              hs[r][k] = IF Reapable(k) /\ entries[k].run = r
                         THEN HistoryOf(entries[k], now) ELSE Loaded[r][k]
    BY <1>1, <1>5, Zenon
  <1> HIDE DEF es, hs
  <1>7. \A k \in Key : Reapable(k) => entries[k].held /\ entries[k].deadline = 0
    BY Zenon DEF Reapable
  <1>8. /\ Consistent(entries', history')
        /\ \A r \in Run, k \in Key : history[r][k].revoked => history'[r][k].revoked
        /\ entries' = es \/ entries' = entries
        /\ OwnerLeavesByRelease
        /\ \A k \in Key : entries'[k].deadline = 0 => entries'[k].expiresAt <= now + Lease
    <2>1. \A k \in Key :
             \/ es[k] = entries[k]
             \/ /\ es[k] = NoEntry
                /\ entries[k].deadline # 0 => entries[k].releasePending
      BY <1>4, <1>7, Zenon
    <2>2. \A r \in Run, k \in Key :
             \/ hs[r][k] = Loaded[r][k]
             \/ /\ hs[r][k] = HistoryOf(entries[k], now)
                /\ entries[k].held /\ entries[k].run = r
      <3> SUFFICES ASSUME NEW r \in Run, NEW k \in Key, hs[r][k] # Loaded[r][k]
                   PROVE  /\ hs[r][k] = HistoryOf(entries[k], now)
                          /\ entries[k].held /\ entries[k].run = r
        OBVIOUS
      <3>1. /\ Reapable(k) /\ entries[k].run = r
            /\ hs[r][k] = HistoryOf(entries[k], now)
        BY <1>6, Zenon
      <3> QED
        BY <1>7, <3>1, Zenon
    <2> QED
      BY <1>2, <1>4, <1>6, <2>1, <2>2, DeleteStep
  <1>9. ASSUME NEW k \in ScopedKey, NEW r \in Run, authority'[k][r] > now
        PROVE  /\ entries'[k].held /\ entries'[k].run = r
               /\ entries'[k].expiresAt >= authority'[k][r]
    <2>1. /\ k \in Key
          /\ entries[k].held /\ entries[k].run = r /\ entries[k].expiresAt >= authority[k][r]
      BY <1>3, <1>9, Zenon DEF IInv, AuthorityBacked, Key
    <2>2. entries[k].expiresAt \in Nat /\ authority[k][r] \in Nat
      BY <1>1, <2>1, Zenon DEF Entry
    <2>3. ~Reapable(k)
      BY <1>1, <1>3, <1>9, <2>1, <2>2 DEF Reapable, Live
    <2> QED
      BY <1>3, <1>4, <1>8, <2>1, <2>3, Zenon
  <1>10. \A r \in Run, k \in Key : <<r, k>> \in revokedAck' => history'[r][k].revoked
    BY <1>3, <1>8, Zenon DEF IInv, RevocationRecorded
  <1>11. IInv'
    BY <1>1, <1>3, <1>8, <1>9, <1>10, NextInvariant, Zenon
  <1>12. NoTimeAfterRevocation
    BY <1>1, <1>3, TimeTakenAway, Zenon
  <1> QED
    BY <1>8, <1>11, <1>12, Zenon

(* A migrated item-only claim is a valid local claim of its scoped key, and *)
(* its run has no revocation to lose.                                       *)
LEMMA MigratedConsistent ==
    ASSUME NEW es, NEW hs, Consistent(es, hs), NEW fs \in [Key -> Entry],
           \A k \in Key :
              \/ fs[k] = es[k]
              \/ fs[k] = NoEntry
              \/ /\ k \in ScopedKey
                 /\ fs[k] = es[LegacyOf[k]] /\ es[LegacyOf[k]].held
                 /\ ~es[LegacyOf[k]].admissionPending
    PROVE  Consistent(fs, hs)
  <1>1. ~NoEntry.held /\ NoEntry.run = NoRun
    BY Zenon DEF NoEntry
  <1>2. NoRun \notin SharedRun
    BY RunAssumption DEF SharedRun
  <1>3. \A k \in ScopedKey : LegacyOf[k] \in LegacyKey /\ LegacyOf[k] \in Key
    BY KeyAssumption, Zenon DEF Key
  <1>4. ScopedKey \cap LegacyKey = {} /\ LegacyKey \subseteq Key
    BY KeyAssumption, Zenon DEF Key
  <1>5. ASSUME NEW k \in Key, fs[k].held, fs[k] # es[k]
        PROVE  /\ k \in ScopedKey /\ fs[k].run \in Run
               /\ fs[k].owner = NoOwner /\ fs[k].deadline = 0
               /\ ~fs[k].admissionPending /\ ~fs[k].revoked
               /\ ~hs[fs[k].run][k].revoked
    <2>1. /\ k \in ScopedKey /\ fs[k] = es[LegacyOf[k]]
          /\ es[LegacyOf[k]].held /\ ~es[LegacyOf[k]].admissionPending
      BY <1>1, <1>5, Zenon
    <2> DEFINE l == LegacyOf[k]
    <2>2. l \in LegacyKey /\ l \in Key /\ l \notin ScopedKey
      BY <1>3, <1>4, <2>1, Zenon
    <2> HIDE DEF l
    <2>3. es[l].held /\ fs[k] = es[l]
      BY <2>1, Zenon DEF l
    <2>4. ValidShared(l, es[l]) /\ es[l].run \in Run /\ es[l].run \notin SharedRun
      BY <2>2, <2>3, Zenon DEF Consistent, ValidLedger
    <2>5. es[l].owner = NoOwner /\ es[l].deadline = 0
      BY <2>2, <2>4, Zenon DEF ValidShared
    <2>6. \A j \in Key : ~hs[es[l].run][j].revoked
      BY <2>4, Zenon DEF Consistent
    <2>7. ~es[l].revoked
      BY <2>2, <2>3, <2>6, Zenon DEF Consistent
    <2> QED
      BY <2>1, <2>3, <2>4, <2>5, <2>6, <2>7, Zenon
  <1>6. ValidLedger(fs, hs)
    <2>1. ASSUME NEW k \in Key, fs[k].held
          PROVE  /\ ValidShared(k, fs[k])
                 /\ fs[k].admissionPending => fs[k].owner # NoOwner
                 /\ fs[k].owner # NoOwner => OwnerRun[fs[k].owner] = fs[k].run
      <3>1. CASE fs[k] = es[k]
        <4>1. ValidLedger(es, hs) /\ es[k].held
          BY <2>1, <3>1, Zenon DEF Consistent
        <4>2. /\ ValidShared(k, es[k])
              /\ es[k].admissionPending => es[k].owner # NoOwner
              /\ es[k].owner # NoOwner => OwnerRun[es[k].owner] = es[k].run
          BY <4>1, Zenon DEF ValidLedger
        <4> QED
          BY <3>1, <4>2, Zenon
      <3>2. CASE fs[k] # es[k]
        BY <1>5, <2>1, <3>2, Zenon DEF ValidShared
      <3> QED
        BY <3>1, <3>2, Zenon
    <2> QED
      BY <2>1, Zenon DEF Consistent, ValidLedger
  <1>7. \A k \in Key : fs[k].held => fs[k].run \in Run
    BY <1>5, Zenon DEF Consistent
  <1>8. \A k \in Key : ~fs[k].held => fs[k] = NoEntry
    BY Zenon DEF Consistent
  <1>9. \A l \in LegacyKey : fs[l].run \notin SharedRun
    BY <1>1, <1>2, <1>4, Zenon DEF Consistent
  <1>10. \A k \in Key : fs[k].held => (fs[k].revoked <=> hs[fs[k].run][k].revoked)
    BY <1>5, Zenon DEF Consistent
  <1> QED
    BY <1>6, <1>7, <1>8, <1>9, <1>10, Zenon DEF Consistent

\* Moving item-only claims to their scoped keys keeps the invariant.
LEMMA MigrateLegacyClaimsStep ==
    ASSUME IInv, NEW to, MigrateLegacyClaims(to)
    PROVE  IInv' /\ NoTimeAfterRevocation /\ OwnerLeavesByRelease
  <1> DEFINE moved == {l \in LegacyKey : /\ entries[l].held
                                         /\ ~Pending(entries[l])
                                         /\ to[l] # NoKey}
             target(k) == k \in ScopedKey /\ LegacyOf[k] \in moved /\ to[LegacyOf[k]] = k
             es == [k \in Key |-> IF k \in moved THEN NoEntry
                                  ELSE IF target(k) THEN entries[LegacyOf[k]]
                                  ELSE entries[k]]
  <1>1. /\ entries \in [Key -> Entry] /\ now \in Nat
        /\ authority \in [Key -> [Run -> Nat]]
        /\ revokedAck \subseteq Run \X Key /\ acquiredLog \subseteq Acquirable
        /\ Consistent(entries, Loaded)
        /\ \A r \in Run, k \in Key : Loaded[r][k].revoked <=> history[r][k].revoked
    BY LoadedKeeps, Zenon DEF IInv, TypeOK
  <1>2. PICK ok \in BOOLEAN : Persist(es, Loaded, ok)
    BY Zenon DEF MigrateLegacyClaims
  <1>3. /\ UNCHANGED <<now, authority, revokedAck, acquiredLog>>
        /\ \A l \in moved : ~entries[to[l]].held
    BY Zenon DEF MigrateLegacyClaims
  <1>4. \A k \in Key :
           /\ k \in moved => es[k] = NoEntry /\ k \in LegacyKey
           /\ k \notin moved /\ ~target(k) => es[k] = entries[k]
           /\ k \notin moved /\ target(k) =>
                 /\ es[k] = entries[LegacyOf[k]] /\ k \in ScopedKey
                 /\ entries[LegacyOf[k]].held /\ ~entries[LegacyOf[k]].admissionPending
                 /\ LegacyOf[k] \in LegacyKey
                 /\ ~entries[k].held
    BY <1>3, Zenon DEF Pending
  <1>5. es \in [Key -> Entry]
    <2>1. NoEntry \in Entry /\ LegacyKey \subseteq Key
      BY Zenon DEF NoEntry, Entry, Key
    <2> QED
      BY <1>1, <2>1, Zenon
  <1> HIDE DEF es, moved, target
  <1>6. Consistent(es, Loaded)
    <2>1. \A k \in Key :
             \/ es[k] = entries[k]
             \/ es[k] = NoEntry
             \/ /\ k \in ScopedKey
                /\ es[k] = entries[LegacyOf[k]] /\ entries[LegacyOf[k]].held
                /\ ~entries[LegacyOf[k]].admissionPending
      BY <1>4, Zenon
    <2> QED
      BY <1>1, <1>5, <2>1, MigratedConsistent, Zenon
  <1>7. /\ Consistent(entries', history')
        /\ \A r \in Run, k \in Key : history[r][k].revoked => history'[r][k].revoked
        /\ entries' = es \/ entries' = entries
    BY <1>1, <1>2, <1>6, PersistKeeps, Zenon
  <1>8. \A l \in LegacyKey : entries[l].deadline = 0 /\ entries[l].expiresAt <= now + Lease
    <2> SUFFICES ASSUME NEW l \in LegacyKey
                 PROVE  entries[l].deadline = 0 /\ entries[l].expiresAt <= now + Lease
      OBVIOUS
    <2>1. l \in Key /\ l \notin ScopedKey
      BY KeyAssumption, Zenon DEF Key
    <2>2. entries[l].deadline = 0
      BY <2>1, HeldEntry, Zenon DEF ValidShared
    <2> QED
      BY <2>1, <2>2, Zenon DEF IInv, LocalLeaseBounded
  <1>9. \A k \in Key : es[k] # entries[k] =>
           entries[k].deadline = 0 /\ es[k].expiresAt <= now + Lease
    <2>1. NoEntry.expiresAt = 0 /\ Lease \in Nat
      BY TimeAssumption, Zenon DEF NoEntry
    <2>2. ASSUME NEW k \in Key, k \in moved
          PROVE  entries[k].deadline = 0 /\ es[k].expiresAt <= now + Lease
      <3>1. es[k].expiresAt = 0 /\ k \in LegacyKey
        BY <1>4, <2>1, <2>2, Zenon
      <3>2. 0 <= now + Lease
        BY <1>1, <2>1
      <3> QED
        BY <1>8, <3>1, <3>2, Zenon
    <2>3. ASSUME NEW k \in Key, k \notin moved, target(k)
          PROVE  entries[k].deadline = 0 /\ es[k].expiresAt <= now + Lease
      <3>1. /\ es[k] = entries[LegacyOf[k]] /\ LegacyOf[k] \in LegacyKey
            /\ ~entries[k].held
        BY <1>4, <2>3, Zenon
      <3> QED
        BY <1>8, <3>1, HeldEntry, Zenon
    <2> QED
      BY <1>4, <2>2, <2>3, Zenon
  <1>10. OwnerLeavesByRelease
    BY <1>7, <1>9, Zenon DEF OwnerLeavesByRelease
  <1>11. \A k \in Key : entries'[k].deadline = 0 => entries'[k].expiresAt <= now + Lease
    BY <1>7, <1>9, Zenon DEF IInv, LocalLeaseBounded
  <1>12. ASSUME NEW k \in ScopedKey, NEW r \in Run, authority'[k][r] > now
         PROVE  /\ entries'[k].held /\ entries'[k].run = r
                /\ entries'[k].expiresAt >= authority'[k][r]
    <2>1. /\ k \in Key /\ k \notin LegacyKey
          /\ entries[k].held /\ entries[k].run = r /\ entries[k].expiresAt >= authority[k][r]
      BY <1>3, <1>12, KeyAssumption, Zenon DEF IInv, AuthorityBacked, Key
    <2>2. es[k] = entries[k]
      BY <1>4, <2>1, Zenon
    <2> QED
      BY <1>3, <1>7, <2>1, <2>2, Zenon
  <1>13. \A r \in Run, k \in Key : <<r, k>> \in revokedAck' => history'[r][k].revoked
    BY <1>3, <1>7, Zenon DEF IInv, RevocationRecorded
  <1>14. IInv'
    BY <1>1, <1>3, <1>7, <1>11, <1>12, <1>13, NextInvariant, Zenon
  <1>15. NoTimeAfterRevocation
    BY <1>1, <1>3, TimeTakenAway, Zenon
  <1> QED
    BY <1>10, <1>14, <1>15, Zenon

\* Taking over a whole set of claims keeps the invariant.
LEMMA ReclaimAllStep ==
    ASSUME IInv, NEW q \in Run, NEW r \in Run, NEW journalled \in BOOLEAN,
           ReclaimAll(q, r, journalled)
    PROVE  IInv' /\ NoTimeAfterRevocation /\ OwnerLeavesByRelease
  <1> DEFINE keys == ReclaimSet(q, journalled)
             es == [k \in Key |->
                      IF k \in keys
                      THEN ContinueLease(entries[k], Fresh(r, NoOwner, now + Lease, 0))
                      ELSE entries[k]]
             hs == [Loaded EXCEPT ![r] =
                      [k \in Key |-> IF k \in keys
                                     THEN HistoryOf(es[k], LastGrantedAt(es[k]))
                                     ELSE Loaded[r][k]]]
  <1>1. /\ TypeOK /\ entries \in [Key -> Entry] /\ now \in Nat /\ now + Lease \in Nat
        /\ authority \in [Key -> [Run -> Nat]]
        /\ revokedAck \subseteq Run \X Key /\ acquiredLog \subseteq Acquirable
        /\ Consistent(entries, Loaded)
        /\ \A s \in Run, k \in Key : Loaded[s][k].revoked <=> history[s][k].revoked
    <2>1. /\ TypeOK /\ entries \in [Key -> Entry] /\ now \in Nat
          /\ authority \in [Key -> [Run -> Nat]]
          /\ revokedAck \subseteq Run \X Key /\ acquiredLog \subseteq Acquirable
      BY Zenon DEF IInv, TypeOK
    <2>2. now + Lease \in Nat
      BY <2>1, TimeAssumption
    <2> QED
      BY <2>1, <2>2, LoadedKeeps, Zenon
  <1>2. /\ keys \subseteq Key
        /\ \A k \in keys : Loaded[q][k].recorded \/ <<q, k>> \in acquiredLog
        /\ \A k \in keys : /\ ~Loaded[r][k].revoked
                           /\ entries[k].deadline = 0
                           /\ entries[k].held /\ Live(entries[k]) => entries[k].run = r
        /\ q \in SharedRun <=> r \in SharedRun
    BY Zenon DEF ReclaimAll, ReclaimSet, ReclaimRefused
  <1>21. \A l \in LegacyKey : l \in keys => r \notin SharedRun
    <2>1. \A l \in LegacyKey : Loaded[q][l].recorded => q \notin SharedRun
      BY <1>1, Zenon DEF Consistent
    <2>2. \A l \in LegacyKey : <<q, l>> \in acquiredLog => q \notin SharedRun
      BY <1>1, KeyAssumption, Zenon DEF Acquirable
    <2> QED
      BY <1>2, <2>1, <2>2, Zenon
  <1>3. PICK ok \in BOOLEAN :
          /\ Persist(es, hs, ok)
          /\ authority' = IF ok THEN [k \in Key |->
                                        IF k \in keys
                                        THEN [authority[k] EXCEPT ![r] = now + Lease]
                                        ELSE authority[k]]
                                ELSE authority
          /\ acquiredLog' = IF ok THEN acquiredLog \cup {<<r, k>> : k \in keys}
                                  ELSE acquiredLog
          /\ UNCHANGED <<now, revokedAck>>
    BY Zenon DEF ReclaimAll
  <1>4. /\ \A k \in Key : k \notin keys => es[k] = entries[k]
        /\ \A k \in keys :
              /\ es[k] \in Entry
              /\ es[k].held /\ es[k].run = r /\ es[k].owner = NoOwner /\ es[k].deadline = 0
              /\ es[k].expiresAt = now + Lease
              /\ ~es[k].admissionPending /\ ~es[k].revoked
              /\ ValidShared(k, es[k])
    <2>1. \A k \in Key : k \notin keys => es[k] = entries[k]
      OBVIOUS
    <2>2. \A k \in keys :
             k \in Key /\ es[k] = ContinueLease(entries[k], Fresh(r, NoOwner, now + Lease, 0))
      BY <1>2, Zenon
    <2> HIDE DEF keys, es
    <2>3. ASSUME NEW k \in keys
          PROVE  /\ es[k] \in Entry
                 /\ es[k].held /\ es[k].run = r /\ es[k].owner = NoOwner /\ es[k].deadline = 0
                 /\ es[k].expiresAt = now + Lease
                 /\ ~es[k].admissionPending /\ ~es[k].revoked
                 /\ ValidShared(k, es[k])
      <3> DEFINE f == ContinueLease(entries[k], Fresh(r, NoOwner, now + Lease, 0))
      <3>1. k \in Key /\ es[k] = f
        BY <2>2, Zenon
      <3>2. /\ f \in Entry
            /\ f.held /\ f.run = r /\ f.owner = NoOwner /\ f.deadline = 0
            /\ f.expiresAt = now + Lease
            /\ ~f.admissionPending /\ ~f.revoked
            /\ ValidShared(k, f)
        <4>1. TypeOK /\ k \in Key
          BY <1>1, <3>1, Zenon
        <4> QED
          BY <4>1, ContinuedLease, Zenon
      <3> HIDE DEF f
      <3> QED
        BY <3>1, <3>2, Zenon
    <2> QED
      BY <2>1, <2>3, Zenon
  <1>0. es = [k \in Key |-> es[k]]
    OBVIOUS
  <1> HIDE DEF keys, es
  <1>5. es \in [Key -> Entry]
    <2>1. \A k \in Key : es[k] \in Entry
      BY <1>1, <1>4, Zenon
    <2> QED
      BY <1>0, <2>1, Zenon
  <1>6. \A k \in keys :
           LET h == HistoryOf(es[k], LastGrantedAt(es[k])) IN
           /\ h \in HistoryEntry
           /\ h.owner = NoOwner /\ h.deadline = 0 /\ ~h.revoked
    <2> SUFFICES ASSUME NEW k \in keys
                 PROVE  LET h == HistoryOf(es[k], LastGrantedAt(es[k])) IN
                        /\ h \in HistoryEntry
                        /\ h.owner = NoOwner /\ h.deadline = 0 /\ ~h.revoked
      OBVIOUS
    <2>1. es[k] \in Entry /\ es[k].owner = NoOwner /\ es[k].deadline = 0 /\ ~es[k].revoked
      BY <1>4, Zenon
    <2>2. LastGrantedAt(es[k]) \in Nat
      BY <2>1, Zenon DEF LastGrantedAt, Entry
    <2> QED
      BY <2>1, <2>2, Zenon DEF HistoryOf, HistoryEntry, Entry
  <1>7. /\ hs \in [Run -> [Key -> HistoryEntry]]
        /\ \A s \in Run, k \in Key :
              hs[s][k] = IF s = r /\ k \in keys
                         THEN HistoryOf(es[k], LastGrantedAt(es[k])) ELSE Loaded[s][k]
    <2>1. Loaded \in [Run -> [Key -> HistoryEntry]]
      BY <1>1, Zenon DEF Consistent
    <2> QED
      BY <1>6, <2>1, Zenon
  <1> HIDE DEF hs
  <1>8. \A k \in keys : /\ hs[r][k] \in HistoryEntry
                        /\ hs[r][k].owner = NoOwner /\ hs[r][k].deadline = 0
                        /\ ~hs[r][k].revoked
    <2> SUFFICES ASSUME NEW k \in keys
                 PROVE  /\ hs[r][k] \in HistoryEntry
                        /\ hs[r][k].owner = NoOwner /\ hs[r][k].deadline = 0
                        /\ ~hs[r][k].revoked
      OBVIOUS
    <2>1. k \in Key
      BY <1>2, Zenon
    <2>2. hs[r][k] = HistoryOf(es[k], LastGrantedAt(es[k]))
      BY <1>7, <2>1, Zenon
    <2> QED
      BY <1>6, <2>2, Zenon
  <1>9. \A s \in Run, k \in Key :
           (s # r \/ k \notin keys) => hs[s][k] = Loaded[s][k]
    BY <1>7, Zenon
  <1>10. Consistent(es, hs)
    <2>1. ValidLedger(es, hs)
      <3>1. \A k \in Key : es[k].held =>
               /\ ValidShared(k, es[k])
               /\ es[k].admissionPending => es[k].owner # NoOwner
               /\ es[k].owner # NoOwner => OwnerRun[es[k].owner] = es[k].run
        <4> SUFFICES ASSUME NEW k \in Key, es[k].held
                     PROVE  /\ ValidShared(k, es[k])
                            /\ es[k].admissionPending => es[k].owner # NoOwner
                            /\ es[k].owner # NoOwner => OwnerRun[es[k].owner] = es[k].run
          OBVIOUS
        <4>1. CASE k \in keys
          BY <1>4, <4>1, Zenon
        <4>2. CASE k \notin keys
          <5>1. es[k] = entries[k]
            BY <1>4, <4>2, Zenon
          <5>2. ValidLedger(entries, Loaded)
            BY <1>1, Zenon DEF Consistent
          <5> QED
            BY <5>1, <5>2, Zenon DEF ValidLedger
        <4> QED
          BY <4>1, <4>2, Zenon
      <3>2. ASSUME NEW s \in Run, NEW k \in Key, hs[s][k].recorded
            PROVE  /\ ValidShared(k, hs[s][k])
                   /\ hs[s][k].owner # NoOwner => OwnerRun[hs[s][k].owner] = s
        <4>1. CASE s = r /\ k \in keys
          BY <1>8, <4>1, Zenon DEF ValidShared
        <4>2. CASE s # r \/ k \notin keys
          <5>1. hs[s][k] = Loaded[s][k] /\ ValidLedger(entries, Loaded)
            BY <1>1, <1>9, <4>2, Zenon DEF Consistent
          <5>2. Loaded[s][k].recorded =>
                   /\ ValidShared(k, Loaded[s][k])
                   /\ Loaded[s][k].owner # NoOwner => OwnerRun[Loaded[s][k].owner] = s
            BY <5>1, Zenon DEF ValidLedger
          <5> QED
            BY <3>2, <5>1, <5>2, Zenon
        <4> QED
          BY <4>1, <4>2, Zenon
      <3> QED
        BY <3>1, <3>2, Zenon DEF ValidLedger
    <2>2. \A k \in Key : /\ es[k].held => es[k].run \in Run
                         /\ ~es[k].held => es[k] = NoEntry
      <3> SUFFICES ASSUME NEW k \in Key
                   PROVE  /\ es[k].held => es[k].run \in Run
                          /\ ~es[k].held => es[k] = NoEntry
        OBVIOUS
      <3>1. CASE k \in keys
        BY <1>4, <3>1, Zenon
      <3>2. CASE k \notin keys
        BY <1>1, <1>4, <3>2, Zenon DEF Consistent
      <3> QED
        BY <3>1, <3>2, Zenon
    <2>3. LegacyKey \subseteq Key
      BY Zenon DEF Key
    <2>4. \A l \in LegacyKey : l \in keys => r \notin SharedRun
      BY <1>21, Zenon
    <2>5. \A l \in LegacyKey : es[l].run \notin SharedRun
      BY <1>1, <1>4, <2>3, <2>4, Zenon DEF Consistent
    <2>6. \A l \in LegacyKey, s \in Run : hs[s][l].recorded => s \notin SharedRun
      <3> SUFFICES ASSUME NEW l \in LegacyKey, NEW s \in Run, hs[s][l].recorded
                   PROVE  s \notin SharedRun
        OBVIOUS
      <3>1. CASE s = r /\ l \in keys
        BY <2>4, <3>1, Zenon
      <3>2. CASE s # r \/ l \notin keys
        <4>1. hs[s][l] = Loaded[s][l]
          BY <1>9, <2>3, <3>2, Zenon
        <4>2. Loaded[s][l].recorded => s \notin SharedRun
          BY <1>1, Zenon DEF Consistent
        <4> QED
          BY <4>1, <4>2, Zenon
      <3> QED
        BY <3>1, <3>2, Zenon
    <2>7. \A k \in Key : es[k].held => (es[k].revoked <=> hs[es[k].run][k].revoked)
      <3> SUFFICES ASSUME NEW k \in Key, es[k].held
                   PROVE  es[k].revoked <=> hs[es[k].run][k].revoked
        OBVIOUS
      <3>1. CASE k \in keys
        BY <1>4, <1>8, <3>1, Zenon
      <3>2. CASE k \notin keys
        <4>1. es[k] = entries[k]
          BY <1>4, <3>2, Zenon
        <4>2. /\ entries[k].run \in Run
              /\ entries[k].revoked <=> Loaded[entries[k].run][k].revoked
          BY <1>1, <4>1, Zenon DEF Consistent
        <4>3. hs[entries[k].run][k] = Loaded[entries[k].run][k]
          BY <1>9, <3>2, <4>2, Zenon
        <4> QED
          BY <4>1, <4>2, <4>3, Zenon
      <3> QED
        BY <3>1, <3>2, Zenon
    <2>8. \A s \in Run, k \in Key :
             hs[s][k].revoked => hs[s][k].recorded /\ s \in SharedRun
      <3> SUFFICES ASSUME NEW s \in Run, NEW k \in Key, hs[s][k].revoked
                   PROVE  hs[s][k].recorded /\ s \in SharedRun
        OBVIOUS
      <3>1. hs[s][k] = Loaded[s][k]
        BY <1>8, <1>9, Zenon
      <3>2. Loaded[s][k].revoked => Loaded[s][k].recorded /\ s \in SharedRun
        BY <1>1, Zenon DEF Consistent
      <3> QED
        BY <3>1, <3>2, Zenon
    <2> QED
      BY <1>5, <1>7, <2>1, <2>2, <2>5, <2>6, <2>7, <2>8, Zenon DEF Consistent
  <1>11. \A s \in Run, k \in Key : history[s][k].revoked => hs[s][k].revoked
    <2> SUFFICES ASSUME NEW s \in Run, NEW k \in Key, history[s][k].revoked
                 PROVE  hs[s][k].revoked
      OBVIOUS
    <2>1. Loaded[s][k].revoked
      BY <1>1, Zenon
    <2>2. s # r \/ k \notin keys
      BY <1>2, <2>1, Zenon
    <2> QED
      BY <1>9, <2>1, <2>2, Zenon
  <1>12. /\ Consistent(entries', history')
         /\ \A s \in Run, k \in Key : history[s][k].revoked => history'[s][k].revoked
         /\ entries' = es \/ (~ok /\ entries' = entries)
    BY <1>3, <1>10, <1>11, PersistKeeps, Zenon
  <1>13. OwnerLeavesByRelease
    <2>1. ASSUME NEW k \in Key, entries[k].deadline # 0
          PROVE  entries'[k] = entries[k]
      <3>1. k \notin keys
        BY <1>2, <2>1, Zenon
      <3> QED
        BY <1>4, <1>12, <3>1
    <2> QED
      BY <2>1, Zenon DEF OwnerLeavesByRelease
  <1>14. \A k \in Key : entries'[k].deadline = 0 => entries'[k].expiresAt <= now + Lease
    BY <1>1, <1>4, <1>12 DEF IInv, LocalLeaseBounded
  <1>15. /\ authority' \in [Key -> [Run -> Nat]]
         /\ \A k \in Key, s \in Run :
               authority'[k][s] = IF ok /\ k \in keys /\ s = r THEN now + Lease
                                                               ELSE authority[k][s]
    BY <1>1, <1>3, Zenon
  <1>16. NoTimeAfterRevocation
    <2>1. ASSUME NEW s \in Run, NEW k \in Key, <<s, k>> \in revokedAck
          PROVE  authority'[k][s] <= authority[k][s]
      <3>1. Loaded[s][k].revoked
        BY <1>1, <2>1, Zenon DEF IInv, RevocationRecorded
      <3>2. ~(k \in keys /\ s = r)
        BY <1>2, <3>1, Zenon
      <3>3. authority'[k][s] = authority[k][s] /\ authority[k][s] \in Nat
        BY <1>1, <1>15, <3>2, Zenon
      <3> QED
        BY <3>3
    <2> QED
      BY <2>1, Zenon DEF NoTimeAfterRevocation
  <1>17. ASSUME NEW k \in ScopedKey, NEW s \in Run, authority'[k][s] > now
         PROVE  /\ entries'[k].held /\ entries'[k].run = s
                /\ entries'[k].expiresAt >= authority'[k][s]
    <2>1. k \in Key
      BY Zenon DEF Key
    <2>2. authority[k][s] > now =>
             entries[k].held /\ entries[k].run = s /\ entries[k].expiresAt >= authority[k][s]
      BY Zenon DEF IInv, AuthorityBacked
    <2>3. CASE k \notin keys \/ entries' = entries
      <3>1. entries'[k] = entries[k]
        BY <1>4, <1>12, <2>1, <2>3
      <3>2. CASE authority'[k][s] = authority[k][s]
        BY <1>17, <2>2, <3>1, <3>2, Zenon
      <3>3. CASE authority'[k][s] # authority[k][s]
        <4>1. ok /\ k \in keys /\ s = r
          BY <1>15, <2>1, <3>3, Zenon
        <4>2. entries' = es
          BY <1>12, <4>1, Zenon
        <4>3. authority'[k][s] = now + Lease /\ authority'[k][s] \in Nat
          BY <1>15, <2>1, <4>1, Zenon
        <4>4. es[k].held /\ es[k].run = r /\ es[k].expiresAt = now + Lease
          BY <1>4, <4>1, Zenon
        <4>5. /\ entries'[k].held /\ entries'[k].run = s
              /\ entries'[k].expiresAt = authority'[k][s]
          BY <4>1, <4>2, <4>3, <4>4, Zenon
        <4> QED
          BY <4>3, <4>5
      <3> QED
        BY <3>2, <3>3, Zenon
    <2>4. CASE k \in keys /\ entries' = es
      <3>1. entries[k].expiresAt <= now + Lease /\ entries[k].expiresAt \in Nat
            /\ authority[k][s] \in Nat
        <4>1. entries[k] \in Entry /\ entries[k].deadline = 0
          BY <1>1, <1>2, <2>1, <2>4, Zenon
        <4>2. entries[k].expiresAt <= now + Lease
          BY <2>1, <4>1, Zenon DEF IInv, LocalLeaseBounded
        <4> QED
          BY <1>1, <2>1, <4>1, <4>2, Zenon DEF Entry
      <3>2. authority[k][s] > now => s = r
        <4> SUFFICES ASSUME authority[k][s] > now PROVE s = r
          OBVIOUS
        <4>1. /\ entries[k].held /\ entries[k].run = s
              /\ entries[k].expiresAt >= authority[k][s]
          BY <2>2, Zenon
        <4>2. now \in Nat
          BY <1>1, Zenon
        <4>3. Live(entries[k])
          BY <3>1, <4>1, <4>2 DEF Live
        <4> QED
          BY <1>2, <2>4, <4>1, <4>3, Zenon
      <3>3. entries'[k].held /\ entries'[k].run = r /\ entries'[k].expiresAt = now + Lease
        BY <1>4, <2>4, Zenon
      <3> QED
        <4>1. authority'[k][s] = authority[k][s] \/ (s = r /\ authority'[k][s] = now + Lease)
          BY <1>15, <2>1, Zenon
        <4>0. now + Lease \in Nat
          BY <1>1, Zenon
        <4>2. CASE s = r /\ authority'[k][s] = now + Lease
          <5>1. entries'[k].expiresAt = authority'[k][s] /\ authority'[k][s] \in Nat
            BY <3>3, <4>0, <4>2, Zenon
          <5> QED
            BY <3>3, <4>2, <5>1
        <4>3. CASE authority'[k][s] = authority[k][s]
          <5>1. s = r /\ entries[k].expiresAt >= authority[k][s]
            BY <1>17, <2>2, <3>2, <4>3, Zenon
          <5> QED
            <6>1. now + Lease >= authority[k][s]
              BY <3>1, <4>0, <5>1
            <6> QED
              BY <3>3, <4>3, <5>1, <6>1, Zenon
        <4> QED
          BY <4>1, <4>2, <4>3, Zenon
    <2> QED
      BY <1>12, <2>3, <2>4, Zenon
  <1>18. acquiredLog' \subseteq Acquirable /\ revokedAck' \subseteq Run \X Key
    <2>1. ASSUME NEW k \in keys PROVE <<r, k>> \in Acquirable
      <3>1. k \in LegacyKey => r \notin SharedRun
        BY <1>21, Zenon
      <3> QED
        BY <1>2, <3>1, Zenon DEF Acquirable, Key
    <2>2. acquiredLog' = acquiredLog \/ acquiredLog' = acquiredLog \cup {<<r, k>> : k \in keys}
      BY <1>3, Zenon
    <2>3. revokedAck' = revokedAck
      BY <1>3, Zenon
    <2> HIDE <1>3
    <2> QED
      BY <1>1, <2>1, <2>2, <2>3, Zenon
  <1>19. \A s \in Run, k \in Key : <<s, k>> \in revokedAck' => history'[s][k].revoked
    BY <1>3, <1>12, Zenon DEF IInv, RevocationRecorded
  <1>20. IInv'
    BY <1>3, <1>12, <1>14, <1>15, <1>17, <1>18, <1>19, NextInvariant, Zenon
  <1> QED
    BY <1>13, <1>16, <1>20, Zenon

\* A run that stops loses time only.
LEMMA RunStopsStep ==
    ASSUME IInv, NEW r \in Run, RunStops(r)
    PROVE  IInv' /\ NoTimeAfterRevocation /\ OwnerLeavesByRelease
  <1>1. /\ UNCHANGED <<now, entries, history, revokedAck, acquiredLog>>
        /\ authority \in [Key -> [Run -> Nat]] /\ now \in Nat
        /\ revokedAck \subseteq Run \X Key /\ acquiredLog \subseteq Acquirable
    BY Zenon DEF RunStops, IInv, TypeOK
  <1>2. /\ authority' \in [Key -> [Run -> Nat]]
        /\ \A k \in Key, s \in Run :
              authority'[k][s] = authority[k][s] \/ authority'[k][s] = 0
    BY <1>1, Zenon DEF RunStops
  <1>3. IInv'
    <2>1. ASSUME NEW k \in ScopedKey, NEW s \in Run, authority'[k][s] > now
          PROVE  authority[k][s] = authority'[k][s]
      BY <1>1, <1>2, <2>1 DEF Key
    <2>2. Consistent(entries', history')
      BY <1>1, Zenon DEF IInv
    <2>3. \A k \in ScopedKey, s \in Run : authority'[k][s] > now =>
             /\ entries'[k].held /\ entries'[k].run = s
             /\ entries'[k].expiresAt >= authority'[k][s]
      BY <1>1, <2>1 DEF IInv, AuthorityBacked
    <2> QED
      BY <1>1, <1>2, <2>2, <2>3, NextInvariant, Zenon
         DEF IInv, RevocationRecorded, LocalLeaseBounded
  <1>4. NoTimeAfterRevocation
    BY <1>1, <1>2, TimeTakenAway, Zenon
  <1>5. OwnerLeavesByRelease
    BY <1>1, Zenon DEF OwnerLeavesByRelease
  <1> QED
    BY <1>3, <1>4, <1>5, Zenon

\* The clock takes lapsed time away.
LEMMA TickStep ==
    ASSUME IInv, Tick
    PROVE  IInv' /\ NoTimeAfterRevocation /\ OwnerLeavesByRelease
  <1>1. /\ UNCHANGED <<entries, history, revokedAck, acquiredLog>>
        /\ authority \in [Key -> [Run -> Nat]] /\ now \in Nat \ {0} /\ now' = now + 1
        /\ Lease \in Nat /\ entries \in [Key -> Entry]
    BY TimeAssumption, Zenon DEF Tick, IInv, TypeOK
  <1>2. /\ authority' \in [Key -> [Run -> Nat]]
        /\ \A k \in Key, s \in Run :
              authority'[k][s] = authority[k][s] \/ authority'[k][s] = 0
    BY <1>1, Zenon DEF Tick
  <1>3. TypeOK'
    BY <1>1, <1>2 DEF IInv, TypeOK
  <1>4. Consistent(entries, history)' /\ RevocationRecorded'
    <2>1. Consistent(entries', history')
      BY <1>1, Zenon DEF IInv
    <2>2. RevocationRecorded'
      BY <1>1, Zenon DEF IInv, RevocationRecorded
    <2> QED
      BY <2>1, <2>2, ConsistentNext, Zenon
  <1>5. AuthorityBacked'
    <2>1. ASSUME NEW k \in ScopedKey, NEW s \in Run, authority'[k][s] > now'
          PROVE  /\ entries[k].held /\ entries[k].run = s
                 /\ entries[k].expiresAt >= authority'[k][s]
      <3>1. k \in Key
        BY Zenon DEF Key
      <3>2. authority'[k][s] = authority[k][s] /\ authority[k][s] \in Nat
        BY <1>1, <1>2, <2>1, <3>1
      <3>3. authority[k][s] > now
        BY <1>1, <2>1, <3>2
      <3> QED
        BY <3>2, <3>3, Zenon DEF IInv, AuthorityBacked
    <2> QED
      BY <1>1, <2>1, Zenon DEF AuthorityBacked
  <1>6. LocalLeaseBounded'
    <2>1. ASSUME NEW k \in Key, entries[k].deadline = 0
          PROVE  entries[k].expiresAt <= now' + Lease
      <3>1. entries[k].expiresAt \in Nat /\ entries[k].expiresAt <= now + Lease
        BY <1>1, <2>1, Zenon DEF IInv, LocalLeaseBounded, Entry
      <3> QED
        BY <1>1, <3>1
    <2> QED
      BY <1>1, <2>1, Zenon DEF LocalLeaseBounded
  <1>7. NoTimeAfterRevocation
    BY <1>1, <1>2, TimeTakenAway, Zenon
  <1>8. OwnerLeavesByRelease
    BY <1>1, Zenon DEF OwnerLeavesByRelease
  <1> QED
    BY <1>3, <1>4, <1>5, <1>6, <1>7, <1>8, Zenon DEF IInv

(* Every operation preserves the invariant, gives a revoked run no time,    *)
(* and drops a shared owner only from reserved cleanup custody.             *)
LEMMA NextStep ==
    ASSUME IInv, Next
    PROVE  IInv' /\ NoTimeAfterRevocation /\ OwnerLeavesByRelease
  <1>1. ScopedKey \subseteq Key /\ ScopedKey \cap LegacyKey = {}
    BY KeyAssumption, Zenon DEF Key
  <1>2. ASSUME NEW k \in ScopedKey, NEW r \in Run, ClaimScoped(k, r)
        PROVE  IInv' /\ NoTimeAfterRevocation /\ OwnerLeavesByRelease
    BY <1>1, <1>2, ClaimStep, Zenon DEF ClaimScoped
  <1>3. ASSUME NEW k \in Key, RenewEntry(k)
        PROVE  IInv' /\ NoTimeAfterRevocation /\ OwnerLeavesByRelease
    BY <1>3, HeldEntry, ClaimStep, Zenon DEF RenewEntry
  <1>4. ASSUME NEW k \in Key, NEW b \in BOOLEAN, Release(k, b) \/ ForceRelease(k, b)
        PROVE  IInv' /\ NoTimeAfterRevocation /\ OwnerLeavesByRelease
    BY <1>4, RemoveEntryStep, Zenon DEF Release, ForceRelease
  <1>5. ASSUME NEW k \in Key, FinishProviderRelease(k)
        PROVE  IInv' /\ NoTimeAfterRevocation /\ OwnerLeavesByRelease
    BY <1>5, RemoveEntryStep, Zenon DEF FinishProviderRelease
  <1>6. ASSUME NEW k \in Key, NEW d \in 1 .. MaxTime + Lease, FinishSharedAdmission(k, d)
        PROVE  IInv' /\ NoTimeAfterRevocation /\ OwnerLeavesByRelease
    <2>1. d \in Nat
      BY TimeAssumption
    <2> QED
      BY <1>6, <2>1, FinishSharedAdmissionStep, Zenon
  <1>7. ASSUME NEW k \in Key, NEW t \in ObservationTime, RecordClaimVerification(k, t)
        PROVE  IInv' /\ NoTimeAfterRevocation /\ OwnerLeavesByRelease
    <2>1. t \in Nat
      BY TimeAssumption, Zenon
    <2> QED
      BY <1>7, <2>1, RecordClaimVerificationStep, Zenon
  <1>8. CASE LocalNext
    BY <1>2, <1>3, <1>4, <1>8, ReclaimAllStep, RecoverExpiredStep,
       MigrateLegacyClaimsStep, Zenon DEF LocalNext
  <1>9. CASE CustodyNext
    BY <1>5, <1>6, <1>7, <1>9, BeginSharedAdmissionStep, BeginProviderReleaseStep,
       RevokeSharedExecutionStep, Zenon DEF CustodyNext
  <1>10. CASE (\E r \in Run : RunStops(r)) \/ Tick
    BY <1>10, RunStopsStep, TickStep, Zenon
  <1> QED
    BY <1>8, <1>9, <1>10, Zenon DEF Next

\* The initial states satisfy the invariant.
LEMMA InitInvariant == Init => IInv
  <1> SUFFICES ASSUME Init PROVE IInv
    OBVIOUS
  <1>1. PICK holder \in [LegacyKey -> (Run \ SharedRun) \cup {NoRun}] :
          /\ entries = [k \in Key |->
                IF k \in ScopedKey \/ holder[k] = NoRun THEN NoEntry
                ELSE Fresh(holder[k], NoOwner, now + Lease, 0)]
          /\ authority = [k \in Key |-> [r \in Run |->
                IF k \in LegacyKey /\ holder[k] = r THEN now + Lease ELSE 0]]
    BY Zenon DEF Init
  <1>2. /\ now = 1 /\ revokedAck = {} /\ acquiredLog = {} /\ now + Lease \in Nat
        /\ history = [r \in Run |-> [k \in Key |-> NoHistory]]
    BY TimeAssumption DEF Init
  <1>3. /\ NoEntry \in Entry /\ ~NoEntry.held /\ NoEntry.run = NoRun
        /\ NoEntry.deadline = 0 /\ NoEntry.expiresAt = 0
        /\ NoHistory \in HistoryEntry /\ ~NoHistory.recorded /\ ~NoHistory.revoked
    BY Zenon DEF NoEntry, Entry, NoHistory, HistoryEntry
  <1>4. /\ \A k \in ScopedKey : entries[k] = NoEntry /\ \A r \in Run : authority[k][r] = 0
        /\ \A k \in LegacyKey :
              \/ entries[k] = NoEntry
              \/ /\ holder[k] \in Run \ SharedRun
                 /\ entries[k] = Fresh(holder[k], NoOwner, now + Lease, 0)
    BY <1>1, KeyAssumption, Zenon DEF Key
  <1>5. \A k \in LegacyKey : entries[k] # NoEntry =>
           /\ entries[k] \in Entry /\ entries[k].held
           /\ entries[k].run \in Run /\ entries[k].run \notin SharedRun
           /\ entries[k].owner = NoOwner /\ entries[k].deadline = 0
           /\ entries[k].expiresAt = now + Lease
           /\ ~entries[k].admissionPending /\ ~entries[k].revoked
    <2> SUFFICES ASSUME NEW k \in LegacyKey, entries[k] # NoEntry
                 PROVE  /\ entries[k] \in Entry /\ entries[k].held
                        /\ entries[k].run \in Run /\ entries[k].run \notin SharedRun
                        /\ entries[k].owner = NoOwner /\ entries[k].deadline = 0
                        /\ entries[k].expiresAt = now + Lease
                        /\ ~entries[k].admissionPending /\ ~entries[k].revoked
      OBVIOUS
    <2>1. /\ holder[k] \in Run /\ holder[k] \notin SharedRun
          /\ entries[k] = Fresh(holder[k], NoOwner, now + Lease, 0)
      BY <1>4, Zenon
    <2> HIDE <1>1
    <2> DEFINE f == Fresh(holder[k], NoOwner, now + Lease, 0)
    <2>2. /\ f \in Entry
          /\ f.held /\ f.run = holder[k] /\ f.owner = NoOwner /\ f.deadline = 0
          /\ f.expiresAt = now + Lease
          /\ ~f.admissionPending /\ ~f.revoked
      <3>1. holder[k] \in Run /\ now \in Nat
        BY <1>2, <2>1, Zenon
      <3> QED
        BY <3>1, FreshLease, Zenon
    <2> HIDE DEF f
    <2> QED
      BY <2>1, <2>2, Zenon DEF f
  <1>6. entries \in [Key -> Entry] /\ authority \in [Key -> [Run -> Nat]]
    <2>1. \A k \in Key : entries[k] \in Entry
      BY <1>3, <1>4, <1>5, Zenon DEF Key
    <2>2. entries = [k \in Key |-> entries[k]]
      BY <1>1, Zenon
    <2>3. entries \in [Key -> Entry]
      BY <2>1, <2>2, Zenon
    <2> QED
      BY <1>1, <1>2, <2>3, Zenon
  <1>7. /\ history \in [Run -> [Key -> HistoryEntry]]
        /\ \A r \in Run, k \in Key : history[r][k] = NoHistory
    BY <1>2, <1>3, Zenon
  <1>8. ValidLedger(entries, history)
    <2>1. ASSUME NEW k \in Key, entries[k].held
          PROVE  /\ ValidShared(k, entries[k])
                 /\ entries[k].admissionPending => entries[k].owner # NoOwner
                 /\ entries[k].owner # NoOwner => OwnerRun[entries[k].owner] = entries[k].run
      BY <1>3, <1>4, <1>5, <2>1, Zenon DEF Key, ValidShared
    <2> QED
      BY <1>3, <1>7, <2>1, Zenon DEF ValidLedger
  <1>9. NoRun \notin SharedRun
    BY RunAssumption, Zenon DEF SharedRun
  <1>10. Consistent(entries, history)
    <2>1. \A k \in Key : /\ entries[k].held => entries[k].run \in Run /\ ~entries[k].revoked
                         /\ ~entries[k].held => entries[k] = NoEntry
      BY <1>3, <1>4, <1>5, Zenon DEF Key
    <2>2. \A l \in LegacyKey : entries[l].run \notin SharedRun
      BY <1>3, <1>4, <1>5, <1>9, Zenon
    <2> QED
      BY <1>3, <1>6, <1>7, <1>8, <2>1, <2>2, Zenon DEF Consistent, Key
  <1>11. TypeOK /\ RevocationRecorded
    BY <1>2, <1>6, <1>7 DEF TypeOK, RevocationRecorded
  <1>12. AuthorityBacked
    <2>1. \A k \in ScopedKey, r \in Run : authority[k][r] = 0 /\ now = 1
      BY <1>2, <1>4, Zenon
    <2> QED
      BY <2>1 DEF AuthorityBacked
  <1>13. LocalLeaseBounded
    <2>1. ASSUME NEW k \in Key PROVE entries[k].expiresAt <= now + Lease
      <3>1. entries[k].expiresAt = 0 \/ entries[k].expiresAt = now + Lease
        BY <1>3, <1>4, <1>5, Zenon DEF Key
      <3> QED
        BY <1>2, <3>1
    <2> QED
      BY <2>1, Zenon DEF LocalLeaseBounded
  <1> QED
    BY <1>10, <1>11, <1>12, <1>13, Zenon DEF IInv

(* The inductive invariant holds in every reachable state of the ledger.    *)
THEOREM LedgerInvariant == Spec => []IInv
  <1>1. IInv /\ [Next]_vars => IInv'
    <2> SUFFICES ASSUME IInv, [Next]_vars PROVE IInv'
      OBVIOUS
    <2>1. CASE Next
      BY <2>1, NextStep, Zenon
    <2>2. CASE UNCHANGED vars
      <3>1. UNCHANGED <<now, entries, history, authority, revokedAck, acquiredLog>>
        BY <2>2, Zenon DEF vars
      <3>2. Consistent(entries', history')
        BY <3>1, Zenon DEF IInv
      <3> QED
        BY <3>1, <3>2, NextInvariant, Zenon
           DEF IInv, TypeOK, RevocationRecorded, AuthorityBacked, LocalLeaseBounded
    <2> QED
      BY <2>1, <2>2, Zenon
  <1> QED
    BY <1>1, InitInvariant, PTL DEF Spec

(* Every reachable state of the ledger is well-typed.                       *)
THEOREM LedgerTyped == Spec => []TypeOK
  <1>1. IInv => TypeOK
    BY Zenon DEF IInv
  <1> QED
    BY <1>1, LedgerInvariant, PTL

(* Exactly-once processing: no two runs are ever both inside an             *)
(* acknowledged lease of one scoped item, for any number of runs and items. *)
THEOREM LedgerExclusive == Spec => []AuthorityExclusive
  <1>1. IInv => AuthorityExclusive
    BY Zenon DEF IInv, AuthorityBacked, AuthorityExclusive
  <1> QED
    BY <1>1, LedgerInvariant, PTL

(* The ledger never writes a file that its next open would refuse.          *)
THEOREM LedgerLoadable == Spec => []LoadableLedger
  <1>1. IInv => LoadableLedger
    BY Zenon DEF IInv, Consistent, LoadableLedger
  <1> QED
    BY <1>1, LedgerInvariant, PTL

(* No run gets time on an item after its revocation was acknowledged.       *)
THEOREM LedgerRevocation == Spec => RevocationPermanent
  <1>1. IInv /\ [Next]_vars => [NoTimeAfterRevocation]_vars
    BY NextStep, Zenon
  <1> QED
    BY <1>1, LedgerInvariant, PTL DEF Spec, RevocationPermanent

(* No shared claim leaves the ledger without cleanup custody.               *)
THEOREM LedgerCustody == Spec => CustodyKept
  <1>1. IInv /\ [Next]_vars => [OwnerLeavesByRelease]_vars
    BY NextStep, Zenon
  <1> QED
    BY <1>1, LedgerInvariant, PTL DEF Spec, CustodyKept

-----------------------------------------------------------------------------
(* The lease, the publication locks and the observations: the ledger        *)
(* implements the abstract lease, grants a live publication lock once, and  *)
(* keeps with a claim only observations of it.                              *)

\* One step of the ledger, seen from the leases of the item k.
GrantsFree(k) ==
    \/ \A c \in Run : authority'[k][c] <= authority[k][c]
    \/ \E c \in Run : \A d \in Run \ {c} :
          authority[k][d] <= now /\ authority'[k][d] <= authority[k][d]

\* A step whose leases move as GrantsFree says is a step of the lease.
LEMMA MapsToLease ==
    ASSUME TypeOK, TypeOK', now' >= now, \A k \in ScopedKey : GrantsFree(k)
    PROVE  Claims!Next
  <1>1. ScopedKey \subseteq Key
    BY Zenon DEF Key
  <1>2. /\ [k \in ScopedKey |-> authority'[k]] \in [ScopedKey -> [Run -> Nat]]
        /\ now' \in Nat
    BY <1>1, Zenon DEF TypeOK
  <1>3. ASSUME NEW k \in ScopedKey PROVE Claims!TakenAway(k) \/ Claims!Granted(k)
    BY <1>3, Zenon DEF GrantsFree, Claims!TakenAway, Claims!Granted, Claims!FreeFor
  <1> QED
    BY <1>2, <1>3, Zenon DEF Claims!Next

\* Time that is kept or taken away is granted to nobody.
LEMMA NothingGranted ==
    ASSUME TypeOK,
           \A j \in Key, s \in Run :
              authority'[j][s] = authority[j][s] \/ authority'[j][s] = 0
    PROVE  \A k \in ScopedKey : GrantsFree(k)
  <1>1. ASSUME NEW k \in ScopedKey, NEW c \in Run
        PROVE  authority'[k][c] <= authority[k][c]
    <2>1. k \in Key
      BY Zenon DEF Key
    <2>2. authority[k][c] \in Nat
      BY <2>1, Zenon DEF TypeOK
    <2> QED
      BY <2>1, <2>2
  <1> QED
    BY <1>1, Zenon DEF GrantsFree

\* The run that holds a live entry of k is the only one inside a lease of k.
LEMMA OthersOutside ==
    ASSUME IInv, NEW k \in ScopedKey, NEW r \in Run,
           entries[k].held /\ Live(entries[k]) => entries[k].run = r
    PROVE  \A d \in Run \ {r} : authority[k][d] <= now
  <1>1. ASSUME NEW d \in Run \ {r}, authority[k][d] > now PROVE FALSE
    <2>1. /\ entries[k].held /\ entries[k].run = d
          /\ entries[k].expiresAt >= authority[k][d]
      BY <1>1, Zenon DEF IInv, AuthorityBacked
    <2>2. now \in Nat /\ authority[k][d] \in Nat /\ entries[k].expiresAt \in Nat
      BY Zenon DEF IInv, TypeOK, Key, Entry
    <2>3. Live(entries[k])
      BY <1>1, <2>1, <2>2 DEF Live
    <2> QED
      BY <2>1, <2>3, Zenon
  <1>2. now \in Nat /\ \A d \in Run : authority[k][d] \in Nat
    BY Zenon DEF IInv, TypeOK, Key
  <1> QED
    BY <1>1, <1>2

\* storeClaim gives time to one run, which no other run's lease excludes.
LEMMA StoreClaimGrants ==
    ASSUME IInv, NEW k \in Key, NEW e \in Entry, StoreClaim(k, e), e.run \in Run,
           entries[k].held /\ Live(entries[k]) => entries[k].run = e.run
    PROVE  \A j \in ScopedKey : GrantsFree(j)
  <1>1. authority \in [Key -> [Run -> Nat]] /\ ScopedKey \subseteq Key
    BY Zenon DEF IInv, TypeOK, Key
  <1>2. \A j \in Key, s \in Run :
           authority'[j][s] = authority[j][s] \/ (j = k /\ s = e.run)
    BY <1>1 DEF StoreClaim
  <1>3. ASSUME NEW j \in ScopedKey PROVE GrantsFree(j)
    <2>1. j \in Key /\ \A s \in Run : authority[j][s] \in Nat
      BY <1>1, Zenon
    <2>2. CASE j = k
      <3>1. \A d \in Run \ {e.run} : authority[j][d] <= now
        BY <2>2, OthersOutside, Zenon
      <3>2. \A d \in Run \ {e.run} : authority'[j][d] <= authority[j][d]
        BY <1>2, <2>1
      <3> QED
        BY <3>1, <3>2, Zenon DEF GrantsFree
    <2>3. CASE j # k
      BY <1>2, <2>1, <2>3 DEF GrantsFree
    <2> QED
      BY <2>2, <2>3, Zenon
  <1> QED
    BY <1>3, Zenon

\* claim: a live entry of another run refuses it.
LEMMA ClaimGrants ==
    ASSUME IInv, NEW k \in Key, NEW r \in Run, claim(k, r)
    PROVE  \A j \in ScopedKey : GrantsFree(j)
  <1> DEFINE e == ContinueLease(entries[k], Fresh(r, NoOwner, now + Lease, 0))
  <1>1. e \in Entry /\ e.run = r
    BY ContinuedLease, Zenon DEF IInv
  <1>2. StoreClaim(k, e)
    BY Zenon DEF claim
  <1>3. entries[k].held /\ Live(entries[k]) => entries[k].run = r
    BY Zenon DEF claim, ClaimRefused
  <1> HIDE DEF e
  <1> QED
    BY <1>1, <1>2, <1>3, StoreClaimGrants, Zenon

\* FinishSharedAdmission: the time goes to the run of the entry itself.
LEMMA FinishSharedAdmissionGrants ==
    ASSUME IInv, NEW k \in Key, NEW d \in Nat, FinishSharedAdmission(k, d)
    PROVE  \A j \in ScopedKey : GrantsFree(j)
  <1> DEFINE c == entries[k]
             e == [c EXCEPT !.admissionPending = FALSE, !.deadline = d, !.expiresAt = d]
  <1>1. StoreClaim(k, e) /\ c.held
    BY Zenon DEF FinishSharedAdmission
  <1>2. c \in Entry /\ c.run \in Run
    BY <1>1, HeldEntry, Zenon
  <1>3. e \in Entry /\ e.run = c.run
    BY <1>2, Zenon DEF Entry
  <1> HIDE DEF e
  <1> QED
    BY <1>1, <1>2, <1>3, StoreClaimGrants, Zenon

\* ReclaimAll: every key of the set is free for the run that takes it over.
LEMMA ReclaimAllGrants ==
    ASSUME IInv, NEW q \in Run, NEW r \in Run, NEW journalled \in BOOLEAN,
           ReclaimAll(q, r, journalled)
    PROVE  \A j \in ScopedKey : GrantsFree(j)
  <1> DEFINE keys == ReclaimSet(q, journalled)
  <1>1. authority \in [Key -> [Run -> Nat]] /\ ScopedKey \subseteq Key
    BY Zenon DEF IInv, TypeOK, Key
  <1>2. \A k \in keys : entries[k].held /\ Live(entries[k]) => entries[k].run = r
    BY Zenon DEF ReclaimAll, ReclaimRefused
  <1>3. \/ authority' = authority
        \/ authority' = [k \in Key |-> IF k \in keys
                                       THEN [authority[k] EXCEPT ![r] = now + Lease]
                                       ELSE authority[k]]
    BY Zenon DEF ReclaimAll
  <1> HIDE DEF keys
  <1>4. \A j \in Key, s \in Run :
           authority'[j][s] = authority[j][s] \/ (j \in keys /\ s = r)
    BY <1>1, <1>3, Zenon
  <1>5. ASSUME NEW j \in ScopedKey PROVE GrantsFree(j)
    <2>1. j \in Key /\ \A s \in Run : authority[j][s] \in Nat
      BY <1>1, Zenon
    <2>2. CASE j \in keys
      <3>1. \A d \in Run \ {r} : authority[j][d] <= now
        BY <1>2, <2>2, OthersOutside, Zenon
      <3>2. \A d \in Run \ {r} : authority'[j][d] <= authority[j][d]
        BY <1>4, <2>1
      <3> QED
        BY <3>1, <3>2, Zenon DEF GrantsFree
    <2>3. CASE j \notin keys
      BY <1>4, <2>1, <2>3 DEF GrantsFree
    <2> QED
      BY <2>2, <2>3, Zenon
  <1> QED
    BY <1>5, Zenon

\* Dropping the authority of a run grants nothing.
LEMMA DroppedGrantsNothing ==
    ASSUME TypeOK, NEW k \in Key, NEW r \in Run,
           authority' = authority \/ authority' = Dropped(k, r)
    PROVE  \A j \in ScopedKey : GrantsFree(j)
  <1>1. \A j \in Key, s \in Run : Dropped(k, r)[j][s] = authority[j][s] \/ Dropped(k, r)[j][s] = 0
    BY DroppedFacts, Zenon
  <1>2. \A j \in Key, s \in Run : authority'[j][s] = authority[j][s] \/ authority'[j][s] = 0
    <2>1. CASE authority' = authority
      BY <2>1, Zenon
    <2>2. CASE authority' = Dropped(k, r)
      BY <1>1, <2>2, Zenon
    <2> QED
      BY <2>1, <2>2
  <1> QED
    BY <1>2, NothingGranted, Zenon

\* UpdateEntry and RemoveEntry only take time away.
LEMMA UpdateGrantsNothing ==
    ASSUME IInv, NEW k \in Key,
           \/ /\ RemoveEntry(k) /\ entries[k].run \in Run
           \/ \E e, auth :
                 /\ UpdateEntry(k, e, auth)
                 /\ \A j \in Key, s \in Run :
                       auth[j][s] = authority[j][s] \/ auth[j][s] = 0
    PROVE  \A j \in ScopedKey : GrantsFree(j)
  <1>1. CASE RemoveEntry(k) /\ entries[k].run \in Run
    <2>1. \A j \in Key, s \in Run :
             authority'[j][s] = authority[j][s] \/ authority'[j][s] = 0
      BY <1>1, DroppedFacts DEF RemoveEntry, IInv
    <2> QED
      BY <2>1, NothingGranted, Zenon DEF IInv
  <1>2. CASE \E e, auth :
               /\ UpdateEntry(k, e, auth)
               /\ \A j \in Key, s \in Run : auth[j][s] = authority[j][s] \/ auth[j][s] = 0
    <2>1. \A j \in Key, s \in Run :
             authority'[j][s] = authority[j][s] \/ authority'[j][s] = 0
      BY <1>2, Zenon DEF UpdateEntry
    <2> QED
      BY <2>1, NothingGranted, Zenon DEF IInv
  <1> QED
    BY <1>1, <1>2, Zenon

\* The remaining custody transitions grant nothing.
LEMMA CustodyGrantsNothing ==
    ASSUME IInv, NEW k \in Key,
           \/ \E o \in Owner : BeginSharedAdmission(k, o)
           \/ \E b, c \in BOOLEAN : BeginProviderRelease(k, b, c)
           \/ FinishProviderRelease(k)
           \/ \E t \in ObservationTime : RecordClaimVerification(k, t)
           \/ RevokeSharedExecution(k)
    PROVE  \A j \in ScopedKey : GrantsFree(j)
  <1>1. TypeOK
    BY Zenon DEF IInv
  <1>2. /\ \A o \in Owner : OwnerRun[o] \in Run
        /\ entries[k].held => entries[k].run \in Run
    BY HeldEntry, RunAssumption, Zenon
  <1>3. CASE \E o \in Owner : BeginSharedAdmission(k, o)
    <2>1. PICK o \in Owner : BeginSharedAdmission(k, o)
      BY <1>3, Zenon
    <2>2. authority' = authority \/ authority' = Dropped(k, OwnerRun[o])
      BY <2>1, Zenon DEF BeginSharedAdmission, UpdateEntry
    <2>3. OwnerRun[o] \in Run
      BY <1>2, Zenon
    <2> QED
      BY <1>1, <2>2, <2>3, DroppedGrantsNothing, Zenon
  <1>4. CASE \E b, c \in BOOLEAN : BeginProviderRelease(k, b, c)
    <2>1. entries[k].held /\ (authority' = authority \/ authority' = Dropped(k, entries[k].run))
      <3>1. PICK e : UpdateEntry(k, e, Dropped(k, entries[k].run)) /\ entries[k].held
        BY <1>4, Zenon DEF BeginProviderRelease
      <3> QED
        BY <3>1, Zenon DEF UpdateEntry
    <2>2. entries[k].run \in Run
      BY <1>2, <2>1, Zenon
    <2> QED
      BY <1>1, <2>1, <2>2, DroppedGrantsNothing, Zenon
  <1>5. CASE FinishProviderRelease(k)
    BY <1>2, <1>5, UpdateGrantsNothing, Zenon DEF FinishProviderRelease
  <1>6. CASE \E t \in ObservationTime : RecordClaimVerification(k, t)
    <2>1. PICK e : UpdateEntry(k, e, authority)
      BY <1>6, Zenon DEF RecordClaimVerification
    <2> QED
      BY <2>1, UpdateGrantsNothing, Zenon
  <1>7. CASE RevokeSharedExecution(k)
    <2>1. entries[k].held /\ (authority' = authority \/ authority' = Dropped(k, entries[k].run))
      BY <1>7, Zenon DEF RevokeSharedExecution
    <2>2. entries[k].run \in Run
      BY <1>2, <2>1, Zenon
    <2> QED
      BY <1>1, <2>1, <2>2, DroppedGrantsNothing, Zenon
  <1> QED
    BY <1>3, <1>4, <1>5, <1>6, <1>7, Zenon

\* Every step of the ledger leaves each item to one run.
LEMMA NextGrantsFree ==
    ASSUME IInv, Next
    PROVE  /\ \A k \in ScopedKey : GrantsFree(k)
           /\ now' >= now
  <1>1. /\ TypeOK /\ now \in Nat
        /\ authority \in [Key -> [Run -> Nat]] /\ ScopedKey \subseteq Key
    BY Zenon DEF IInv, TypeOK, Key
  <1>2. CASE LocalNext
    <2>1. now' = now
      BY <1>2 DEF LocalNext, ClaimScoped, RenewEntry, claim, StoreClaim, ReclaimAll,
                  Release, ForceRelease, RemoveEntry, RecoverExpired, MigrateLegacyClaims
    <2>2. ASSUME NEW k \in ScopedKey, NEW r \in Run, ClaimScoped(k, r)
          PROVE  \A j \in ScopedKey : GrantsFree(j)
      BY <1>1, <2>2, ClaimGrants, Zenon DEF ClaimScoped
    <2>3. ASSUME NEW k \in Key, RenewEntry(k)
          PROVE  \A j \in ScopedKey : GrantsFree(j)
      BY <2>3, HeldEntry, ClaimGrants, Zenon DEF RenewEntry
    <2>4. ASSUME NEW k \in Key, NEW b \in BOOLEAN, Release(k, b) \/ ForceRelease(k, b)
          PROVE  \A j \in ScopedKey : GrantsFree(j)
      BY <2>4, HeldEntry, UpdateGrantsNothing, Zenon DEF Release, ForceRelease
    <2>5. ASSUME authority' = authority
          PROVE  \A j \in ScopedKey : GrantsFree(j)
      BY <1>1, <2>5, NothingGranted, Zenon
    <2>6. ASSUME NEW to, RecoverExpired \/ MigrateLegacyClaims(to)
          PROVE  \A j \in ScopedKey : GrantsFree(j)
      BY <2>5, <2>6, Zenon DEF RecoverExpired, MigrateLegacyClaims
    <2>7. ASSUME NEW q \in Run, NEW r \in Run, NEW b \in BOOLEAN, ReclaimAll(q, r, b)
          PROVE  \A j \in ScopedKey : GrantsFree(j)
      BY <2>7, ReclaimAllGrants, Zenon
    <2> DEFINE Free == \A j \in ScopedKey : GrantsFree(j)
    <2> HIDE DEF Free
    <2>8. Free
      BY <1>2, <2>2, <2>3, <2>4, <2>6, <2>7, Zenon DEF LocalNext, Free
    <2> QED
      BY <1>1, <2>1, <2>8 DEF Free
  <1>3. CASE CustodyNext
    <2>1. now' = now
      BY <1>3 DEF CustodyNext, BeginSharedAdmission, FinishSharedAdmission,
                  BeginProviderRelease, FinishProviderRelease, RevokeSharedExecution,
                  RecordClaimVerification, StoreClaim, UpdateEntry, RemoveEntry
    <2>2. ASSUME NEW k \in Key, NEW d \in 1 .. MaxTime + Lease, FinishSharedAdmission(k, d)
          PROVE  \A j \in ScopedKey : GrantsFree(j)
      <3>1. d \in Nat
        BY TimeAssumption
      <3> QED
        BY <2>2, <3>1, FinishSharedAdmissionGrants, Zenon
    <2> QED
      BY <1>1, <1>3, <2>1, <2>2, CustodyGrantsNothing DEF CustodyNext
  <1>4. CASE \E r \in Run : RunStops(r)
    <2>1. now' = now
      BY <1>4, Zenon DEF RunStops
    <2>2. \A j \in Key, s \in Run :
             authority'[j][s] = authority[j][s] \/ authority'[j][s] = 0
      BY <1>1, <1>4 DEF RunStops
    <2> QED
      BY <1>1, <2>1, <2>2, NothingGranted
  <1>5. CASE Tick
    <2>1. now' = now + 1
      BY <1>5, Zenon DEF Tick
    <2>2. \A j \in Key, s \in Run :
             authority'[j][s] = authority[j][s] \/ authority'[j][s] = 0
      BY <1>1, <1>5, Zenon DEF Tick
    <2> QED
      BY <1>1, <2>1, <2>2, NothingGranted
  <1> QED
    BY <1>2, <1>3, <1>4, <1>5, Zenon DEF Next

(* The claim ledger implements the lease: initial states map to initial     *)
(* states, and every step of the ledger, for any runs, owners, keys and     *)
(* lease length, is a step of ClaimLease or leaves its variables alone.     *)
THEOREM LedgerImplementsLease == Spec => ImplementsClaimLease
  <1>1. IInv => Claims!Init
    <2> SUFFICES ASSUME IInv PROVE Claims!Init
      OBVIOUS
    <2>1. now \in Nat /\ [k \in ScopedKey |-> authority[k]] \in [ScopedKey -> [Run -> Nat]]
      BY Zenon DEF IInv, TypeOK, Key
    <2>2. AuthorityExclusive
      BY Zenon DEF IInv, AuthorityBacked, AuthorityExclusive
    <2> QED
      BY <2>1, <2>2, Zenon DEF Claims!Init, Claims!TypeOK, AuthorityExclusive
  <1>2. IInv /\ IInv' /\ [Next]_vars => [Claims!Next]_(Claims!vars)
    <2> SUFFICES ASSUME IInv, IInv', [Next]_vars PROVE [Claims!Next]_(Claims!vars)
      OBVIOUS
    <2>1. CASE Next
      BY <2>1, NextGrantsFree, MapsToLease, Zenon DEF IInv
    <2>2. CASE UNCHANGED vars
      BY <2>2, Zenon DEF vars, Claims!vars
    <2> QED
      BY <2>1, <2>2, Zenon
  <1> QED
    BY <1>1, <1>2, LedgerInvariant, PTL DEF Spec, ImplementsClaimLease, Claims!Spec

(* What implementing the lease gives: one claimant at a time is inside a    *)
(* lease of an item, whatever keeps the leases.                             *)
THEOREM LeaseExclusive == ImplementsClaimLease => []Claims!Exclusive
  <1> DEFINE Inv == Claims!TypeOK /\ Claims!Exclusive
             lease == [k \in ScopedKey |-> authority[k]]
  <1>1. Claims!Init => Inv
    BY Zenon DEF Claims!Init, Claims!Exclusive
  <1>2. Inv /\ [Claims!Next]_(Claims!vars) => Inv'
    <2> SUFFICES ASSUME Inv, [Claims!Next]_(Claims!vars) PROVE Inv'
      OBVIOUS
    <2>1. CASE UNCHANGED Claims!vars
      BY <2>1, Zenon DEF Claims!vars, Claims!TypeOK, Claims!Exclusive
    <2>2. CASE Claims!Next
      <3>1. /\ now \in Nat /\ now' \in Nat /\ now' >= now
            /\ lease \in [ScopedKey -> [Run -> Nat]] /\ lease' \in [ScopedKey -> [Run -> Nat]]
        BY <2>2, Zenon DEF Claims!Next, Claims!TypeOK
      <3>2. ASSUME NEW k \in ScopedKey, NEW c \in Run, NEW d \in Run,
                   lease'[k][c] > now', lease'[k][d] > now'
            PROVE  c = d
        <4>1. /\ lease[k][c] \in Nat /\ lease'[k][c] \in Nat
              /\ lease[k][d] \in Nat /\ lease'[k][d] \in Nat
          BY <3>1, Zenon
        <4>2. lease[k][c] > now /\ lease[k][d] > now => c = d
          BY Zenon DEF Claims!Exclusive
        <4>3. CASE Claims!TakenAway(k)
          <5>1. lease'[k][c] <= lease[k][c] /\ lease'[k][d] <= lease[k][d]
            BY <4>3, Zenon DEF Claims!TakenAway
          <5> HIDE DEF lease
          <5> QED
            BY <3>1, <3>2, <4>1, <4>2, <5>1
        <4>4. CASE Claims!Granted(k)
          <5>1. PICK g \in Run :
                   \A x \in Run \ {g} : lease[k][x] <= now /\ lease'[k][x] <= lease[k][x]
            BY <4>4, Zenon DEF Claims!Granted, Claims!FreeFor
          <5> HIDE DEF lease
          <5>2. c = g /\ d = g
            BY <3>1, <3>2, <4>1, <5>1
          <5> QED
            BY <5>2, Zenon
        <4> QED
          BY <2>2, <4>3, <4>4, Zenon DEF Claims!Next
      <3> QED
        BY <3>1, <3>2, Zenon DEF Claims!TypeOK, Claims!Exclusive
    <2> QED
      BY <2>1, <2>2, Zenon
  <1> QED
    BY <1>1, <1>2, PTL DEF ImplementsClaimLease, Claims!Spec

-----------------------------------------------------------------------------
\* What a step may write for a publication lock k.
KeepsLock(k, e) ==
    /\ e.owner = NoOwner
    /\ entries[k].held /\ Live(entries[k]) /\ e.held
          => e.claimedAt = entries[k].claimedAt /\ e.expiresAt = entries[k].expiresAt

\* Publication locks are local claims.
PublicationLocal == \A k \in PublicationKey : entries[k].owner = NoOwner

\* The transitions that rewrite one entry, j.
LEMMA OneEntryKeepsLocks ==
    ASSUME IInv, PublicationLocal, NEW j \in Key, NEW e, NEW hs, NEW ok \in BOOLEAN,
           Persist([entries EXCEPT ![j] = e], hs, ok),
           j \in PublicationKey => KeepsLock(j, e)
    PROVE  \A k \in PublicationKey : KeepsLock(k, entries'[k])
  <1>1. entries \in [Key -> Entry] /\ PublicationKey \subseteq Key
    BY KeyAssumption, Zenon DEF IInv, TypeOK, Key
  <1>2. entries' = entries \/ entries' = [entries EXCEPT ![j] = e]
    BY Zenon DEF Persist
  <1>3. ASSUME NEW k \in PublicationKey PROVE KeepsLock(k, entries'[k])
    <2>1. KeepsLock(k, entries[k])
      BY Zenon DEF KeepsLock, PublicationLocal
    <2>2. entries'[k] = entries[k] \/ (k = j /\ entries'[k] = e)
      BY <1>1, <1>2, Zenon
    <2> QED
      BY <2>1, <2>2, Zenon
  <1> QED
    BY <1>3, Zenon

LEMMA LocalKeepsLocks ==
    ASSUME IInv, PublicationLocal, LocalNext
    PROVE  \A k \in PublicationKey : KeepsLock(k, entries'[k])
  <1>1. /\ entries \in [Key -> Entry] /\ PublicationKey \subseteq ScopedKey
        /\ ScopedKey \subseteq Key /\ ScopedKey \cap LegacyKey = {}
        /\ \A k \in ScopedKey : LegacyOf[k] \in LegacyKey /\ LegacyOf[k] \in Key
        /\ ~NoEntry.held /\ NoEntry.owner = NoOwner
    BY KeyAssumption, Zenon DEF IInv, TypeOK, Key, NoEntry
  <1>2. \A k \in PublicationKey : KeepsLock(k, entries[k]) /\ KeepsLock(k, NoEntry)
    BY <1>1, Zenon DEF KeepsLock, PublicationLocal
  <1>3. ASSUME NEW k \in Key, NEW r \in Run, claim(k, r)
        PROVE  \A j \in PublicationKey : KeepsLock(j, entries'[j])
    <2> DEFINE e == ContinueLease(entries[k], Fresh(r, NoOwner, now + Lease, 0))
    <2>1. e.owner = NoOwner
      BY ContinuedLease, Zenon DEF IInv
    <2>2. k \in PublicationKey => ~(entries[k].held /\ Live(entries[k]))
      BY <1>3, Zenon DEF claim, ClaimRefused
    <2>3. PICK ok \in BOOLEAN : Persist([entries EXCEPT ![k] = e], RecordHistory(k, e), ok)
      BY <1>3, Zenon DEF claim, StoreClaim
    <2> HIDE DEF e
    <2>4. k \in PublicationKey => KeepsLock(k, e)
      BY <2>1, <2>2, Zenon DEF KeepsLock
    <2> QED
      BY <2>3, <2>4, OneEntryKeepsLocks, Zenon
  <1>4. ASSUME NEW k \in Key, RemoveEntry(k)
        PROVE  \A j \in PublicationKey : KeepsLock(j, entries'[j])
    BY <1>2, <1>4, OneEntryKeepsLocks DEF RemoveEntry
  <1>5. ASSUME NEW q \in Run, NEW r \in Run, NEW b \in BOOLEAN, ReclaimAll(q, r, b)
        PROVE  \A j \in PublicationKey : KeepsLock(j, entries'[j])
    <2>1. \A j \in PublicationKey : entries'[j] = entries[j]
      BY <1>1, <1>5, Zenon DEF ReclaimAll, ReclaimSet, Persist
    <2> QED
      BY <1>2, <2>1, Zenon
  <1>6. CASE RecoverExpired
    <2>1. \A j \in PublicationKey : entries'[j] = entries[j] \/ entries'[j] = NoEntry
      BY <1>1, <1>6, Zenon DEF RecoverExpired, Persist
    <2> QED
      BY <1>2, <2>1, Zenon
  <1>7. ASSUME NEW to, MigrateLegacyClaims(to),
               \A l \in LegacyKey : to[l] # NoKey => LegacyOf[to[l]] = l
        PROVE  \A j \in PublicationKey : KeepsLock(j, entries'[j])
    <2>1. ASSUME NEW j \in PublicationKey
          PROVE  \/ entries'[j] = entries[j]
                 \/ entries'[j] = entries[LegacyOf[j]] /\ ~entries[j].held
      <3> DEFINE moved == {l \in LegacyKey : /\ entries[l].held
                                             /\ ~Pending(entries[l])
                                             /\ to[l] # NoKey}
                 target(k) == k \in ScopedKey /\ LegacyOf[k] \in moved /\ to[LegacyOf[k]] = k
      <3>1. j \in Key /\ j \notin moved
        BY <1>1, Zenon
      <3>2. /\ \A l \in moved : ~entries[to[l]].held
            /\ \/ entries' = entries
               \/ entries' = [k \in Key |-> IF k \in moved THEN NoEntry
                                            ELSE IF target(k) THEN entries[LegacyOf[k]]
                                            ELSE entries[k]]
        BY <1>7, Zenon DEF MigrateLegacyClaims, Persist
      <3>3. target(j) => ~entries[j].held
        BY <3>2, Zenon
      <3> HIDE DEF moved, target
      <3> QED
        BY <3>1, <3>2, <3>3, Zenon
    <2>2. \A j \in PublicationKey : entries[LegacyOf[j]].owner = NoOwner
      <3>1. ASSUME NEW l \in LegacyKey PROVE entries[l].owner = NoOwner
        <4>1. l \in Key /\ l \notin ScopedKey
          BY <1>1, Zenon DEF Key
        <4>2. entries[l].held => ValidShared(l, entries[l])
          BY <4>1, HeldEntry, Zenon
        <4>3. ~entries[l].held => entries[l] = NoEntry
          BY <4>1, Zenon DEF IInv, Consistent
        <4> QED
          BY <1>1, <4>1, <4>2, <4>3, Zenon DEF ValidShared
      <3> QED
        BY <1>1, <3>1, Zenon
    <2> QED
      BY <1>2, <2>1, <2>2, Zenon DEF KeepsLock
  <1>8. \A k \in Key : entries[k].held => entries[k].run \in Run
    BY HeldEntry, Zenon
  <1> QED
    BY <1>1, <1>3, <1>4, <1>5, <1>6, <1>7, <1>8, Zenon
    DEF LocalNext, ClaimScoped, RenewEntry, Release, ForceRelease

LEMMA CustodyKeepsLocks ==
    ASSUME IInv, PublicationLocal, CustodyNext
    PROVE  \A k \in PublicationKey : KeepsLock(k, entries'[k])
  <1>1. /\ entries \in [Key -> Entry]
        /\ PublicationKey \subseteq Key /\ ScopedKey \subseteq Key
        /\ ~NoEntry.held /\ NoEntry.owner = NoOwner
    BY KeyAssumption, Zenon DEF IInv, TypeOK, Key, NoEntry
  <1>2. \A k \in PublicationKey : KeepsLock(k, entries[k]) /\ KeepsLock(k, NoEntry)
    BY <1>1, Zenon DEF KeepsLock, PublicationLocal
  <1>3. ASSUME NEW k \in ScopedKey, NEW o \in Owner, BeginSharedAdmission(k, o)
        PROVE  \A j \in PublicationKey : KeepsLock(j, entries'[j])
    <2>1. k \notin PublicationKey
      BY <1>3, Zenon DEF BeginSharedAdmission
    <2>2. \A j \in PublicationKey : entries'[j] = entries[j]
      BY <1>1, <1>3, <2>1, Zenon DEF BeginSharedAdmission, UpdateEntry, Persist
    <2> QED
      BY <1>2, <2>2, Zenon
  <1>4. ASSUME NEW k \in Key, NEW d, FinishSharedAdmission(k, d)
        PROVE  \A j \in PublicationKey : KeepsLock(j, entries'[j])
    <2>1. k \notin PublicationKey
      BY <1>4, HeldEntry, Zenon DEF FinishSharedAdmission, PublicationLocal
    <2>2. \A j \in PublicationKey : entries'[j] = entries[j]
      BY <1>1, <1>4, <2>1, Zenon DEF FinishSharedAdmission, StoreClaim, Persist
    <2> QED
      BY <1>2, <2>2, Zenon
  <1>5. ASSUME NEW k \in Key, NEW b \in BOOLEAN, NEW c \in BOOLEAN,
               BeginProviderRelease(k, b, c)
        PROVE  \A j \in PublicationKey : KeepsLock(j, entries'[j])
    <2>1. k \notin PublicationKey
      BY <1>5, Zenon DEF BeginProviderRelease
    <2>2. \A j \in PublicationKey : entries'[j] = entries[j]
      BY <1>1, <1>5, <2>1, Zenon DEF BeginProviderRelease, UpdateEntry, Persist
    <2> QED
      BY <1>2, <2>2, Zenon
  <1>6. ASSUME NEW k \in Key, FinishProviderRelease(k)
        PROVE  \A j \in PublicationKey : KeepsLock(j, entries'[j])
    BY <1>2, <1>6, OneEntryKeepsLocks, Zenon DEF FinishProviderRelease, RemoveEntry
  <1>7. ASSUME NEW k \in Key, RevokeSharedExecution(k)
        PROVE  \A j \in PublicationKey : KeepsLock(j, entries'[j])
    <2>1. k \notin PublicationKey
      BY <1>7, Zenon DEF RevokeSharedExecution
    <2>2. \A j \in PublicationKey : entries'[j] = entries[j]
      BY <1>1, <1>7, <2>1, Zenon DEF RevokeSharedExecution, Persist
    <2> QED
      BY <1>2, <2>2, Zenon
  <1>8. ASSUME NEW k \in Key, NEW t \in ObservationTime, RecordClaimVerification(k, t)
        PROVE  \A j \in PublicationKey : KeepsLock(j, entries'[j])
    <2> DEFINE e == [entries[k] EXCEPT !.observedAt = t]
    <2>1. PICK ok \in BOOLEAN : Persist([entries EXCEPT ![k] = e], RecordHistory(k, e), ok)
      BY <1>8, Zenon DEF RecordClaimVerification, UpdateEntry
    <2>2. entries[k] \in Entry
      BY HeldEntry, Zenon
    <2>3. /\ e.owner = entries[k].owner /\ e.claimedAt = entries[k].claimedAt
          /\ e.expiresAt = entries[k].expiresAt
      BY <2>2, Zenon DEF Entry
    <2> HIDE DEF e
    <2>4. k \in PublicationKey => KeepsLock(k, e)
      BY <2>3, Zenon DEF KeepsLock, PublicationLocal
    <2> QED
      BY <2>1, <2>4, OneEntryKeepsLocks, Zenon
  <1> QED
    BY <1>3, <1>4, <1>5, <1>6, <1>7, <1>8, Zenon DEF CustodyNext

(* A live publication lock is granted once, for any number of publications, *)
(* runs and owners: publication claims are not re-entrant, and no takeover, *)
(* migration, admission or verification writes another grant over one.      *)
THEOREM LedgerPublication == Spec => PublicationSingleGrant
  <1>1. Init => PublicationLocal
    BY KeyAssumption DEF Init, PublicationLocal, Key, NoEntry
  <1>2. IInv /\ PublicationLocal /\ [Next]_vars => PublicationLocal' /\ [GrantedOnce]_vars
    <2> SUFFICES ASSUME IInv, PublicationLocal, [Next]_vars
                 PROVE  PublicationLocal' /\ [GrantedOnce]_vars
      OBVIOUS
    <2>1. CASE UNCHANGED vars
      BY <2>1, Zenon DEF vars, PublicationLocal
    <2>2. CASE Next
      <3>1. \A k \in PublicationKey : KeepsLock(k, entries[k])
        BY Zenon DEF KeepsLock, PublicationLocal
      <3>2. CASE (\E r \in Run : RunStops(r)) \/ Tick
        <4>1. entries' = entries
          BY <3>2, Zenon DEF RunStops, Tick
        <4> QED
          BY <3>1, <4>1, Zenon DEF KeepsLock, PublicationLocal, GrantedOnce
      <3>3. CASE LocalNext \/ CustodyNext
        BY <3>3, LocalKeepsLocks, CustodyKeepsLocks, Zenon
        DEF KeepsLock, PublicationLocal, GrantedOnce
      <3> QED
        BY <2>2, <3>2, <3>3, Zenon DEF Next
    <2> QED
      BY <2>1, <2>2, Zenon
  <1> QED
    BY <1>1, <1>2, LedgerInvariant, PTL DEF Spec, PublicationSingleGrant

-----------------------------------------------------------------------------
\* The observation of an entry is of its own incarnation.
OwnObservation(e) == e.observedAt # 0 => e.observedAt >= e.claimedAt

\* The transitions that rewrite one entry, j.
LEMMA OneEntryObserved ==
    ASSUME TypeOK, VerificationOfIncarnation, NEW j \in Key, NEW e, NEW hs,
           NEW ok \in BOOLEAN, Persist([entries EXCEPT ![j] = e], hs, ok), OwnObservation(e)
    PROVE  VerificationOfIncarnation'
  <1>1. entries' = entries \/ entries' = [entries EXCEPT ![j] = e]
    BY Zenon DEF Persist
  <1>2. \A k \in Key : entries'[k] = entries[k] \/ entries'[k] = e
    BY <1>1, Zenon DEF TypeOK
  <1> QED
    BY <1>2, Zenon DEF VerificationOfIncarnation, OwnObservation

\* A local claim or takeover continues a live lease with its observation, or has none.
LEMMA ContinuedObservation ==
    ASSUME TypeOK, VerificationOfIncarnation, NEW k \in Key, NEW r \in Run
    PROVE  OwnObservation(ContinueLease(entries[k], Fresh(r, NoOwner, now + Lease, 0)))
  <1> DEFINE f == Fresh(r, NoOwner, now + Lease, 0)
  <1>1. entries[k] \in Entry /\ now \in Nat /\ OwnObservation(entries[k])
    BY Zenon DEF TypeOK, VerificationOfIncarnation, OwnObservation
  <1>2. f \in Entry
    BY <1>1, FreshLease, Zenon
  <1>3. f.observedAt = 0
    BY Zenon DEF Fresh
  <1> HIDE DEF f
  <1>4. ASSUME entries[k].held /\ entries[k].run = f.run /\ Live(entries[k])
        PROVE  OwnObservation(ContinueLease(entries[k], f))
    <2> DEFINE e == [f EXCEPT !.claimedAt = entries[k].claimedAt, !.renewedAt = now,
                              !.observedAt = entries[k].observedAt]
    <2>1. e.claimedAt = entries[k].claimedAt /\ e.observedAt = entries[k].observedAt
      BY <1>2, Zenon DEF Entry
    <2>2. ContinueLease(entries[k], f) = e
      BY <1>4, Zenon DEF ContinueLease
    <2> QED
      BY <1>1, <2>1, <2>2, Zenon DEF OwnObservation
  <1>5. ASSUME ~ (entries[k].held /\ entries[k].run = f.run /\ Live(entries[k]))
        PROVE  OwnObservation(ContinueLease(entries[k], f))
    <2>1. ContinueLease(entries[k], f) = f
      BY <1>5, Zenon DEF ContinueLease
    <2> QED
      BY <1>3, <2>1, Zenon DEF OwnObservation
  <1> QED
    BY <1>4, <1>5, Zenon DEF f

LEMMA LocalObserved ==
    ASSUME IInv, VerificationOfIncarnation, LocalNext
    PROVE  VerificationOfIncarnation'
  <1>1. /\ TypeOK /\ entries \in [Key -> Entry] /\ ScopedKey \subseteq Key
        /\ \A k \in ScopedKey : LegacyOf[k] \in Key
        /\ NoEntry.observedAt = 0
    BY KeyAssumption, Zenon DEF IInv, TypeOK, Key, NoEntry
  <1>2. /\ OwnObservation(NoEntry)
        /\ \A k \in Key : OwnObservation(entries[k])
    BY <1>1, Zenon DEF OwnObservation, VerificationOfIncarnation
  <1>3. ASSUME NEW k \in Key, NEW r \in Run, claim(k, r) PROVE VerificationOfIncarnation'
    <2> DEFINE e == ContinueLease(entries[k], Fresh(r, NoOwner, now + Lease, 0))
    <2>1. OwnObservation(e)
      BY <1>1, ContinuedObservation, Zenon
    <2>2. PICK ok \in BOOLEAN : Persist([entries EXCEPT ![k] = e], RecordHistory(k, e), ok)
      BY <1>3, Zenon DEF claim, StoreClaim
    <2> HIDE DEF e
    <2> QED
      BY <1>1, <2>1, <2>2, OneEntryObserved, Zenon
  <1>4. ASSUME NEW k \in Key, RemoveEntry(k) PROVE VerificationOfIncarnation'
    BY <1>1, <1>2, <1>4, OneEntryObserved, Zenon DEF RemoveEntry
  <1>5. ASSUME \A k \in Key : OwnObservation(entries'[k]) PROVE VerificationOfIncarnation'
    BY <1>5, Zenon DEF OwnObservation, VerificationOfIncarnation
  <1>6. ASSUME NEW q \in Run, NEW r \in Run, NEW b \in BOOLEAN, ReclaimAll(q, r, b)
        PROVE  VerificationOfIncarnation'
    <2>1. \A k \in Key : \/ entries'[k] = entries[k]
                         \/ entries'[k] = ContinueLease(entries[k],
                                                        Fresh(r, NoOwner, now + Lease, 0))
      BY <1>1, <1>6, Zenon DEF ReclaimAll, Persist
    <2> QED
      BY <1>1, <1>2, <1>5, <2>1, ContinuedObservation, Zenon
  <1>7. CASE RecoverExpired
    <2>1. \A k \in Key : entries'[k] = entries[k] \/ entries'[k] = NoEntry
      BY <1>1, <1>7, Zenon DEF RecoverExpired, Persist
    <2> QED
      BY <1>2, <1>5, <2>1, Zenon
  <1>8. ASSUME NEW to, MigrateLegacyClaims(to) PROVE VerificationOfIncarnation'
    <2>1. \A k \in Key : \/ entries'[k] = entries[k] \/ entries'[k] = NoEntry
                         \/ k \in ScopedKey /\ entries'[k] = entries[LegacyOf[k]]
      BY <1>1, <1>8, Zenon DEF MigrateLegacyClaims, Persist
    <2> QED
      BY <1>1, <1>2, <1>5, <2>1, Zenon
  <1>9. \A k \in Key : entries[k].held => entries[k].run \in Run
    BY HeldEntry, Zenon
  <1> QED
    BY <1>1, <1>3, <1>4, <1>6, <1>7, <1>8, <1>9, Zenon
    DEF LocalNext, ClaimScoped, RenewEntry, Release, ForceRelease

LEMMA CustodyObserved ==
    ASSUME IInv, VerificationOfIncarnation, CustodyNext
    PROVE  VerificationOfIncarnation'
  <1>1. TypeOK /\ ScopedKey \subseteq Key /\ NoEntry.observedAt = 0 /\ now \in Nat
    BY Zenon DEF IInv, TypeOK, Key, NoEntry
  <1>2. ASSUME NEW k \in Key
        PROVE  entries[k] \in Entry /\ OwnObservation(entries[k])
    BY <1>1, Zenon DEF TypeOK, OwnObservation, VerificationOfIncarnation
  <1>3. ASSUME NEW k \in ScopedKey, NEW o \in Owner, BeginSharedAdmission(k, o)
        PROVE  VerificationOfIncarnation'
    <2> DEFINE f == Fresh(OwnerRun[o], o, now, now)
    <2>1. f \in Entry /\ OwnerRun[o] \in Run
      BY <1>1, FreshEntry, RunAssumption, Zenon
    <2>2. OwnObservation(f)
      BY Zenon DEF Fresh, OwnObservation
    <2> HIDE DEF f
    <2>3. PICK c \in {f, entries[k]}, ok \in BOOLEAN :
             Persist([entries EXCEPT ![k] = [c EXCEPT !.admissionPending = TRUE]],
                     RecordHistory(k, [c EXCEPT !.admissionPending = TRUE]), ok)
      BY <1>3, Zenon DEF BeginSharedAdmission, UpdateEntry, f
    <2> DEFINE e == [c EXCEPT !.admissionPending = TRUE]
    <2>4. c \in Entry /\ OwnObservation(c) /\ k \in Key
      BY <1>1, <1>2, <2>1, <2>2, Zenon
    <2>5. e.observedAt = c.observedAt /\ e.claimedAt = c.claimedAt
      BY <2>4, Zenon DEF Entry
    <2>6. OwnObservation(e)
      BY <2>4, <2>5, Zenon DEF OwnObservation
    <2> HIDE DEF e
    <2> QED
      BY <1>1, <2>3, <2>4, <2>6, OneEntryObserved, Zenon DEF e
  <1>4. ASSUME NEW k \in Key, NEW d, FinishSharedAdmission(k, d)
        PROVE  VerificationOfIncarnation'
    <2> DEFINE c == entries[k]
               e == [c EXCEPT !.admissionPending = FALSE, !.deadline = d, !.expiresAt = d]
    <2>1. OwnObservation(e)
      BY <1>2, Zenon DEF Entry, OwnObservation
    <2>2. \E ok \in BOOLEAN : Persist([entries EXCEPT ![k] = e], RecordHistory(k, e), ok)
      BY <1>4, Zenon DEF FinishSharedAdmission, StoreClaim
    <2> HIDE DEF e
    <2> QED
      BY <1>1, <2>1, <2>2, OneEntryObserved, Zenon
  <1>5. ASSUME NEW k \in Key, NEW b \in BOOLEAN, NEW c \in BOOLEAN,
               BeginProviderRelease(k, b, c)
        PROVE  VerificationOfIncarnation'
    <2> DEFINE e == [entries[k] EXCEPT !.releasePending = TRUE, !.admissionPending = FALSE]
    <2>1. OwnObservation(e)
      BY <1>2, Zenon DEF Entry, OwnObservation
    <2>2. \E ok \in BOOLEAN : Persist([entries EXCEPT ![k] = e], RecordHistory(k, e), ok)
      BY <1>5, Zenon DEF BeginProviderRelease, UpdateEntry
    <2> HIDE DEF e
    <2> QED
      BY <1>1, <2>1, <2>2, OneEntryObserved, Zenon
  <1>6. ASSUME NEW k \in Key, FinishProviderRelease(k) PROVE VerificationOfIncarnation'
    <2>1. OwnObservation(NoEntry)
      BY <1>1, Zenon DEF OwnObservation
    <2> QED
      BY <1>1, <1>6, <2>1, OneEntryObserved, Zenon DEF FinishProviderRelease, RemoveEntry
  <1>7. ASSUME NEW k \in Key, RevokeSharedExecution(k) PROVE VerificationOfIncarnation'
    <2> DEFINE c == entries[k]
               cut == IF c.deadline > now
                      THEN [c EXCEPT !.deadline = now, !.expiresAt = now] ELSE c
               e == [cut EXCEPT !.revoked = TRUE]
    <2>1. cut \in Entry /\ cut.observedAt = c.observedAt /\ cut.claimedAt = c.claimedAt
      BY <1>1, <1>2, Zenon DEF Entry
    <2>2. \/ entries' = entries
          \/ \E ok \in BOOLEAN : Persist([entries EXCEPT ![k] = e], RecordHistory(k, e), ok)
      BY <1>7, Zenon DEF RevokeSharedExecution
    <2> HIDE DEF cut
    <2>3. e.observedAt = c.observedAt /\ e.claimedAt = c.claimedAt
      BY <2>1, Zenon DEF Entry
    <2>4. OwnObservation(e)
      BY <1>2, <2>3, Zenon DEF OwnObservation
    <2> HIDE DEF e
    <2>5. CASE entries' = entries
      BY <2>5, Zenon DEF VerificationOfIncarnation
    <2> QED
      BY <1>1, <2>2, <2>4, <2>5, OneEntryObserved, Zenon
  <1>8. ASSUME NEW k \in Key, NEW t \in ObservationTime, RecordClaimVerification(k, t)
        PROVE  VerificationOfIncarnation'
    <2> DEFINE e == [entries[k] EXCEPT !.observedAt = t]
    <2>1. \E ok \in BOOLEAN : Persist([entries EXCEPT ![k] = e], RecordHistory(k, e), ok)
      BY <1>8, Zenon DEF RecordClaimVerification, UpdateEntry
    <2>2. e.claimedAt = entries[k].claimedAt /\ e.observedAt = t
      BY <1>2, Zenon DEF Entry
    <2>3. t >= entries[k].claimedAt
      BY <1>8, Zenon DEF RecordClaimVerification
    <2> HIDE DEF e
    <2> QED
      BY <1>1, <2>1, <2>2, <2>3, OneEntryObserved, Zenon DEF OwnObservation
  <1> QED
    BY <1>1, <1>3, <1>4, <1>5, <1>6, <1>7, <1>8, Zenon DEF CustodyNext

(* The observation that lets a run go on is of the claim it holds, for any  *)
(* keys, runs and incarnations: renewals carry it, and no fresh claim,      *)
(* takeover, migration or admission inherits it (continueLease).            *)
THEOREM LedgerVerification == Spec => []VerificationOfIncarnation
  <1>1. Init => VerificationOfIncarnation
    BY DEF Init, VerificationOfIncarnation, NoEntry, Fresh
  <1>2. IInv /\ VerificationOfIncarnation /\ [Next]_vars => VerificationOfIncarnation'
    <2> SUFFICES ASSUME IInv, VerificationOfIncarnation, [Next]_vars
                 PROVE  VerificationOfIncarnation'
      OBVIOUS
    <2>1. CASE entries' = entries
      BY <2>1, Zenon DEF VerificationOfIncarnation
    <2> QED
      BY <2>1, LocalObserved, CustodyObserved, Zenon DEF Next, RunStops, Tick, vars
  <1> QED
    BY <1>1, <1>2, LedgerInvariant, PTL DEF Spec

==============================================================================
