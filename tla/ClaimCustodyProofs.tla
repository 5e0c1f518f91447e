-------------------------- MODULE ClaimCustodyProofs --------------------------
(***************************************************************************)
(* That leases are safe, between instances and within one daemon.          *)
(*                                                                         *)
(* Cross-instance admission, for any number of instances, processes and    *)
(* incarnations, through the file client, the claims plane or both: whoever*)
(* is admitted owns the provider's record for as long, the instances       *)
(* together implement the abstract lease, and a revocation is final.  The  *)
(* argument is optimistic concurrency: a swap acts only on the revision it *)
(* read (Swapped), so what its sender saw of the record still holds when   *)
(* it is delivered, however late.  CustodyInv says what each sender saw,   *)
(* and what a release must have fenced before its tombstone may end a      *)
(* lease.                                                                  *)
(*                                                                         *)
(* Renewal and recovery (ClaimLifecycle, here L), for any number of runs,  *)
(* items and sweepers, any lease longer than the budget of a renewal pass, *)
(* and any number of crashes, failed passes and failed releases.  The      *)
(* argument is about time.  Every claim of a working run was granted since *)
(* the last completed pass began (EntrySound): by the pass, which takes    *)
(* every claim of a working run into its snapshot, or by a claim made      *)
(* later.  The next pass completes within the budget (PassSound), which is *)
(* shorter than the lease, so such a claim has not expired when a sweep or *)
(* a claimant looks.  A run that nobody works for any more left its last   *)
(* evidence after the pass that may still renew its claims began.          *)
(***************************************************************************)
EXTENDS SharedCustody, TLAPS

-----------------------------------------------------------------------------
(* Types.                                                                  *)

\* The values that the actions write have their types.
LEMMA IdleTyped == Idle \in Transition /\ NoEntry \in Entry /\ NoSwap \in Record
  BY Zenon DEF Idle, Transition, Step, NoSwap, Tombstone, Record, NoEntry, Entry

\* Advance and End write transitions.
LEMMA StepTyped ==
    ASSUME TypeOK, NEW p \in Proc,
           End(p) \/ \E s \in Step : Advance(p, s)
    PROVE  op' \in [Proc -> Transition]
  <1>1. ASSUME NEW s \in Step PROVE [op[p] EXCEPT !.step = s] \in Transition
    BY Zenon DEF TypeOK, Transition
  <1> QED
    BY <1>1, IdleTyped, Zenon DEF TypeOK, End, Advance

\* So does Prepare, whose swap is under way from then on, or after SendSwap.
LEMMA PrepareTyped ==
    ASSUME TypeOK, NEW p \in Proc, NEW swap \in Record, Prepare(p, swap)
    PROVE  op' \in [Proc -> Transition] /\ requests' \subseteq Record
  <1>1. ASSUME NEW s \in Step PROVE [op[p] EXCEPT !.step = s, !.swap = swap] \in Transition
    BY Zenon DEF TypeOK, Transition
  <1>2. {"swap", "sent"} \subseteq Step
    BY Zenon DEF Step
  <1> QED
    BY <1>1, <1>2, Zenon DEF TypeOK, Prepare

\* The two reservations.
LEMMA BeginsTyped ==
    ASSUME TypeOK, NEW p \in Proc,
           BeginSharedRelease(p) \/ \E o \in Owner : BeginSharedAdmission(p, o)
    PROVE  TypeOK'
  <1>1. /\ At[p] \in Instance /\ TTL \in Nat \ {0, 1} /\ now \in Nat
        /\ local[At[p]] \in Entry /\ op[p] \in Transition
    BY CustodyAssumption, Zenon DEF TypeOK
  <1>2. CASE BeginSharedRelease(p)
    <2>1. ASSUME NEW b \in BOOLEAN
          PROVE  [local[At[p]] EXCEPT !.releasePending = TRUE, !.token = Token(p),
                                      !.admissionPending = b] \in Entry
      BY <1>1, Zenon DEF Entry, Token
    <2>2. [Idle EXCEPT !.step = "release", !.owner = local[At[p]].owner] \in Transition
      BY <1>1, IdleTyped, Zenon DEF Entry, Transition, Step
    <2> QED
      BY <1>1, <1>2, <2>1, <2>2, ZenonT(20) DEF BeginSharedRelease, TypeOK, Entry
  <1>3. ASSUME NEW o \in Owner, BeginSharedAdmission(p, o) PROVE TypeOK'
    <2>1. [step |-> "acquire", owner |-> o, deadline |-> now + TTL - 1, swap |-> NoSwap]
            \in Transition
      BY <1>1, IdleTyped DEF Transition, Step
    <2>2. ASSUME NEW e \in Entry
          PROVE  [e EXCEPT !.admissionPending = TRUE, !.token = Token(p)] \in Entry
      BY Zenon DEF Entry, Token
    <2>3. [NoEntry EXCEPT !.owner = o, !.deadline = now] \in Entry
      BY <1>1, Zenon DEF NoEntry, Entry
    <2> QED
      BY <1>1, <1>3, <2>1, <2>2, <2>3, ZenonT(20) DEF BeginSharedAdmission, TypeOK
  <1> QED
    BY <1>2, <1>3, Zenon

\* The two reads at the provider.
LEMMA ReadsTyped ==
    ASSUME TypeOK, NEW p \in Proc, AcquireRead(p) \/ ReleaseRead(p)
    PROVE  TypeOK'
  <1>1. /\ TTL \in Nat /\ now \in Nat \ {0} /\ DateLag \in {0, 1}
        /\ remote \in Record /\ op[p] \in Transition
    BY CustodyAssumption, Zenon DEF TypeOK
  <1>2. CASE AcquireRead(p)
    <2>1. PICK date \in ProviderDates :
             \/ End(p) /\ UNCHANGED requests
             \/ Prepare(p, AcquireSwap(p, date))
      BY <1>2, Zenon DEF AcquireRead
    <2>2. date \in Nat
      BY <1>1, <2>1 DEF ProviderDates
    <2>3. AcquireSwap(p, date) \in Record
      BY <1>1, <2>2 DEF AcquireSwap, RenewedExpiry, Record, Transition
    <2> QED
      BY <1>2, <2>1, <2>3, StepTyped, PrepareTyped, Zenon DEF AcquireRead, TypeOK
  <1>3. CASE ReleaseRead(p)
    <2>1. Tombstone(remote.rev) \in Record /\ {"confirm", "released"} \subseteq Step
      BY <1>1, Zenon DEF Tombstone, Record, Step
    <2>2. \/ Prepare(p, Tombstone(remote.rev))
          \/ UNCHANGED requests /\ \E s \in Step : Advance(p, s)
      BY <1>3, <2>1, Zenon DEF ReleaseRead
    <2>3. op' \in [Proc -> Transition] /\ requests' \subseteq Record
      BY <2>1, <2>2, StepTyped, PrepareTyped, Zenon DEF TypeOK
    <2> QED
      BY <1>3, <2>3, Zenon DEF ReleaseRead, TypeOK
  <1> QED
    BY <1>2, <1>3, Zenon

\* What follows the read, and the early end.
LEMMA AnswersTyped ==
    ASSUME TypeOK, NEW p \in Proc,
           \/ SendSwap(p) \/ ConfirmOwnerGone(p) \/ Fail(p)
           \/ FinishSharedAdmission(p) \/ FinishProviderRelease(p)
    PROVE  TypeOK'
  <1>1. /\ At[p] \in Instance /\ local[At[p]] \in Entry
        /\ op[p].deadline \in Nat /\ op[p].swap \in Record
    BY CustodyAssumption, Zenon DEF TypeOK, Transition
  <1>2. {"sent", "released"} \subseteq Step
    BY Zenon DEF Step
  <1>3. End(p) \/ \E s \in Step : Advance(p, s)
    BY <1>2, Zenon DEF SendSwap, ConfirmOwnerGone, Fail, FinishSharedAdmission,
                FinishProviderRelease
  <1>4. op' \in [Proc -> Transition]
    BY <1>3, StepTyped, Zenon
  <1>5. CASE SendSwap(p) \/ ConfirmOwnerGone(p) \/ Fail(p)
    BY <1>1, <1>4, <1>5, CustodyAssumption DEF SendSwap, ConfirmOwnerGone, Fail, TypeOK
  <1>6. CASE FinishSharedAdmission(p)
    <2>1. [local[At[p]] EXCEPT !.admissionPending = FALSE, !.deadline = op[p].deadline]
            \in Entry
      BY <1>1, Zenon DEF Entry
    <2> QED
      BY <1>1, <1>4, <1>6, <2>1, Zenon DEF FinishSharedAdmission, TypeOK
  <1>7. CASE FinishProviderRelease(p)
    BY <1>1, <1>4, <1>7, IdleTyped, Zenon DEF FinishProviderRelease, TypeOK
  <1> QED
    BY <1>5, <1>6, <1>7, Zenon

\* The provider, the operator and the clock.
LEMMA OthersTyped ==
    ASSUME TypeOK,
           \/ \E q \in requests : DeliverSwap(q)
           \/ \E i \in Instance : RevokeSharedExecution(i)
           \/ Tick
    PROVE  TypeOK'
  <1>1. ASSUME NEW q \in requests, DeliverSwap(q) PROVE TypeOK'
    <2>1. q \in Record /\ remote \in Record
      BY Zenon DEF TypeOK
    <2>2. remote' \in Record
      BY <1>1, <2>1 DEF DeliverSwap, Record
    <2>3. ASSUME NEW p \in Proc, NEW s \in Step
          PROVE  [op[p] EXCEPT !.step = s] \in Transition
      BY Zenon DEF TypeOK, Transition
    <2>4. {"released", "acked"} \subseteq Step
      BY Zenon DEF Step
    <2>5. op' \in [Proc -> Transition]
      BY <1>1, <2>3, <2>4, IdleTyped DEF DeliverSwap, TypeOK
    <2> QED
      BY <1>1, <2>2, <2>5, Zenon DEF DeliverSwap, TypeOK
  <1>2. ASSUME NEW i \in Instance, RevokeSharedExecution(i) PROVE TypeOK'
    <2>1. local[i] \in Entry /\ now \in Nat /\ local[i].deadline \in Nat
          /\ local[i].owner \in Owner
      BY <1>2, Zenon DEF TypeOK, Entry, RevokeSharedExecution
    <2>2. [local[i] EXCEPT !.revoked = TRUE,
                           !.deadline = IF @ > now THEN now ELSE @] \in Entry
      BY <2>1, Zenon DEF Entry
    <2> QED
      BY <1>2, <2>1, <2>2, Zenon DEF RevokeSharedExecution, TypeOK
  <1>3. CASE Tick
    BY <1>3 DEF Tick, TypeOK
  <1> QED
    BY <1>1, <1>2, <1>3, Zenon

-----------------------------------------------------------------------------
(* What keeps a transition sound that does not move itself.                *)

\* One that has ended promises nothing.
LEMMA EndedSound ==
    ASSUME NEW r \in Proc, op'[r].step = "idle"
    PROVE  TransitionSound(r)'
  BY Zenon DEF TransitionSound, Prepared

\* One whose entry and record stay as they are needs only to know that no new
\* tombstone can end the lease it gave back.
LEMMA UndisturbedSound ==
    ASSUME NEW r \in Proc, TransitionSound(r), op'[r] = op[r],
           UNCHANGED <<now, remote>>, local'[At[r]] = local[At[r]],
           \A s \in requests' \ requests :
              Ending(s) /\ op[r].step \in {"confirm", "released"}
                 => remote.owner # op[r].owner
    PROVE  TransitionSound(r)'
  <1>1. Current(r)' <=> Current(r)
    BY Zenon DEF Current
  <1>2. \A s : Ending(s)' <=> Ending(s)
    BY Zenon DEF Ending
  <1>3. Prepared(r)' <=> Prepared(r)
    BY Zenon DEF Prepared
  <1> QED
    BY <1>1, <1>2, <1>3 DEF TransitionSound

\* One of the plane that was overtaken may not finish any more.
LEMMA OvertakenSound ==
    ASSUME NEW r \in Proc, TransitionSound(r), op'[r] = op[r],
           UNCHANGED <<now, remote>>, At[r] \in Plane, local'[At[r]].token # r
    PROVE  TransitionSound(r)'
  <1>1. ~Current(r)'
    BY Zenon DEF Current
  <1>2. Ending(op[r].swap)' <=> Ending(op[r].swap)
    BY Zenon DEF Ending
  <1>3. Prepared(r)' <=> Prepared(r)
    BY Zenon DEF Prepared
  <1> QED
    BY <1>1, <1>2, <1>3, Zenon DEF TransitionSound

-----------------------------------------------------------------------------
(* The actions of an admission.                                            *)

\* What the proofs below need of the types.
Typed ==
    /\ local \in [Instance -> Entry] /\ op \in [Proc -> Transition]
    /\ remote \in Record /\ requests \subseteq Record /\ now \in Nat
    /\ At \in [Proc -> Instance] /\ Home \in [Owner -> Instance]
    /\ NoOwner \notin Owner /\ NoProc \notin Proc

\* The reservation writes no lease: a fresh entry ends now, and only a release
\* that is not pending can be renewed.
LEMMA BeginSharedAdmissionKeeps ==
    ASSUME CustodyInv, TypeOK', NEW p \in Proc, NEW o \in Owner, BeginSharedAdmission(p, o)
    PROVE  CustodyInv'
  <1> USE DEF CustodyInv, BeginSharedAdmission, ReservationRefused, Token, NoEntry
  <1>types. Typed
    BY CustodyAssumption, Zenon DEF Typed, TypeOK
  <1>1. RemoteBacksAdmission'
    BY <1>types DEF Typed, Record, Entry, RemoteBacksAdmission, Admitted
  <1>2. SwapsSound'
    BY DEF SwapsSound, SwapSound, Prepared
  <1>3. TombstonesFenced'
    BY DEF Record, Entry, TombstonesFenced, Ending
  <1>4. LocalSound'
    BY DEF Entry, LocalSound
  <1>5. LockExclusive'
    BY DEF LockExclusive, LockFree
  <1>6. TransitionSound(p)'
    BY <1>types, CustodyAssumption DEF Typed, TransitionSound, Prepared
  <1>7. ASSUME NEW r \in Proc \ {p} PROVE TransitionSound(r)'
    <2>1. op'[r] = op[r] /\ UNCHANGED <<now, remote, requests>>
      OBVIOUS
    <2>2. CASE At[r] # At[p]
      <3>1. local'[At[r]] = local[At[r]]
        BY <2>2
      <3> QED
        BY <2>1, <3>1, UndisturbedSound, Zenon
    <2>3. CASE At[r] = At[p] /\ At[p] \notin Plane
      BY <2>1, <2>3, EndedSound, Zenon DEF LockFree
    <2>4. CASE At[r] = At[p] /\ At[p] \in Plane
      <3>1. local'[At[p]].token = p
        BY <1>types, <2>4 DEF Typed, Entry
      <3> QED
        BY <2>1, <2>4, <3>1, OvertakenSound, Zenon
    <2> QED
      BY <2>2, <2>3, <2>4, Zenon
  <1> QED
    BY <1>1, <1>2, <1>3, <1>4, <1>5, <1>6, <1>7, Zenon

\* The swap is sound of the revision that was read.
LEMMA AcquireReadKeeps ==
    ASSUME CustodyInv, TypeOK', NEW p \in Proc, AcquireRead(p)
    PROVE  CustodyInv'
  <1> USE DEF CustodyInv
  <1>types. Typed
    BY CustodyAssumption, Zenon DEF Typed, TypeOK
  <1>1. PICK date \in ProviderDates :
           IF Held(date) /\ remote.owner # op[p].owner
           THEN End(p) /\ UNCHANGED requests
           ELSE Prepare(p, AcquireSwap(p, date))
    BY Zenon DEF AcquireRead
  <1>2. /\ op[p].step = "acquire" /\ op[p].owner \in Owner
        /\ op[p].deadline <= now + TTL - 1
        /\ UNCHANGED <<now, remote, local, revoked>>
    BY Zenon DEF AcquireRead, TransitionSound
  <1>3. /\ date <= now /\ date >= now - 1 /\ date \in Int
        /\ now \in Nat /\ remote.rev \in Nat /\ remote.expires \in Nat
        /\ op[p].deadline \in Nat
    BY <1>types, <1>1, CustodyAssumption DEF Typed, ProviderDates, Record, Transition
  <1> DEFINE s == AcquireSwap(p, date)
  <1>4. ASSUME ~(Held(date) /\ remote.owner # op[p].owner)
        PROVE  SwapSound(s) /\ s.owner = op[p].owner /\ s.expires >= op[p].deadline
    BY <1>types, <1>2, <1>3, <1>4, CustodyAssumption
       DEF Typed, AcquireSwap, RenewedExpiry, Held, SwapSound
  <1> HIDE DEF s
  <1>5. ASSUME NEW r \in Proc \ {p} PROVE op'[r] = op[r]
    BY <1>types, <1>1, Zenon DEF Typed, Prepare, End
  <1>6. \/ op'[p] = Idle /\ requests' = requests
        \/ /\ SwapSound(s) /\ s.owner = op[p].owner /\ s.expires >= op[p].deadline
           /\ op'[p].step = IF At[p] \in Plane THEN "swap" ELSE "sent"
           /\ op'[p].swap = s
           /\ op'[p].owner = op[p].owner /\ op'[p].deadline = op[p].deadline
           /\ requests' \subseteq requests \cup {s}
    BY <1>types, <1>1, <1>4 DEF Typed, Prepare, End, s, Transition
  <1>7. RemoteBacksAdmission' /\ LocalSound'
    BY <1>2, Zenon DEF RemoteBacksAdmission, Admitted, LocalSound
  <1>8. SwapsSound'
    <2>1. \A x : SwapSound(x)' <=> SwapSound(x)
      BY <1>2, Zenon DEF SwapSound
    <2>2. ASSUME NEW x \in requests' PROVE SwapSound(x)
      BY <1>6, <2>2, Zenon DEF SwapsSound
    <2>3. ASSUME Prepared(p)' PROVE SwapSound(op'[p].swap)
      BY <1>6, <2>3 DEF Prepared, Idle
    <2>4. ASSUME NEW r \in Proc \ {p}, Prepared(r)' PROVE SwapSound(op'[r].swap)
      BY <1>5, <2>4, Zenon DEF Prepared, SwapsSound
    <2> QED
      BY <2>1, <2>2, <2>3, <2>4, Zenon DEF SwapsSound
  <1>9. TombstonesFenced'
    BY <1>types, <1>2, <1>6, Zenon DEF Typed, TombstonesFenced, Ending
  <1>10. LockExclusive'
    BY <1>2, <1>5 DEF LockExclusive
  <1>11. TransitionSound(p)'
    <2>1. CASE op'[p] = Idle
      BY <2>1, EndedSound DEF Idle
    <2>2. CASE op'[p] # Idle
      <3>1. /\ op'[p].step \in {"swap", "sent"} /\ op'[p].owner = op[p].owner
            /\ op'[p].step = "swap" => At[p] \in Plane
            /\ op'[p].swap.owner = op'[p].owner
            /\ op'[p].swap.expires >= op'[p].deadline
        BY <1>6, <2>2, Zenon
      <3>2. Home[op[p].owner] = At[p] /\ NoOwner \notin Owner
        BY <1>types, <1>2, Zenon DEF Typed, TransitionSound
      <3> QED
        BY <1>2, <3>1, <3>2, Zenon DEF TransitionSound, Prepared, Ending
    <2> QED
      BY <2>1, <2>2, Zenon
  <1>12. ASSUME NEW r \in Proc \ {p} PROVE TransitionSound(r)'
    <2>1. \A x \in requests' \ requests : ~Ending(x)
      BY <1>types, <1>2, <1>6, Zenon DEF Typed, Ending
    <2> QED
      BY <1>2, <1>5, <2>1, UndisturbedSound, Zenon
  <1> QED
    BY <1>7, <1>8, <1>9, <1>10, <1>11, <1>12, Zenon

\* The plane sends a tombstone only from release custody that is still its own.
LEMMA SendSwapKeeps ==
    ASSUME CustodyInv, TypeOK', NEW p \in Proc, SendSwap(p)
    PROVE  CustodyInv'
  <1> USE DEF CustodyInv
  <1>types. Typed
    BY CustodyAssumption, Zenon DEF Typed, TypeOK
  <1>0. op[p].step = "swap" /\ UNCHANGED <<now, remote, local, revoked>>
    BY Zenon DEF SendSwap
  <1>1. /\ At[p] \in Plane
        /\ op[p].owner \in Owner /\ Home[op[p].owner] = At[p]
    BY <1>0, Zenon DEF TransitionSound
  <1>2. ASSUME NEW r \in Proc \ {p} PROVE op'[r] = op[r]
    BY <1>types, Zenon DEF Typed, SendSwap, Advance, End
  <1>3. \/ /\ IntentHolds(p) /\ requests' = requests \cup {op[p].swap}
           /\ op'[p].step = "sent" /\ op'[p].swap = op[p].swap
           /\ op'[p].owner = op[p].owner /\ op'[p].deadline = op[p].deadline
        \/ op'[p].step = "idle" /\ requests' = requests
    BY <1>types DEF Typed, SendSwap, Advance, End, Idle, Transition
  <1>4. RemoteBacksAdmission' /\ LocalSound'
    BY <1>0, <1>1, Zenon DEF RemoteBacksAdmission, Admitted, LocalSound
  <1>5. SwapsSound'
    <2>1. \A x : SwapSound(x)' <=> SwapSound(x)
      BY <1>0, <1>1, Zenon DEF SwapSound
    <2>2. SwapSound(op[p].swap)
      BY <1>0, <1>1, Zenon DEF SwapsSound, Prepared
    <2>3. ASSUME Prepared(p)' PROVE SwapSound(op'[p].swap)
      BY <1>3, <2>2, <2>3, Zenon DEF Prepared
    <2>4. ASSUME NEW r \in Proc \ {p}, Prepared(r)' PROVE SwapSound(op'[r].swap)
      BY <1>2, <2>4, Zenon DEF Prepared, SwapsSound
    <2> QED
      BY <1>3, <2>1, <2>2, <2>3, <2>4, Zenon DEF SwapsSound
  <1>6. IntentHolds(p) /\ Ending(op[p].swap) =>
           /\ remote.owner = op[p].owner
           /\ local[At[p]].owner = op[p].owner /\ local[At[p]].releasePending
           /\ local[At[p]].token = p
    BY <1>0, <1>1, Zenon DEF IntentHolds, Ending, TransitionSound, Prepared
  <1>7. TombstonesFenced'
    BY <1>0, <1>1, <1>3, <1>6 DEF TombstonesFenced, Ending
  <1>8. LockExclusive'
    BY <1>0, <1>1, <1>2 DEF LockExclusive
  <1>9. TransitionSound(p)'
    BY <1>0, <1>1, <1>3 DEF TransitionSound, Prepared, Ending
  <1>10. ASSUME NEW r \in Proc \ {p} PROVE TransitionSound(r)'
    <2>1. ASSUME NEW x \in requests' \ requests, Ending(x), Current(r),
                 op[r].step \in {"confirm", "released"}
          PROVE  remote.owner # op[r].owner
      <3>1. /\ x = op[p].swap /\ remote.owner = op[p].owner /\ local[At[p]].token = p
        BY <1>3, <1>6, <2>1
      <3>2. At[r] # At[p]
        BY <1>1, <2>1, <3>1, Zenon DEF Current
      <3>3. Home[op[r].owner] = At[r]
        BY <2>1, Zenon DEF TransitionSound
      <3> QED
        BY <1>1, <3>1, <3>2, <3>3, Zenon
    <2>2. CASE Current(r)
      BY <1>0, <1>2, <2>1, <2>2, UndisturbedSound, Zenon
    <2>3. CASE ~Current(r)
      BY <1>0, <1>2, <2>3, OvertakenSound, Zenon DEF Current
    <2> QED
      BY <2>2, <2>3, Zenon
  <1> QED
    BY <1>4, <1>5, <1>7, <1>8, <1>9, <1>10, Zenon

\* The entry gets the deadline for which the record was just acknowledged.
LEMMA FinishSharedAdmissionKeeps ==
    ASSUME CustodyInv, TypeOK', NEW p \in Proc, FinishSharedAdmission(p)
    PROVE  CustodyInv'
  <1> USE DEF CustodyInv
  <1>types. Typed
    BY CustodyAssumption, Zenon DEF Typed, TypeOK
  <1>1. /\ op[p].step = "acked" /\ op' = [op EXCEPT ![p] = Idle]
        /\ UNCHANGED <<now, remote, revoked, requests>>
    BY Zenon DEF FinishSharedAdmission, End
  <1>2. \A i \in Instance :
           /\ local'[i].owner = local[i].owner
           /\ local'[i].releasePending = local[i].releasePending
           /\ local'[i].revoked = local[i].revoked
           /\ local'[i].token = local[i].token
           /\ \/ local'[i].deadline = local[i].deadline
              \/ /\ i = At[p] /\ local'[i].deadline = op[p].deadline
                 /\ local[i].owner = op[p].owner /\ ~local[i].releasePending
                 /\ op[p].deadline > now /\ Current(p)
    BY <1>types DEF Typed, FinishSharedAdmission, Entry
  <1>3. RemoteBacksAdmission'
    <2>1. ASSUME Current(p), local[At[p]].owner = op[p].owner,
                 ~local[At[p]].releasePending, op[p].deadline > now
          PROVE  remote.owner = op[p].owner /\ remote.expires >= op[p].deadline
      BY <1>1, <2>1, Zenon DEF TransitionSound
    <2> QED
      BY <1>1, <1>2, <2>1 DEF RemoteBacksAdmission, Admitted
  <1>4. SwapsSound'
    BY <1>1 DEF SwapsSound, SwapSound, Prepared, Idle
  <1>5. TombstonesFenced'
    BY <1>types, <1>1, <1>2 DEF Typed, TombstonesFenced, Ending, Record
  <1>6. LocalSound'
    BY <1>1, <1>2 DEF LocalSound
  <1>7. LockExclusive'
    BY <1>1 DEF LockExclusive, Idle
  <1>8. TransitionSound(p)'
    BY <1>types, <1>1, EndedSound, Zenon DEF Typed, Idle
  <1>9. ASSUME NEW r \in Proc \ {p} PROVE TransitionSound(r)'
    <2>1. op'[r] = op[r] /\ At[r] \in Instance
      BY <1>types, <1>1, Zenon DEF Typed
    <2>2. CASE local'[At[r]] = local[At[r]]
      BY <1>1, <2>1, <2>2, UndisturbedSound, Zenon
    <2>3. CASE local'[At[r]] # local[At[r]]
      <3>1. At[r] = At[p] /\ Current(p) /\ local'[At[r]].token = local[At[r]].token
        BY <1>types, <1>2, <2>1, <2>3 DEF Typed, FinishSharedAdmission
      <3>2. CASE At[p] \in Plane
        BY <1>1, <2>1, <3>1, <3>2, OvertakenSound, Zenon DEF Current
      <3>3. CASE At[p] \notin Plane
        BY <1>1, <2>1, <3>1, <3>3, EndedSound, Zenon DEF LockExclusive
      <3> QED
        BY <3>2, <3>3, Zenon
    <2> QED
      BY <2>2, <2>3, Zenon
  <1> QED
    BY <1>3, <1>4, <1>5, <1>6, <1>7, <1>8, <1>9, Zenon

-----------------------------------------------------------------------------
(* The actions of a release, the provider, the operator and the clock.     *)

\* Release custody only takes time away, and the plane's token overtakes every
\* other transition of the instance.
LEMMA BeginSharedReleaseKeeps ==
    ASSUME CustodyInv, TypeOK', NEW p \in Proc, BeginSharedRelease(p)
    PROVE  CustodyInv'
  <1> USE DEF CustodyInv
  <1>types. Typed
    BY CustodyAssumption, Zenon DEF Typed, TypeOK
  <1>1. /\ op[p].step = "idle" /\ LockFree(p) /\ local[At[p]].owner # NoOwner
        /\ UNCHANGED <<now, remote, revoked, requests>>
    BY Zenon DEF BeginSharedRelease
  <1>2. \A i \in Instance :
           /\ local'[i].owner = local[i].owner
           /\ local'[i].deadline = local[i].deadline
           /\ local'[i].revoked = local[i].revoked
           /\ local'[i].releasePending = (i = At[p] \/ local[i].releasePending)
           /\ local'[i].token = IF i = At[p] THEN Token(p) ELSE local[i].token
    BY <1>types, Zenon DEF Typed, TypeOK, BeginSharedRelease, Entry
  <1>3. ASSUME NEW r \in Proc \ {p} PROVE op'[r] = op[r]
    BY DEF BeginSharedRelease
  <1>4. op'[p].step = "release" /\ op'[p].owner = local[At[p]].owner
    BY <1>types DEF Typed, BeginSharedRelease, Idle
  <1>5. local[At[p]].owner \in Owner /\ Home[local[At[p]].owner] = At[p]
    BY <1>types, <1>1 DEF Typed, Entry, LocalSound
  <1>6. RemoteBacksAdmission'
    BY <1>1, <1>2, Zenon DEF RemoteBacksAdmission, Admitted
  <1>7. SwapsSound'
    BY <1>1, <1>3, <1>4 DEF SwapsSound, SwapSound, Prepared
  <1>8. TombstonesFenced'
    BY <1>types, <1>1, <1>2, Zenon DEF Typed, TombstonesFenced, Ending, Record
  <1>9. LocalSound'
    BY <1>1, <1>2 DEF LocalSound
  <1>10. LockExclusive'
    BY <1>1, <1>3, <1>4 DEF LockExclusive, LockFree
  <1>11. TransitionSound(p)'
    <2>1. local'[At[p]].owner = op'[p].owner /\ local'[At[p]].releasePending
      BY <1>types, <1>2, <1>4, Zenon DEF Typed
    <2> QED
      BY <1>4, <1>5, <2>1 DEF TransitionSound, Prepared
  <1>12. ASSUME NEW r \in Proc \ {p} PROVE TransitionSound(r)'
    <2>1. CASE At[r] = At[p]
      <3>1. CASE At[p] \in Plane
        <4>1. local'[At[r]].token # r
          BY <1>types, <1>2, <2>1, <3>1 DEF Typed, Token
        <4> QED
          BY <1>1, <1>3, <2>1, <3>1, <4>1, OvertakenSound, Zenon
      <3>2. CASE At[p] \notin Plane
        BY <1>1, <1>3, <2>1, <3>2, EndedSound, Zenon DEF LockFree
      <3> QED
        BY <3>1, <3>2, Zenon
    <2>2. CASE At[r] # At[p]
      <3>1. local'[At[r]] = local[At[r]] /\ op'[r] = op[r]
        BY <1>types, <1>3, <2>2, Zenon DEF Typed, BeginSharedRelease
      <3> QED
        BY <1>1, <3>1, UndisturbedSound, Zenon
    <2> QED
      BY <2>1, <2>2, Zenon
  <1> QED
    BY <1>6, <1>7, <1>8, <1>9, <1>10, <1>11, <1>12, Zenon

\* The tombstone is of a revision the releasing incarnation itself owns, or one
\* that has no owner.
LEMMA ReleaseReadKeeps ==
    ASSUME CustodyInv, TypeOK', NEW p \in Proc, ReleaseRead(p)
    PROVE  CustodyInv'
  <1> USE DEF CustodyInv
  <1>types. Typed
    BY CustodyAssumption, Zenon DEF Typed, TypeOK
  <1> DEFINE s == Tombstone(remote.rev)
  <1>1. /\ op[p].step = "release" /\ op[p].owner \in Owner /\ Home[op[p].owner] = At[p]
        /\ UNCHANGED <<now, remote, local, revoked>>
    BY Zenon DEF ReleaseRead, TransitionSound
  <1>2. ASSUME NEW r \in Proc \ {p} PROVE op'[r] = op[r]
    BY <1>types, Zenon DEF Typed, ReleaseRead, Prepare, Advance
  <1>3. \/ /\ remote.owner \in {op[p].owner, NoOwner}
           /\ op'[p].step = (IF At[p] \in Plane THEN "swap" ELSE "sent")
           /\ op'[p].swap = s
           /\ requests' = (IF At[p] \in Plane THEN requests ELSE requests \cup {s})
        \/ /\ remote.owner # op[p].owner
           /\ op'[p].step \in {"confirm", "released"} /\ requests' = requests
    BY <1>types DEF Typed, ReleaseRead, Prepare, Advance, Transition
  <1>4. op'[p].owner = op[p].owner
    BY <1>types DEF Typed, ReleaseRead, Prepare, Advance, Transition
  <1>5. SwapSound(s) /\ s.owner = NoOwner
    BY <1>types DEF Typed, SwapSound, Tombstone, Record
  <1> HIDE DEF s
  <1>6. RemoteBacksAdmission' /\ LocalSound'
    BY <1>1, Zenon DEF RemoteBacksAdmission, Admitted, LocalSound
  <1>7. SwapsSound'
    <2>1. \A x : SwapSound(x)' <=> SwapSound(x)
      BY <1>1, Zenon DEF SwapSound
    <2>2. ASSUME NEW r \in Proc, Prepared(r)' PROVE SwapSound(op'[r].swap)
      BY <1>2, <1>3, <1>5, <2>2, Zenon DEF Prepared, SwapsSound
    <2> QED
      BY <1>3, <1>5, <2>1, <2>2, Zenon DEF SwapsSound
  <1>8. TombstonesFenced'
    <2>1. At[p] \notin Plane =>
             local[At[p]].owner = op[p].owner /\ local[At[p]].releasePending
      BY <1>1, Zenon DEF TransitionSound
    <2> QED
      BY <1>1, <1>3, <2>1 DEF TombstonesFenced, Ending
  <1>9. LockExclusive'
    BY <1>1, <1>2 DEF LockExclusive
  <1>10. TransitionSound(p)'
    BY <1>1, <1>3, <1>4, <1>5, Zenon DEF TransitionSound, Prepared, Ending
  <1>11. ASSUME NEW r \in Proc \ {p} PROVE TransitionSound(r)'
    <2>1. ASSUME NEW x \in requests' \ requests, Ending(x),
                 op[r].step \in {"confirm", "released"}
          PROVE  remote.owner # op[r].owner
      <3>1. remote.owner = op[p].owner /\ At[p] \notin Plane
        BY <1>3, <2>1, Zenon DEF Ending
      <3>2. At[r] # At[p]
        BY <1>1, <2>1, <3>1, Zenon DEF LockExclusive
      <3>3. Home[op[r].owner] = At[r]
        BY <2>1, Zenon DEF TransitionSound
      <3> QED
        BY <1>1, <3>1, <3>2, <3>3, Zenon
    <2> QED
      BY <1>1, <1>2, <2>1, UndisturbedSound, Zenon
  <1> QED
    BY <1>6, <1>7, <1>8, <1>9, <1>10, <1>11, Zenon

\* The second read finds the incarnation gone, or ends the release unfinished.
LEMMA ConfirmOwnerGoneKeeps ==
    ASSUME CustodyInv, TypeOK', NEW p \in Proc, ConfirmOwnerGone(p)
    PROVE  CustodyInv'
  <1> USE DEF CustodyInv
  <1>types. Typed
    BY CustodyAssumption, Zenon DEF Typed, TypeOK
  <1>1. /\ op[p].step = "confirm" /\ UNCHANGED <<now, remote, local, revoked, requests>>
    BY Zenon DEF ConfirmOwnerGone
  <1>2. ASSUME NEW r \in Proc \ {p} PROVE op'[r] = op[r]
    BY <1>types, Zenon DEF Typed, ConfirmOwnerGone, Advance, End
  <1>3. \/ op'[p].step = "idle"
        \/ /\ remote.owner # op[p].owner
           /\ op'[p].step = "released" /\ op'[p].owner = op[p].owner
    BY <1>types DEF Typed, ConfirmOwnerGone, Advance, End, Idle, Transition
  <1>4. RemoteBacksAdmission' /\ LocalSound' /\ TombstonesFenced'
    BY <1>1, Zenon DEF RemoteBacksAdmission, Admitted, LocalSound, TombstonesFenced, Ending
  <1>5. SwapsSound'
    BY <1>1, <1>2, <1>3 DEF SwapsSound, SwapSound, Prepared
  <1>6. LockExclusive'
    BY <1>1, <1>2 DEF LockExclusive
  <1>7. TransitionSound(p)'
    BY <1>1, <1>3, Zenon DEF TransitionSound, Prepared, Ending
  <1>8. ASSUME NEW r \in Proc \ {p} PROVE TransitionSound(r)'
    BY <1>1, <1>2, UndisturbedSound, Zenon
  <1> QED
    BY <1>4, <1>5, <1>6, <1>7, <1>8, Zenon

\* The entry goes only when no tombstone under way can end the lease of the
\* incarnation, so none can meet its next admission.
LEMMA FinishProviderReleaseKeeps ==
    ASSUME CustodyInv, TypeOK', NEW p \in Proc, FinishProviderRelease(p)
    PROVE  CustodyInv'
  <1> USE DEF CustodyInv
  <1>types. Typed
    BY CustodyAssumption, Zenon DEF Typed, TypeOK
  <1>1. /\ op[p].step = "released" /\ op' = [op EXCEPT ![p] = Idle]
        /\ UNCHANGED <<now, remote, revoked, requests>>
    BY Zenon DEF FinishProviderRelease, End
  <1>2. \/ local' = local
        \/ /\ local[At[p]].owner = op[p].owner /\ local[At[p]].releasePending
           /\ Current(p) /\ local' = [local EXCEPT ![At[p]] = NoEntry]
    BY Zenon DEF FinishProviderRelease
  <1>3. RemoteBacksAdmission'
    BY <1>types, <1>1, <1>2 DEF Typed, RemoteBacksAdmission, Admitted, NoEntry
  <1>4. SwapsSound'
    BY <1>1 DEF SwapsSound, SwapSound, Prepared, Idle
  <1>5. TombstonesFenced'
    <2>1. Current(p) => \A s \in requests : Ending(s) => remote.owner # op[p].owner
      BY <1>1, Zenon DEF TransitionSound
    <2> QED
      BY <1>types, <1>1, <1>2, <2>1 DEF Typed, TombstonesFenced, Ending, Record
  <1>6. LocalSound'
    BY <1>types, <1>1, <1>2 DEF Typed, LocalSound, NoEntry
  <1>7. LockExclusive'
    BY <1>1 DEF LockExclusive, Idle
  <1>8. TransitionSound(p)'
    BY <1>types, <1>1, EndedSound, Zenon DEF Typed, Idle
  <1>9. ASSUME NEW r \in Proc \ {p} PROVE TransitionSound(r)'
    <2>1. op'[r] = op[r]
      BY <1>1
    <2>2. CASE local'[At[r]] = local[At[r]]
      BY <1>1, <2>1, <2>2, UndisturbedSound, Zenon
    <2>3. CASE local'[At[r]] # local[At[r]]
      <3>1. At[r] = At[p] /\ local'[At[r]] = NoEntry
        BY <1>types, <1>2, <2>3, Zenon DEF Typed
      <3>2. CASE At[p] \in Plane
        BY <1>types, <1>1, <2>1, <3>1, <3>2, OvertakenSound DEF Typed, NoEntry
      <3>3. CASE At[p] \notin Plane
        BY <1>1, <2>1, <3>1, <3>3, EndedSound, Zenon DEF LockExclusive
      <3> QED
        BY <3>2, <3>3, Zenon
    <2> QED
      BY <2>2, <2>3, Zenon
  <1> QED
    BY <1>3, <1>4, <1>5, <1>6, <1>7, <1>8, <1>9, Zenon

\* A transition that ends early leaves nothing that was not there before.
LEMMA FailKeeps ==
    ASSUME CustodyInv, TypeOK', NEW p \in Proc, Fail(p)
    PROVE  CustodyInv'
  <1> USE DEF CustodyInv
  <1>types. Typed
    BY CustodyAssumption, Zenon DEF Typed, TypeOK
  <1>1. /\ op' = [op EXCEPT ![p] = Idle] /\ requests' \subseteq requests
        /\ UNCHANGED <<now, remote, local, revoked>>
    BY Zenon DEF Fail, End
  <1>2. RemoteBacksAdmission' /\ LocalSound' /\ TombstonesFenced'
    BY <1>1, Zenon DEF RemoteBacksAdmission, Admitted, LocalSound, TombstonesFenced, Ending
  <1>3. SwapsSound'
    BY <1>1 DEF SwapsSound, SwapSound, Prepared, Idle
  <1>4. LockExclusive'
    BY <1>1 DEF LockExclusive, Idle
  <1>5. TransitionSound(p)'
    BY <1>types, <1>1, EndedSound, Zenon DEF Typed, Idle
  <1>6. ASSUME NEW r \in Proc \ {p} PROVE TransitionSound(r)'
    <2>1. op'[r] = op[r]
      BY <1>1
    <2> QED
      BY <1>1, <2>1, UndisturbedSound, Zenon
  <1> QED
    BY <1>2, <1>3, <1>4, <1>5, <1>6, Zenon

\* The swap that succeeds makes every other swap of its revision unusable.
LEMMA DeliverSwapKeeps ==
    ASSUME CustodyInv, TypeOK', NEW q \in requests, DeliverSwap(q)
    PROVE  CustodyInv'
  <1> USE DEF CustodyInv, DeliverSwap, Swapped
  <1>types. Typed
    BY CustodyAssumption, Zenon DEF Typed, TypeOK
  <1>1. RemoteBacksAdmission'
    BY <1>types
       DEF Typed, Record, Entry, RemoteBacksAdmission, Admitted, SwapsSound, SwapSound,
           TombstonesFenced, Ending, LocalSound
  <1>2. SwapsSound'
    <2>1. ASSUME NEW s \in Record, SwapSound(s) PROVE SwapSound(s)'
      BY <1>types, <2>1 DEF Typed, SwapSound, Record
    <2>2. ASSUME NEW r \in Proc, Prepared(r)'
          PROVE  Prepared(r) /\ op'[r].swap = op[r].swap /\ op[r].swap \in Record
      BY <1>types, <2>2 DEF Typed, Prepared, Idle, Transition
    <2> QED
      BY <1>types, <2>1, <2>2, Zenon DEF Typed, SwapsSound
  <1>3. TombstonesFenced'
    BY <1>types DEF Typed, Record, TombstonesFenced, Ending, SwapsSound, SwapSound
  <1>4. LocalSound'
    BY Zenon DEF LocalSound
  <1>5. LockExclusive'
    BY DEF LockExclusive, Idle, Transition
  <1>6. ASSUME NEW r \in Proc PROVE TransitionSound(r)'
    BY <1>types
       DEF Typed, Record, Entry, TransitionSound, Prepared, Ending, Current, SwapsSound,
           SwapSound, TombstonesFenced, LocalSound, LockExclusive, Idle, Transition
  <1> QED
    BY <1>1, <1>2, <1>3, <1>4, <1>5, <1>6, Zenon

\* History and entry are marked together.
LEMMA RevokeSharedExecutionKeeps ==
    ASSUME CustodyInv, TypeOK', NEW i \in Instance, RevokeSharedExecution(i)
    PROVE  CustodyInv'
  <1> USE DEF CustodyInv, RevokeSharedExecution
  <1>types. Typed
    BY CustodyAssumption, Zenon DEF Typed, TypeOK
  <1>1. RemoteBacksAdmission'
    BY <1>types DEF Typed, RemoteBacksAdmission, Admitted, Entry
  <1>2. SwapsSound' /\ LockExclusive'
    BY DEF SwapsSound, SwapSound, Prepared, LockExclusive
  <1>3. TombstonesFenced'
    BY <1>types DEF Typed, TombstonesFenced, Ending, Entry, Record
  <1>4. LocalSound'
    BY <1>types DEF Typed, LocalSound, Entry
  <1>5. ASSUME NEW r \in Proc PROVE TransitionSound(r)'
    BY <1>types DEF Typed, TransitionSound, Prepared, Ending, Current, Entry
  <1> QED
    BY <1>1, <1>2, <1>3, <1>4, <1>5, Zenon

\* Leases only end as the clock runs: an admission that was sound stays so.
LEMMA TickKeeps ==
    ASSUME CustodyInv, TypeOK', Tick
    PROVE  CustodyInv'
  <1> USE DEF CustodyInv, Tick
  <1>types. Typed
    BY CustodyAssumption, Zenon DEF Typed, TypeOK
  <1>1. RemoteBacksAdmission'
    BY <1>types DEF Typed, RemoteBacksAdmission, Admitted, Entry
  <1>2. SwapsSound'
    BY <1>types DEF Typed, SwapsSound, SwapSound, Prepared, Record
  <1>3. TombstonesFenced' /\ LocalSound' /\ LockExclusive'
    BY Zenon DEF TombstonesFenced, Ending, LocalSound, LockExclusive
  <1>4. ASSUME NEW r \in Proc PROVE TransitionSound(r)'
    <2>1. /\ op'[r] = op[r] /\ local' = local /\ remote' = remote /\ requests' = requests
          /\ op[r].deadline \in Nat /\ TTL \in Nat /\ now \in Nat /\ now' = now + 1
      BY <1>types, CustodyAssumption, Zenon DEF Typed, Transition
    <2>2. /\ Current(r)' <=> Current(r)
          /\ Prepared(r)' <=> Prepared(r)
          /\ \A s : Ending(s)' <=> Ending(s)
      BY <2>1, Zenon DEF Current, Prepared, Ending
    <2>3. /\ op[r].deadline > now' => op[r].deadline > now
          /\ op[r].deadline <= now + TTL - 1 => op[r].deadline <= now' + TTL - 1
      BY <2>1
    <2> HIDE DEF CustodyInv, TypeOK, Tick
    <2>4. TransitionSound(r)
      BY Zenon DEF CustodyInv
    <2> QED
      BY <2>1, <2>2, <2>3, <2>4, Zenon DEF TransitionSound
  <1> QED
    BY <1>1, <1>2, <1>3, <1>4

-----------------------------------------------------------------------------
(* The theorems.                                                           *)

\* Every step of the specification preserves the inductive invariant.
LEMMA CustodyStep == CustodyInv /\ [Next]_vars => CustodyInv'
  <1> SUFFICES ASSUME CustodyInv, [Next]_vars PROVE CustodyInv'
    OBVIOUS
  <1> USE DEF CustodyInv
  <1>1. ASSUME NEW p \in Proc, AdmissionNext(p) PROVE CustodyInv'
    <2>1. TypeOK'
      BY <1>1, BeginsTyped, ReadsTyped, AnswersTyped, Zenon DEF AdmissionNext
    <2> QED
      BY <1>1, <2>1, BeginSharedAdmissionKeeps, AcquireReadKeeps, SendSwapKeeps,
         FinishSharedAdmissionKeeps, Zenon DEF AdmissionNext
  <1>2. ASSUME NEW p \in Proc, ReleaseNext(p) PROVE CustodyInv'
    <2>1. TypeOK'
      BY <1>2, BeginsTyped, ReadsTyped, AnswersTyped, Zenon DEF ReleaseNext
    <2> QED
      BY <1>2, <2>1, BeginSharedReleaseKeeps, ReleaseReadKeeps, ConfirmOwnerGoneKeeps,
         FinishProviderReleaseKeeps, Zenon DEF ReleaseNext
  <1>3. ASSUME NEW p \in Proc, Fail(p) PROVE CustodyInv'
    BY <1>3, AnswersTyped, FailKeeps, Zenon
  <1>4. ASSUME NEW q \in requests, DeliverSwap(q) PROVE CustodyInv'
    BY <1>4, OthersTyped, DeliverSwapKeeps, Zenon
  <1>5. ASSUME NEW i \in Instance, RevokeSharedExecution(i) PROVE CustodyInv'
    BY <1>5, OthersTyped, RevokeSharedExecutionKeeps, Zenon
  <1>6. CASE Tick
    BY <1>6, OthersTyped, TickKeeps, Zenon
  <1>7. CASE UNCHANGED vars
    <2>1. TypeOK' /\ RemoteBacksAdmission' /\ LocalSound'
      BY <1>7, Zenon DEF vars, TypeOK, RemoteBacksAdmission, Admitted, LocalSound
    <2>2. SwapsSound' /\ TombstonesFenced' /\ LockExclusive'
      BY <1>7, Zenon DEF vars, SwapsSound, SwapSound, Prepared, TombstonesFenced, Ending,
                  LockExclusive
    <2>3. ASSUME NEW r \in Proc PROVE TransitionSound(r)'
      BY <1>7, UndisturbedSound, Zenon DEF vars
    <2> QED
      BY <2>1, <2>2, <2>3, Zenon
  <1> QED
    BY <1>1, <1>2, <1>3, <1>4, <1>5, <1>6, <1>7, Zenon DEF Next

\* The inductive invariant: what every transition under way still knows.
THEOREM CustodyInvariant == Spec => []CustodyInv
  <1>1. Init => CustodyInv
    <2> SUFFICES ASSUME Init PROVE CustodyInv
      OBVIOUS
    <2>1. TypeOK
      BY CustodyAssumption, IdleTyped DEF Init, TypeOK, NoSwap
    <2> QED
      BY <2>1, Zenon DEF Init, CustodyInv, RemoteBacksAdmission, Admitted, SwapsSound, Prepared,
                  TombstonesFenced, LocalSound, LockExclusive, TransitionSound, Idle,
                  NoEntry
  <1> QED
    BY <1>1, CustodyStep, PTL DEF Spec

\* Whoever is admitted locally owns the provider's record for at least as long,
\* for any number of instances and processes and whichever client each uses.
THEOREM CustodyRemoteBacksAdmission == Spec => []RemoteBacksAdmission
  <1>1. CustodyInv => RemoteBacksAdmission
    BY Zenon DEF CustodyInv
  <1> QED
    BY <1>1, CustodyInvariant, PTL

-----------------------------------------------------------------------------
(* How an entry may move.                                                  *)

\* The entry of the instance gives no time that it did not give before.
Dwindles(i) ==
    /\ local'[i].owner = local[i].owner
    /\ local[i].releasePending => local'[i].releasePending
    /\ local[i].revoked => local'[i].revoked
    /\ local'[i].deadline <= local[i].deadline

\* An entry is reserved without time, finished, given time by an admission that
\* was not revoked, or only loses time.
Moves(i) ==
    \/ local[i].owner = NoOwner /\ local'[i].deadline <= now'
    \/ local'[i].owner = NoOwner
    \/ ~local[i].revoked /\ \E p \in Proc : FinishSharedAdmission(p)
    \/ Dwindles(i)

\* Every step moves the entries like this, and no step turns the clock back.
LEMMA EntriesMove ==
    ASSUME TypeOK, [Next]_vars
    PROVE  now' >= now /\ \A i \in Instance : Moves(i)
  <1> USE CustodyAssumption
  <1>1. /\ local \in [Instance -> Entry] /\ now \in Nat
        /\ \A i \in Instance : local[i].deadline \in Nat
    BY Zenon DEF TypeOK, Entry
  <1>2. ASSUME UNCHANGED <<now, local>>
        PROVE  now' >= now /\ \A i \in Instance : Moves(i)
    BY <1>1, <1>2 DEF Moves, Dwindles
  <1>3. ASSUME NEW p \in Proc, NEW o \in Owner, BeginSharedAdmission(p, o)
        PROVE  now' >= now /\ \A i \in Instance : Moves(i)
    <2>1. now' = now /\ \A i \in Instance \ {At[p]} : local'[i] = local[i]
      BY <1>1, <1>3, Zenon DEF BeginSharedAdmission
    <2>2. Moves(At[p])
      <3>1. CASE local[At[p]].owner = NoOwner
        <4>1. local'[At[p]].deadline = now
          BY <1>1, <1>3, <3>1, Zenon DEF BeginSharedAdmission, NoEntry
        <4> QED
          BY <1>1, <2>1, <3>1, <4>1 DEF Moves, Dwindles
      <3>2. CASE local[At[p]].owner # NoOwner
        BY <1>1, <1>3, <3>2 DEF BeginSharedAdmission, Moves, Dwindles, Entry
      <3> QED
        BY <3>1, <3>2, Zenon
    <2> QED
      BY <1>1, <2>1, <2>2 DEF Moves, Dwindles
  <1>4. ASSUME NEW p \in Proc, FinishSharedAdmission(p)
        PROVE  now' >= now /\ \A i \in Instance : Moves(i)
    <2>1. now' = now /\ \A i \in Instance : local'[i] = local[i] \/ ~local[i].revoked
      BY <1>1, <1>4, Zenon DEF FinishSharedAdmission
    <2> QED
      BY <1>1, <1>4, <2>1 DEF Moves, Dwindles
  <1>5. ASSUME NEW p \in Proc, BeginSharedRelease(p) \/ FinishProviderRelease(p)
        PROVE  now' >= now /\ \A i \in Instance : Moves(i)
    <2>1. now' = now
      BY <1>5, Zenon DEF BeginSharedRelease, FinishProviderRelease
    <2> QED
      BY <1>1, <1>5, <2>1
         DEF BeginSharedRelease, FinishProviderRelease, NoEntry, Entry, Moves, Dwindles
  <1>6. ASSUME NEW j \in Instance, RevokeSharedExecution(j)
        PROVE  now' >= now /\ \A i \in Instance : Moves(i)
    BY <1>1, <1>6 DEF RevokeSharedExecution, Entry, Moves, Dwindles
  <1>7. CASE Tick
    BY <1>1, <1>7 DEF Tick, Moves, Dwindles
  <1>8. ASSUME NEW p \in Proc,
               \/ AcquireRead(p) \/ SendSwap(p) \/ ReleaseRead(p)
               \/ ConfirmOwnerGone(p) \/ Fail(p)
        PROVE  UNCHANGED <<now, local>>
    BY <1>8, Zenon DEF AcquireRead, SendSwap, ReleaseRead, ConfirmOwnerGone, Fail
  <1>9. ASSUME UNCHANGED vars \/ \E q \in requests : DeliverSwap(q)
        PROVE  UNCHANGED <<now, local>>
    BY <1>9, Zenon DEF vars, DeliverSwap
  <1> QED
    BY <1>2, <1>3, <1>4, <1>5, <1>6, <1>7, <1>8, <1>9, Zenon DEF Next, AdmissionNext, ReleaseNext

\* A revocation is in the history and in the entry together, so an admission
\* acknowledged after it finds the entry revoked and gives no time.
THEOREM CustodyNoTimeAfterRevocation == Spec => NoTimeAfterRevocation
  <1> DEFINE Kept == \A i \in Instance :
               /\ local[i].owner # NoOwner
               /\ local[i].owner \in revoked
               /\ local'[i].owner = local[i].owner
               => local'[i].deadline <= local[i].deadline
  <1>1. CustodyInv /\ [Next]_vars => Kept
    BY EntriesMove, Zenon DEF CustodyInv, LocalSound, Moves, Dwindles
  <1> QED
    BY <1>1, CustodyInvariant, PTL DEF Spec, NoTimeAfterRevocation

-----------------------------------------------------------------------------
(* Refinement of the lease.                                                *)

\* A run whose entry only loses time is not admitted for longer.
LEMMA MovesTakeAway ==
    ASSUME TypeOK, TypeOK', now' >= now, NEW o \in Owner, Moves(Home[o]),
           ~ \E p \in Proc : FinishSharedAdmission(p)
    PROVE  AdmittedUntil(o)' <= AdmittedUntil(o)
  <1>1. /\ Home[o] \in Instance /\ now \in Nat /\ now' \in Nat
        /\ local[Home[o]].deadline \in Nat /\ local'[Home[o]].deadline \in Nat
    BY CustodyAssumption DEF TypeOK, Entry
  <1> QED
    BY <1>1, CustodyAssumption DEF Moves, Dwindles, AdmittedUntil, Admitted

\* Nor is one whose entry stays as it is.
LEMMA SameEntrySameTime ==
    ASSUME TypeOK, TypeOK', now' >= now, NEW o \in Owner, local'[Home[o]] = local[Home[o]]
    PROVE  AdmittedUntil(o)' <= AdmittedUntil(o)
  <1>1. /\ Home[o] \in Instance /\ now \in Nat /\ now' \in Nat
        /\ local[Home[o]].deadline \in Nat
    BY CustodyAssumption, Zenon DEF TypeOK, Entry
  <1> QED
    BY <1>1 DEF AdmittedUntil, Admitted

\* While an acknowledged admission is about to be recorded, nobody else is
\* admitted anywhere: the record would have to be theirs as well.
LEMMA AdmissionOfFreeItem ==
    ASSUME CustodyInv, NEW p \in Proc, FinishSharedAdmission(p)
    PROVE  \/ UNCHANGED local
           \/ /\ op[p].owner \in Owner
              /\ \A d \in Owner \ {op[p].owner} : AdmittedUntil(d) <= now
              /\ \A i \in Instance \ {Home[op[p].owner]} : local'[i] = local[i]
              /\ local'[Home[op[p].owner]].owner = op[p].owner
  <1> USE CustodyAssumption
  <1> SUFFICES ASSUME local' # local
               PROVE  /\ op[p].owner \in Owner
                      /\ \A d \in Owner \ {op[p].owner} : AdmittedUntil(d) <= now
                      /\ \A i \in Instance \ {Home[op[p].owner]} : local'[i] = local[i]
                      /\ local'[Home[op[p].owner]].owner = op[p].owner
    OBVIOUS
  <1>1. /\ op[p].step = "acked" /\ op[p].deadline > now /\ Current(p)
        /\ local[At[p]].owner = op[p].owner /\ ~local[At[p]].releasePending
        /\ local' = [local EXCEPT ![At[p]].admissionPending = FALSE,
                                  ![At[p]].deadline = op[p].deadline]
    BY Zenon DEF FinishSharedAdmission
  <1>2. /\ op[p].owner \in Owner /\ Home[op[p].owner] = At[p]
        /\ remote.owner = op[p].owner
    BY <1>1, Zenon DEF CustodyInv, TransitionSound
  <1>3. ASSUME NEW d \in Owner \ {op[p].owner} PROVE AdmittedUntil(d) <= now
    <2>1. now \in Nat /\ Home[d] \in Instance
      BY Zenon DEF CustodyInv, TypeOK
    <2> QED
      BY <1>2, <2>1 DEF CustodyInv, RemoteBacksAdmission, AdmittedUntil
  <1>4. local \in [Instance -> Entry]
    BY Zenon DEF CustodyInv, TypeOK
  <1> QED
    BY <1>1, <1>2, <1>3, <1>4 DEF Entry

\* Every step of the instances is a step of the lease.
LEMMA CustodyMapsToLease ==
    ASSUME CustodyInv, CustodyInv', [Next]_vars
    PROVE  Claims!Next
  <1> USE CustodyAssumption
  <1>1. /\ TypeOK /\ TypeOK' /\ now' >= now /\ now \in Nat /\ now' \in Nat
    BY EntriesMove, Zenon DEF CustodyInv, TypeOK
  <1>2. \A o \in Owner : AdmittedUntil(o)' \in Nat
    BY <1>1, Zenon DEF AdmittedUntil, TypeOK, Entry
  <1>3. \/ \A o \in Owner : AdmittedUntil(o)' <= AdmittedUntil(o)
        \/ \E c \in Owner : \A d \in Owner \ {c} :
              AdmittedUntil(d) <= now /\ AdmittedUntil(d)' <= AdmittedUntil(d)
    <2>1. CASE ~ \E p \in Proc : FinishSharedAdmission(p)
      <3>1. \A o \in Owner : Moves(Home[o])
        BY <1>1, EntriesMove, Zenon
      <3> QED
        BY <1>1, <2>1, <3>1, MovesTakeAway, Zenon
    <2>2. ASSUME NEW p \in Proc, FinishSharedAdmission(p) PROVE <1>3
      <3>1. CASE UNCHANGED local
        BY <1>1, <1>2, <3>1, SameEntrySameTime, Zenon
      <3>2. CASE local' # local
        <4>1. /\ op[p].owner \in Owner
              /\ \A d \in Owner \ {op[p].owner} : AdmittedUntil(d) <= now
              /\ \A i \in Instance \ {Home[op[p].owner]} : local'[i] = local[i]
              /\ local'[Home[op[p].owner]].owner = op[p].owner
          BY <2>2, <3>2, AdmissionOfFreeItem, Zenon
        <4>2. ASSUME NEW d \in Owner \ {op[p].owner}
              PROVE  AdmittedUntil(d)' <= AdmittedUntil(d)
          <5>1. CASE Home[d] = Home[op[p].owner]
            <6>1. AdmittedUntil(d)' = 0 /\ AdmittedUntil(d) \in Nat
              BY <1>1, <4>1, <5>1 DEF AdmittedUntil, TypeOK, Entry
            <6> QED
              BY <6>1
          <5>2. CASE Home[d] # Home[op[p].owner]
            BY <1>1, <4>1, <5>2, SameEntrySameTime, Zenon
          <5> QED
            BY <5>1, <5>2, Zenon
        <4> QED
          BY <4>1, <4>2, Zenon
      <3> QED
        BY <3>1, <3>2, Zenon
    <2> QED
      BY <2>1, <2>2, Zenon
  <1>4. Claims!TakenAway("item") \/ Claims!Granted("item")
    BY <1>3, Zenon DEF Claims!TakenAway, Claims!Granted, Claims!FreeFor
  <1> QED
    BY <1>1, <1>2, <1>4, Zenon DEF Claims!Next

\* The instances together implement the lease: no run is admitted while a run
\* of another instance is, whatever is delayed, lost, retried or crashes.
THEOREM CustodyImplementsClaimLease == Spec => ImplementsClaimLease
  <1>1. Init => Claims!Init
    <2> SUFFICES ASSUME Init PROVE Claims!Init
      OBVIOUS
    <2>1. \A o \in Owner : AdmittedUntil(o) = 0
      BY CustodyAssumption, Zenon DEF Init, AdmittedUntil, Admitted, NoEntry
    <2> QED
      BY <2>1 DEF Init, Claims!Init, Claims!TypeOK
  <1>2. CustodyInv /\ CustodyInv' /\ [Next]_vars => [Claims!Next]_Claims!vars
    BY CustodyMapsToLease, Zenon
  <1> QED
    BY <1>1, <1>2, CustodyInvariant, PTL DEF Spec, Claims!Spec, ImplementsClaimLease

-----------------------------------------------------------------------------
(* The renewal and recovery of claims: ClaimLifecycle with its own state,  *)
(* the clock and the bounds named as above.                                *)
CONSTANTS Item, Run, NoRun, Sweeper, Loop, Lease, Budget
VARIABLES entries, phase, owner, daemon, gate, renewal, lastPass, sweep, evidence

L == INSTANCE ClaimLifecycle

-----------------------------------------------------------------------------
(* Types and operators.                                                    *)

\* The values at rest have their types.
LEMMA Idles ==
    ASSUME L!Bounds
    PROVE  /\ L!NoPass \in [on : BOOLEAN, began : 0 .. MaxTime,
                           left : SUBSET (Item \X Run \X (0 .. MaxTime))]
           /\ L!NoPass.on = FALSE /\ L!NoPass.left = {}
           /\ L!NoSweep \in [step : {"idle", "due", "ready"}, at : 0 .. MaxTime,
                            terminal : SUBSET (Item \X Run)]
           /\ L!NoSweep.at = 0 /\ L!NoSweep.step = "idle"
           /\ L!Free \in L!Entry /\ L!Free.run = NoRun /\ L!Free.at = 0 /\ L!Free.until = 0
  BY DEF L!Bounds, L!NoPass, L!NoSweep, L!Free, L!Entry

\* The times and names that the invariant types.
LEMMA Times ==
    ASSUME L!Bounds, L!LifecycleInv
    PROVE  /\ now \in Nat /\ lastPass \in Nat /\ renewal.began \in Nat
           /\ Lease \in Nat /\ Budget \in Nat /\ Budget < Lease
           /\ \A k \in Item : /\ entries[k].run \in Run \cup {NoRun}
                              /\ entries[k].at \in Nat /\ entries[k].until \in Nat
           /\ \A r \in Run : evidence[r] \in Nat
           /\ \A s \in Sweeper : sweep[s].at \in Nat
           /\ NoRun \notin Run
  <1>1. now \in Nat /\ lastPass \in Nat /\ renewal.began \in Nat
    BY DEF L!Bounds, L!LifecycleInv, L!TypeOK
  <1>2. \A k \in Item : /\ entries[k].run \in Run \cup {NoRun}
                        /\ entries[k].at \in Nat /\ entries[k].until \in Nat
    BY Zenon DEF L!LifecycleInv, L!TypeOK, L!Entry
  <1>3. \A r \in Run : evidence[r] \in Nat
    BY DEF L!Bounds, L!LifecycleInv, L!TypeOK
  <1>4. \A s \in Sweeper : sweep[s].at \in Nat
    BY DEF L!Bounds, L!LifecycleInv, L!TypeOK
  <1> QED
    BY <1>1, <1>2, <1>3, <1>4, Zenon DEF L!Bounds

\* The passes keep to their budget and nothing is ahead of the clock.
LEMMA PassTimes ==
    ASSUME L!LifecycleInv
    PROVE  /\ lastPass <= now /\ (gate => now <= lastPass + Budget)
           /\ renewal.on => renewal.began <= now /\ now <= renewal.began + Budget
           /\ \A s \in Sweeper : sweep[s].at <= now /\ (sweep[s].step = "ready" => gate)
  BY Zenon DEF L!LifecycleInv, L!PassSound

\* No evidence is ahead of the clock, and new evidence is no older.
LEMMA EvidenceTimes ==
    ASSUME L!Bounds, L!LifecycleInv
    PROVE  /\ now <= now
           /\ \A r \in Run : /\ evidence[r] \in Nat /\ evidence[r] <= now
                            /\ evidence[r] >= evidence[r] /\ now >= evidence[r]
  <1>1. \A r \in Run : evidence[r] <= now
    BY Zenon DEF L!LifecycleInv, L!RunSound
  <1> QED
    BY <1>1, Times

\* Moving the clock by one keeps what was not ahead of it.
LEMMA LaterStill ==
    ASSUME NEW t \in Nat, NEW u \in Nat, t <= u
    PROVE  t <= u + 1
  OBVIOUS

\* The runs at work and those tracked depend on the process and the journals alone.
LEMMA SameRuns ==
    ASSUME UNCHANGED <<owner, phase, daemon>>
    PROVE  L!Working' = L!Working /\ L!Tracked' = L!Tracked
  BY Zenon DEF L!Working, L!Tracked

\* A run that is driven is at work and tracked.
LEMMA DrivenRuns ==
    ASSUME NEW r \in Run, owner[r] = "driving"
    PROVE  r \in L!Working /\ r \in L!Tracked
  BY Zenon DEF L!Working, L!Tracked

\* A granted lease is an entry of the run that ends one lease from now.
LEMMA GrantedLease ==
    ASSUME L!Bounds, L!LifecycleInv, NEW k \in Item, NEW r \in Run
    PROVE  /\ L!Granted(k, r) \in L!Entry /\ L!Granted(k, r).run = r
           /\ L!Granted(k, r).until = now + Lease
           /\ L!Granted(k, r).at <= now
  <1>1. entries[k].at <= now /\ entries[k].at \in Nat /\ now \in Nat /\ Lease \in Nat
    BY Times, Zenon DEF L!LifecycleInv, L!EntrySound
  <1> QED
    BY <1>1 DEF L!Granted, L!Entry

\* A working run's claim has not expired once the gate is open.
LEMMA WorkingUnexpired ==
    ASSUME L!Bounds,
           L!LifecycleInv, gate, NEW k \in Item, entries[k].run \in L!Working
    PROVE  entries[k].until > now
  <1>1. entries[k].until >= lastPass + Lease /\ now <= lastPass + Budget
    BY Zenon DEF L!LifecycleInv, L!EntrySound, L!PassSound
  <1> QED
    BY <1>1, Times

-----------------------------------------------------------------------------
(* What keeps its conjunct.                                                *)

\* The passes are sound of the clock, the gate, the passes and the sweeps, as long
\* as a run that is no longer tracked leaves evidence.
LEMMA PassKept ==
    ASSUME L!Bounds,
           L!LifecycleInv, UNCHANGED <<now, gate, daemon, renewal, lastPass, sweep>>,
           \A r \in Run : \/ r \in L!Tracked => r \in L!Tracked'
                          \/ evidence'[r] = now,
           \A r \in Run : evidence'[r] \in {evidence[r], now}
    PROVE  L!PassSound'
  <1>1. ASSUME NEW c \in renewal.left
        PROVE  c[2] \in L!Tracked' \/ evidence'[c[2]] >= renewal.began
    <2>1. c[2] \in Run
      BY Zenon DEF L!LifecycleInv, L!TypeOK
    <2>2. renewal.began <= now
      BY Zenon DEF L!LifecycleInv, L!PassSound
    <2>3. c[2] \in L!Tracked \/ evidence[c[2]] >= renewal.began
      BY Zenon DEF L!LifecycleInv, L!PassSound
    <2> QED
      BY <2>1, <2>2, <2>3, Times, Zenon
  <1> QED
    BY <1>1, Zenon DEF L!LifecycleInv, L!PassSound

\* An entry stays sound beside a step that leaves it, the clock and the passes
\* alone, and gives no run work whose claims it did not count before.
LEMMA EntryKept ==
    ASSUME L!Bounds, L!LifecycleInv, NEW k \in Item, entries'[k] = entries[k],
           UNCHANGED <<now, gate, renewal, lastPass>>,
           entries[k].run # NoRun => phase'[entries[k].run] # "none",
           entries[k].run \in L!Working' => entries[k].run \in L!Working
    PROVE  L!EntrySound(k)'
  BY Zenon DEF L!LifecycleInv, L!EntrySound

\* A free entry is sound.
LEMMA FreeSound ==
    ASSUME L!Bounds,
           L!LifecycleInv, now' \in Nat, NEW k \in Item, entries'[k] = L!Free
    PROVE  L!EntrySound(k)'
  <1>1. NoRun \notin L!Working'
    BY Zenon DEF L!Bounds, L!Working
  <1>2. entries'[k].run = NoRun /\ entries'[k].at = 0 /\ entries'[k].until = 0
    BY DEF L!Free
  <1>3. \A t \in Nat : 0 <= t /\ 0 <= t + Lease
    BY DEF L!Bounds
  <1> QED
    BY <1>1, <1>2, <1>3, Zenon DEF L!EntrySound

\* An entry that was just granted is sound.
LEMMA GrantedSound ==
    ASSUME L!Bounds,
           L!LifecycleInv, NEW k \in Item, NEW r \in Run, entries'[k] = L!Granted(k, r),
           phase'[r] # "none", UNCHANGED <<now, gate, lastPass>>,
           renewal'.began = renewal.began, renewal'.on = renewal.on
    PROVE  L!EntrySound(k)'
  <1>1. /\ now + Lease >= lastPass + Lease
        /\ renewal.on => now + Lease >= renewal.began + Lease
    <2>1. \A a, b, c \in Nat : a <= b => b + c >= a + c
      OBVIOUS
    <2> QED
      BY <2>1, Times, PassTimes, Zenon
  <1> QED
    BY <1>1, GrantedLease, Times DEF L!EntrySound

-----------------------------------------------------------------------------
(* A run in this process.                                                  *)

\* A run that starts holds no claim yet.
LEMMA StartRunKeeps ==
    ASSUME L!Bounds, L!LifecycleInv, NEW r \in Run, L!StartRun(r)
    PROVE  L!LifecycleInv'
  <1>1. /\ daemon = "steady" /\ phase[r] = "none"
        /\ phase' = [phase EXCEPT ![r] = "running"]
        /\ owner' = [owner EXCEPT ![r] = "driving"]
        /\ UNCHANGED <<now, entries, daemon, gate, renewal, lastPass, sweep, evidence, faults>>
    BY Zenon DEF L!StartRun
  <1>2. /\ phase \in [Run -> {"none", "running", "ended"}]
        /\ owner \in [Run -> {"none", "driving", "finishing"}]
    BY Zenon DEF L!LifecycleInv, L!TypeOK
  <1>3. L!TypeOK'
    BY <1>1, <1>2, Zenon DEF L!LifecycleInv, L!TypeOK
  <1>4. \A x \in Run : L!RunSound(x)'
    BY <1>1, <1>2, Zenon DEF L!LifecycleInv, L!RunSound
  <1>5. \A x \in Run : x # r => /\ x \in L!Working' <=> x \in L!Working
                                /\ x \in L!Tracked' <=> x \in L!Tracked
    BY <1>1, <1>2, Zenon DEF L!Working, L!Tracked
  <1>6. L!PassSound'
    <2>1. r \in L!Tracked'
      BY <1>1, <1>2, Zenon DEF L!Tracked
    <2> QED
      BY <1>1, <1>5, <2>1, PassKept, Zenon
  <1>7. \A k \in Item : entries[k].run # r
    BY <1>1, Zenon DEF L!Bounds, L!LifecycleInv, L!EntrySound
  <1>8. ASSUME NEW k \in Item PROVE L!EntrySound(k)'
    <2>1. entries[k].run # NoRun => phase'[entries[k].run] # "none"
      BY <1>1, <1>2, <1>7, Times, Zenon DEF L!LifecycleInv, L!EntrySound
    <2>2. entries[k].run \in L!Working' => entries[k].run \in L!Working
      BY <1>5, <1>7, Zenon DEF L!Working
    <2> QED
      BY <1>1, <2>1, <2>2, EntryKept, Zenon
  <1>9. L!AbandonedLeaseBounded'
    BY <1>1, <1>5, <1>7, Zenon DEF L!LifecycleInv, L!AbandonedLeaseBounded
  <1> QED
    BY <1>3, <1>4, <1>6, <1>8, <1>9, Zenon DEF L!LifecycleInv

\* A claim is granted to a run that is driven.
LEMMA ClaimKeeps ==
    ASSUME L!Bounds, L!LifecycleInv, NEW r \in Run, NEW k \in Item, L!Claim(r, k)
    PROVE  L!LifecycleInv'
  <1>1. /\ owner[r] = "driving" /\ entries' = [entries EXCEPT ![k] = L!Granted(k, r)]
        /\ UNCHANGED <<now, phase, owner, daemon, gate, renewal, lastPass, sweep, evidence,
                       faults>>
    BY Zenon DEF L!Claim
  <1>2. entries \in [Item -> L!Entry] /\ L!Granted(k, r) \in L!Entry
    BY GrantedLease, Zenon DEF L!LifecycleInv, L!TypeOK
  <1>3. L!TypeOK'
    BY <1>1, <1>2, Zenon DEF L!LifecycleInv, L!TypeOK
  <1>4. \A x \in Run : L!RunSound(x)'
    BY <1>1, Zenon DEF L!LifecycleInv, L!RunSound
  <1>5. L!Working' = L!Working /\ L!Tracked' = L!Tracked /\ r \in L!Working
    BY <1>1, SameRuns, DrivenRuns, Zenon
  <1>6. L!PassSound'
    BY <1>1, <1>5, PassKept, Zenon
  <1>7. ASSUME NEW i \in Item PROVE L!EntrySound(i)'
    <2>1. CASE i = k
      <3>1. entries'[k] = L!Granted(k, r) /\ phase'[r] # "none"
        BY <1>1, <1>2, Zenon DEF L!LifecycleInv, L!RunSound
      <3> QED
        BY <1>1, <2>1, <3>1, GrantedSound, Zenon
    <2>2. CASE i # k
      <3>1. entries'[i] = entries[i]
        BY <1>1, <1>2, <2>2, Zenon
      <3>2. entries[i].run # NoRun => phase'[entries[i].run] # "none"
        BY <1>1, Zenon DEF L!LifecycleInv, L!EntrySound
      <3> QED
        BY <1>1, <1>5, <3>1, <3>2, EntryKept, Zenon
    <2> QED
      BY <2>1, <2>2, Zenon
  <1>8. L!AbandonedLeaseBounded'
    <2>1. entries'[k].run = r
      BY <1>1, <1>2, GrantedLease, Zenon
    <2>2. \A i \in Item : i # k => entries'[i] = entries[i]
      BY <1>1, <1>2, Zenon
    <2>3. ASSUME NEW i \in Item, entries'[i].run \in Run \ (L!Working' \cup L!Tracked')
          PROVE  entries'[i].until <= evidence'[entries'[i].run] + Budget + Lease
      <3>1. i # k /\ entries'[i] = entries[i]
        BY <1>5, <2>1, <2>2, <2>3, Zenon
      <3>2. entries[i].run \in Run \ (L!Working \cup L!Tracked)
        BY <1>5, <2>3, <3>1, Zenon
      <3> QED
        BY <1>1, <3>1, <3>2, Zenon DEF L!LifecycleInv, L!AbandonedLeaseBounded
    <2> QED
      BY <2>3, Zenon DEF L!AbandonedLeaseBounded
  <1> QED
    BY <1>3, <1>4, <1>6, <1>7, <1>8, Zenon DEF L!LifecycleInv

\* Entries may be freed at any time, as far as this invariant goes.
LEMMA FreeingKeeps ==
    ASSUME L!Bounds,
           L!LifecycleInv, \A i \in Item : entries'[i] \in {entries[i], L!Free},
           UNCHANGED <<now, phase, gate, renewal, lastPass, evidence>>,
           L!Working' = L!Working, L!Tracked' = L!Tracked
    PROVE  (\A i \in Item : L!EntrySound(i)') /\ L!AbandonedLeaseBounded'
  <1>1. ASSUME NEW i \in Item PROVE L!EntrySound(i)'
    <2>1. CASE entries'[i] = L!Free
      BY <2>1, FreeSound, Times, Zenon
    <2>2. CASE entries'[i] = entries[i]
      <3>1. entries[i].run # NoRun => phase'[entries[i].run] # "none"
        BY Zenon DEF L!LifecycleInv, L!EntrySound
      <3> QED
        BY <2>2, <3>1, EntryKept, Zenon
    <2> QED
      BY <2>1, <2>2, Zenon
  <1>2. L!AbandonedLeaseBounded'
    <2>1. \A i \in Item : entries'[i] = L!Free => entries'[i].run \notin Run
      BY DEF L!Bounds, L!Free
    <2> QED
      BY <2>1, Zenon DEF L!LifecycleInv, L!AbandonedLeaseBounded
  <1> QED
    BY <1>1, <1>2, Zenon

\* A release frees the entry.
LEMMA ReleaseKeeps ==
    ASSUME L!Bounds, L!LifecycleInv, NEW r \in Run, NEW k \in Item, L!Release(r, k)
    PROVE  L!LifecycleInv'
  <1>1. /\ entries' = [entries EXCEPT ![k] = L!Free]
        /\ UNCHANGED <<now, phase, owner, daemon, gate, renewal, lastPass, sweep, evidence,
                       faults>>
    BY Zenon DEF L!Release
  <1>2. entries \in [Item -> L!Entry] /\ L!Free \in L!Entry
    BY Zenon DEF L!LifecycleInv, L!TypeOK, L!Free, L!Entry
  <1>3. L!TypeOK'
    BY <1>1, <1>2, Zenon DEF L!LifecycleInv, L!TypeOK
  <1>4. \A x \in Run : L!RunSound(x)'
    BY <1>1, Zenon DEF L!LifecycleInv, L!RunSound
  <1>5. L!Working' = L!Working /\ L!Tracked' = L!Tracked
    BY <1>1, SameRuns, Zenon
  <1>6. L!PassSound'
    BY <1>1, <1>5, PassKept, Zenon
  <1>7. (\A i \in Item : L!EntrySound(i)') /\ L!AbandonedLeaseBounded'
    BY <1>1, <1>2, <1>5, FreeingKeeps, Zenon
  <1> QED
    BY <1>3, <1>4, <1>6, <1>7, Zenon DEF L!LifecycleInv

\* A run that pauses leaves its evidence.
LEMMA PauseKeeps ==
    ASSUME L!Bounds, L!LifecycleInv, NEW r \in Run, L!Pause(r)
    PROVE  L!LifecycleInv'
  <1>1. /\ owner[r] = "driving" /\ owner' = [owner EXCEPT ![r] = "none"]
        /\ evidence' = [evidence EXCEPT ![r] = now]
        /\ UNCHANGED <<now, entries, phase, daemon, gate, renewal, lastPass, sweep, faults>>
    BY Zenon DEF L!Pause
  <1>2. /\ owner \in [Run -> {"none", "driving", "finishing"}]
        /\ evidence \in [Run -> 0 .. MaxTime] /\ now \in 0 .. MaxTime
    BY Zenon DEF L!LifecycleInv, L!TypeOK
  <1>3. L!TypeOK'
    BY <1>1, <1>2, Zenon DEF L!LifecycleInv, L!TypeOK
  <1>4. \A x \in Run : L!RunSound(x)'
    BY <1>1, <1>2, EvidenceTimes, Zenon DEF L!LifecycleInv, L!RunSound
  <1>5. \A x \in Run : /\ x \in L!Working' => x \in L!Working
                       /\ x # r => (x \in L!Working' <=> x \in L!Working)
                                   /\ (x \in L!Tracked' <=> x \in L!Tracked)
    BY <1>1, <1>2, Zenon DEF L!Working, L!Tracked
  <1>6. L!PassSound'
    BY <1>1, <1>2, <1>5, PassKept, Zenon
  <1>7. ASSUME NEW k \in Item PROVE L!EntrySound(k)'
    <2>1. entries[k].run # NoRun => phase'[entries[k].run] # "none"
      BY <1>1, Zenon DEF L!LifecycleInv, L!EntrySound
    <2>2. entries[k].run \in L!Working' => entries[k].run \in L!Working
      BY <1>5, Zenon DEF L!Working
    <2> QED
      BY <1>1, <2>1, <2>2, EntryKept, Zenon
  <1>8. L!AbandonedLeaseBounded'
    <2> SUFFICES ASSUME NEW k \in Item, entries[k].run \in Run \ (L!Working' \cup L!Tracked')
                 PROVE  entries[k].until <= evidence'[entries[k].run] + Budget + Lease
      BY <1>1, Zenon DEF L!AbandonedLeaseBounded
    <2>1. CASE entries[k].run = r
      <3>1. entries[k].until <= now + Lease /\ evidence'[r] = now
        BY <1>1, <1>2, Zenon DEF L!LifecycleInv, L!EntrySound
      <3> QED
        BY <2>1, <3>1, Times
    <2>2. CASE entries[k].run # r
      BY <1>1, <1>2, <1>5, <2>2, Zenon DEF L!LifecycleInv, L!AbandonedLeaseBounded
    <2> QED
      BY <2>1, <2>2, Zenon
  <1> QED
    BY <1>3, <1>4, <1>6, <1>7, <1>8, Zenon DEF L!LifecycleInv

\* A run that ends is tracked until its cleanup is done.
LEMMA FinishKeeps ==
    ASSUME L!Bounds, L!LifecycleInv, NEW r \in Run, L!Finish(r)
    PROVE  L!LifecycleInv'
  <1>1. /\ owner[r] = "driving" /\ owner' = [owner EXCEPT ![r] = "finishing"]
        /\ phase' = [phase EXCEPT ![r] = "ended"]
        /\ UNCHANGED <<now, entries, daemon, gate, renewal, lastPass, sweep, evidence, faults>>
    BY Zenon DEF L!Finish
  <1>2. /\ owner \in [Run -> {"none", "driving", "finishing"}]
        /\ phase \in [Run -> {"none", "running", "ended"}]
    BY Zenon DEF L!LifecycleInv, L!TypeOK
  <1>3. L!TypeOK'
    BY <1>1, <1>2, Zenon DEF L!LifecycleInv, L!TypeOK
  <1>4. \A x \in Run : L!RunSound(x)'
    BY <1>1, <1>2, Zenon DEF L!LifecycleInv, L!RunSound
  <1>5. \A x \in Run : /\ x \in L!Working' => x \in L!Working
                       /\ x # r => (x \in L!Working' <=> x \in L!Working)
                       /\ x \in L!Tracked' <=> x \in L!Tracked
    BY <1>1, <1>2, Zenon DEF L!Working, L!Tracked
  <1>6. L!PassSound'
    BY <1>1, <1>5, PassKept, Zenon
  <1>7. ASSUME NEW k \in Item PROVE L!EntrySound(k)'
    <2>1. entries[k].run # NoRun => phase'[entries[k].run] # "none"
      BY <1>1, <1>2, Times, Zenon DEF L!LifecycleInv, L!EntrySound
    <2>2. entries[k].run \in L!Working' => entries[k].run \in L!Working
      BY <1>5, Zenon DEF L!Working
    <2> QED
      BY <1>1, <2>1, <2>2, EntryKept, Zenon
  <1>8. L!AbandonedLeaseBounded'
    <2>1. r \in L!Tracked
      BY <1>1, DrivenRuns, Zenon
    <2> QED
      BY <1>1, <1>5, <2>1, Zenon DEF L!LifecycleInv, L!AbandonedLeaseBounded
  <1> QED
    BY <1>3, <1>4, <1>6, <1>7, <1>8, Zenon DEF L!LifecycleInv

\* The cleanup of a run that ended frees its claims or leaves them to the sweep.
LEMMA FinalizeTerminalKeeps ==
    ASSUME L!Bounds, L!LifecycleInv, NEW r \in Run, L!FinalizeTerminal(r)
    PROVE  L!LifecycleInv'
  <1>1. /\ owner[r] = "finishing" /\ owner' = [owner EXCEPT ![r] = "none"]
        /\ evidence' = [evidence EXCEPT ![r] = now]
        /\ entries' = L!ReleaseForRun(r) \/ entries' = entries
        /\ faults' = faults \/ (faults < MaxFaults /\ faults' = faults + 1)
        /\ UNCHANGED <<now, phase, daemon, gate, renewal, lastPass, sweep>>
    BY Zenon DEF L!FinalizeTerminal, L!Faulty
  <1>2. /\ owner \in [Run -> {"none", "driving", "finishing"}]
        /\ evidence \in [Run -> 0 .. MaxTime] /\ now \in 0 .. MaxTime
        /\ entries \in [Item -> L!Entry] /\ L!Free \in L!Entry
    BY Zenon DEF L!LifecycleInv, L!TypeOK, L!Free, L!Entry
  <1>3. \A k \in Item : entries'[k] \in {entries[k], L!Free}
    BY <1>1, Zenon DEF L!ReleaseForRun
  <1>4. L!TypeOK'
    <2>1. entries' \in [Item -> L!Entry]
      BY <1>1, <1>2, Zenon DEF L!ReleaseForRun
    <2>2. faults' \in 0 .. MaxFaults
      BY <1>1 DEF L!Bounds, L!LifecycleInv, L!TypeOK
    <2> QED
      BY <1>1, <1>2, <2>1, <2>2, Zenon DEF L!LifecycleInv, L!TypeOK
  <1>5. \A x \in Run : L!RunSound(x)'
    BY <1>1, <1>2, EvidenceTimes, Zenon DEF L!LifecycleInv, L!RunSound
  <1>6. /\ L!Working' = L!Working
        /\ \A x \in Run : x # r => (x \in L!Tracked' <=> x \in L!Tracked)
    BY <1>1, <1>2, Zenon DEF L!Working, L!Tracked
  <1>7. L!PassSound'
    BY <1>1, <1>2, <1>6, PassKept, Zenon
  <1>8. ASSUME NEW k \in Item PROVE L!EntrySound(k)'
    <2>1. CASE entries'[k] = L!Free
      BY <1>1, <2>1, FreeSound, Times, Zenon
    <2>2. CASE entries'[k] = entries[k]
      <3>1. entries[k].run # NoRun => phase'[entries[k].run] # "none"
        BY <1>1, Zenon DEF L!LifecycleInv, L!EntrySound
      <3> QED
        BY <1>1, <1>6, <2>2, <3>1, EntryKept, Zenon
    <2> QED
      BY <1>3, <2>1, <2>2, Zenon
  <1>9. L!AbandonedLeaseBounded'
    <2> SUFFICES ASSUME NEW k \in Item, entries'[k].run \in Run \ (L!Working' \cup L!Tracked')
                 PROVE  entries'[k].until <= evidence'[entries'[k].run] + Budget + Lease
      BY Zenon DEF L!AbandonedLeaseBounded
    <2>1. entries'[k] = entries[k]
      BY <1>3 DEF L!Bounds, L!Free
    <2>2. CASE entries[k].run = r
      <3>1. entries[k].until <= now + Lease /\ evidence'[r] = now
        BY <1>1, <1>2, Zenon DEF L!LifecycleInv, L!EntrySound
      <3> QED
        BY <2>1, <2>2, <3>1, Times
    <2>3. CASE entries[k].run # r
      BY <1>1, <1>2, <1>6, <2>1, <2>3, Zenon DEF L!LifecycleInv, L!AbandonedLeaseBounded
    <2> QED
      BY <2>2, <2>3, Zenon
  <1> QED
    BY <1>4, <1>5, <1>7, <1>8, <1>9, Zenon DEF L!LifecycleInv

-----------------------------------------------------------------------------
(* The renewal pass.                                                       *)

\* The snapshot takes the claims of every working run.
LEMMA BeginRenewalKeeps ==
    ASSUME L!Bounds,
           L!LifecycleInv, NEW unknown \in SUBSET Run, L!BeginRenewal(unknown)
    PROVE  L!LifecycleInv'
  <1> DEFINE live == L!LiveHolders(unknown)
             left == {<<k, entries[k].run, entries[k].at>> :
                         k \in {i \in Item : entries[i].run \in live}}
  <1>1. /\ daemon \in {"starting", "resumed", "steady"}
        /\ renewal' = [on |-> TRUE, began |-> now, left |-> left]
        /\ evidence' = IF daemon = "starting"
                       THEN [r \in Run |-> IF r \in live THEN now ELSE evidence[r]]
                       ELSE evidence
        /\ UNCHANGED <<now, entries, phase, owner, daemon, gate, lastPass, sweep, faults>>
    BY Zenon DEF L!BeginRenewal
  <1>2. L!Working' = L!Working /\ L!Tracked' = L!Tracked
    BY <1>1, SameRuns, Zenon
  <1>3. /\ live \subseteq Run
        /\ daemon # "starting" => live \subseteq L!Tracked
        /\ \A k \in Item : entries[k].run \in L!Working => entries[k].run \in live
    <2>1. live \subseteq Run
      BY Times, Zenon DEF L!LiveHolders, L!Holders
    <2>2. daemon # "starting" => live \subseteq L!Tracked
      BY Zenon DEF L!LiveHolders
    <2>3. ASSUME NEW k \in Item, entries[k].run \in L!Working PROVE entries[k].run \in live
      <3>1. entries[k].run \in Run /\ entries[k].run \in L!Holders
        BY <2>3, Zenon DEF L!Bounds, L!Working, L!Holders
      <3>2. entries[k].run \in L!Tracked \/ (daemon = "starting" /\ phase[entries[k].run] = "running")
        BY <1>1, <2>3, <3>1, Zenon DEF L!Working, L!Tracked, L!Startup
      <3> QED
        BY <3>1, <3>2, Zenon DEF L!LiveHolders
    <2> QED
      BY <2>1, <2>2, <2>3, Zenon
  <1> HIDE DEF live
  <1>4. \A c \in left : /\ c \in Item \X Run \X (0 .. MaxTime)
                        /\ c[2] \in live
    <2> SUFFICES ASSUME NEW k \in Item, entries[k].run \in live
                 PROVE  entries[k].at \in 0 .. MaxTime
      BY <1>3
    <2>1. entries[k].at <= now /\ entries[k].at \in Nat
      BY Times, Zenon DEF L!LifecycleInv, L!EntrySound
    <2>2. now \in 0 .. MaxTime
      BY Zenon DEF L!LifecycleInv, L!TypeOK
    <2> QED
      BY <2>1, <2>2 DEF L!Bounds
  <1>5. \A k \in Item : entries[k].run \in L!Working =>
                         <<k, entries[k].run, entries[k].at>> \in left
    BY <1>3, Zenon
  <1> HIDE DEF left
  <1>6. evidence' \in [Run -> 0 .. MaxTime] /\ \A r \in Run : evidence'[r] \in {evidence[r], now}
    BY <1>1, Zenon DEF L!LifecycleInv, L!TypeOK
  <1>7. L!TypeOK'
    <2>1. renewal' \in [on : BOOLEAN, began : 0 .. MaxTime,
                        left : SUBSET (Item \X Run \X (0 .. MaxTime))]
      BY <1>1, <1>4, Zenon DEF L!LifecycleInv, L!TypeOK
    <2> QED
      BY <1>1, <1>6, <2>1, Zenon DEF L!LifecycleInv, L!TypeOK
  <1>8. \A r \in Run : L!RunSound(r)'
    BY <1>1, <1>6, EvidenceTimes, Zenon DEF L!LifecycleInv, L!RunSound
  <1>9. L!PassSound'
    <2>1. renewal'.on /\ renewal'.began = now /\ renewal'.left = left
      BY <1>1, Zenon
    <2>2. now <= now /\ now <= now + Budget
      BY Times
    <2>3. ASSUME NEW c \in left PROVE c[2] \in L!Tracked \/ evidence'[c[2]] >= now
      <3>1. c[2] \in live /\ c[2] \in Run
        BY <1>3, <1>4, Zenon
      <3>2. CASE daemon = "starting"
        BY <1>1, <3>1, <3>2, Times
      <3>3. CASE daemon # "starting"
        BY <1>3, <3>1, <3>3, Zenon
      <3> QED
        BY <3>2, <3>3, Zenon
    <2> QED
      BY <1>1, <1>2, <2>1, <2>2, <2>3, Zenon DEF L!LifecycleInv, L!PassSound
  <1>10. ASSUME NEW k \in Item PROVE L!EntrySound(k)'
    <2>1. renewal'.on /\ renewal'.left = left
      BY <1>1, Zenon
    <2> QED
      BY <1>1, <1>2, <1>5, <2>1, Zenon DEF L!LifecycleInv, L!EntrySound
  <1>11. L!AbandonedLeaseBounded'
    <2> SUFFICES ASSUME NEW k \in Item, entries[k].run \in Run \ (L!Working \cup L!Tracked)
                 PROVE  entries[k].until <= evidence'[entries[k].run] + Budget + Lease
      BY <1>1, <1>2, Zenon DEF L!AbandonedLeaseBounded
    <2>1. entries[k].until <= evidence[entries[k].run] + Budget + Lease
      BY Zenon DEF L!LifecycleInv, L!AbandonedLeaseBounded
    <2>2. evidence'[entries[k].run] >= evidence[entries[k].run] /\ evidence'[entries[k].run] \in Nat
      BY <1>6, Times, EvidenceTimes, Zenon
    <2> QED
      BY <2>1, <2>2, Times
  <1> QED
    BY <1>7, <1>8, <1>9, <1>10, <1>11, Zenon DEF L!LifecycleInv

\* One entry of the snapshot is renewed if it is still the same, and the run at work
\* or its evidence not older than the pass.
LEMMA RenewExpectedKeeps ==
    ASSUME L!Bounds,
           L!LifecycleInv, NEW c \in renewal.left, L!RenewExpected(c[1], c[2], c[3])
    PROVE  L!LifecycleInv'
  <1> DEFINE k == c[1]
             r == c[2]
  <1>1. /\ k \in Item /\ r \in Run /\ c = <<k, r, c[3]>> /\ renewal.on
        /\ r \in L!Tracked \/ evidence[r] >= renewal.began
    BY DEF L!LifecycleInv, L!TypeOK, L!PassSound
  <1>2. /\ entries' = IF entries[k].run = r /\ entries[k].at = c[3]
                      THEN [entries EXCEPT ![k] = L!Granted(k, r)] ELSE entries
        /\ renewal' = [renewal EXCEPT !.left = @ \ {c}]
        /\ UNCHANGED <<now, phase, owner, daemon, gate, lastPass, sweep, evidence, faults>>
    BY <1>1, Zenon DEF L!RenewExpected, L!MatchingEntry
  <1> HIDE DEF k, r
  <1>3. /\ entries \in [Item -> L!Entry] /\ L!Granted(k, r) \in L!Entry
        /\ renewal \in [on : BOOLEAN, began : 0 .. MaxTime,
                         left : SUBSET (Item \X Run \X (0 .. MaxTime))]
    BY <1>1, GrantedLease, Zenon DEF L!LifecycleInv, L!TypeOK
  <1>4. /\ renewal' \in [on : BOOLEAN, began : 0 .. MaxTime,
                          left : SUBSET (Item \X Run \X (0 .. MaxTime))]
        /\ renewal'.on = renewal.on /\ renewal'.began = renewal.began
        /\ renewal'.left = renewal.left \ {c}
    BY <1>2, <1>3, Zenon
  <1>5. L!TypeOK'
    BY <1>1, <1>2, <1>3, <1>4, Zenon DEF L!LifecycleInv, L!TypeOK
  <1>6. \A x \in Run : L!RunSound(x)'
    BY <1>2, Zenon DEF L!LifecycleInv, L!RunSound
  <1>7. L!Working' = L!Working /\ L!Tracked' = L!Tracked
    BY <1>2, SameRuns, Zenon
  <1>8. L!PassSound'
    BY <1>1, <1>2, <1>4, <1>7, Zenon DEF L!LifecycleInv, L!PassSound
  <1>9. ASSUME NEW i \in Item PROVE L!EntrySound(i)'
    <2>1. CASE entries'[i] = entries[i] /\ <<i, entries[i].run, entries[i].at>> # c
      <3>1. L!EntrySound(i)
        BY Zenon DEF L!LifecycleInv
      <3> QED
        BY <1>2, <1>4, <1>7, <2>1, <3>1 DEF L!EntrySound
    <2>2. CASE i = k /\ entries'[i] = L!Granted(k, r) /\ entries[k].run = r
      <3>1. phase[r] # "none"
        BY <1>1, <2>2, Zenon DEF L!Bounds, L!LifecycleInv, L!EntrySound
      <3> QED
        BY <1>1, <1>2, <1>4, <2>2, <3>1, GrantedSound, Zenon
    <2>3. <<i, entries[i].run, entries[i].at>> = c =>
             i = k /\ entries[i].run = r /\ entries[i].at = c[3]
      BY DEF k, r
    <2>4. CASE i = k /\ entries[k].run = r /\ entries[k].at = c[3]
      <3>1. entries'[i] = L!Granted(k, r)
        BY <1>1, <1>2, <1>3, <2>4
      <3> QED
        BY <2>2, <2>4, <3>1, Zenon
    <2>5. CASE ~(i = k /\ entries[k].run = r /\ entries[k].at = c[3])
      <3>1. entries'[i] = entries[i]
        BY <1>1, <1>2, <1>3, <2>5, Zenon
      <3> QED
        BY <2>1, <2>3, <2>5, <3>1, Zenon
    <2> QED
      BY <2>4, <2>5, Zenon
  <1>10. L!AbandonedLeaseBounded'
    <2> SUFFICES ASSUME NEW i \in Item, entries'[i].run \in Run \ (L!Working \cup L!Tracked)
                 PROVE  entries'[i].until <= evidence[entries'[i].run] + Budget + Lease
      BY <1>2, <1>7, Zenon DEF L!AbandonedLeaseBounded
    <2>1. CASE entries'[i] = entries[i]
      BY <2>1, Zenon DEF L!LifecycleInv, L!AbandonedLeaseBounded
    <2>2. CASE entries'[i] = L!Granted(k, r)
      <3>1. entries'[i].run = r /\ entries'[i].until = now + Lease
        BY <1>1, <2>2, GrantedLease
      <3>2. evidence[r] >= renewal.began /\ now <= renewal.began + Budget
        BY <1>1, <3>1, Zenon DEF L!LifecycleInv, L!PassSound
      <3> QED
        BY <1>1, <3>1, <3>2, Times
    <2> QED
      BY <1>1, <1>2, <1>3, <2>1, <2>2, Zenon
  <1> QED
    BY <1>5, <1>6, <1>8, <1>9, <1>10, Zenon DEF L!LifecycleInv

\* What follows a pass, for the loop.
LEMMA AfterPassEffect ==
    ASSUME L!Bounds, L!LifecycleInv, L!AfterPass, renewal.on
    PROVE  /\ renewal' = L!NoPass
           /\ sweep' \in [Sweeper -> [step : {"idle", "due", "ready"}, at : 0 .. MaxTime,
                                      terminal : SUBSET (Item \X Run)]]
           /\ \A s \in Sweeper : /\ sweep'[s].at <= now
                                 /\ sweep'[s].step = "ready" => sweep[s].step = "ready"
  <1> DEFINE due == [L!NoSweep EXCEPT !.step = "due", !.at = renewal.began]
  <1>1. /\ sweep \in [Sweeper -> [step : {"idle", "due", "ready"}, at : 0 .. MaxTime,
                                  terminal : SUBSET (Item \X Run)]]
        /\ renewal.began \in 0 .. MaxTime /\ renewal.began <= now
        /\ \A s \in Sweeper : sweep[s].at <= now
    BY Zenon DEF L!LifecycleInv, L!TypeOK, L!PassSound
  <1>2. /\ due \in [step : {"idle", "due", "ready"}, at : 0 .. MaxTime,
                     terminal : SUBSET (Item \X Run)]
        /\ due.at = renewal.began /\ due.step = "due"
    BY <1>1, Zenon DEF L!NoSweep
  <1>3. renewal' = L!NoPass /\ (sweep' = [sweep EXCEPT ![Loop] = due] \/ sweep' = sweep)
    BY Zenon DEF L!AfterPass
  <1> HIDE DEF due
  <1> QED
    BY <1>1, <1>2, <1>3 DEF L!Bounds

\* A completed pass has renewed the claims of every working run since it began.
LEMMA EndRenewalKeeps ==
    ASSUME L!Bounds
    PROVE  L!LifecycleInv /\ L!EndRenewal => L!LifecycleInv'
  <1> SUFFICES ASSUME L!LifecycleInv, L!EndRenewal PROVE L!LifecycleInv'
    OBVIOUS
  <1>1. /\ renewal.on /\ renewal.left = {} /\ L!AfterPass /\ gate' = TRUE
        /\ lastPass' = renewal.began
        /\ UNCHANGED <<now, entries, phase, owner, evidence, faults>>
    BY Zenon DEF L!EndRenewal
  <1>2. /\ daemon \in {"starting", "resumed", "steady"}
        /\ renewal.began <= now /\ now <= renewal.began + Budget
    BY <1>1, Zenon DEF L!LifecycleInv, L!PassSound
  <1>3. /\ daemon' \in {"renewed", "steady"}
        /\ daemon' = "renewed" <=> daemon = "starting"
    BY <1>2, Zenon DEF L!EndRenewal
  <1>4. L!Working' = L!Working /\ L!Tracked' = L!Tracked
    BY <1>1, <1>2, <1>3, Zenon DEF L!Working, L!Tracked, L!Startup
  <1>5. renewal' = L!NoPass /\ renewal'.on = FALSE /\ renewal'.left = {} /\ renewal'.began = 0
    BY <1>1, AfterPassEffect DEF L!NoPass
  <1>6. L!TypeOK'
    <2>1. renewal' \in [on : BOOLEAN, began : 0 .. MaxTime,
                        left : SUBSET (Item \X Run \X (0 .. MaxTime))]
      BY <1>5 DEF L!Bounds, L!NoPass
    <2>2. daemon' \in L!Up \cup {"down"} /\ lastPass' \in 0 .. MaxTime
      BY <1>1, <1>3, Zenon DEF L!Up, L!Startup, L!LifecycleInv, L!TypeOK
    <2> QED
      BY <1>1, <2>1, <2>2, AfterPassEffect, Zenon DEF L!LifecycleInv, L!TypeOK
  <1>7. \A x \in Run : L!RunSound(x)'
    BY <1>1, <1>2, <1>3, Zenon DEF L!LifecycleInv, L!RunSound
  <1>8. L!PassSound'
    <2>1. daemon' \in L!Up \ {"starting"}
      BY <1>3, Zenon DEF L!Up, L!Startup
    <2> QED
      BY <1>1, <1>2, <1>5, <2>1, AfterPassEffect, Zenon DEF L!PassSound
  <1>9. ASSUME NEW k \in Item PROVE L!EntrySound(k)'
    <2>1. L!EntrySound(k)
      BY Zenon DEF L!LifecycleInv
    <2> QED
      BY <1>1, <1>4, <1>5, <2>1, Zenon DEF L!EntrySound
  <1>10. L!AbandonedLeaseBounded'
    BY <1>1, <1>4, Zenon DEF L!LifecycleInv, L!AbandonedLeaseBounded
  <1> QED
    BY <1>6, <1>7, <1>8, <1>9, <1>10, Zenon DEF L!LifecycleInv

\* A failed pass leaves the last completed one in force.
LEMMA FailRenewalKeeps ==
    ASSUME L!Bounds
    PROVE  L!LifecycleInv /\ L!FailRenewal => L!LifecycleInv'
  <1> SUFFICES ASSUME L!LifecycleInv, L!FailRenewal PROVE L!LifecycleInv'
    OBVIOUS
  <1>1. /\ renewal.on /\ daemon # "starting" /\ L!AfterPass /\ daemon' = "steady"
        /\ faults < MaxFaults /\ faults' = faults + 1
        /\ UNCHANGED <<now, entries, phase, owner, gate, lastPass, evidence>>
    BY Zenon DEF L!FailRenewal, L!Faulty
  <1>2. daemon \in {"resumed", "steady"}
    BY <1>1, Zenon DEF L!LifecycleInv, L!PassSound
  <1>3. L!Working' = L!Working /\ L!Tracked' = L!Tracked
    BY <1>1, <1>2, Zenon DEF L!Working, L!Tracked, L!Startup
  <1>4. renewal' = L!NoPass /\ renewal'.on = FALSE /\ renewal'.left = {} /\ renewal'.began = 0
    BY <1>1, AfterPassEffect DEF L!NoPass
  <1>5. L!TypeOK'
    <2>1. renewal' \in [on : BOOLEAN, began : 0 .. MaxTime,
                        left : SUBSET (Item \X Run \X (0 .. MaxTime))]
      BY <1>4 DEF L!Bounds, L!NoPass
    <2>2. daemon' \in L!Up \cup {"down"} /\ faults' \in 0 .. MaxFaults
      BY <1>1 DEF L!Bounds, L!Up, L!Startup, L!LifecycleInv, L!TypeOK
    <2> QED
      BY <1>1, <2>1, <2>2, AfterPassEffect, Zenon DEF L!LifecycleInv, L!TypeOK
  <1>6. \A x \in Run : L!RunSound(x)'
    BY <1>1, <1>2, Zenon DEF L!LifecycleInv, L!RunSound
  <1>7. L!PassSound'
    <2>1. daemon' \in L!Up \ {"starting"} /\ daemon \in L!Up \ {"starting"}
      BY <1>1, <1>2, Zenon DEF L!Up, L!Startup
    <2> QED
      BY <1>1, <1>4, <2>1, AfterPassEffect, Zenon DEF L!LifecycleInv, L!PassSound
  <1>8. ASSUME NEW k \in Item PROVE L!EntrySound(k)'
    <2>1. L!EntrySound(k)
      BY Zenon DEF L!LifecycleInv
    <2> QED
      BY <1>1, <1>3, <1>4, <2>1, Zenon DEF L!EntrySound
  <1>9. L!AbandonedLeaseBounded'
    BY <1>1, <1>3, Zenon DEF L!LifecycleInv, L!AbandonedLeaseBounded
  <1> QED
    BY <1>5, <1>6, <1>7, <1>8, <1>9, Zenon DEF L!LifecycleInv

-----------------------------------------------------------------------------
(* The recovery sweep.                                                     *)

\* A sweep begins with the gate open, as of a time that has passed.
LEMMA RecoverKeeps ==
    ASSUME L!Bounds, L!LifecycleInv, NEW s \in Sweeper, L!Recover(s)
    PROVE  L!LifecycleInv'
  <1> DEFINE terminal == {c \in Item \X Run : entries[c[1]].run = c[2] /\ phase[c[2]] = "ended"}
  <1>1. /\ gate
        /\ \E at \in {now, sweep[s].at} :
              sweep' = [sweep EXCEPT ![s] = [step |-> "ready", at |-> at, terminal |-> terminal]]
        /\ UNCHANGED <<now, entries, phase, owner, daemon, gate, renewal, lastPass, evidence,
                       faults>>
    BY Zenon DEF L!Recover, L!Sweep
  <1>2. terminal \in SUBSET (Item \X Run)
    OBVIOUS
  <1> HIDE DEF terminal
  <1>3. /\ sweep \in [Sweeper -> [step : {"idle", "due", "ready"}, at : 0 .. MaxTime,
                                  terminal : SUBSET (Item \X Run)]]
        /\ now \in 0 .. MaxTime
    BY Zenon DEF L!LifecycleInv, L!TypeOK
  <1>4. sweep' \in [Sweeper -> [step : {"idle", "due", "ready"}, at : 0 .. MaxTime,
                                terminal : SUBSET (Item \X Run)]]
    BY <1>1, <1>2, <1>3
  <1>5. L!TypeOK'
    BY <1>1, <1>4, Zenon DEF L!LifecycleInv, L!TypeOK
  <1>6. \A r \in Run : L!RunSound(r)'
    BY <1>1, Zenon DEF L!LifecycleInv, L!RunSound
  <1>7. L!Working' = L!Working /\ L!Tracked' = L!Tracked
    BY <1>1, SameRuns, Zenon
  <1>8. L!PassSound'
    <2>1. \A x \in Sweeper : sweep'[x].at <= now
      <3>1. \A x \in Sweeper : sweep'[x].at \in {now, sweep[s].at, sweep[x].at}
        BY <1>1, <1>3
      <3>2. \A x \in Sweeper : sweep[x].at <= now
        BY Zenon DEF L!LifecycleInv, L!PassSound
      <3>3. now <= now
        BY Times
      <3> QED
        BY <3>1, <3>2, <3>3, Zenon
    <2> QED
      BY <1>1, <1>7, <2>1, Zenon DEF L!LifecycleInv, L!PassSound
  <1>9. \A k \in Item : L!EntrySound(k)'
    BY <1>1, <1>7, Zenon DEF L!LifecycleInv, L!EntrySound
  <1>10. L!AbandonedLeaseBounded'
    BY <1>1, <1>7, Zenon DEF L!LifecycleInv, L!AbandonedLeaseBounded
  <1> QED
    BY <1>5, <1>6, <1>8, <1>9, <1>10, Zenon DEF L!LifecycleInv

\* A sweep frees entries that it may free, all of them or some.
LEMMA FinishRecoverKeeps ==
    ASSUME L!Bounds, L!LifecycleInv, NEW s \in Sweeper, L!FinishRecover(s)
    PROVE  L!LifecycleInv'
  <1>1. /\ sweep' = [sweep EXCEPT ![s] = L!NoSweep]
        /\ daemon' = daemon \/ (daemon = "renewed" /\ daemon' = "recovered")
        /\ \E left : entries' = [k \in Item |-> IF L!Recovered(s, k) /\ k \notin left
                                               THEN L!Free ELSE entries[k]]
        /\ faults' = faults \/ (faults < MaxFaults /\ faults' = faults + 1)
        /\ UNCHANGED <<now, phase, owner, gate, renewal, lastPass, evidence>>
    BY Zenon DEF L!FinishRecover, L!Faulty
  <1>2. /\ entries \in [Item -> L!Entry] /\ L!Free \in L!Entry
        /\ sweep \in [Sweeper -> [step : {"idle", "due", "ready"}, at : 0 .. MaxTime,
                                  terminal : SUBSET (Item \X Run)]]
        /\ L!NoSweep \in [step : {"idle", "due", "ready"}, at : 0 .. MaxTime,
                         terminal : SUBSET (Item \X Run)]
        /\ L!NoSweep.at = 0 /\ L!NoSweep.step = "idle"
    BY Idles, Zenon DEF L!LifecycleInv, L!TypeOK
  <1>3. \A k \in Item : entries'[k] \in {entries[k], L!Free}
    BY <1>1, Zenon
  <1>4. L!Working' = L!Working /\ L!Tracked' = L!Tracked
    BY <1>1, Zenon DEF L!Working, L!Tracked, L!Startup
  <1>5. L!TypeOK'
    <2>1. entries' \in [Item -> L!Entry]
      BY <1>1, <1>2, Zenon
    <2>2. faults' \in 0 .. MaxFaults
      BY <1>1 DEF L!Bounds, L!LifecycleInv, L!TypeOK
    <2>3. daemon' \in L!Up \cup {"down"}
      BY <1>1, Zenon DEF L!LifecycleInv, L!TypeOK, L!Up, L!Startup
    <2>4. sweep' \in [Sweeper -> [step : {"idle", "due", "ready"}, at : 0 .. MaxTime,
                                  terminal : SUBSET (Item \X Run)]]
      BY <1>1, <1>2, Zenon
    <2> QED
      BY <1>1, <2>1, <2>2, <2>3, <2>4, Zenon DEF L!LifecycleInv, L!TypeOK
  <1>6. \A r \in Run : L!RunSound(r)'
    BY <1>1, Zenon DEF L!LifecycleInv, L!RunSound
  <1>7. L!PassSound'
    <2>1. \A x \in Sweeper : sweep'[x].at <= now /\ (sweep'[x].step = "ready" => gate)
      <3>1. "idle" # "ready" /\ \A t \in Nat : 0 <= t
        OBVIOUS
      <3> QED
        BY <1>1, <1>2, <3>1, Times, PassTimes, Zenon
    <2>2. daemon' \in L!Up \ {"starting"} <=> daemon \in L!Up \ {"starting"}
      BY <1>1, Zenon DEF L!Up, L!Startup
    <2>3. daemon \in {"starting", "resumed", "steady"} => daemon' = daemon
      BY <1>1, Zenon
    <2> QED
      BY <1>1, <1>4, <2>1, <2>2, <2>3, Zenon DEF L!LifecycleInv, L!PassSound
  <1>8. (\A i \in Item : L!EntrySound(i)') /\ L!AbandonedLeaseBounded'
    BY <1>1, <1>3, <1>4, FreeingKeeps, Zenon
  <1> QED
    BY <1>5, <1>6, <1>7, <1>8, Zenon DEF L!LifecycleInv

-----------------------------------------------------------------------------
(* The daemon and the clock.                                               *)

\* A crash closes the gate and leaves evidence of the runs it interrupts.
LEMMA CrashKeeps ==
    ASSUME L!Bounds
    PROVE  L!LifecycleInv /\ L!Crash => L!LifecycleInv'
  <1> SUFFICES ASSUME L!LifecycleInv, L!Crash PROVE L!LifecycleInv'
    OBVIOUS
  <1>1. /\ daemon' = "down" /\ owner' = [r \in Run |-> "none"] /\ gate' = FALSE
        /\ renewal' = L!NoPass /\ sweep' = [s \in Sweeper |-> L!NoSweep] /\ lastPass' = 0
        /\ evidence' = [r \in Run |-> IF r \in L!Tracked THEN now ELSE evidence[r]]
        /\ faults < MaxFaults /\ faults' = faults + 1
        /\ UNCHANGED <<now, entries, phase>>
    BY Zenon DEF L!Crash, L!Faulty
  <1>2. /\ L!NoPass \in [on : BOOLEAN, began : 0 .. MaxTime,
                        left : SUBSET (Item \X Run \X (0 .. MaxTime))]
        /\ L!NoPass.on = FALSE /\ L!NoPass.left = {}
        /\ L!NoSweep \in [step : {"idle", "due", "ready"}, at : 0 .. MaxTime,
                         terminal : SUBSET (Item \X Run)]
        /\ L!NoSweep.at = 0 /\ L!NoSweep.step = "idle"
    BY Idles, Zenon
  <1>3. L!TypeOK'
    <2>1. faults' \in 0 .. MaxFaults /\ lastPass' \in 0 .. MaxTime
      BY <1>1 DEF L!Bounds, L!LifecycleInv, L!TypeOK
    <2>2. evidence' \in [Run -> 0 .. MaxTime]
      BY <1>1, Zenon DEF L!LifecycleInv, L!TypeOK
    <2> QED
      BY <1>1, <1>2, <2>1, <2>2, Zenon DEF L!LifecycleInv, L!TypeOK
  <1>4. \A r \in Run : L!RunSound(r)'
    BY <1>1, EvidenceTimes, Zenon DEF L!LifecycleInv, L!RunSound
  <1>5. L!PassSound'
    <2>1. "down" \notin L!Up
      BY Zenon DEF L!Up, L!Startup
    <2>2. \A s \in Sweeper : sweep'[s].at = 0 /\ sweep'[s].step = "idle"
      BY <1>1, <1>2, Zenon
    <2> QED
      BY <1>1, <1>2, <2>1, <2>2, Times DEF L!PassSound
  <1>6. ASSUME NEW k \in Item PROVE L!EntrySound(k)'
    <2>1. L!EntrySound(k)
      BY Zenon DEF L!LifecycleInv
    <2> QED
      BY <1>1, <1>2, <2>1, Zenon DEF L!EntrySound
  <1>7. L!AbandonedLeaseBounded'
    <2> SUFFICES ASSUME NEW k \in Item, entries[k].run \in Run \ (L!Working' \cup L!Tracked')
                 PROVE  entries[k].until <= evidence'[entries[k].run] + Budget + Lease
      BY <1>1, Zenon DEF L!AbandonedLeaseBounded
    <2>1. CASE entries[k].run \in L!Tracked
      <3>1. entries[k].until <= now + Lease /\ evidence'[entries[k].run] = now
        BY <1>1, <2>1, Zenon DEF L!LifecycleInv, L!EntrySound
      <3> QED
        BY <3>1, Times
    <2>2. CASE entries[k].run \notin L!Tracked
      <3>1. entries[k].run \notin L!Working
        BY <1>1, <2>2, Zenon DEF L!Working, L!Tracked, L!Startup
      <3> QED
        BY <1>1, <2>2, <3>1, Zenon DEF L!LifecycleInv, L!AbandonedLeaseBounded
    <2> QED
      BY <2>1, <2>2, Zenon
  <1> QED
    BY <1>3, <1>4, <1>5, <1>6, <1>7, Zenon DEF L!LifecycleInv

\* The next daemon starts with its gate closed.
LEMMA BootKeeps ==
    ASSUME L!Bounds
    PROVE  L!LifecycleInv /\ L!Boot => L!LifecycleInv'
  <1> SUFFICES ASSUME L!LifecycleInv, L!Boot PROVE L!LifecycleInv'
    OBVIOUS
  <1>1. /\ daemon = "down" /\ daemon' = "starting"
        /\ UNCHANGED <<now, entries, phase, owner, gate, renewal, lastPass, sweep, evidence,
                       faults>>
    BY Zenon DEF L!Boot
  <1>2. L!Working' = L!Working /\ L!Tracked' = L!Tracked
    BY <1>1, Zenon DEF L!Working, L!Tracked, L!Startup
  <1>3. L!TypeOK'
    BY <1>1, Zenon DEF L!LifecycleInv, L!TypeOK, L!Up, L!Startup
  <1>4. \A r \in Run : L!RunSound(r)'
    BY <1>1, Zenon DEF L!LifecycleInv, L!RunSound
  <1>5. L!PassSound'
    <2>1. "down" \notin L!Up
      BY Zenon DEF L!Up, L!Startup
    <2> QED
      BY <1>1, <1>2, <2>1, Zenon DEF L!LifecycleInv, L!PassSound
  <1>6. \A k \in Item : L!EntrySound(k)'
    BY <1>1, <1>2, Zenon DEF L!LifecycleInv, L!EntrySound
  <1>7. L!AbandonedLeaseBounded'
    BY <1>1, <1>2, Zenon DEF L!LifecycleInv, L!AbandonedLeaseBounded
  <1> QED
    BY <1>3, <1>4, <1>5, <1>6, <1>7, Zenon DEF L!LifecycleInv

\* Crash resume drives a run that was to be kept, or gives it grace.
LEMMA ResumeStartupRunsKeeps ==
    ASSUME L!Bounds,
           L!LifecycleInv, NEW warned \in SUBSET Run, L!ResumeStartupRuns(warned)
    PROVE  L!LifecycleInv'
  <1>1. /\ daemon = "recovered" /\ daemon' = "resumed"
        /\ owner' = [r \in Run |-> IF phase[r] = "running" /\ r \notin warned
                                   THEN "driving" ELSE "none"]
        /\ evidence' = [r \in Run |-> IF r \in warned THEN now ELSE evidence[r]]
        /\ UNCHANGED <<now, entries, phase, gate, renewal, lastPass, sweep, faults>>
    BY Zenon DEF L!ResumeStartupRuns
  <1>2. \A r \in Run : owner[r] = "none"
    BY <1>1, Zenon DEF L!LifecycleInv, L!RunSound
  <1>3. \A r \in Run : /\ r \in L!Working' => r \in L!Working
                       /\ r \in L!Working => r \in L!Tracked' \/ r \in warned
                       /\ r \notin L!Tracked
    BY <1>1, <1>2, Zenon DEF L!Working, L!Tracked, L!Startup
  <1>4. L!TypeOK'
    <2>1. evidence' \in [Run -> 0 .. MaxTime]
      BY <1>1, Zenon DEF L!LifecycleInv, L!TypeOK
    <2>2. owner' \in [Run -> {"none", "driving", "finishing"}]
      BY <1>1, Zenon
    <2> QED
      BY <1>1, <2>1, <2>2, Zenon DEF L!LifecycleInv, L!TypeOK, L!Up, L!Startup
  <1>5. \A r \in Run : L!RunSound(r)'
    BY <1>1, EvidenceTimes, Zenon DEF L!LifecycleInv, L!RunSound
  <1>6. L!PassSound'
    <2>1. daemon \in L!Up \ {"starting"} /\ daemon' \in L!Up \ {"starting"}
      BY <1>1, Zenon DEF L!Up, L!Startup
    <2>2. ~renewal.on /\ renewal.left = {}
      BY <1>1, Zenon DEF L!LifecycleInv, L!PassSound
    <2> QED
      BY <1>1, <2>1, <2>2, Zenon DEF L!LifecycleInv, L!PassSound
  <1>7. ASSUME NEW k \in Item PROVE L!EntrySound(k)'
    <2>1. entries[k].run # NoRun => phase'[entries[k].run] # "none"
      BY <1>1, Zenon DEF L!LifecycleInv, L!EntrySound
    <2>2. entries[k].run \in L!Working' => entries[k].run \in L!Working
      BY <1>3, Zenon DEF L!Working
    <2> QED
      BY <1>1, <2>1, <2>2, EntryKept, Zenon
  <1>8. L!AbandonedLeaseBounded'
    <2> SUFFICES ASSUME NEW k \in Item, entries[k].run \in Run \ (L!Working' \cup L!Tracked')
                 PROVE  entries[k].until <= evidence'[entries[k].run] + Budget + Lease
      BY <1>1, Zenon DEF L!AbandonedLeaseBounded
    <2>1. CASE entries[k].run \in warned
      <3>1. entries[k].until <= now + Lease /\ evidence'[entries[k].run] = now
        BY <1>1, <2>1, Zenon DEF L!LifecycleInv, L!EntrySound
      <3> QED
        BY <3>1, Times
    <2>2. CASE entries[k].run \notin warned
      BY <1>1, <1>3, <2>2, Zenon DEF L!LifecycleInv, L!AbandonedLeaseBounded
    <2> QED
      BY <2>1, <2>2, Zenon
  <1> QED
    BY <1>4, <1>5, <1>6, <1>7, <1>8, Zenon DEF L!LifecycleInv

\* Time passes within the budget of the passes.
LEMMA ClockKeeps ==
    ASSUME L!Bounds
    PROVE  L!LifecycleInv /\ L!Tick => L!LifecycleInv'
  <1> SUFFICES ASSUME L!LifecycleInv, L!Tick PROVE L!LifecycleInv'
    OBVIOUS
  <1>1. /\ now < MaxTime /\ now' = now + 1
        /\ daemon \in L!Up \ {"starting"} => now < lastPass + Budget
        /\ renewal.on => now < renewal.began + Budget
        /\ UNCHANGED <<entries, phase, owner, daemon, gate, renewal, lastPass, sweep, evidence,
                       faults>>
    BY Zenon DEF L!Tick
  <1>2. L!Working' = L!Working /\ L!Tracked' = L!Tracked
    BY <1>1, SameRuns, Zenon
  <1>3. now' \in 0 .. MaxTime /\ now' \in Nat
    BY <1>1 DEF L!Bounds, L!LifecycleInv, L!TypeOK
  <1>4. L!TypeOK'
    BY <1>1, <1>3, Zenon DEF L!LifecycleInv, L!TypeOK
  <1>5. \A r \in Run : L!RunSound(r)'
    BY <1>1, Times, EvidenceTimes, LaterStill, Zenon DEF L!LifecycleInv, L!RunSound
  <1>6. L!PassSound'
    <2>1. \A s \in Sweeper : sweep[s].at <= now'
      BY <1>1, Times, PassTimes, LaterStill, Zenon
    <2>2. /\ lastPass <= now' /\ (gate => now' <= lastPass + Budget)
          /\ renewal.on => renewal.began <= now' /\ now' <= renewal.began + Budget
      <3>1. gate => now < lastPass + Budget
        BY <1>1, Zenon DEF L!LifecycleInv, L!PassSound
      <3>2. \A t, u, b \in Nat : t < u + b => t + 1 <= u + b
        OBVIOUS
      <3> QED
        BY <1>1, <3>1, <3>2, Times, PassTimes, LaterStill, Zenon
    <2> QED
      BY <1>1, <1>2, <2>1, <2>2, Zenon DEF L!LifecycleInv, L!PassSound
  <1>7. ASSUME NEW k \in Item PROVE L!EntrySound(k)'
    <2>1. entries[k].at <= now' /\ entries[k].until <= now' + Lease
      <3>1. entries[k].at <= now /\ entries[k].until <= now + Lease
        BY Zenon DEF L!LifecycleInv, L!EntrySound
      <3>2. now' = now + 1
        BY <1>1, Zenon
      <3> QED
        BY <3>1, <3>2, Times
    <2> QED
      BY <1>1, <1>2, <2>1, Zenon DEF L!LifecycleInv, L!EntrySound
  <1>8. L!AbandonedLeaseBounded'
    BY <1>1, <1>2, Zenon DEF L!LifecycleInv, L!AbandonedLeaseBounded
  <1> QED
    BY <1>4, <1>5, <1>6, <1>7, <1>8, Zenon DEF L!LifecycleInv

-----------------------------------------------------------------------------
(* The theorems.                                                           *)

\* A fresh instance is sound.
LEMMA InitSound == ASSUME L!Bounds PROVE L!Init => L!LifecycleInv
  <1> SUFFICES ASSUME L!Init PROVE L!LifecycleInv
    OBVIOUS
  <1>1. /\ L!NoPass \in [on : BOOLEAN, began : 0 .. MaxTime,
                        left : SUBSET (Item \X Run \X (0 .. MaxTime))]
        /\ L!NoPass.on = FALSE /\ L!NoPass.left = {}
        /\ L!NoSweep \in [step : {"idle", "due", "ready"}, at : 0 .. MaxTime,
                         terminal : SUBSET (Item \X Run)]
        /\ L!NoSweep.at = 0 /\ L!NoSweep.step = "idle"
        /\ L!Free \in L!Entry /\ L!Free.run = NoRun /\ L!Free.at = 0 /\ L!Free.until = 0
    BY Idles, Zenon
  <1>2. 0 \in 0 .. MaxTime /\ 0 \in 0 .. MaxFaults /\ 0 <= 0 + Lease
    BY DEF L!Bounds
  <1>3. L!TypeOK
    BY <1>1, <1>2, Zenon DEF L!Init, L!TypeOK
  <1>4. \A r \in Run : L!RunSound(r)
    BY DEF L!Init, L!RunSound
  <1>5. L!PassSound
    <2>1. "down" \notin L!Up
      BY Zenon DEF L!Up, L!Startup
    <2> QED
      BY <1>1, <2>1 DEF L!Init, L!PassSound
  <1>6. \A k \in Item : L!EntrySound(k)
    <2> SUFFICES ASSUME NEW k \in Item PROVE L!EntrySound(k)
      OBVIOUS
    <2>1. entries[k].run = NoRun /\ entries[k].at = 0 /\ entries[k].until = 0
      BY <1>1, Zenon DEF L!Init
    <2>2. NoRun \notin L!Working
      BY Zenon DEF L!Bounds, L!Working
    <2>3. entries[k].at <= now /\ entries[k].until <= now + Lease
      BY <1>2, <2>1 DEF L!Init
    <2> QED
      BY <2>1, <2>2, <2>3, Zenon DEF L!EntrySound
  <1>7. L!AbandonedLeaseBounded
    BY <1>1, Zenon DEF L!Bounds, L!Init, L!AbandonedLeaseBounded
  <1> QED
    BY <1>3, <1>4, <1>5, <1>6, <1>7, Zenon DEF L!LifecycleInv

\* Every step keeps the invariant.
LEMMA StepSound ==
    ASSUME L!Bounds
    PROVE  L!LifecycleInv /\ [L!Next]_(L!vars) => L!LifecycleInv'
  <1> SUFFICES ASSUME L!LifecycleInv, [L!Next]_(L!vars) PROVE L!LifecycleInv'
    OBVIOUS
  <1>1. CASE L!RunNext
    BY <1>1, StartRunKeeps, PauseKeeps, FinishKeeps, FinalizeTerminalKeeps, ClaimKeeps,
       ReleaseKeeps, Zenon DEF L!RunNext
  <1>2. CASE L!LoopNext
    BY <1>2, BeginRenewalKeeps, RenewExpectedKeeps, EndRenewalKeeps, RecoverKeeps,
       FinishRecoverKeeps, BootKeeps, ResumeStartupRunsKeeps, Zenon DEF L!Bounds, L!LoopNext
  <1>3. ASSUME NEW s \in Sweeper, L!Recover(s) \/ L!FinishRecover(s) PROVE L!LifecycleInv'
    BY <1>3, RecoverKeeps, FinishRecoverKeeps, Zenon
  <1>4. CASE UNCHANGED L!vars
    <2>1. UNCHANGED <<now, entries, phase, owner, daemon, gate, renewal, lastPass, sweep,
                      evidence, faults>>
      BY <1>4, Zenon DEF L!vars
    <2> QED
      BY <2>1, Zenon DEF L!LifecycleInv, L!TypeOK, L!RunSound, L!PassSound,
                         L!EntrySound, L!AbandonedLeaseBounded,
                  L!Working, L!Tracked
  <1> QED
    BY <1>1, <1>2, <1>3, <1>4, FailRenewalKeeps, CrashKeeps, ClockKeeps DEF L!Next

\* The inductive invariant of the lifecycle, for any lease longer than the budget of
\* a pass: working runs' claims are younger than the last pass.
THEOREM LifecycleInvariant == ASSUME L!Bounds PROVE L!Spec => []L!LifecycleInv
  BY InitSound, StepSound, PTL DEF L!Spec

\* A claim outlives its run's last sign of life by one lease and one pass at most.
THEOREM LifecycleLeaseBounded ==
    ASSUME L!Bounds
    PROVE  L!Spec => []L!AbandonedLeaseBounded
  <1>1. L!LifecycleInv => L!AbandonedLeaseBounded
    BY Zenon DEF L!LifecycleInv
  <1> QED
    BY <1>1, LifecycleInvariant, PTL

\* What a step does to one entry: nothing, a grant to the run that has it or to a
\* driven run that may have it, or one of the ways to be freed.
LEMMA EntryMoves ==
    ASSUME L!Bounds, L!LifecycleInv, [L!Next]_(L!vars), NEW k \in Item
    PROVE  \/ entries'[k].run = entries[k].run
           \/ \E r \in Run : L!Claim(r, k) /\ entries'[k].run = r
           \/ \E r \in Run : L!Release(r, k) /\ r = entries[k].run /\ entries'[k] = L!Free
           \/ \E r \in Run : L!FinalizeTerminal(r) /\ r = entries[k].run /\ entries'[k] = L!Free
           \/ \E s \in Sweeper : /\ L!FinishRecover(s) /\ L!Recovered(s, k) /\ entries'[k] = L!Free
  <1>1. entries \in [Item -> L!Entry]
    BY Zenon DEF L!LifecycleInv, L!TypeOK
  <1>2. ASSUME NEW r \in Run, NEW i \in Item, L!Claim(r, i)
        PROVE  entries'[k].run = entries[k].run \/ (L!Claim(r, k) /\ entries'[k].run = r)
    <2>1. entries' = [entries EXCEPT ![i] = L!Granted(i, r)]
      BY <1>2, Zenon DEF L!Claim
    <2>2. L!Granted(i, r).run = r
      BY Zenon DEF L!Granted
    <2> QED
      BY <1>1, <1>2, <2>1, <2>2, Zenon
  <1>3. ASSUME NEW r \in Run, NEW i \in Item, L!Release(r, i)
        PROVE  \/ entries'[k].run = entries[k].run
               \/ L!Release(r, k) /\ r = entries[k].run /\ entries'[k] = L!Free
    BY <1>1, <1>3, Zenon DEF L!Release
  <1>4. ASSUME NEW r \in Run, L!FinalizeTerminal(r)
        PROVE  entries'[k].run = entries[k].run \/ (r = entries[k].run /\ entries'[k] = L!Free)
    BY <1>4, Zenon DEF L!FinalizeTerminal, L!ReleaseForRun
  <1>5. ASSUME NEW s \in Sweeper, L!FinishRecover(s)
        PROVE  entries'[k].run = entries[k].run \/ (L!Recovered(s, k) /\ entries'[k] = L!Free)
    BY <1>5, Zenon DEF L!FinishRecover
  <1>6. ASSUME NEW c \in renewal.left, L!RenewExpected(c[1], c[2], c[3])
        PROVE  entries'[k].run = entries[k].run
    <2>1. L!Granted(c[1], c[2]).run = c[2]
      BY Zenon DEF L!Granted
    <2> QED
      BY <1>1, <1>6, <2>1, Zenon DEF L!RenewExpected, L!MatchingEntry
  <1>7. CASE L!RunNext
    <2>1. ASSUME NEW r \in Run, L!StartRun(r) \/ L!Pause(r) \/ L!Finish(r)
          PROVE  entries' = entries
      BY <2>1, Zenon DEF L!StartRun, L!Pause, L!Finish
    <2> QED
      BY <1>2, <1>3, <1>4, <1>7, <2>1, Zenon DEF L!RunNext
  <1>8. CASE L!LoopNext
    <2>1. ASSUME \/ \E unknown \in SUBSET Run : L!BeginRenewal(unknown)
                 \/ L!EndRenewal \/ L!Recover(Loop) \/ L!Boot
                 \/ \E warned \in SUBSET Run : L!ResumeStartupRuns(warned)
          PROVE  entries' = entries
      BY <2>1, Zenon DEF L!BeginRenewal, L!EndRenewal, L!Recover, L!Boot, L!ResumeStartupRuns
    <2> QED
      BY <1>5, <1>6, <1>8, <2>1, Zenon DEF L!Bounds, L!LoopNext
  <1>9. CASE \/ L!FailRenewal \/ L!Crash \/ L!Tick \/ UNCHANGED L!vars
             \/ \E s \in Sweeper : L!Recover(s)
    <2>1. entries' = entries
      BY <1>9, Zenon DEF L!FailRenewal, L!Crash, L!Tick, L!Recover, L!vars
    <2> QED
      BY <2>1, Zenon
  <1> QED
    BY <1>5, <1>7, <1>8, <1>9, Zenon DEF L!Next

\* A working run keeps its claims until it releases them: when a sweep or another
\* claimant looks, its lease has not expired.
THEOREM LifecycleKeepsClaims ==
    ASSUME L!Bounds
    PROVE  L!Spec => L!WorkingRunKeepsClaim
  <1>1. ASSUME L!LifecycleInv, [L!Next]_(L!vars), NEW k \in Item,
               entries[k].run \in L!Working, entries'[k].run # entries[k].run
        PROVE  L!Release(entries[k].run, k)
    <2>1. entries[k].run \in Run /\ phase[entries[k].run] = "running"
      BY <1>1, Zenon DEF L!LifecycleInv, L!RunSound, L!Working
    <2>2. ASSUME NEW r \in Run, L!Claim(r, k), entries'[k].run = r PROVE FALSE
      <3>1. gate
        <4>1. daemon \in {"resumed", "steady"}
          BY <1>1, <2>2, Zenon DEF L!Claim, L!LifecycleInv, L!RunSound
        <4> QED
          BY <1>1, <4>1, Zenon DEF L!LifecycleInv, L!PassSound, L!Up, L!Startup
      <3>2. L!Expired(entries[k], now)
        BY <1>1, <2>1, <2>2, Zenon DEF L!Bounds, L!Claim
      <3>3. entries[k].until > now
        BY <1>1, <3>1, WorkingUnexpired, Zenon
      <3> QED
        BY <1>1, <3>2, <3>3, Times DEF L!Expired
    <2>3. ASSUME NEW r \in Run, L!FinalizeTerminal(r), r = entries[k].run PROVE FALSE
      BY <1>1, <2>1, <2>3, Zenon DEF L!FinalizeTerminal, L!LifecycleInv, L!RunSound
    <2>4. ASSUME NEW s \in Sweeper, L!FinishRecover(s), L!Recovered(s, k) PROVE FALSE
      <3>1. gate /\ sweep[s].at <= now
        BY <1>1, <2>4, Zenon DEF L!FinishRecover, L!LifecycleInv, L!PassSound
      <3>2. L!Expired(entries[k], sweep[s].at)
        BY <2>1, <2>4, Zenon DEF L!Recovered
      <3>3. entries[k].until > now
        BY <1>1, <3>1, WorkingUnexpired, Zenon
      <3> QED
        BY <1>1, <3>1, <3>2, <3>3, Times DEF L!Expired
    <2> QED
      BY <1>1, <2>2, <2>3, <2>4, EntryMoves, Zenon
  <1>2. L!LifecycleInv /\ [L!Next]_(L!vars) =>
          \A k \in Item : entries[k].run \in L!Working /\ entries'[k].run # entries[k].run
                           => L!Release(entries[k].run, k)
    BY <1>1, Zenon
  <1> QED
    BY <1>2, LifecycleInvariant, PTL DEF L!Spec, L!WorkingRunKeepsClaim

\* A renewal applied after its snapshot brings no claim of an ended run back.
THEOREM LifecycleNoResurrection ==
    ASSUME L!Bounds
    PROVE  L!Spec => L!NoResurrection
  <1>1. ASSUME L!LifecycleInv, [L!Next]_(L!vars), NEW k \in Item, NEW r \in Run,
               phase[r] = "ended", entries'[k].run = r
        PROVE  entries[k].run = r
    <2>1. entries'[k] # L!Free
      BY <1>1 DEF L!Bounds, L!Free
    <2>2. ~L!Claim(r, k)
      BY <1>1, Zenon DEF L!Claim, L!LifecycleInv, L!RunSound
    <2> QED
      BY <1>1, <2>1, <2>2, EntryMoves, Zenon
  <1>2. L!LifecycleInv /\ [L!Next]_(L!vars) =>
          \A k \in Item : \A r \in Run :
             phase[r] = "ended" /\ entries'[k].run = r => entries[k].run = r
    BY <1>1, Zenon
  <1> QED
    BY <1>2, LifecycleInvariant, PTL DEF L!Spec, L!NoResurrection

=============================================================================
