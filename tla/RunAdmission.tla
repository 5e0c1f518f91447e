---------------------------- MODULE RunAdmission ----------------------------
(***************************************************************************)
(* Concurrency slots of the embedded scheduler (internal/localscheduler):  *)
(* the counters of Conditions, the admissions that own them, and the       *)
(* parked parents that wait to take a slot back.                           *)
(*                                                                         *)
(* An admission is owned by its dispatch, by interventions that continue   *)
(* the run, or by nobody while it is retained between two of them; a       *)
(* parent that waits for a generated child lends its slot back and keeps   *)
(* the admission.  Each owner holds a release function bound to the        *)
(* generation of the admission, so one that is called late must not hit    *)
(* a newer admission of the run.  After a restart the counters are seeded  *)
(* from the run journals.                                                  *)
(*                                                                         *)
(* The gates that are not about slots (rolling budgets, provider quota,    *)
(* open pull requests, memory, disk, disabled or unplaceable workflows)    *)
(* may refuse any start; a refusal changes nothing here.                   *)
(***************************************************************************)
EXTENDS Integers, FiniteSets

CONSTANTS
    Workflow,           \* workflow identities
    MaxConcurrentRuns,  \* readiness conditions of each workflow; 0 is unset
    InstanceMaxParallel,\* instance-wide cap; 0 is unlimited
    Run, NoRun,
    Identity,           \* the workflow whose slots a run uses
    Child,              \* generated child runs, charged to the parent's workflow
    Intervened,         \* runs that people continue or pause
    MaxGeneration,      \* bound on generations of one run that are told apart
    MaxOwners           \* bound on concurrent owners of an admission

Generation == 1 .. MaxGeneration

ASSUME AdmissionAssumption ==
    /\ IsFiniteSet(Run)
    /\ NoRun \notin Run
    /\ MaxConcurrentRuns \in [Workflow -> Nat]
    /\ InstanceMaxParallel \in Nat
    /\ Identity \in [Run -> Workflow]
    /\ Child \subseteq Run
    /\ Intervened \subseteq Run
    /\ MaxGeneration \in Nat
    /\ MaxOwners \in Nat

VARIABLES
    active,       \* Conditions.active
    totalActive,  \* Conditions.totalActive
    waiting,      \* Conditions.claims: place by age of the claim; 0 is none
    dispatching,  \* runs admitted by dispatch and not yet registered
    admitted,     \* Scheduler.admittedRuns; generation 0 is no admission
    reconciled,   \* Scheduler.reconciledRuns: "none", "active" or "parked"
    releases,     \* releases[r][g]: release functions not called yet
    leases,       \* <<r, g>>: suspensions held by hosts; g = 0 if reconciled
    journal       \* the run journals: "none", "running", "parked", "terminal"

conditions == <<active, totalActive>>
vars == <<active, totalActive, waiting, dispatching, admitted, reconciled,
          releases, leases, journal>>

Admission == [generation : Generation \cup {0}, owners : Nat,
              retained : BOOLEAN, suspended : BOOLEAN]

NoAdmission == [generation |-> 0, owners |-> 0, retained |-> FALSE, suspended |-> FALSE]

IsAdmitted(r) == admitted[r].generation # 0
IsReconciled(r) == reconciled[r] # "none"

-----------------------------------------------------------------------------
(* Continuation claims.  Claims are ordered by the time they were made; a   *)
(* renewal keeps the place.                                                 *)

Claims == {r \in Run : waiting[r] # 0}
olderThan(a, b) == waiting[a] < waiting[b]

maxConcurrentRuns(w) == IF MaxConcurrentRuns[w] = 0 THEN 1 ELSE MaxConcurrentRuns[w]

\* The claims ahead of run r; every claim for a run that has none.
HoldingClaims(r) == {a \in Claims : a # r /\ (r \in Claims => olderThan(a, r))}

\* A claim can use an instance slot while its own workflow has room for it.
claimCanUseInstance(a) ==
    active[Identity[a]]
      + Cardinality({b \in Claims : Identity[b] = Identity[a] /\ olderThan(b, a)})
      < maxConcurrentRuns(Identity[a])

\* Mutant of HasRoom: claims hold slots of their workflow only.
HasRoomBesideClaims(w, r) ==
    /\ active[w] + Cardinality({a \in HoldingClaims(r) : Identity[a] = w})
         < maxConcurrentRuns(w)
    /\ InstanceMaxParallel > 0 => totalActive < InstanceMaxParallel

\* Mutant of HasRoom: claims hold nothing.
HasRoomWithoutClaims(w, r) ==
    /\ active[w] < maxConcurrentRuns(w)
    /\ InstanceMaxParallel > 0 => totalActive < InstanceMaxParallel

\* Room for r in workflow w and in the instance, beside the claims ahead of it.
HasRoom(w, r) ==
    /\ active[w] + Cardinality({a \in HoldingClaims(r) : Identity[a] = w})
         < maxConcurrentRuns(w)
    /\ InstanceMaxParallel > 0 =>
         totalActive + Cardinality({a \in HoldingClaims(r) : claimCanUseInstance(a)})
           < InstanceMaxParallel

markContinuationWaiting(r) ==
    waiting' = IF r \in Claims THEN waiting
               ELSE [waiting EXCEPT ![r] = Cardinality(Claims) + 1]
ClearContinuationClaim(r) ==
    waiting' = [a \in Run |-> IF a = r THEN 0
                             ELSE IF r \in Claims /\ olderThan(r, a) THEN waiting[a] - 1
                             ELSE waiting[a]]

\* A claim that was not renewed within the TTL; its owner stopped asking.
ExpireClaim(r) ==
    /\ r \in Claims
    /\ ClearContinuationClaim(r)
    /\ UNCHANGED <<conditions, dispatching, admitted, reconciled, releases, leases, journal>>

-----------------------------------------------------------------------------
(* Slots and admissions.                                                    *)

TakeSlot(w) ==
    /\ active' = [active EXCEPT ![w] = @ + 1]
    /\ totalActive' = totalActive + 1

ReleaseWorkflow(w) ==
    IF active[w] > 0
    THEN /\ active' = [active EXCEPT ![w] = @ - 1]
         /\ totalActive' = totalActive - 1
    ELSE UNCHANGED conditions

(* nextAdmissionGeneration never repeats: any generation that no release    *)
(* function, suspension or admission of the run still carries will do.      *)
FreshGeneration(r) ==
    {g \in Generation : /\ releases[r][g] = 0
                        /\ <<r, g>> \notin leases
                        /\ admitted[r].generation # g}

\* A new admission of r with one owner, who gets the release function.
Register(r) ==
    \E g \in FreshGeneration(r) :
       /\ admitted' = [admitted EXCEPT ![r] =
             [generation |-> g, owners |-> 1, retained |-> FALSE, suspended |-> FALSE]]
       /\ releases' = [releases EXCEPT ![r][g] = 1]

\* The admission of r ends: a slot it has not lent goes back, its claim too.
EndAdmission(r) ==
    /\ admitted' = [admitted EXCEPT ![r] = NoAdmission]
    /\ ClearContinuationClaim(r)
    /\ IF admitted[r].suspended THEN UNCHANGED conditions ELSE ReleaseWorkflow(Identity[r])

-----------------------------------------------------------------------------
(* Starts.  dispatch takes the slot in Conditions and registers the         *)
(* admission in a second critical section; a child does both in one.        *)

\* A run ID that was just minted: nothing refers to it yet.
NewRunID(r) ==
    /\ journal[r] = "none" /\ r \notin dispatching
    /\ ~IsAdmitted(r) /\ ~IsReconciled(r) /\ r \notin Claims
    /\ \A g \in Generation : releases[r][g] = 0
    /\ \A g \in Generation \cup {0} : <<r, g>> \notin leases

DispatchAdmit(r) ==
    /\ NewRunID(r) /\ r \notin Child
    /\ HasRoom(Identity[r], NoRun)
    /\ TakeSlot(Identity[r])
    /\ dispatching' = dispatching \cup {r}
    /\ UNCHANGED <<waiting, admitted, reconciled, releases, leases, journal>>

DispatchRegister(r) ==
    /\ r \in dispatching
    /\ Register(r)
    /\ dispatching' = dispatching \ {r}
    /\ UNCHANGED <<conditions, waiting, reconciled, leases, journal>>

ReserveChild(r) ==
    /\ r \in Child /\ journal[r] \in {"none", "running"}
    /\ ~IsAdmitted(r) /\ ~IsReconciled(r)
    /\ HasRoom(Identity[r], NoRun)
    /\ TakeSlot(Identity[r])
    /\ Register(r)
    /\ UNCHANGED <<waiting, dispatching, reconciled, leases, journal>>

\* The starter creates the run's journal, some time after the admission.
CreateJournal(r) ==
    /\ journal[r] = "none" /\ IsAdmitted(r)
    /\ journal' = [journal EXCEPT ![r] = "running"]
    /\ UNCHANGED <<conditions, waiting, dispatching, admitted, reconciled, releases, leases>>

\* Mutant of releaseAdmissionOwner: the generation is not compared.
releaseAnyGeneration(r, g) ==
    /\ releases[r][g] > 0
    /\ releases' = [releases EXCEPT ![r][g] = @ - 1]
    /\ LET a == admitted[r] IN
       IF a.generation = 0
       THEN UNCHANGED <<conditions, waiting, admitted>>
       ELSE IF a.owners > 1 \/ a.retained
       THEN /\ admitted' = [admitted EXCEPT ![r].owners = @ - 1]
            /\ UNCHANGED <<conditions, waiting>>
       ELSE EndAdmission(r)
    /\ UNCHANGED <<dispatching, reconciled, leases, journal>>

\* An owner of generation g of run r calls its release function.
releaseAdmissionOwner(r, g) ==
    /\ releases[r][g] > 0
    /\ releases' = [releases EXCEPT ![r][g] = @ - 1]
    /\ LET a == admitted[r] IN
       IF a.generation # g
       THEN UNCHANGED <<conditions, waiting, admitted>>
       ELSE IF a.owners > 1 \/ a.retained
       THEN /\ admitted' = [admitted EXCEPT ![r].owners = @ - 1]
            /\ UNCHANGED <<conditions, waiting>>
       ELSE EndAdmission(r)
    /\ UNCHANGED <<dispatching, reconciled, leases, journal>>

-----------------------------------------------------------------------------
(* Interventions and force release.                                         *)

\* A suspended or restored run is refused; a live one gets another owner.
ReserveContinuation(r) ==
    /\ r \in Intervened /\ journal[r] # "none" /\ r \notin Child
    /\ \/ /\ IsAdmitted(r) /\ ~admitted[r].suspended
          /\ admitted[r].owners < MaxOwners
          /\ admitted' = [admitted EXCEPT ![r].owners = @ + 1]
          /\ releases' = [releases EXCEPT ![r][admitted[r].generation] = @ + 1]
          /\ UNCHANGED conditions
       \/ /\ ~IsAdmitted(r) /\ ~IsReconciled(r)
          /\ HasRoom(Identity[r], NoRun)
          /\ TakeSlot(Identity[r])
          /\ Register(r)
    /\ UNCHANGED <<waiting, dispatching, reconciled, leases, journal>>

RetainContinuation(r) ==
    /\ r \in Intervened /\ IsAdmitted(r)
    /\ admitted' = [admitted EXCEPT ![r].retained = TRUE]
    /\ UNCHANGED <<conditions, waiting, dispatching, reconciled, releases, leases, journal>>

ReleaseRetainedContinuation(r) ==
    /\ IsAdmitted(r) /\ admitted[r].retained
    /\ IF admitted[r].owners > 0
       THEN /\ admitted' = [admitted EXCEPT ![r].retained = FALSE]
            /\ UNCHANGED <<conditions, waiting>>
       ELSE EndAdmission(r)
    /\ UNCHANGED <<dispatching, reconciled, releases, leases, journal>>

(* ReleaseRun, called by watchdogs and cancellation after they terminalized *)
(* the run.                                                                 *)
ReleaseRun(r) ==
    /\ IsAdmitted(r) \/ IsReconciled(r)
    /\ journal' = [journal EXCEPT ![r] = "terminal"]
    /\ admitted' = [admitted EXCEPT ![r] = NoAdmission]
    /\ reconciled' = [reconciled EXCEPT ![r] = "none"]
    /\ ClearContinuationClaim(r)
    /\ IF (IsAdmitted(r) /\ ~admitted[r].suspended) \/ reconciled[r] = "active"
       THEN ReleaseWorkflow(Identity[r])
       ELSE UNCHANGED conditions
    /\ UNCHANGED <<dispatching, releases, leases>>

-----------------------------------------------------------------------------
(* Parents that wait for a child.  The host records the wait durably, then  *)
(* lends the slot; when the child is done it takes a slot back, then        *)
(* records that the parent goes on.                                         *)

Executing(r) ==
    \/ IsAdmitted(r) /\ admitted[r].owners > 0 /\ ~admitted[r].suspended
    \/ reconciled[r] = "active"

Park(r) ==
    /\ journal[r] = "running" /\ r \notin Child /\ Executing(r)
    /\ journal' = [journal EXCEPT ![r] = "parked"]
    /\ UNCHANGED <<conditions, waiting, dispatching, admitted, reconciled, releases, leases>>

\* Mutant of SuspendChildParent: a repeated suspension lends the slot again.
SuspendAgain(r) ==
    /\ journal[r] = "parked"
    /\ IsAdmitted(r)
    /\ admitted[r].owners = 1 /\ ~admitted[r].retained
    /\ leases' = leases \cup {<<r, admitted[r].generation>>}
    /\ admitted' = [admitted EXCEPT ![r].suspended = TRUE]
    /\ ReleaseWorkflow(Identity[r])
    /\ UNCHANGED <<waiting, dispatching, reconciled, releases, journal>>

SuspendChildParent(r) ==
    /\ journal[r] = "parked"
    /\ \/ /\ IsAdmitted(r)
          /\ admitted[r].owners = 1 /\ ~admitted[r].retained /\ r \notin Child
          /\ leases' = leases \cup {<<r, admitted[r].generation>>}
          /\ admitted' = [admitted EXCEPT ![r].suspended = TRUE]
          /\ IF admitted[r].suspended THEN UNCHANGED conditions
                                      ELSE ReleaseWorkflow(Identity[r])
          /\ UNCHANGED reconciled
       \/ /\ ~IsAdmitted(r) /\ IsReconciled(r)
          /\ leases' = leases \cup {<<r, 0>>}
          /\ reconciled' = [reconciled EXCEPT ![r] = "parked"]
          /\ IF reconciled[r] = "parked" THEN UNCHANGED conditions
                                         ELSE ReleaseWorkflow(Identity[r])
          /\ UNCHANGED admitted
    /\ UNCHANGED <<waiting, dispatching, releases, journal>>

\* The admission a suspension was made of, and whether its slot is lent.
LeaseCurrent(r, g) == IF g = 0 THEN IsReconciled(r) ELSE admitted[r].generation = g
LeaseSuspended(r, g) ==
    IF g = 0 THEN reconciled[r] = "parked" ELSE LeaseCurrent(r, g) /\ admitted[r].suspended

Unsuspend(r, g) ==
    IF g = 0
    THEN reconciled' = [reconciled EXCEPT ![r] = "active"] /\ UNCHANGED admitted
    ELSE admitted' = [admitted EXCEPT ![r].suspended = FALSE] /\ UNCHANGED reconciled

\* The host asks for the slot: refused it becomes or stays a waiting claim.
Resume(r, g) ==
    /\ <<r, g>> \in leases
    /\ \/ /\ ~LeaseCurrent(r, g)
          /\ ClearContinuationClaim(r)
          /\ leases' = leases \ {<<r, g>>}
          /\ UNCHANGED <<conditions, admitted, reconciled>>
       \/ /\ LeaseSuspended(r, g) /\ HasRoom(Identity[r], r)
          /\ TakeSlot(Identity[r])
          /\ ClearContinuationClaim(r)
          /\ Unsuspend(r, g)
          /\ UNCHANGED leases
       \/ /\ LeaseSuspended(r, g) /\ ~HasRoom(Identity[r], r)
          /\ markContinuationWaiting(r)
          /\ UNCHANGED <<conditions, leases, admitted, reconciled>>
    /\ UNCHANGED <<dispatching, releases, journal>>

\* The resumed parent is recorded as running.
Continued(r, g) ==
    /\ <<r, g>> \in leases
    /\ LeaseCurrent(r, g) /\ ~LeaseSuspended(r, g)
    /\ leases' = leases \ {<<r, g>>}
    /\ journal' = IF journal[r] = "parked" THEN [journal EXCEPT ![r] = "running"] ELSE journal
    /\ UNCHANGED <<conditions, waiting, dispatching, admitted, reconciled, releases>>

\* The wait is cancelled: the host stops asking.
GiveUp(r, g) ==
    /\ <<r, g>> \in leases
    /\ leases' = leases \ {<<r, g>>}
    /\ UNCHANGED <<conditions, waiting, dispatching, admitted, reconciled, releases, journal>>

-----------------------------------------------------------------------------
(* Journals and restarts.                                                   *)

\* The driver of a run records its outcome, also while the slot is lent.
Finish(r) ==
    /\ journal[r] \in {"running", "parked"}
    /\ (IsAdmitted(r) /\ admitted[r].owners > 0) \/ IsReconciled(r)
    /\ journal' = [journal EXCEPT ![r] = "terminal"]
    /\ UNCHANGED <<conditions, waiting, dispatching, admitted, reconciled, releases, leases>>

\* A finished run that nothing refers to any more; its ID stands for a new run.
Forget(r) ==
    /\ journal[r] = "terminal" /\ ~IsAdmitted(r) /\ ~IsReconciled(r)
    /\ journal' = [journal EXCEPT ![r] = "none"]
    /\ UNCHANGED <<conditions, waiting, dispatching, admitted, reconciled, releases, leases>>

\* Startup recovery returned from the run it resumed, or found it terminal.
ReleaseReconciled(r) ==
    /\ IsReconciled(r)
    /\ reconciled' = [reconciled EXCEPT ![r] = "none"]
    /\ IF reconciled[r] = "active" THEN ReleaseWorkflow(Identity[r]) ELSE UNCHANGED conditions
    /\ UNCHANGED <<waiting, dispatching, admitted, releases, leases, journal>>

\* The daemon dies and comes back: ReconcileWorkflows over the run journals.
Seeded(w) == {r \in Run : journal[r] = "running" /\ Identity[r] = w}

Restart ==
    /\ active' = [w \in Workflow |-> Cardinality(Seeded(w))]
    /\ totalActive' = Cardinality({r \in Run : journal[r] = "running"})
    /\ reconciled' = [r \in Run |-> IF journal[r] = "running" THEN "active"
                                    ELSE IF journal[r] = "parked" THEN "parked"
                                    ELSE "none"]
    /\ admitted' = [r \in Run |-> NoAdmission]
    /\ releases' = [r \in Run |-> [g \in Generation |-> 0]]
    /\ leases' = {}
    /\ waiting' = [r \in Run |-> 0]
    /\ dispatching' = {}
    /\ UNCHANGED journal

Init ==
    /\ active = [w \in Workflow |-> 0]
    /\ totalActive = 0
    /\ waiting = [r \in Run |-> 0]
    /\ dispatching = {}
    /\ admitted = [r \in Run |-> NoAdmission]
    /\ reconciled = [r \in Run |-> "none"]
    /\ releases = [r \in Run |-> [g \in Generation |-> 0]]
    /\ leases = {}
    /\ journal = [r \in Run |-> "none"]

\* Runs start, park, resume and finish.
SteadyNext ==
    \/ \E r \in Run : DispatchAdmit(r) \/ DispatchRegister(r) \/ ReserveChild(r)
                      \/ CreateJournal(r)
    \/ \E r \in Run, g \in Generation : releaseAdmissionOwner(r, g)
    \/ \E r \in Run : Park(r) \/ SuspendChildParent(r) \/ Finish(r) \/ Forget(r)
    \/ \E r \in Run, g \in Generation \cup {0} : Resume(r, g) \/ Continued(r, g)

\* What people, watchdogs, time and crashes do to them.
DisturbingNext ==
    \/ \E r \in Run : \/ ReserveContinuation(r) \/ RetainContinuation(r)
                      \/ ReleaseRetainedContinuation(r) \/ ReleaseRun(r)
                      \/ ExpireClaim(r) \/ ReleaseReconciled(r)
    \/ \E r \in Run, g \in Generation \cup {0} : GiveUp(r, g)
    \/ Restart

Next == SteadyNext \/ DisturbingNext

Spec == Init /\ [][Next]_vars

(* Hosts keep asking, registered runs come to an end and are released; the  *)
(* parked parents' own dispatches are not assumed to give up.               *)
Fairness ==
    /\ \A r \in Run : WF_vars(DispatchRegister(r))
    /\ \A r \in Run, g \in Generation :
          WF_vars(releaseAdmissionOwner(r, g) /\ ~admitted[r].suspended)
    /\ \A r \in Run, g \in Generation \cup {0} : WF_vars(Resume(r, g) \/ Continued(r, g))

LiveSpec == Init /\ [][SteadyNext]_vars /\ Fairness

-----------------------------------------------------------------------------
\* Every variable has its type.
TypeOK ==
    /\ active \in [Workflow -> Nat]
    /\ totalActive \in Nat
    /\ waiting \in [Run -> Nat]
    /\ dispatching \subseteq Run
    /\ admitted \in [Run -> Admission]
    /\ reconciled \in [Run -> {"none", "active", "parked"}]
    /\ releases \in [Run -> [Generation -> Nat]]
    /\ leases \subseteq Run \X (Generation \cup {0})
    /\ journal \in [Run -> {"none", "running", "parked", "terminal"}]

\* The runs that occupy a slot.
HoldsSlot(r) ==
    \/ r \in dispatching
    \/ IsAdmitted(r) /\ ~admitted[r].suspended
    \/ reconciled[r] = "active"
Holders == {r \in Run : HoldsSlot(r)}

(* No slot leaks and none is returned twice: the counters are exactly the   *)
(* runs in flight, although releases come late, twice, forced or while the  *)
(* slot is lent to a child (ReleaseWorkflow and all its callers).           *)
SlotsMatchOwners ==
    /\ \A w \in Workflow :
          active[w] = Cardinality({r \in Holders : Identity[r] = w})
    /\ totalActive = Cardinality(Holders)

(* A late release function never takes away another owner's admission: the  *)
(* owners counted are the release functions of this generation that have    *)
(* not been called (releaseAdmissionOwner, nextAdmissionGeneration).        *)
OwnersBacked ==
    \A r \in Run : IsAdmitted(r) =>
       admitted[r].owners = releases[r][admitted[r].generation]

(* Once a waiting parent could take its slot, nobody takes it from under    *)
(* it: it can still resume after any step that leaves it waiting            *)
(* (heldByClaims, reserveParentContinuation).                               *)
TurnKept ==
    [][\A r \in Run : r \in Claims /\ r \in Claims' /\ HasRoom(Identity[r], r)
          => HasRoom(Identity[r], r)']_vars

(* A parked parent that keeps asking gets its slot back, however many new   *)
(* runs compete for it.                                                     *)
ParkedParentResumes ==
    \A r \in Run : (r \in Claims) ~> (r \notin Claims)

-----------------------------------------------------------------------------
(* What makes these inductive: a run is in one place, and only a run that    *)
(* has no journal yet, and is no child, is being dispatched.                *)
OnePlace ==
    \A r \in Run :
       /\ r \in dispatching =>
             ~IsAdmitted(r) /\ ~IsReconciled(r) /\ journal[r] = "none" /\ r \notin Child
       /\ IsAdmitted(r) => ~IsReconciled(r)

AdmissionInv == TypeOK /\ OnePlace /\ OwnersBacked /\ SlotsMatchOwners

-----------------------------------------------------------------------------
(* A statement of the code's comments that it does not keep.               *)

(* An ended admission can never resume, so its claim holds nothing: a claim *)
(* belongs to an admission, or its host still asks and will be told so.     *)
ClaimsHaveAdmission ==
    \A r \in Claims :
       \/ IsAdmitted(r) \/ IsReconciled(r)
       \/ \E g \in Generation \cup {0} : <<r, g>> \in leases

=============================================================================
