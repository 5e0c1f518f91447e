------------------------------ MODULE ClaimLease ------------------------------
(***************************************************************************)
(* What a claim promises, whatever keeps it: a lease on an item, which     *)
(* ends by itself, and which nobody obtains while another claimant is      *)
(* inside one.  The claim ledger of one instance and the shared custody of *)
(* several instances are both shown to implement it.                       *)
(***************************************************************************)
EXTENDS Integers

CONSTANTS Item, Claimant

VARIABLES
    now,    \* the clock
    lease   \* lease[i][c]: the deadline up to which c may work on i (0: none)

vars == <<now, lease>>

\* Every variable has its type.
TypeOK ==
    /\ now \in Nat
    /\ lease \in [Item -> [Claimant -> Nat]]

Init ==
    /\ TypeOK
    /\ \A i \in Item, c, d \in Claimant :
          lease[i][c] > now /\ lease[i][d] > now => c = d

\* Nobody but c is inside a lease of i.
FreeFor(i, c) == \A d \in Claimant \ {c} : lease[i][d] <= now

\* Time that was not there before goes to one claimant of a free item.
Granted(i) ==
    \E c \in Claimant :
       /\ FreeFor(i, c)
       /\ \A d \in Claimant \ {c} : lease'[i][d] <= lease[i][d]

\* Releasing, revoking, stopping and lapsing only take time away.
TakenAway(i) == \A c \in Claimant : lease'[i][c] <= lease[i][c]

Next ==
    /\ lease' \in [Item -> [Claimant -> Nat]]
    /\ now' \in Nat /\ now' >= now
    /\ \A i \in Item : TakenAway(i) \/ Granted(i)

Spec == Init /\ [][Next]_vars

-----------------------------------------------------------------------------
(* One claimant at a time: two claimants are never both inside a lease of   *)
(* one item.                                                                *)
Exclusive ==
    \A i \in Item, c, d \in Claimant :
       lease[i][c] > now /\ lease[i][d] > now => c = d

=============================================================================
