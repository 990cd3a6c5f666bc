------------------------------ MODULE Replica ------------------------------
(***************************************************************************)
(* What replication promises about the copy the dashboard serves: it is    *)
(* never ahead of the ledger, it never goes back, and a server restored    *)
(* from the bucket is never behind it.                                     *)
(***************************************************************************)
EXTENDS Naturals

VARIABLES
    ledger,     \* the state of the ledger; later states are larger
    copy        \* the state of the copy, 0 if there is none yet

vars == <<ledger, copy>>

Init == ledger = 1 /\ copy = 0

Commit == ledger' \in Nat /\ ledger' > ledger /\ UNCHANGED copy

\* Another server goes on from the bucket: what was not published is lost.
Restore == ledger' \in copy .. ledger /\ UNCHANGED copy

Deliver == copy' \in copy .. ledger /\ UNCHANGED ledger

Next == Commit \/ Restore \/ Deliver

Spec == Init /\ [][Next]_vars
=============================================================================
