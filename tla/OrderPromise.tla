---------------------------- MODULE OrderPromise ----------------------------
(***************************************************************************)
(* What the order path promises about each order it decides on, without    *)
(* saying how: the intent is recorded before anything is sent, the order   *)
(* is sent at most once, and what the ledger finally believes is true.     *)
(* The promise is the one of begin_order and _resolve_order: "Write-ahead  *)
(* intent ... BEFORE the POST", "NEVER send it again", "Never sends an     *)
(* order".  An order sent without a recorded intent is disowned: for it    *)
(* the code relies on Kalshi to reject duplicates.                         *)
(***************************************************************************)
CONSTANT Orders

VARIABLES
    request,    \* what became of the request at Kalshi
    belief      \* what the ledger says about it

vars == <<request, belief>>

Init ==
    /\ request = [o \in Orders |-> "unsent"]
    /\ belief = [o \in Orders |-> "nothing"]

Intend(o) ==
    /\ belief[o] = "nothing" /\ request[o] = "unsent"
    /\ belief' = [belief EXCEPT ![o] = "maybe"]
    /\ UNCHANGED request

Send(o) ==
    /\ belief[o] = "maybe" /\ request[o] = "unsent"
    /\ request' = [request EXCEPT ![o] = "open"]
    /\ UNCHANGED belief

\* Kalshi takes the order, or it never will.
Settle(o) ==
    /\ request[o] = "open"
    /\ \E end \in {"landed", "dead"} : request' = [request EXCEPT ![o] = end]
    /\ UNCHANGED belief

\* The ledger makes up its mind, and only about what is certain: positions may
\* confirm several orders at once,
Confirm(S) ==
    /\ \A o \in S : belief[o] = "maybe" /\ request[o] = "landed"
    /\ belief' = [o \in Orders |-> IF o \in S THEN "traded" ELSE belief[o]]
    /\ UNCHANGED request

\* an order is given up by itself.
GiveUp(o) ==
    /\ belief[o] = "maybe" /\ request[o] \in {"unsent", "dead"}
    /\ belief' = [belief EXCEPT ![o] = "not traded"]
    /\ UNCHANGED request

Disown(o) ==
    /\ request' = [request EXCEPT ![o] = "disowned"]
    /\ belief' = [belief EXCEPT ![o] = "disowned"]

Next ==
    \/ \E o \in Orders : Intend(o) \/ Send(o) \/ Settle(o) \/ GiveUp(o) \/ Disown(o)
    \/ \E S \in SUBSET Orders : Confirm(S)

Spec == Init /\ [][Next]_vars
=============================================================================
