---------------------------- MODULE PurchaseSeal ----------------------------
(***************************************************************************)
(* What the Purchase Seal of a browser shopping task promises, seen from   *)
(* outside: observed checkout evidence is offered to the buyer, may be     *)
(* replaced or withdrawn, is approved as it stands, and exactly the        *)
(* approved evidence is executed, once (README.md:106 "Purchase Seals      *)
(* covering product, variant, seller, ... single-use execution").          *)
(***************************************************************************)
CONSTANTS
    Seals,      \* evidence a checkout page may show
    NoSeal      \* no evidence, not one of them

VARIABLES
    offered,    \* the evidence the buyer may approve or has approved
    approved,   \* the evidence that is approved
    executed    \* the evidence the one attempt was claimed with

vars == <<offered, approved, executed>>

Init == offered = NoSeal /\ approved = NoSeal /\ executed = NoSeal

Offer(s) ==
    /\ approved = NoSeal
    /\ offered' = s
    /\ UNCHANGED <<approved, executed>>

(* The product is changed, the selection restarted or the checkout left.    *)
Withdraw ==
    /\ offered' = NoSeal /\ approved' = NoSeal
    /\ UNCHANGED executed

Approve ==
    /\ approved = NoSeal /\ offered # NoSeal
    /\ approved' = offered
    /\ UNCHANGED <<offered, executed>>

Execute ==
    /\ executed = NoSeal /\ approved # NoSeal
    /\ executed' = approved
    /\ offered' = NoSeal /\ approved' = NoSeal

Next == Withdraw \/ Approve \/ Execute \/ \E s \in Seals : Offer(s)

Spec == Init /\ [][Next]_vars
=============================================================================
