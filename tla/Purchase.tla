------------------------------ MODULE Purchase ------------------------------
(***************************************************************************)
(* What a PurchasePermit promises once it is approved, seen from outside:  *)
(* it is claimed once, its one checkout is either opened or handed to a    *)
(* human, and an opened checkout is settled by one payment.  It is stated  *)
(* apart from the requests, retries and webhooks that carry it             *)
(* (README.md:35-49; packages/core/src/schemas.ts PaymentOrder.status).    *)
(***************************************************************************)
CONSTANTS Payments, NoPayment

VARIABLES
    phase, payment,
    upset       \* a process died, a database call failed, or the payment is a mock

vars == <<phase, payment, upset>>

Init == phase = "open" /\ payment = NoPayment /\ upset = FALSE

Claim == phase = "open" /\ phase' = "claimed" /\ UNCHANGED payment

OpenCheckout == phase = "claimed" /\ phase' = "payable" /\ UNCHANGED payment

(* The provider's answer is an error or unknown: nothing is retried.        *)
Escalate == phase = "claimed" /\ phase' = "escalated" /\ UNCHANGED payment

Settle(p) == phase = "payable" /\ phase' = "settled" /\ payment' = p

(* When something failed on the way, the report of an error may come after  *)
(* the checkout was opened or settled, and a settlement after the report;   *)
(* but the claim is never undone and the payment never replaced.            *)
Disturbed ==
    /\ upset'
    /\ phase # "open" /\ phase' \in {"payable", "settled", "escalated"}
    /\ payment' \in IF payment = NoPayment THEN Payments \cup {NoPayment} ELSE {payment}

Next ==
    /\ upset' \in {upset, TRUE}
    /\ \/ Claim \/ OpenCheckout \/ Escalate \/ Disturbed
       \/ \E p \in Payments : Settle(p)
       \/ UNCHANGED <<phase, payment>>

Safety == Init /\ [][Next]_vars

(* While nothing failed, a claimed purchase does not stay claimed;          *)
(* everything else is up to the buyer.                                      *)
Spec ==
    /\ Safety
    /\ WF_vars(~upset /\ UNCHANGED upset /\ (OpenCheckout \/ Escalate))
=============================================================================
