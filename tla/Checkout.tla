------------------------------ MODULE Checkout ------------------------------
(***************************************************************************)
(* The checkout of one approved PurchasePermit, as the concurrent requests *)
(* that carry it: SpendSealService.prepareCheckout and verifyPayment       *)
(* (apps/server/src/service.ts), the Razorpay webhook handler (app.ts),    *)
(* the order transactions they run (store.ts) and the merchant's payment   *)
(* configurations.  The provider, the buyer's browser and the merchant's   *)
(* Razorpay dashboard are external.                                        *)
(*                                                                         *)
(* One action is what a request does between two awaits that other         *)
(* requests can interleave with: a read, one transaction, a provider call. *)
(* The revalidation that decides a claim is modelled in Deals; here its    *)
(* outcome is open.  MaxFaults bounds the failures a behaviour contains: a *)
(* process that dies, a database call that fails, a commit whose           *)
(* acknowledgement is lost.                                                *)
(***************************************************************************)
EXTENDS Integers, FiniteSets, Sequences

CONSTANTS
    Requests,       \* calls of prepareCheckout for the permit
    Payments,       \* payment attempts, each with its webhook event
    Adapters,       \* adapters the merchant may configure
    NoRequest, NoPayment,
    MaxConfigs, MaxFaults

ASSUME BoundsAssumption == MaxConfigs \in Nat /\ MaxFaults \in Nat
ASSUME NamesAssumption == NoRequest \notin Requests /\ NoPayment \notin Payments
ASSUME AdaptersAssumption == Adapters \subseteq {"mock", "razorpay"}

VARIABLES
    configs,        \* merchant_payment_configurations, by version; the last is active
    dashboard,      \* the version whose webhook secret Razorpay signs with, per API keys
    permit,         \* the status of the intent_locks row
    order,          \* the payment_orders row
    requests,       \* where each prepareCheckout stands, and the version it read
    providerOrders, \* the orders the provider created, and for which keys
    payments,       \* the provider's payments
    callbacks,      \* where each verifyPayment call of the buyer's browser stands
    webhooks,       \* each payment's event: its delivery, its row, its handler
    faults

vars == <<configs, dashboard, permit, order, requests, providerOrders, payments,
          callbacks, webhooks, faults>>

Versions == 1 .. MaxConfigs
PermitStatuses == {"confirmed", "denied", "expired", "executing", "checkout_ready",
                   "paid", "reconciliation_required"}
OrderStatuses == {"none", "creating", "ready", "paid", "reconciliation_required"}

(* The provider id of an order is the request that had it created;          *)
(* NoRequest is the NULL that mapOrder reads as "pending".                  *)
Order == [status : OrderStatuses, provider : Requests \cup {NoRequest},
          payment : Payments \cup {NoPayment}, version : Versions \cup {0}]
Steps == {"idle", "refreshed", "configured", "claimed", "accepted", "answered",
          "failed", "done", "dead"}
Request == [step : Steps, version : Versions \cup {0}]
Payment == [status : {"none", "failed", "captured"},
            provider : Requests \cup {NoRequest}, secret : Versions \cup {0}]

(* due: Razorpay will deliver again; recorded: the webhook_events row.      *)
Webhook == [due : BOOLEAN, recorded : BOOLEAN, handler : {"idle", "recorded", "found"}]

TypeOK ==
    /\ configs \in Seq([adapter : Adapters, keys : Versions])
    /\ Len(configs) <= MaxConfigs
    /\ dashboard \in [Versions -> Versions \cup {0}]
    /\ permit \in PermitStatuses
    /\ order \in Order
    /\ requests \in [Requests -> Request]
    /\ providerOrders \subseteq [id : Requests, keys : Versions]
    /\ payments \in [Payments -> Payment]
    /\ callbacks \in [Payments -> {"none", "verified", "done"}]
    /\ webhooks \in [Payments -> Webhook]
    /\ faults \in 0 .. MaxFaults

Init ==
    /\ configs = <<>>
    /\ dashboard = [k \in Versions |-> 0]
    /\ permit = "confirmed"
    /\ order = [status |-> "none", provider |-> NoRequest, payment |-> NoPayment,
                version |-> 0]
    /\ requests = [r \in Requests |-> [step |-> "idle", version |-> 0]]
    /\ providerOrders = {}
    /\ payments = [p \in Payments |-> [status |-> "none", provider |-> NoRequest,
                                       secret |-> 0]]
    /\ callbacks = [p \in Payments |-> "none"]
    /\ webhooks = [p \in Payments |-> [due |-> FALSE, recorded |-> FALSE,
                                       handler |-> "idle"]]
    /\ faults = 0

Advance(r, from, to) ==
    /\ requests[r].step = from
    /\ requests' = [requests EXCEPT ![r].step = to]

Fault == faults < MaxFaults /\ faults' = faults + 1

-----------------------------------------------------------------------------
(* prepareCheckout, up to the claim.                                        *)

(* The first reads.  Without an order the Shopify product is fetched again, *)
(* and a failure there ends the request.                                    *)
Begin(r) ==
    /\ \/ Advance(r, "idle", "refreshed")
       \/ order.status = "none" /\ Advance(r, "idle", "done")
    /\ UNCHANGED <<configs, dashboard, permit, order, providerOrders, payments,
                   callbacks, webhooks, faults>>

(* The active configuration, read outside the transaction of the claim.     *)
ReadConfig(r) ==
    /\ requests[r].step = "refreshed"
    /\ requests' = [requests EXCEPT ![r] =
            IF configs = <<>> THEN [@ EXCEPT !.step = "done"]
            ELSE [step |-> "configured", version |-> Len(configs)]]
    /\ UNCHANGED <<configs, dashboard, permit, order, providerOrders, payments,
                   callbacks, webhooks, faults>>

Unpaid == order.status # "paid"                     \* mutant of Unclaimed
Unclaimed == order.status = "none"

LatestVersion(r) == Len(configs)                    \* mutant of ClaimVersion
ClaimVersion(r) == requests[r].version

(* prepareOrderClaim allows the claim.  A permit that was only 'denied' may *)
(* pass the next time: evaluatePurchasePermit does not look at that status. *)
Claim(r) ==
    /\ Unclaimed
    /\ permit # "expired"
    /\ Advance(r, "configured", "claimed")
    /\ order' = [status |-> "creating", provider |-> NoRequest, payment |-> NoPayment,
                 version |-> ClaimVersion(r)]
    /\ permit' = "executing"
    /\ UNCHANGED <<configs, dashboard, providerOrders, payments, callbacks, webhooks,
                   faults>>

DenyClaim(r) ==
    /\ Unclaimed
    /\ Advance(r, "configured", "done")
    /\ permit' \in {"denied", "expired"}
    /\ permit = "expired" => permit' = "expired"
    /\ UNCHANGED <<configs, dashboard, order, providerOrders, payments, callbacks,
                   webhooks, faults>>

(* There is an order: REPLAY_DETECTED, and no second one.                   *)
Replay(r) ==
    /\ ~Unclaimed
    /\ Advance(r, "configured", "done")
    /\ UNCHANGED <<configs, dashboard, permit, order, providerOrders, payments,
                   callbacks, webhooks, faults>>

-----------------------------------------------------------------------------
(* prepareCheckout, from the claim on.                                      *)

(* The provider creates the order, for the keys of the configuration read.  *)
CreateProviderOrder(r) ==
    /\ Advance(r, "claimed", "accepted")
    /\ providerOrders' = providerOrders \cup
            {[id |-> r, keys |-> configs[requests[r].version].keys]}
    /\ UNCHANGED <<configs, dashboard, permit, order, payments, callbacks, webhooks,
                   faults>>

Swallowed == "done"                                 \* mutant of AfterError
AfterError == "failed"

(* It refused it, or the answer did not come within ten seconds: the caller *)
(* cannot tell, and both end in the same catch clause.                      *)
ProviderFails(r) ==
    /\ \/ Advance(r, "claimed", AfterError)
       \/ Advance(r, "accepted", AfterError)
    /\ configs[requests[r].version].adapter = "razorpay"
    /\ UNCHANGED <<configs, dashboard, permit, order, providerOrders, payments,
                   callbacks, webhooks, faults>>

ProviderAnswers(r) ==
    /\ Advance(r, "accepted", "answered")
    /\ UNCHANGED <<configs, dashboard, permit, order, providerOrders, payments,
                   callbacks, webhooks, faults>>

Misnamed(r) ==                                      \* mutant of Completed
    [order EXCEPT !.provider = r, !.status = "checkout_ready"]
Completed(r) == [order EXCEPT !.provider = r, !.status = "ready"]

AfterComplete(acknowledged) == IF acknowledged THEN "done" ELSE "failed"

(* completeOrder overwrites the status whatever it is.  When only the       *)
(* acknowledgement of the commit is lost the catch clause runs as well.     *)
CompleteOrder(r, acknowledged) ==
    /\ Advance(r, "answered", AfterComplete(acknowledged))
    /\ order' = Completed(r)
    /\ permit' = "checkout_ready"
    /\ IF acknowledged THEN UNCHANGED faults ELSE Fault
    /\ UNCHANGED <<configs, dashboard, providerOrders, payments, callbacks, webhooks>>

CompleteOrderFails(r) ==
    /\ Advance(r, "answered", "failed")
    /\ Fault
    /\ UNCHANGED <<configs, dashboard, permit, order, providerOrders, payments,
                   callbacks, webhooks>>

(* The catch clause: markReconciliation, also unconditional.                *)
MarkReconciliation(r) ==
    /\ Advance(r, "failed", "done")
    /\ order' = [order EXCEPT !.status = "reconciliation_required"]
    /\ permit' = "reconciliation_required"
    /\ UNCHANGED <<configs, dashboard, providerOrders, payments, callbacks, webhooks,
                   faults>>

(* The function is stopped, or a statement outside the try block throws.    *)
Crash(r) ==
    /\ requests[r].step \notin {"idle", "done", "dead"}
    /\ Advance(r, requests[r].step, "dead")
    /\ Fault
    /\ UNCHANGED <<configs, dashboard, permit, order, providerOrders, payments,
                   callbacks, webhooks>>

PrepareCheckout(r) ==
    \/ ReadConfig(r) \/ Claim(r) \/ DenyClaim(r) \/ Replay(r)
    \/ CreateProviderOrder(r) \/ ProviderFails(r) \/ ProviderAnswers(r)
    \/ CompleteOrder(r, TRUE) \/ MarkReconciliation(r)

-----------------------------------------------------------------------------
(* The payment and the two ways it is reported.                             *)

(* On the checkout page of a known provider order the buyer tries to pay.   *)
(* Razorpay captures one payment per order, and sends an event for every    *)
(* attempt, signed with the secret its dashboard has by then.               *)
Pay(p, status) ==
    /\ payments[p].status = "none" /\ callbacks[p] = "none"
    /\ order.provider # NoRequest
    /\ configs[order.version].adapter = "razorpay"
    /\ \A q \in Payments : payments[q].status # "captured"
    /\ LET secret == dashboard[configs[order.version].keys]
       IN  /\ payments' = [payments EXCEPT ![p] =
                [status |-> status, provider |-> order.provider, secret |-> secret]]
           /\ webhooks' = [webhooks EXCEPT ![p].due = secret # 0]
    /\ UNCHANGED <<configs, dashboard, permit, order, requests, providerOrders,
                   callbacks, faults>>

(* verifyPayment: the order, its status and the signature are checked       *)
(* before markPaid and outside its transaction.                             *)
VerifyPayment(p) ==
    /\ callbacks[p] = "none"
    /\ payments[p].status = "captured"
    /\ order.provider = payments[p].provider
    /\ callbacks' = [callbacks EXCEPT ![p] = IF order.status = "paid" THEN "done"
                                             ELSE "verified"]
    /\ UNCHANGED <<configs, dashboard, permit, order, requests, providerOrders,
                   payments, webhooks, faults>>

(* completeMockPayment makes a payment id of its own, signs it for the id   *)
(* the order has, "pending" included, and calls verifyPayment.              *)
CompleteMockPayment(p) ==
    /\ callbacks[p] = "none" /\ payments[p].status = "none"
    /\ order.status \notin {"none", "paid"}
    /\ configs[order.version].adapter = "mock"
    /\ callbacks' = [callbacks EXCEPT ![p] = "verified"]
    /\ UNCHANGED <<configs, dashboard, permit, order, requests, providerOrders,
                   payments, webhooks, faults>>

NewestPayment(p) == p                               \* mutant of PaymentOf
PaymentOf(p) == IF order.payment = NoPayment THEN p ELSE order.payment

(* markPaid: unconditional but for the payment id, which is kept.           *)
MarkPaid(p) ==
    /\ order' = [order EXCEPT !.status = "paid", !.payment = PaymentOf(p)]
    /\ permit' = "paid"

VerifiedMarkPaid(p) ==
    /\ callbacks[p] = "verified"
    /\ MarkPaid(p)
    /\ callbacks' = [callbacks EXCEPT ![p] = "done"]
    /\ UNCHANGED <<configs, dashboard, requests, providerOrders, payments, webhooks,
                   faults>>

(* A delivery is refused unless it is signed with the active secret: it     *)
(* changes nothing here and Razorpay tries again.                           *)
Trusted(p) ==
    /\ configs[Len(configs)].adapter = "razorpay"
    /\ payments[p].secret = Len(configs)

(* The handler's first transaction takes the event id.  The configuration   *)
(* is read just before it; reading it in the same step leaves out only that *)
(* the secret is rotated in between ...                                     *)
DeliverWebhook(p) ==
    /\ webhooks[p].due /\ ~webhooks[p].recorded
    /\ Trusted(p)
    /\ webhooks' = [webhooks EXCEPT ![p].recorded = TRUE, ![p].handler = "recorded"]
    /\ UNCHANGED <<configs, dashboard, permit, order, requests, providerOrders,
                   payments, callbacks, faults>>

(* ... and every other delivery of the event is answered 200 at once.       *)
DeliverDuplicate(p) ==
    /\ webhooks[p].due /\ webhooks[p].recorded
    /\ Trusted(p)
    /\ webhooks' = [webhooks EXCEPT ![p].due = FALSE]
    /\ UNCHANGED <<configs, dashboard, permit, order, requests, providerOrders,
                   payments, callbacks, faults>>

AnyEvent(p) == TRUE                                 \* mutant of IsCapture
IsCapture(p) == payments[p].status = "captured"

IsCreating == order.status = "creating"             \* mutant of AwaitsPayment
AwaitsPayment == order.status # "paid"

(* Then it reads the order ...                                              *)
LookupOrder(p) ==
    /\ webhooks[p].handler = "recorded"
    /\ webhooks' = [webhooks EXCEPT ![p] =
            IF IsCapture(p) /\ order.provider = payments[p].provider /\ AwaitsPayment
            THEN [@ EXCEPT !.handler = "found"]
            ELSE [@ EXCEPT !.handler = "idle", !.due = FALSE]]
    /\ UNCHANGED <<configs, dashboard, permit, order, requests, providerOrders,
                   payments, callbacks, faults>>

(* ... and marks it paid in a transaction of its own.                       *)
WebhookMarkPaid(p) ==
    /\ webhooks[p].handler = "found"
    /\ MarkPaid(p)
    /\ webhooks' = [webhooks EXCEPT ![p].handler = "idle", ![p].due = FALSE]
    /\ UNCHANGED <<configs, dashboard, requests, providerOrders, payments, callbacks,
                   faults>>

(* The handler dies after it recorded the event: no 200, so the provider    *)
(* will deliver again, but the row is there.                                *)
HandlerFails(p) ==
    /\ webhooks[p].handler # "idle"
    /\ webhooks' = [webhooks EXCEPT ![p].handler = "idle"]
    /\ Fault
    /\ UNCHANGED <<configs, dashboard, permit, order, requests, providerOrders,
                   payments, callbacks>>

HandleWebhook(p) ==
    DeliverWebhook(p) \/ DeliverDuplicate(p) \/ LookupOrder(p) \/ WebhookMarkPaid(p)

-----------------------------------------------------------------------------
(* The merchant.                                                            *)

(* configurePayments: the mock adapter again is no change; Razorpay is a    *)
(* new version with new keys and a new webhook secret.                      *)
ConfigurePayments(adapter) ==
    /\ Len(configs) < MaxConfigs
    /\ ~(adapter = "mock" /\ configs # <<>> /\ configs[Len(configs)].adapter = "mock")
    /\ configs' = Append(configs, [adapter |-> adapter, keys |-> Len(configs) + 1])
    /\ UNCHANGED <<dashboard, permit, order, requests, providerOrders, payments,
                   callbacks, webhooks, faults>>

(* rotateRazorpayWebhookSecret: a new secret with the keys of the version   *)
(* it read, in a statement before: another may have become active since.    *)
(* (configurePayments takes nothing from its read: only "mock again" is     *)
(* told from it, and a late one would be one more version of the mock.)     *)
RotateWebhookSecret ==
    /\ Len(configs) < MaxConfigs
    /\ \E v \in DOMAIN configs :
        /\ configs[v].adapter = "razorpay"
        /\ configs' = Append(configs, configs[v])
    /\ UNCHANGED <<dashboard, permit, order, requests, providerOrders, payments,
                   callbacks, webhooks, faults>>

(* The merchant registers the active secret in the Razorpay dashboard.      *)
RegisterSecret ==
    /\ configs # <<>> /\ configs[Len(configs)].adapter = "razorpay"
    /\ dashboard' = [dashboard EXCEPT ![configs[Len(configs)].keys] = Len(configs)]
    /\ UNCHANGED <<configs, permit, order, requests, providerOrders, payments,
                   callbacks, webhooks, faults>>

Next ==
    \/ \E r \in Requests :
        \/ Begin(r) \/ PrepareCheckout(r)
        \/ CompleteOrder(r, FALSE) \/ CompleteOrderFails(r) \/ Crash(r)
    \/ \E p \in Payments :
        \/ \E status \in {"failed", "captured"} : Pay(p, status)
        \/ VerifyPayment(p) \/ CompleteMockPayment(p) \/ VerifiedMarkPaid(p)
        \/ HandleWebhook(p) \/ HandlerFails(p)
    \/ \E adapter \in Adapters : ConfigurePayments(adapter)
    \/ RotateWebhookSecret
    \/ RegisterSecret

Spec == Init /\ [][Next]_vars

(* A request that was started goes on, the provider answers or times out,   *)
(* and delivers its events until they are acknowledged.  What the buyer and *)
(* the merchant do is not assumed, nor that the buyer's browser returns.    *)
FairSpec ==
    /\ Spec
    /\ \A r \in Requests : WF_vars(PrepareCheckout(r))
    /\ \A p \in Payments : WF_vars(HandleWebhook(p))

-----------------------------------------------------------------------------
(* One PurchasePermit has at most one order created at the provider,        *)
(* whatever requests run at once and however they fail (README.md:47;       *)
(* deals.ts:152, store.ts:455).                                             *)
SingleUse == \A a, b \in providerOrders : a = b

(* An order of the real provider is paid only if the provider captured a    *)
(* payment of that very order (README.md:39; app.ts:36, service.ts:98-108). *)
PaidIsCaptured ==
    order.status = "paid" /\ configs[order.version].adapter = "razorpay" =>
        \E p \in Payments :
            /\ payments[p].status = "captured"
            /\ payments[p].provider = order.provider
            /\ order.payment = p

(* The order records the configuration its provider order was created with  *)
(* (README.md:287): the version is read before the claim and used after it, *)
(* while the merchant may change the configuration.                         *)
RightConfiguration ==
    \A a \in providerOrders : a.keys = configs[order.version].keys

(* An order that exists at Razorpay is known to its row, flagged for a      *)
(* human, or with a request that still handles it or whose process died: no *)
(* error is swallowed (service.ts:76-84) and no flag is lost.               *)
NoSilentOrphan ==
    \A a \in providerOrders : configs[order.version].adapter = "razorpay" =>
        \/ order.provider = a.id
        \/ order.status = "reconciliation_required"
        \/ requests[a.id].step \in {"accepted", "answered", "failed", "dead"}

(* The payment id an order has is never replaced by another (store.ts:503): *)
(* the webhook, the browser and repeated mock completions race to set it.   *)
PaymentKept ==
    [][order.payment # NoPayment => order'.payment = order.payment]_vars

(* The order is the mock adapter's, or something failed.                    *)
Upset == faults > 0 \/ (order.version # 0 /\ configs[order.version].adapter = "mock")

(* A payment captured under the active webhook secret is recorded, whether  *)
(* or not the buyer's browser comes back, unless the merchant changes the   *)
(* secret first (docs/demo-script.md:174, README.md:285).                   *)
CapturedIsRecorded ==
    \A p \in Payments :
        (payments[p].status = "captured" /\ payments[p].secret = Len(configs))
            ~> (order.status = "paid" \/ payments[p].secret # Len(configs))

(* The same as long as no handler dies.                                     *)
CapturedIsRecordedCalmly ==
    \A p \in Payments :
        (payments[p].status = "captured" /\ payments[p].secret = Len(configs))
            ~> (order.status = "paid" \/ payments[p].secret # Len(configs) \/ faults > 0)

Phase == [none |-> "open", creating |-> "claimed", ready |-> "payable",
          paid |-> "settled", reconciliation_required |-> "escalated"]

Abstract == INSTANCE Purchase WITH
    phase <- Phase[order.status], payment <- order.payment, upset <- Upset

(* The requests together are the one-shot purchase of module Purchase.      *)
ImplementsPurchase == Abstract!Spec
=============================================================================
