--------------------------- MODULE CheckoutProofs ---------------------------
(***************************************************************************)
(* What holds of Checkout for every number of requests, payments, versions *)
(* of the configuration and faults.  The claim of the order row is the one *)
(* thing that makes a purchase single: the invariant says which request    *)
(* has it, and what can exist before and after it.                         *)
(***************************************************************************)
EXTENDS Checkout, SequenceTheorems, TLAPS

(* The steps a request takes only when it has claimed the order.            *)
Claiming == {"claimed", "accepted", "answered", "failed"}

(* Before the claim there is nothing: no provider order, payment or report  *)
(* of one, and no request past it.                                          *)
NothingUnclaimed ==
    order.status = "none" =>
        /\ order.provider = NoRequest /\ order.payment = NoPayment /\ order.version = 0
        /\ providerOrders = {}
        /\ \A r \in Requests : requests[r].step \notin Claiming
        /\ \A p \in Payments : callbacks[p] # "verified"

(* Versions that were read or claimed are those of configurations.          *)
VersionsExist ==
    /\ order.status # "none" => order.version \in 1 .. Len(configs)
    /\ \A r \in Requests : requests[r].step \in Claiming \cup {"configured"} =>
            requests[r].version \in 1 .. Len(configs)

(* One request has the claim, and the provider's order is the one it had    *)
(* created, for the configuration the row records.                          *)
OneClaimant ==
    /\ \A r, s \in Requests :
            requests[r].step \in Claiming /\ requests[s].step \in Claiming => r = s
    /\ \A r \in Requests : requests[r].step \in Claiming =>
            /\ requests[r].version = order.version
            /\ \A a \in providerOrders : a.id = r
            /\ requests[r].step = "claimed" => providerOrders = {}
            /\ requests[r].step \in {"accepted", "answered"} => providerOrders # {}
            /\ requests[r].step # "failed" => order.provider = NoRequest

(* The provider id of the row is that of the provider's one order.          *)
ProviderOrderKnown ==
    /\ SingleUse /\ RightConfiguration
    /\ order.provider # NoRequest => \E a \in providerOrders : a.id = order.provider

(* Payments exist at the provider only, and are for the order of the row; a *)
(* report that passed the checks is of a captured one or of the mock.       *)
ReportsAreTrue ==
    /\ \A p \in Payments : payments[p].status # "none" =>
            /\ order.provider # NoRequest /\ payments[p].provider = order.provider
            /\ configs[order.version].adapter = "razorpay"
    /\ \A p \in Payments : webhooks[p].handler = "found" => payments[p].status = "captured"
    /\ \A p \in Payments :
            callbacks[p] = "verified" /\ configs[order.version].adapter = "razorpay" =>
                payments[p].status = "captured"
    /\ \A p \in Payments :
            order.payment = p /\ configs[order.version].adapter = "razorpay" =>
                payments[p].status = "captured"
    /\ order.status = "paid" => order.payment # NoPayment

CheckoutInvariant ==
    /\ TypeOK /\ NothingUnclaimed /\ VersionsExist /\ OneClaimant
    /\ ProviderOrderKnown /\ ReportsAreTrue /\ NoSilentOrphan

-----------------------------------------------------------------------------
(* Type correctness.                                                        *)

(* The history of configurations is indexed from 1 to its length.           *)
LEMMA ConfigHistory ==
    ASSUME TypeOK
    PROVE  /\ Len(configs) \in Nat
           /\ configs # <<>> => Len(configs) \in 1 .. Len(configs)
           /\ \A v \in 1 .. Len(configs) :
                v \in Versions /\ configs[v] \in [adapter : Adapters, keys : Versions]
  <1>1. configs \in Seq([adapter : Adapters, keys : Versions]) /\ Len(configs) <= MaxConfigs
    BY DEF TypeOK
  <1>2. Len(configs) \in Nat /\ DOMAIN configs = 1 .. Len(configs)
    BY <1>1, LenProperties
  <1>3. configs # <<>> => Len(configs) \in 1 .. Len(configs)
    BY <1>1, <1>2, EmptySeq
  <1>4. \A v \in 1 .. Len(configs) : configs[v] \in [adapter : Adapters, keys : Versions]
    BY <1>1, <1>2, ElementOfSeq
  <1>5. QED
    BY <1>1, <1>2, <1>3, <1>4, BoundsAssumption DEF Versions

(* A step of a request keeps the requests well typed.                       *)
LEMMA AdvanceTyped ==
    ASSUME TypeOK, NEW r \in Requests, NEW from, NEW to \in Steps, Advance(r, from, to)
    PROVE  requests' \in [Requests -> Request]
  BY DEF TypeOK, Advance, Request

(* Counting a fault stays within the bound.                                 *)
LEMMA FaultTyped == ASSUME TypeOK, Fault PROVE faults' \in 0 .. MaxFaults
  BY BoundsAssumption DEF TypeOK, Fault

(* Marking the order paid keeps its row and the permit well typed.          *)
LEMMA MarkPaidTyped ==
    ASSUME TypeOK, NEW p \in Payments, MarkPaid(p)
    PROVE  order' \in Order /\ permit' \in PermitStatuses
  BY DEF TypeOK, MarkPaid, PaymentOf, Order, OrderStatuses, PermitStatuses

(* Every step keeps the rows well typed: the keys a provider order is for   *)
(* and the secret a payment is signed with are those of configurations.     *)
LEMMA TypeOKStep ==
    ASSUME CheckoutInvariant, [Next]_vars
    PROVE  TypeOK'
  <1>0. TypeOK /\ NothingUnclaimed /\ VersionsExist
    BY DEF CheckoutInvariant
  <1>1. ASSUME NEW r \in Requests, Begin(r)
        PROVE  TypeOK'
    BY <1>0, <1>1, AdvanceTyped DEF TypeOK, Begin, Steps
  <1>2. ASSUME NEW r \in Requests, ReadConfig(r)
        PROVE  TypeOK'
    <2>1. requests' \in [Requests -> Request]
      BY <1>0, <1>2, ConfigHistory DEF TypeOK, ReadConfig, Request, Steps
    <2>2. QED
      BY <1>0, <1>2, <2>1 DEF TypeOK, ReadConfig
  <1>3. ASSUME NEW r \in Requests, Claim(r)
        PROVE  TypeOK'
    <2>1. order' \in Order
      BY <1>0, <1>3 DEF TypeOK, Claim, ClaimVersion, Order, OrderStatuses, Request
    <2>2. requests' \in [Requests -> Request]
      BY <1>0, <1>3, AdvanceTyped DEF Claim, Steps
    <2>3. QED
      BY <1>0, <1>3, <2>1, <2>2 DEF TypeOK, Claim, PermitStatuses
  <1>4. ASSUME NEW r \in Requests, DenyClaim(r)
        PROVE  TypeOK'
    BY <1>0, <1>4, AdvanceTyped DEF TypeOK, DenyClaim, PermitStatuses, Steps
  <1>5. ASSUME NEW r \in Requests, Replay(r)
        PROVE  TypeOK'
    BY <1>0, <1>5, AdvanceTyped DEF TypeOK, Replay, Steps
  <1>6. ASSUME NEW r \in Requests, CreateProviderOrder(r)
        PROVE  TypeOK'
    <2>1. requests[r].version \in 1 .. Len(configs)
      BY <1>0, <1>6 DEF VersionsExist, CreateProviderOrder, Advance, Claiming
    <2>2. configs[requests[r].version].keys \in Versions
      BY <1>0, <2>1, ConfigHistory
    <2>3. QED
      BY <1>0, <1>6, <2>2, AdvanceTyped DEF TypeOK, CreateProviderOrder, Steps
  <1>7. ASSUME NEW r \in Requests, ProviderFails(r)
        PROVE  TypeOK'
    BY <1>0, <1>7, AdvanceTyped DEF TypeOK, ProviderFails, AfterError, Steps
  <1>8. ASSUME NEW r \in Requests, ProviderAnswers(r)
        PROVE  TypeOK'
    BY <1>0, <1>8, AdvanceTyped DEF TypeOK, ProviderAnswers, Steps
  <1>9. ASSUME NEW r \in Requests, NEW acknowledged \in BOOLEAN,
               CompleteOrder(r, acknowledged)
        PROVE  TypeOK'
    <2>1. order' \in Order
      BY <1>0, <1>9 DEF TypeOK, CompleteOrder, Completed, Order, OrderStatuses
    <2>2. requests' \in [Requests -> Request]
      BY <1>0, <1>9, AdvanceTyped DEF CompleteOrder, AfterComplete, Steps
    <2>3. faults' \in 0 .. MaxFaults
      BY <1>0, <1>9, FaultTyped DEF CompleteOrder, TypeOK
    <2>4. QED
      BY <1>0, <1>9, <2>1, <2>2, <2>3 DEF TypeOK, CompleteOrder, PermitStatuses
  <1>10. ASSUME NEW r \in Requests, CompleteOrderFails(r)
         PROVE  TypeOK'
    BY <1>0, <1>10, AdvanceTyped, FaultTyped DEF TypeOK, CompleteOrderFails, Steps
  <1>11. ASSUME NEW r \in Requests, MarkReconciliation(r)
         PROVE  TypeOK'
    <2>1. order' \in Order
      BY <1>0, <1>11 DEF TypeOK, MarkReconciliation, Order, OrderStatuses
    <2>2. QED
      BY <1>0, <1>11, <2>1, AdvanceTyped
      DEF TypeOK, MarkReconciliation, PermitStatuses, Steps
  <1>12. ASSUME NEW r \in Requests, Crash(r)
         PROVE  TypeOK'
    BY <1>0, <1>12, AdvanceTyped, FaultTyped DEF TypeOK, Crash, Steps
  <1>13. ASSUME NEW p \in Payments, NEW status \in {"failed", "captured"}, Pay(p, status)
         PROVE  TypeOK'
    <2> DEFINE secret == dashboard[configs[order.version].keys]
    <2>1. order.version \in 1 .. Len(configs)
      BY <1>0, <1>13 DEF NothingUnclaimed, VersionsExist, Pay
    <2>2. secret \in Versions \cup {0}
      BY <1>0, <2>1, ConfigHistory DEF TypeOK
    <2>3. /\ payments' = [payments EXCEPT ![p] =
                [status |-> status, provider |-> order.provider, secret |-> secret]]
          /\ webhooks' = [webhooks EXCEPT ![p].due = secret # 0]
      BY <1>13 DEF Pay
    <2> HIDE DEF secret
    <2>4. payments' \in [Payments -> Payment]
      BY <1>0, <2>2, <2>3 DEF TypeOK, Payment, Order
    <2>5. webhooks' \in [Payments -> Webhook]
      BY <1>0, <2>3 DEF TypeOK, Webhook
    <2>6. QED
      BY <1>0, <1>13, <2>4, <2>5 DEF TypeOK, Pay
  <1>14. ASSUME NEW p \in Payments,
                VerifyPayment(p) \/ CompleteMockPayment(p)
         PROVE  TypeOK'
    BY <1>0, <1>14 DEF TypeOK, VerifyPayment, CompleteMockPayment
  <1>15. ASSUME NEW p \in Payments, VerifiedMarkPaid(p)
         PROVE  TypeOK'
    BY <1>0, <1>15, MarkPaidTyped DEF TypeOK, VerifiedMarkPaid
  <1>16. ASSUME NEW p \in Payments, HandleWebhook(p)
         PROVE  TypeOK'
    <2>1. CASE DeliverWebhook(p) \/ DeliverDuplicate(p)
      <3>1. /\ [webhooks EXCEPT ![p].recorded = TRUE, ![p].handler = "recorded"]
                    \in [Payments -> Webhook]
            /\ [webhooks EXCEPT ![p].due = FALSE] \in [Payments -> Webhook]
        BY <1>0 DEF TypeOK, Webhook
      <3>2. QED
        BY <1>0, <2>1, <3>1 DEF TypeOK, DeliverWebhook, DeliverDuplicate
    <2>2. CASE LookupOrder(p)
      <3>1. PICK row \in Webhook : webhooks' = [webhooks EXCEPT ![p] = row]
        <4>1. /\ [webhooks[p] EXCEPT !.handler = "found"] \in Webhook
              /\ [webhooks[p] EXCEPT !.handler = "idle", !.due = FALSE] \in Webhook
          BY <1>0 DEF TypeOK, Webhook
        <4>2. QED
          BY <2>2, <4>1 DEF LookupOrder
      <3>2. QED
        BY <1>0, <2>2, <3>1 DEF TypeOK, LookupOrder
    <2>3. CASE WebhookMarkPaid(p)
      BY <1>0, <2>3, MarkPaidTyped DEF TypeOK, WebhookMarkPaid, Webhook
    <2>4. QED
      BY <1>16, <2>1, <2>2, <2>3 DEF HandleWebhook
  <1>17. ASSUME NEW p \in Payments, HandlerFails(p)
         PROVE  TypeOK'
    BY <1>0, <1>17, FaultTyped DEF TypeOK, HandlerFails, Webhook
  <1>18. ASSUME NEW adapter \in Adapters, ConfigurePayments(adapter)
         PROVE  TypeOK'
    <2>1. Len(configs) + 1 \in Versions
      BY <1>0, <1>18, ConfigHistory, BoundsAssumption DEF ConfigurePayments, Versions
    <2>2. [adapter |-> adapter, keys |-> Len(configs) + 1]
                \in [adapter : Adapters, keys : Versions]
      BY <2>1
    <2>3. /\ configs' \in Seq([adapter : Adapters, keys : Versions])
          /\ Len(configs') = Len(configs) + 1
      BY <1>0, <1>18, <2>2, AppendProperties DEF TypeOK, ConfigurePayments
    <2>4. QED
      BY <1>0, <1>18, <2>1, <2>3, BoundsAssumption DEF TypeOK, ConfigurePayments, Versions
  <1>19. CASE RotateWebhookSecret
    <2>1. PICK v \in DOMAIN configs : configs' = Append(configs, configs[v])
      BY <1>19 DEF RotateWebhookSecret
    <2> DEFINE c == configs[v]
    <2> HIDE DEF c
    <2>a. c \in [adapter : Adapters, keys : Versions]
      <3>1. DOMAIN configs = 1 .. Len(configs)
        BY <1>0, LenProperties DEF TypeOK
      <3>2. QED
        BY <1>0, <3>1, ConfigHistory DEF c
    <2>b. configs' = Append(configs, c)
      BY <2>1 DEF c
    <2>2. /\ configs' \in Seq([adapter : Adapters, keys : Versions])
          /\ Len(configs') = Len(configs) + 1
      BY <1>0, <2>a, <2>b, AppendProperties DEF TypeOK
    <2>3. QED
      BY <1>0, <1>19, <2>2, BoundsAssumption DEF TypeOK, RotateWebhookSecret
  <1>20. CASE RegisterSecret
    BY <1>0, <1>20, ConfigHistory DEF TypeOK, RegisterSecret
  <1>21. CASE UNCHANGED vars
    BY <1>0, <1>21 DEF TypeOK, vars
  <1>22. QED
    BY <1>1, <1>2, <1>3, <1>4, <1>5, <1>6, <1>7, <1>8, <1>9, <1>10, <1>11, <1>12,
       <1>13, <1>14, <1>15, <1>16, <1>17, <1>18, <1>19, <1>20, <1>21
    DEF Next, PrepareCheckout

-----------------------------------------------------------------------------
(* The invariant.                                                           *)

(* Versions are only added: what a version says never changes.              *)
LEMMA ConfigsKept ==
    ASSUME TypeOK, [Next]_vars
    PROVE  /\ Len(configs') \in Nat /\ Len(configs) <= Len(configs')
           /\ \A v \in 1 .. Len(configs) : configs'[v] = configs[v]
  <1> DEFINE Config == [adapter : Adapters, keys : Int]
  <1>1. configs \in Seq(Config) /\ Len(configs) \in Nat
    <2>1. [adapter : Adapters, keys : Versions] \subseteq Config
      BY DEF Versions
    <2>2. QED
      BY <2>1, LenProperties, SeqMonotonic DEF TypeOK
  <1>2. ASSUME NEW c \in Config, configs' = Append(configs, c)
        PROVE  /\ Len(configs') = Len(configs) + 1
               /\ \A v \in 1 .. Len(configs) : configs'[v] = configs[v]
    BY <1>1, <1>2, AppendProperties
  <1>3. CASE RotateWebhookSecret
    <2>1. PICK v \in DOMAIN configs : configs' = Append(configs, configs[v])
      BY <1>3 DEF RotateWebhookSecret
    <2>2. configs[v] \in Config
      BY <1>1, LenProperties, ElementOfSeq
    <2>3. QED
      BY <1>1, <1>2, <2>1, <2>2
  <1>4. ASSUME NEW adapter \in Adapters, ConfigurePayments(adapter)
        PROVE  /\ Len(configs') \in Nat /\ Len(configs) <= Len(configs')
               /\ \A v \in 1 .. Len(configs) : configs'[v] = configs[v]
    BY <1>1, <1>2, <1>4 DEF ConfigurePayments
  <1>5. CASE configs' = configs
    BY <1>1, <1>5
  <1>6. QED
    BY <1>3, <1>4, <1>5
    DEF Next, vars, Begin, PrepareCheckout, ReadConfig, Claim, DenyClaim, Replay,
        CreateProviderOrder, ProviderFails, ProviderAnswers, CompleteOrder,
        CompleteOrderFails, MarkReconciliation, Crash, Pay, VerifyPayment,
        CompleteMockPayment, VerifiedMarkPaid, HandleWebhook, DeliverWebhook,
        DeliverDuplicate, LookupOrder, WebhookMarkPaid, HandlerFails, RegisterSecret

(* What a step of one request leaves alone.                                 *)
LEMMA AdvanceEffect ==
    ASSUME TypeOK, NEW r \in Requests, NEW from, NEW to, Advance(r, from, to)
    PROVE  /\ requests[r].step = from /\ requests'[r].step = to
           /\ requests'[r].version = requests[r].version
           /\ \A s \in Requests \ {r} : requests'[s] = requests[s]
  BY DEF TypeOK, Request, Advance

(* The invariant is inductive.                                              *)
LEMMA InvariantStep ==
    ASSUME CheckoutInvariant, [Next]_vars
    PROVE  CheckoutInvariant'
  <1> USE DEF CheckoutInvariant
  <1>0. TypeOK'
    BY TypeOKStep
  <1>a. TypeOK /\ NothingUnclaimed /\ VersionsExist /\ OneClaimant
        /\ ProviderOrderKnown /\ ReportsAreTrue /\ NoSilentOrphan
    OBVIOUS
  <1> HIDE DEF CheckoutInvariant
  <1>b. \A a \in providerOrders : a.id \in Requests
    BY <1>a DEF TypeOK
  <1> DEFINE Rest == NothingUnclaimed /\ VersionsExist /\ OneClaimant
                     /\ ProviderOrderKnown /\ ReportsAreTrue /\ NoSilentOrphan
  <1> USE DEF NothingUnclaimed, VersionsExist, OneClaimant, ProviderOrderKnown,
              ReportsAreTrue, NoSilentOrphan, SingleUse, RightConfiguration, Claiming
  <1>1. ASSUME NEW r \in Requests, NEW from \in {"idle", "refreshed", "configured"},
               NEW to \in Steps \ (Claiming \cup {"configured"}),
               Advance(r, from, to),
               UNCHANGED <<configs, order, providerOrders, payments, callbacks, webhooks>>
        PROVE  Rest'
    <2>1. /\ requests[r].step = from /\ requests'[r].step = to
          /\ \A s \in Requests \ {r} : requests'[s] = requests[s]
      BY <1>a, <1>1, AdvanceEffect
    <2>2. NothingUnclaimed' /\ VersionsExist' /\ OneClaimant'
      BY <1>a, <1>1, <2>1
    <2>3. ProviderOrderKnown' /\ ReportsAreTrue' /\ NoSilentOrphan'
      BY <1>a, <1>b, <1>1, <2>1
    <2>4. QED
      BY <2>2, <2>3
  <1>2. ASSUME NEW r \in Requests, ReadConfig(r)
        PROVE  Rest'
    <2>1. /\ requests[r].step = "refreshed"
          /\ \/ requests'[r].step = "done"
             \/ /\ requests'[r].step = "configured"
                /\ requests'[r].version \in 1 .. Len(configs)
          /\ \A s \in Requests \ {r} : requests'[s] = requests[s]
      BY <1>a, <1>2, ConfigHistory DEF TypeOK, Request, ReadConfig
    <2>2. QED
      BY <1>a, <1>2, <2>1 DEF ReadConfig
  <1>3. ASSUME NEW r \in Requests, Claim(r)
        PROVE  Rest'
    <2>1. /\ requests[r].step = "configured" /\ requests'[r].step = "claimed"
          /\ requests'[r].version = requests[r].version
          /\ \A s \in Requests \ {r} : requests'[s] = requests[s]
      BY <1>a, <1>3, AdvanceEffect DEF Claim
    <2>2. /\ order.status = "none"
          /\ order' = [status |-> "creating", provider |-> NoRequest,
                       payment |-> NoPayment, version |-> requests[r].version]
          /\ UNCHANGED <<configs, providerOrders, payments, callbacks, webhooks>>
      BY <1>3 DEF Claim, Unclaimed, ClaimVersion
    <2>3. NothingUnclaimed' /\ VersionsExist' /\ OneClaimant'
      BY <1>a, <2>1, <2>2
    <2>4. ProviderOrderKnown' /\ ReportsAreTrue' /\ NoSilentOrphan'
      BY <1>a, <2>1, <2>2, NamesAssumption
    <2>5. QED
      BY <2>3, <2>4
  <1>4. ASSUME NEW r \in Requests, CreateProviderOrder(r)
        PROVE  Rest'
    <2>1. /\ requests[r].step = "claimed" /\ requests'[r].step = "accepted"
          /\ requests'[r].version = requests[r].version
          /\ \A s \in Requests \ {r} : requests'[s] = requests[s]
      BY <1>a, <1>4, AdvanceEffect DEF CreateProviderOrder
    <2>2. providerOrders' = {[id |-> r, keys |-> configs[order.version].keys]}
      BY <1>a, <1>4, <2>1 DEF CreateProviderOrder
    <2>3. UNCHANGED <<configs, order, payments, callbacks, webhooks>>
      BY <1>4 DEF CreateProviderOrder
    <2>4. order.status # "none" /\ order.provider = NoRequest
      BY <1>a, <2>1
    <2>5. NothingUnclaimed' /\ VersionsExist' /\ OneClaimant'
      BY <1>a, <2>1, <2>2, <2>3, <2>4
    <2>6. ProviderOrderKnown' /\ ReportsAreTrue' /\ NoSilentOrphan'
      BY <1>a, <2>1, <2>2, <2>3, <2>4
    <2>7. QED
      BY <2>5, <2>6
  <1>5. ASSUME NEW r \in Requests, NEW from \in Claiming, NEW to \in Claiming,
               from = "claimed" => to = "failed",
               from # "claimed" => to # "claimed",
               to # "failed" => from # "failed",
               Advance(r, from, to),
               UNCHANGED <<configs, order, providerOrders, payments, callbacks, webhooks>>
        PROVE  Rest'
    <2>1. /\ requests[r].step = from /\ requests'[r].step = to
          /\ requests'[r].version = requests[r].version
          /\ \A s \in Requests \ {r} : requests'[s] = requests[s]
      BY <1>a, <1>5, AdvanceEffect
    <2>2. NothingUnclaimed' /\ VersionsExist' /\ OneClaimant'
      BY <1>a, <1>5, <2>1
    <2>3. ProviderOrderKnown' /\ ReportsAreTrue' /\ NoSilentOrphan'
      BY <1>a, <1>5, <2>1
    <2>4. QED
      BY <2>2, <2>3
  <1>6. ASSUME NEW r \in Requests, NEW acknowledged \in BOOLEAN,
               CompleteOrder(r, acknowledged)
        PROVE  Rest'
    <2>1. /\ requests[r].step = "answered" /\ requests'[r].step \in {"done", "failed"}
          /\ requests'[r].version = requests[r].version
          /\ \A s \in Requests \ {r} : requests'[s] = requests[s]
      BY <1>a, <1>6, AdvanceEffect DEF CompleteOrder, AfterComplete
    <2>2. /\ order'.provider = r /\ order'.status = "ready"
          /\ order'.version = order.version /\ order'.payment = order.payment
      BY <1>a, <1>6 DEF TypeOK, Order, CompleteOrder, Completed
    <2>3. UNCHANGED <<configs, providerOrders, payments, callbacks, webhooks>>
      BY <1>6 DEF CompleteOrder
    <2>4. /\ order.status # "none" /\ order.provider = NoRequest
          /\ providerOrders # {} /\ \A a \in providerOrders : a.id = r
      BY <1>a, <2>1
    <2>5. NothingUnclaimed' /\ VersionsExist' /\ OneClaimant'
      BY <1>a, <2>1, <2>2, <2>3, <2>4
    <2>6. ProviderOrderKnown' /\ NoSilentOrphan'
      BY <1>a, <2>1, <2>2, <2>3, <2>4
    <2>7. ReportsAreTrue'
      BY <1>a, <2>1, <2>2, <2>3, <2>4
    <2>8. QED
      BY <2>5, <2>6, <2>7
  <1>7. ASSUME NEW r \in Requests, MarkReconciliation(r)
        PROVE  Rest'
    <2>1. /\ requests[r].step = "failed" /\ requests'[r].step = "done"
          /\ \A s \in Requests \ {r} : requests'[s] = requests[s]
      BY <1>a, <1>7, AdvanceEffect DEF MarkReconciliation
    <2>2. /\ order'.status = "reconciliation_required"
          /\ order'.provider = order.provider /\ order'.version = order.version
          /\ order'.payment = order.payment
          /\ UNCHANGED <<configs, providerOrders, payments, callbacks, webhooks>>
      BY <1>a, <1>7 DEF TypeOK, Order, MarkReconciliation
    <2>3. order.status # "none"
      BY <1>a, <2>1
    <2>4. NothingUnclaimed' /\ VersionsExist' /\ OneClaimant'
      BY <1>a, <2>1, <2>2, <2>3
    <2>5. ProviderOrderKnown' /\ ReportsAreTrue' /\ NoSilentOrphan'
      BY <1>a, <2>1, <2>2, <2>3
    <2>6. QED
      BY <2>4, <2>5
  <1>8. ASSUME NEW r \in Requests, Crash(r)
        PROVE  Rest'
    <2>1. /\ requests[r].step \notin {"idle", "done", "dead"} /\ requests'[r].step = "dead"
          /\ \A s \in Requests \ {r} : requests'[s] = requests[s]
      BY <1>a, <1>8, AdvanceEffect DEF Crash
    <2>2. UNCHANGED <<configs, order, providerOrders, payments, callbacks, webhooks>>
      BY <1>8 DEF Crash
    <2>3. NothingUnclaimed' /\ VersionsExist' /\ OneClaimant'
      BY <1>a, <2>1, <2>2
    <2>4. ProviderOrderKnown' /\ ReportsAreTrue' /\ NoSilentOrphan'
      BY <1>a, <1>b, <2>1, <2>2
    <2>5. QED
      BY <2>3, <2>4
  <1>9. ASSUME NEW r \in Requests, PrepareCheckout(r) \/ Begin(r) \/ CompleteOrderFails(r)
        PROVE  Rest'
    <2>1. CASE Begin(r)
      BY <2>1, <1>1 DEF Begin, Steps
    <2>2. CASE DenyClaim(r) \/ Replay(r)
      BY <2>2, <1>1 DEF DenyClaim, Replay, Steps
    <2>3. CASE ProviderFails(r) \/ ProviderAnswers(r) \/ CompleteOrderFails(r)
      BY <2>3, <1>5 DEF ProviderFails, AfterError, ProviderAnswers, CompleteOrderFails
    <2>4. QED
      BY <1>2, <1>3, <1>4, <1>6, <1>7, <1>9, <2>1, <2>2, <2>3 DEF PrepareCheckout
  <1>10. ASSUME NEW p \in Payments, NEW status \in {"failed", "captured"}, Pay(p, status)
         PROVE  Rest'
    <2>1. /\ payments[p].status = "none" /\ order.provider # NoRequest
          /\ configs[order.version].adapter = "razorpay"
          /\ payments'[p].status = status /\ payments'[p].provider = order.provider
          /\ \A q \in Payments \ {p} : payments'[q] = payments[q]
          /\ \A q \in Payments : webhooks'[q].handler = webhooks[q].handler
      BY <1>a, <1>10 DEF TypeOK, Webhook, Pay
    <2>2. UNCHANGED <<configs, order, requests, providerOrders, callbacks>>
      BY <1>10 DEF Pay
    <2>3. NothingUnclaimed' /\ VersionsExist' /\ OneClaimant'
      BY <1>a, <2>2
    <2>4. ProviderOrderKnown' /\ NoSilentOrphan'
      BY <1>a, <2>2
    <2>5. ReportsAreTrue'
      BY <1>a, <2>1, <2>2
    <2>6. QED
      BY <2>3, <2>4, <2>5
  <1>11. ASSUME NEW p \in Payments, VerifyPayment(p) \/ CompleteMockPayment(p)
         PROVE  Rest'
    <2>1. /\ callbacks' = [callbacks EXCEPT ![p] = callbacks'[p]]
          /\ callbacks'[p] = "verified" =>
                /\ order.status # "none"
                /\ payments[p].status = "captured" \/ configs[order.version].adapter = "mock"
      BY <1>a, <1>11 DEF TypeOK, VerifyPayment, CompleteMockPayment
    <2>2. UNCHANGED <<configs, order, requests, providerOrders, payments, webhooks>>
      BY <1>11 DEF VerifyPayment, CompleteMockPayment
    <2>3. \A q \in Payments \ {p} : callbacks'[q] = callbacks[q]
      BY <1>a, <2>1 DEF TypeOK
    <2>4. NothingUnclaimed' /\ VersionsExist' /\ OneClaimant'
      BY <1>a, <2>1, <2>2, <2>3
    <2>5. ProviderOrderKnown' /\ ReportsAreTrue' /\ NoSilentOrphan'
      BY <1>a, <2>1, <2>2, <2>3
    <2>6. QED
      BY <2>4, <2>5
  <1>12. ASSUME NEW p \in Payments, MarkPaid(p),
                payments[p].status = "captured" \/ configs[order.version].adapter = "mock",
                order.status # "none",
                \A q \in Payments : callbacks'[q] = "verified" => callbacks[q] = "verified",
                \A q \in Payments : webhooks'[q].handler = "found"
                                        => webhooks[q].handler = "found",
                UNCHANGED <<configs, requests, providerOrders, payments>>
         PROVE  Rest'
    <2>1. /\ order'.status = "paid" /\ order'.provider = order.provider
          /\ order'.version = order.version
          /\ order'.payment = IF order.payment = NoPayment THEN p ELSE order.payment
      BY <1>a, <1>12 DEF TypeOK, Order, MarkPaid, PaymentOf
    <2>2. NothingUnclaimed' /\ VersionsExist' /\ OneClaimant'
      BY <1>a, <1>12, <2>1
    <2>3. ProviderOrderKnown'
      BY <1>a, <1>12, <2>1
    <2>4. ReportsAreTrue'
      <3>1. order'.payment # NoPayment
        BY <2>1, NamesAssumption
      <3>2. ASSUME NEW q \in Payments, order'.payment = q,
                   configs'[order'.version].adapter = "razorpay"
            PROVE  payments'[q].status = "captured"
        BY <1>a, <1>12, <2>1, <3>2
      <3>3. QED
        BY <1>a, <1>12, <2>1, <3>1, <3>2
    <2>5. NoSilentOrphan'
      BY <1>a, <1>12, <2>1
    <2>6. QED
      BY <2>2, <2>3, <2>4, <2>5
  <1>13. ASSUME NEW p \in Payments, VerifiedMarkPaid(p)
         PROVE  Rest'
    <2>1. /\ payments[p].status = "captured" \/ configs[order.version].adapter = "mock"
          /\ order.status # "none"
      <3>1. callbacks[p] = "verified"
        BY <1>13 DEF VerifiedMarkPaid
      <3>2. order.status # "none"
        BY <1>a, <3>1
      <3>3. configs[order.version].adapter \in {"mock", "razorpay"}
        BY <1>a, <3>2, ConfigHistory, AdaptersAssumption
      <3>4. QED
        BY <1>a, <3>1, <3>2, <3>3
    <2>2. \A q \in Payments : callbacks'[q] = "verified" => callbacks[q] = "verified"
      BY <1>a, <1>13 DEF TypeOK, VerifiedMarkPaid
    <2>3. QED
      BY <1>12, <1>13, <2>1, <2>2 DEF VerifiedMarkPaid
  <1>14. ASSUME NEW p \in Payments, DeliverWebhook(p) \/ DeliverDuplicate(p)
                                    \/ LookupOrder(p) \/ HandlerFails(p)
         PROVE  Rest'
    <2>1. UNCHANGED <<configs, order, requests, providerOrders, payments, callbacks>>
      BY <1>14 DEF DeliverWebhook, DeliverDuplicate, LookupOrder, HandlerFails
    <2>2. /\ webhooks'[p].handler = "found" =>
                webhooks[p].handler = "found" \/ payments[p].status = "captured"
          /\ \A q \in Payments \ {p} : webhooks'[q] = webhooks[q]
      <3>1. CASE LookupOrder(p)
        BY <1>a, <3>1 DEF TypeOK, Webhook, LookupOrder, IsCapture
      <3>2. CASE DeliverWebhook(p) \/ DeliverDuplicate(p) \/ HandlerFails(p)
        BY <1>a, <3>2 DEF TypeOK, Webhook, DeliverWebhook, DeliverDuplicate, HandlerFails
      <3>3. QED
        BY <1>14, <3>1, <3>2
    <2>3. NothingUnclaimed' /\ VersionsExist' /\ OneClaimant'
      BY <1>a, <2>1
    <2>4. ProviderOrderKnown' /\ NoSilentOrphan'
      BY <1>a, <2>1
    <2>5. ReportsAreTrue'
      BY <1>a, <2>1, <2>2
    <2>6. QED
      BY <2>3, <2>4, <2>5
  <1>15. ASSUME NEW p \in Payments, WebhookMarkPaid(p)
         PROVE  Rest'
    <2>1. payments[p].status = "captured" /\ order.status # "none"
      BY <1>a, <1>15 DEF WebhookMarkPaid
    <2>2. \A q \in Payments : webhooks'[q].handler = "found" => webhooks[q].handler = "found"
      BY <1>a, <1>15 DEF TypeOK, Webhook, WebhookMarkPaid
    <2>3. QED
      BY <1>12, <1>15, <2>1, <2>2 DEF WebhookMarkPaid
  <1>16. ASSUME UNCHANGED <<order, requests, providerOrders, payments, callbacks, webhooks>>
         PROVE  Rest'
    <2>1. order.status # "none" => configs'[order.version] = configs[order.version]
      BY <1>a, ConfigsKept
    <2>2. NothingUnclaimed' /\ OneClaimant'
      BY <1>a, <1>16
    <2>3. VersionsExist'
      BY <1>a, <1>16, ConfigHistory, ConfigsKept
    <2>4. ProviderOrderKnown' /\ NoSilentOrphan'
      BY <1>a, <1>16, <2>1
    <2>5. ReportsAreTrue'
      BY <1>a, <1>16, <2>1, NamesAssumption
    <2>6. QED
      BY <2>2, <2>3, <2>4, <2>5
  <1>17. Rest'
    <2>1. CASE \E adapter \in Adapters : ConfigurePayments(adapter)
      BY <2>1, <1>16 DEF ConfigurePayments
    <2>2. CASE RotateWebhookSecret \/ RegisterSecret \/ UNCHANGED vars
      BY <2>2, <1>16 DEF RotateWebhookSecret, RegisterSecret, vars
    <2>3. QED
      BY <1>6, <1>8, <1>9, <1>10, <1>11, <1>13, <1>14, <1>15, <2>1, <2>2
      DEF Next, HandleWebhook
  <1>18. QED
    BY <1>0, <1>17 DEF CheckoutInvariant

-----------------------------------------------------------------------------
(* The rows of a checkout are always well typed, and the invariant holds.   *)
THEOREM InvariantHolds == Spec => []CheckoutInvariant
  <1>1. Init => CheckoutInvariant
    <2>1. SUFFICES ASSUME Init PROVE CheckoutInvariant
      OBVIOUS
    <2>2. TypeOK
      BY <2>1, BoundsAssumption, EmptySeq
      DEF Init, TypeOK, PermitStatuses, Order, OrderStatuses, Request, Steps, Payment,
          Webhook
    <2>3. QED
      BY <2>1, <2>2, NamesAssumption
      DEF CheckoutInvariant, Init, NothingUnclaimed, VersionsExist, OneClaimant,
          ProviderOrderKnown, ReportsAreTrue, NoSilentOrphan, SingleUse,
          RightConfiguration, Claiming
  <1>2. CheckoutInvariant /\ [Next]_vars => CheckoutInvariant'
    BY InvariantStep
  <1>3. QED
    BY <1>1, <1>2, PTL DEF Spec

(* TypeOK of Checkout: every row stays in the domain of its columns.        *)
THEOREM TypeCorrect == Spec => []TypeOK
  <1>1. CheckoutInvariant => TypeOK
    BY DEF CheckoutInvariant
  <1>2. QED
    BY <1>1, InvariantHolds, PTL

(* However many requests carry a permit at once, and however they fail, the *)
(* provider creates at most one order for it (deals.ts:152, store.ts:455).  *)
THEOREM SingleUseHolds == Spec => []SingleUse
  <1>1. CheckoutInvariant => SingleUse
    BY DEF CheckoutInvariant, ProviderOrderKnown
  <1>2. QED
    BY <1>1, InvariantHolds, PTL

(* The order row names the configuration its provider order was created     *)
(* with, whatever the merchant configured in between (README.md:287).       *)
THEOREM RightConfigurationHolds == Spec => []RightConfiguration
  <1>1. CheckoutInvariant => RightConfiguration
    BY DEF CheckoutInvariant, ProviderOrderKnown
  <1>2. QED
    BY <1>1, InvariantHolds, PTL

(* An order at Razorpay is known to its row, flagged for a human, or still  *)
(* in the hands of the request that had it created (service.ts:76-84).      *)
THEOREM NoSilentOrphanHolds == Spec => []NoSilentOrphan
  <1>1. CheckoutInvariant => NoSilentOrphan
    BY DEF CheckoutInvariant
  <1>2. QED
    BY <1>1, InvariantHolds, PTL

(* A paid order of the real provider was paid by a payment it captured for  *)
(* that order, by whichever report came first (app.ts:36, service.ts:98).   *)
THEOREM PaidIsCapturedHolds == Spec => []PaidIsCaptured
  <1>1. CheckoutInvariant => PaidIsCaptured
    <2>1. SUFFICES ASSUME CheckoutInvariant, order.status = "paid",
                          configs[order.version].adapter = "razorpay"
                   PROVE  \E p \in Payments : /\ payments[p].status = "captured"
                                              /\ payments[p].provider = order.provider
                                              /\ order.payment = p
      BY DEF PaidIsCaptured
    <2>2. order.payment \in Payments
      BY <2>1 DEF CheckoutInvariant, TypeOK, Order, ReportsAreTrue
    <2>3. payments[order.payment].status = "captured"
      BY <2>1, <2>2 DEF CheckoutInvariant, ReportsAreTrue
    <2>4. QED
      BY <2>1, <2>2, <2>3 DEF CheckoutInvariant, ReportsAreTrue
  <1>2. QED
    BY <1>1, InvariantHolds, PTL

(* The four statements that write the order row.                            *)
LEMMA OrderWrites ==
    ASSUME [Next]_vars
    PROVE  \/ UNCHANGED order
           \/ \E r \in Requests : Claim(r) \/ MarkReconciliation(r)
           \/ \E r \in Requests, acknowledged \in BOOLEAN : CompleteOrder(r, acknowledged)
           \/ \E p \in Payments : VerifiedMarkPaid(p) \/ WebhookMarkPaid(p)
  BY DEF Next, vars, Begin, PrepareCheckout, ReadConfig, DenyClaim, Replay,
         CreateProviderOrder, ProviderFails, ProviderAnswers, CompleteOrderFails, Crash,
         Pay, VerifyPayment, CompleteMockPayment, HandleWebhook, DeliverWebhook,
         DeliverDuplicate, LookupOrder, HandlerFails, ConfigurePayments,
         RotateWebhookSecret, RegisterSecret

(* What each of them leaves in the row.                                     *)
LEMMA OrderUpdates ==
    ASSUME TypeOK
    PROVE  /\ \A r \in Requests, acknowledged \in BOOLEAN : CompleteOrder(r, acknowledged) =>
                order'.status = "ready" /\ order'.provider = r
                /\ order'.payment = order.payment /\ order'.version = order.version
           /\ \A r \in Requests : MarkReconciliation(r) =>
                order'.status = "reconciliation_required" /\ order'.provider = order.provider
                /\ order'.payment = order.payment /\ order'.version = order.version
           /\ \A p \in Payments : VerifiedMarkPaid(p) \/ WebhookMarkPaid(p) =>
                order'.status = "paid" /\ order'.provider = order.provider
                /\ order'.payment = PaymentOf(p) /\ order'.version = order.version
  <1>1. order \in Order
    BY DEF TypeOK
  <1>2. ASSUME NEW r \in Requests, NEW acknowledged \in BOOLEAN,
               CompleteOrder(r, acknowledged)
        PROVE  order'.status = "ready" /\ order'.provider = r
               /\ order'.payment = order.payment /\ order'.version = order.version
    BY <1>1, <1>2 DEF Order, CompleteOrder, Completed
  <1>3. ASSUME NEW r \in Requests, MarkReconciliation(r)
        PROVE  order'.status = "reconciliation_required" /\ order'.provider = order.provider
               /\ order'.payment = order.payment /\ order'.version = order.version
    BY <1>1, <1>3 DEF Order, MarkReconciliation
  <1>4. ASSUME NEW p \in Payments, VerifiedMarkPaid(p) \/ WebhookMarkPaid(p)
        PROVE  order'.status = "paid" /\ order'.provider = order.provider
               /\ order'.payment = PaymentOf(p) /\ order'.version = order.version
    BY <1>1, <1>4 DEF Order, VerifiedMarkPaid, WebhookMarkPaid, MarkPaid
  <1>5. QED
    BY <1>2, <1>3, <1>4

(* A payment id that was recorded stays (store.ts:503), in every step.      *)
THEOREM PaymentKeptHolds == Spec => PaymentKept
  <1>1. ASSUME CheckoutInvariant, [Next]_vars, order.payment # NoPayment
        PROVE  order'.payment = order.payment
    <2>1. order.status # "none" /\ TypeOK
      BY <1>1 DEF CheckoutInvariant, NothingUnclaimed
    <2>2. ASSUME NEW r \in Requests, Claim(r)
          PROVE  FALSE
      BY <2>1, <2>2 DEF Claim, Unclaimed
    <2>3. QED
      BY <1>1, <2>1, <2>2, OrderWrites, OrderUpdates DEF PaymentOf
  <1>2. CheckoutInvariant /\ [Next]_vars
            => [order.payment # NoPayment => order'.payment = order.payment]_vars
    BY <1>1
  <1>3. QED
    BY <1>2, InvariantHolds, PTL DEF Spec, PaymentKept

-----------------------------------------------------------------------------
(* The refinement of module Purchase.                                       *)

(* Unless something failed or the payment is the mock adapter's, a claim    *)
(* that is still worked on is an order that is still being created, and an  *)
(* order whose provider order is known is past that and was not flagged.    *)
PhaseFits ==
    /\ \A r \in Requests :
            requests[r].step \in Claiming => order.status = "creating" \/ Upset
    /\ order.status \in {"creating", "reconciliation_required"}
            /\ order.provider # NoRequest => Upset

(* What upset a purchase is not undone.                                     *)
LEMMA UpsetKept ==
    ASSUME CheckoutInvariant, [Next]_vars, Upset
    PROVE  Upset'
  <1>1. TypeOK /\ NothingUnclaimed /\ VersionsExist
    BY DEF CheckoutInvariant
  <1>2. CASE faults > 0
    <2>1. faults \in Nat
      BY <1>1 DEF TypeOK
    <2>2. faults' = faults \/ faults' = faults + 1
      BY DEF Next, vars, Begin, PrepareCheckout, ReadConfig, Claim, DenyClaim, Replay,
             CreateProviderOrder, ProviderFails, ProviderAnswers, CompleteOrder, Fault,
             CompleteOrderFails, MarkReconciliation, Crash, Pay, VerifyPayment,
             CompleteMockPayment, VerifiedMarkPaid, HandleWebhook, DeliverWebhook,
             DeliverDuplicate, LookupOrder, WebhookMarkPaid, HandlerFails,
             ConfigurePayments, RotateWebhookSecret, RegisterSecret
    <2>3. QED
      BY <1>2, <2>1, <2>2 DEF Upset
  <1>3. CASE order.version # 0 /\ configs[order.version].adapter = "mock"
    <2>1. order.status # "none" /\ order.version \in 1 .. Len(configs)
      BY <1>1, <1>3 DEF NothingUnclaimed, VersionsExist
    <2>2. order'.version = order.version
      BY <1>1, <2>1, OrderWrites, OrderUpdates DEF Claim, Unclaimed
    <2>3. configs'[order.version] = configs[order.version]
      BY <1>1, <2>1, ConfigsKept
    <2>4. QED
      BY <1>3, <2>2, <2>3 DEF Upset
  <1>4. QED
    BY <1>2, <1>3 DEF Upset

(* A request is past the claim only because it claimed.                     *)
LEMMA ClaimingBegins ==
    ASSUME TypeOK, [Next]_vars, NEW r \in Requests, requests'[r].step \in Claiming
    PROVE  requests[r].step \in Claiming \/ Claim(r)
  <1>1. SUFFICES ASSUME requests'[r] # requests[r], ~Claim(r)
                 PROVE  requests[r].step \in Claiming
    OBVIOUS
  <1>2. ASSUME NEW s \in Requests, NEW from, NEW to, Advance(s, from, to)
        PROVE  s = r /\ from = requests[r].step /\ to = requests'[r].step
    BY <1>1, <1>2, AdvanceEffect
  <1>3. ASSUME NEW s \in Requests, ReadConfig(s)
        PROVE  FALSE
    BY <1>1, <1>3 DEF TypeOK, Request, ReadConfig, Claiming
  <1>4. ASSUME NEW s \in Requests, Begin(s) \/ DenyClaim(s) \/ Replay(s) \/ Claim(s)
        PROVE  FALSE
    BY <1>1, <1>2, <1>4 DEF Begin, DenyClaim, Replay, Claim, Claiming
  <1>5. ASSUME NEW s \in Requests,
               CreateProviderOrder(s) \/ ProviderFails(s) \/ ProviderAnswers(s)
                \/ CompleteOrder(s, TRUE) \/ CompleteOrder(s, FALSE)
                \/ CompleteOrderFails(s) \/ MarkReconciliation(s)
        PROVE  requests[r].step \in Claiming
    BY <1>2, <1>5
    DEF CreateProviderOrder, ProviderFails, ProviderAnswers, CompleteOrder,
        CompleteOrderFails, MarkReconciliation, Claiming
  <1>6. ASSUME NEW s \in Requests, Crash(s)
        PROVE  FALSE
    BY <1>2, <1>6 DEF Crash, Claiming
  <1>7. CASE UNCHANGED requests
    BY <1>1, <1>7
  <1>8. QED
    BY <1>3, <1>4, <1>5, <1>6, <1>7
    DEF Next, vars, PrepareCheckout, Pay, VerifyPayment, CompleteMockPayment,
        VerifiedMarkPaid, HandleWebhook, DeliverWebhook, DeliverDuplicate, LookupOrder,
        WebhookMarkPaid, HandlerFails, ConfigurePayments, RotateWebhookSecret,
        RegisterSecret

(* A payment of the real provider is settled only on an order whose         *)
(* provider order is known.                                                 *)
LEMMA SettledIsKnown ==
    ASSUME CheckoutInvariant, NEW p \in Payments, VerifiedMarkPaid(p) \/ WebhookMarkPaid(p)
    PROVE  order.status # "none" /\ (order.provider # NoRequest \/ Upset)
  <1>1. TypeOK /\ NothingUnclaimed /\ VersionsExist /\ ReportsAreTrue
    BY DEF CheckoutInvariant
  <1>2. callbacks[p] = "verified" \/ payments[p].status = "captured"
    BY <1>1 DEF VerifiedMarkPaid, WebhookMarkPaid, ReportsAreTrue
  <1>3. order.status # "none"
    BY <1>1, <1>2 DEF NothingUnclaimed, ReportsAreTrue
  <1>4. /\ configs[order.version].adapter \in {"mock", "razorpay"}
        /\ order.version # 0
    <2>1. order.version \in 1 .. Len(configs) /\ Len(configs) \in Nat
      BY <1>1, <1>3, ConfigHistory DEF VersionsExist
    <2>2. configs[order.version] \in [adapter : Adapters, keys : Versions]
      BY <1>1, <2>1, ConfigHistory
    <2>3. configs[order.version].adapter \in {"mock", "razorpay"}
      BY <2>2, AdaptersAssumption
    <2>4. order.version # 0
      BY <2>1
    <2>5. QED
      BY <2>3, <2>4
  <1>5. QED
    BY <1>1, <1>2, <1>3, <1>4 DEF ReportsAreTrue, Upset

(* What ties an order's phase to the disturbances so far is preserved.      *)
LEMMA PhaseFitsStep ==
    ASSUME CheckoutInvariant, PhaseFits, [Next]_vars
    PROVE  PhaseFits'
  <1>1. Upset => Upset'
    BY UpsetKept
  <1>2. \A r \in Requests :
            requests'[r].step \in Claiming => requests[r].step \in Claiming \/ Claim(r)
    BY ClaimingBegins DEF CheckoutInvariant
  <1>3. CASE UNCHANGED order
    <2>1. ASSUME NEW r \in Requests, Claim(r)
          PROVE  order'.status = "creating"
      BY <2>1 DEF Claim
    <2>2. QED
      BY <1>1, <1>2, <1>3, <2>1 DEF PhaseFits
  <1>4. ASSUME NEW r \in Requests, Claim(r)
        PROVE  PhaseFits'
    BY <1>4 DEF Claim, PhaseFits
  <1>5. ASSUME NEW r \in Requests, NEW acknowledged \in BOOLEAN,
               CompleteOrder(r, acknowledged)
        PROVE  PhaseFits'
    <2>1. order'.status = "ready" /\ TypeOK
      BY <1>5, OrderUpdates DEF CheckoutInvariant
    <2>2. ASSUME NEW s \in Requests, requests'[s].step \in Claiming
          PROVE  Upset'
      <3>1. requests[s].step \in Claiming /\ requests[r].step = "answered"
        BY <1>2, <1>5, <2>1, <2>2, AdvanceEffect DEF Claim, CompleteOrder
      <3>2. s = r
        BY <3>1 DEF CheckoutInvariant, OneClaimant, Claiming
      <3>3. ~acknowledged
        BY <1>5, <2>1, <2>2, <3>2, AdvanceEffect DEF CompleteOrder, AfterComplete, Claiming
      <3>4. QED
        BY <1>5, <2>1, <3>3 DEF CompleteOrder, Fault, Upset, TypeOK
    <2>3. QED
      BY <2>1, <2>2 DEF PhaseFits
  <1>6. ASSUME NEW r \in Requests, MarkReconciliation(r)
        PROVE  PhaseFits'
    <2>1. /\ order'.status = "reconciliation_required" /\ TypeOK
          /\ order'.provider = order.provider
      BY <1>6, OrderUpdates DEF CheckoutInvariant
    <2>2. /\ requests[r].step = "failed" /\ requests'[r].step = "done"
          /\ \A s \in Requests \ {r} : requests'[s] = requests[s]
      BY <1>6, <2>1, AdvanceEffect DEF MarkReconciliation
    <2>3. \A s \in Requests : requests'[s].step \notin Claiming
      BY <2>2 DEF CheckoutInvariant, OneClaimant, Claiming
    <2>4. order.provider # NoRequest => Upset
      BY <2>2 DEF PhaseFits, Claiming
    <2>5. QED
      BY <1>1, <2>1, <2>3, <2>4 DEF PhaseFits
  <1>7. ASSUME NEW p \in Payments, VerifiedMarkPaid(p) \/ WebhookMarkPaid(p)
        PROVE  PhaseFits'
    <2>1. order'.status = "paid"
      BY <1>7, OrderUpdates DEF CheckoutInvariant
    <2>2. requests' = requests
      BY <1>7 DEF VerifiedMarkPaid, WebhookMarkPaid
    <2>3. ASSUME NEW r \in Requests, requests[r].step \in Claiming
          PROVE  Upset
      BY <1>7, <2>3, SettledIsKnown DEF PhaseFits
    <2>4. QED
      BY <1>1, <2>1, <2>2, <2>3 DEF PhaseFits
  <1>8. QED
    BY <1>3, <1>4, <1>5, <1>6, <1>7, OrderWrites

(* The two parts together are inductive.                                    *)
THEOREM PhaseFitsHolds == Spec => [](CheckoutInvariant /\ PhaseFits)
  <1>1. Init => PhaseFits
    BY DEF Init, PhaseFits, Claiming
  <1>2. CheckoutInvariant /\ PhaseFits /\ [Next]_vars => PhaseFits'
    BY PhaseFitsStep
  <1>3. QED
    BY <1>1, <1>2, InvariantHolds, PTL DEF Spec

(* Every step is one of Purchase or leaves the purchase as it is.           *)
LEMMA PurchaseStep ==
    ASSUME CheckoutInvariant, PhaseFits, [Next]_vars
    PROVE  [Abstract!Next]_(Abstract!vars)
  <1> DEFINE phase == Phase[order.status]
  <1>1. TypeOK /\ TypeOK' /\ NothingUnclaimed /\ ReportsAreTrue
    BY TypeOKStep DEF CheckoutInvariant
  <1>2. /\ order.status \in OrderStatuses /\ order'.status \in OrderStatuses
        /\ order.payment \in Payments \cup {NoPayment}
    BY <1>1 DEF TypeOK, Order
  <1>3. Upset' \in {Upset, TRUE}
    BY UpsetKept DEF Upset
  <1>4. ASSUME Upset, order.status # "none",
               order'.status \in {"ready", "paid", "reconciliation_required"},
               \/ order'.payment \in Payments /\ order.payment = NoPayment
               \/ order'.payment = order.payment
        PROVE  Abstract!Disturbed
    <2>1. Upset'
      BY <1>4, UpsetKept
    <2>2. Phase[order.status] # "open"
      BY <1>2, <1>4 DEF Phase, OrderStatuses
    <2>3. Phase[order'.status] \in {"payable", "settled", "escalated"}
      BY <1>4 DEF Phase
    <2>4. order'.payment \in IF order.payment = NoPayment THEN Payments \cup {NoPayment}
                             ELSE {order.payment}
      BY <1>4
    <2>5. QED
      BY <2>1, <2>2, <2>3, <2>4 DEF Abstract!Disturbed
  <1>5. ASSUME Abstract!Claim \/ Abstract!OpenCheckout \/ Abstract!Escalate
               \/ Abstract!Disturbed \/ (\E p \in Payments : Abstract!Settle(p))
               \/ UNCHANGED <<phase, order.payment>>
        PROVE  Abstract!Next
    BY <1>3, <1>5 DEF Abstract!Next
  <1>6. CASE UNCHANGED order
    BY <1>5, <1>6
  <1>7. ASSUME NEW r \in Requests, Claim(r)
        PROVE  Abstract!Claim
    BY <1>1, <1>7 DEF Claim, Unclaimed, NothingUnclaimed, Abstract!Claim, Phase
  <1>8. ASSUME NEW r \in Requests, requests[r].step \in Claiming
        PROVE  order.status # "none" /\ (order.status = "creating" \/ Upset)
    BY <1>1, <1>8 DEF NothingUnclaimed, PhaseFits
  <1>9. ASSUME NEW r \in Requests, NEW acknowledged \in BOOLEAN,
               CompleteOrder(r, acknowledged)
        PROVE  Abstract!OpenCheckout \/ Abstract!Disturbed
    <2>1. requests[r].step \in Claiming
      BY <1>9 DEF CompleteOrder, Advance, Claiming
    <2>2. order'.status = "ready" /\ order'.payment = order.payment
      BY <1>1, <1>9, OrderUpdates
    <2>3. CASE order.status = "creating"
      BY <2>2, <2>3 DEF Abstract!OpenCheckout, Phase
    <2>4. CASE Upset
      BY <1>8, <1>4, <2>1, <2>2, <2>4
    <2>5. QED
      BY <1>8, <2>1, <2>3, <2>4
  <1>10. ASSUME NEW r \in Requests, MarkReconciliation(r)
        PROVE  Abstract!Escalate \/ Abstract!Disturbed
    <2>1. requests[r].step \in Claiming
      BY <1>10 DEF MarkReconciliation, Advance, Claiming
    <2>2. order'.status = "reconciliation_required" /\ order'.payment = order.payment
      BY <1>1, <1>10, OrderUpdates
    <2>3. CASE order.status = "creating"
      BY <2>2, <2>3 DEF Abstract!Escalate, Phase
    <2>4. CASE Upset
      BY <1>8, <1>4, <2>1, <2>2, <2>4
    <2>5. QED
      BY <1>8, <2>1, <2>3, <2>4
  <1>11. ASSUME NEW p \in Payments, VerifiedMarkPaid(p) \/ WebhookMarkPaid(p)
         PROVE  \/ \E q \in Payments : Abstract!Settle(q)
                \/ Abstract!Disturbed \/ UNCHANGED <<phase, order.payment>>
    <2>1. order'.status = "paid" /\ order'.payment = PaymentOf(p)
      BY <1>1, <1>11, OrderUpdates
    <2>2. order.status # "none" /\ (order.provider # NoRequest \/ Upset)
      BY <1>11, SettledIsKnown
    <2>3. PaymentOf(p) \in Payments
      BY <1>2 DEF PaymentOf
    <2>4. CASE order.status = "ready"
      BY <2>1, <2>3, <2>4 DEF Abstract!Settle, Phase
    <2>5. CASE order.status = "paid"
      BY <1>1, <2>1, <2>5 DEF ReportsAreTrue, PaymentOf
    <2>6. CASE order.status \in {"creating", "reconciliation_required"}
      <3>1. Upset
        BY <2>2, <2>6 DEF PhaseFits
      <3>2. QED
        BY <1>4, <2>1, <2>2, <2>3, <3>1 DEF PaymentOf
    <2>7. QED
      BY <1>2, <2>2, <2>4, <2>5, <2>6 DEF OrderStatuses
  <1>12. QED
    BY <1>5, <1>6, <1>7, <1>9, <1>10, <1>11, OrderWrites

(* The requests, retries and reports together do what a Purchase does: it   *)
(* is claimed once, opened or handed to a human, settled by one payment,    *)
(* and only what failed on the way can disturb that order.                  *)
THEOREM ImplementsPurchaseSafety == Spec => Abstract!Safety
  <1>1. Init => Abstract!Init
    BY BoundsAssumption DEF Init, Abstract!Init, Phase, Upset
  <1>2. CheckoutInvariant /\ PhaseFits /\ [Next]_vars => [Abstract!Next]_(Abstract!vars)
    BY PurchaseStep
  <1>3. QED
    BY <1>1, <1>2, PhaseFitsHolds, PTL DEF Spec, Abstract!Safety
=============================================================================
