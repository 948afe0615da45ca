------------------------------- MODULE Deals -------------------------------
(***************************************************************************)
(* The negotiated purchase of one product, as the PostgreSQL transactions  *)
(* that carry it: price negotiation (apps/server/src/deals.ts), merchant   *)
(* policy and catalogue changes, the negotiated PurchasePermit and its     *)
(* passkey approval, and the claim of its single payment order             *)
(* (apps/server/src/store.ts).                                             *)
(*                                                                         *)
(* One action is one committed transaction: its FOR UPDATE and its foreign *)
(* keys lock the rows it read and used, and one that throws is rolled back *)
(* (db/client.ts:48-61), whatever it had updated before, and is no step.   *)
(* start is the exception.  Nothing locks what its checks read, so two     *)
(* starts of one buyer overlap: StartReads is the checks, Start the INSERT *)
(* and the COMMIT, StartFails the rollback.                                *)
(*                                                                         *)
(* Time is counted in ticks of five minutes.  A permit, and its order, are *)
(* identified by the deal they belong to: the idempotency key              *)
(* deal_intent_<deal> and payment_orders.intent_lock_id are unique.        *)
(***************************************************************************)
EXTENDS Negotiation, FiniteSets, Sequences

CONSTANTS
    Buyers,         \* the buyers bargaining over the product
    DealIds,        \* row ids deal_sessions may use
    Prices,         \* public prices a catalogue revision may carry
    Minimums,       \* private minimums a merchant may try to save
    Ceilings,       \* buyerMaxTotalPaise a buyer may give
    Offers,         \* offers a buyer may make
    Keys,           \* idempotency keys a caller may choose
    NoBuyer,        \* the buyer of a row that does not exist
    Starters,       \* connections of the pool that may run a start
    DealTtl,        \* life of a deal: 10 minutes
    SessionTtl,     \* life of an approval session: 5 minutes
    KeyWindow,      \* window of the default idempotency key: 10 minutes
    LimitWindow,    \* window of the session limit: 24 hours
    SessionLimit,   \* deals a buyer may start per window: 3
    MaxNow, MaxRevisions, MaxPolicies   \* bounds of the three counters

ASSUME AmountsAssumption ==
    /\ Prices \subseteq Nat \ {0} /\ Minimums \subseteq Nat \ {0}
    /\ Ceilings \subseteq Nat \ {0} /\ Offers \subseteq Nat \ {0}
ASSUME DurationsAssumption ==
    /\ DealTtl \in Nat \ {0} /\ SessionTtl \in Nat \ {0} /\ KeyWindow \in Nat \ {0}
    /\ LimitWindow \in Nat /\ SessionLimit \in Nat \ {0} /\ MaxNow \in Nat
    /\ MaxRevisions \in Nat /\ MaxPolicies \in Nat
ASSUME BuyerAssumption == NoBuyer \notin Buyers
ASSUME StartersAssumption == IsFiniteSet(Starters)

VARIABLES
    now,        \* the database clock
    revisions,  \* product_revisions: the last one is the product's current row
    policies,   \* merchant_deal_policies: immutable rows, indexed by version
    deals,      \* deal_sessions and their deal_rounds
    permits,    \* the negotiated intent_locks row of a deal, its approval session
    orders,     \* the payment_orders row of a deal's permit
    starting    \* the start a connection is in: what its checks have read

vars == <<now, revisions, policies, deals, permits, orders, starting>>

Adapters == {"mock", "razorpay"}
OpenStatuses == {"negotiating", "accepted", "permit_created"}
DealStatuses == OpenStatuses \cup
    {"none", "rejected", "expired", "invalidated", "paid", "reconciliation_required"}
ReplayStatuses == {"executing", "checkout_ready", "paid", "reconciliation_required"}
AwaitingStatuses == {"pending_confirmation", "confirmed"}
PermitStatuses == {"none", "denied", "expired"} \cup AwaitingStatuses \cup ReplayStatuses
OrderStatuses == {"none", "creating", "ready", "paid", "reconciliation_required"}

(* The key start() derives when its caller gives none, and a caller's own.  *)
DefaultKey(max, offer, time) == <<max, offer, time \div KeyWindow>>
AllKeys == Keys \cup (Nat \X Nat \X Nat)

(* A deal row: offers is its deal_rounds in sequence, price its accepted    *)
(* price and lastCounter its last merchant counter, 0 while NULL.           *)
Deal == [status : DealStatuses, buyer : Buyers \cup {NoBuyer}, key : AllKeys,
         createdAt : Nat, expiresAt : Nat, revision : Nat, publicPrice : Nat,
         policyVersion : Nat, max : Nat, offers : Seq(Offers), lastCounter : Nat,
         price : Nat]

(* A permit row; session is the expiry of its open approval session, or 0.  *)
Permit == [status : PermitStatuses, price : Nat, max : Nat, expiresAt : Nat,
           revision : Nat, publicPrice : Nat, policyVersion : Nat,
           exchanged : BOOLEAN, session : Nat, confirmed : BOOLEAN]

(* An order row, whether it has its provider_order_id yet, and whether the  *)
(* request that claimed it may still report how the provider answered.      *)
Order == [status : OrderStatuses, amount : Nat, adapter : Adapters,
          atProvider : BOOLEAN, claimant : BOOLEAN]

(* A start past its checks: when it began, the product revision of then,    *)
(* and the lapsed deals it has swept, whose rows it holds until it ends.    *)
StartRow == [buyer : Buyers \cup {NoBuyer}, at : Nat, revision : Nat,
             swept : SUBSET DealIds]
NoStart == [buyer |-> NoBuyer, at |-> 0, revision |-> 0, swept |-> {}]

NoDeal == [status |-> "none", buyer |-> NoBuyer, key |-> <<0, 0, 0>>,
           createdAt |-> 0, expiresAt |-> 0, revision |-> 0, publicPrice |-> 0,
           policyVersion |-> 0, max |-> 0, offers |-> <<>>, lastCounter |-> 0,
           price |-> 0]
NoPermit == [status |-> "none", price |-> 0, max |-> 0, expiresAt |-> 0,
             revision |-> 0, publicPrice |-> 0, policyVersion |-> 0,
             exchanged |-> FALSE, session |-> 0, confirmed |-> FALSE]
NoOrder == [status |-> "none", amount |-> 0, adapter |-> "mock",
            atProvider |-> FALSE, claimant |-> FALSE]

TypeOK ==
    /\ now \in Nat
    /\ revisions \in Seq([price : Prices, active : BOOLEAN]) /\ revisions # <<>>
    /\ policies \in Seq([active : BOOLEAN, floor : Minimums])
    /\ deals \in [DealIds -> Deal]
    /\ permits \in [DealIds -> Permit]
    /\ orders \in [DealIds -> Order]
    /\ starting \in [Starters -> StartRow]

Init ==
    /\ now = 0
    /\ \E p \in Prices : revisions = <<[price |-> p, active |-> TRUE]>>
    /\ policies = <<>>
    /\ deals = [d \in DealIds |-> NoDeal]
    /\ permits = [d \in DealIds |-> NoPermit]
    /\ orders = [d \in DealIds |-> NoOrder]
    /\ starting = [s \in Starters |-> NoStart]

-----------------------------------------------------------------------------
(* What the transactions read.                                              *)

Product == revisions[Len(revisions)]
LatestPolicy == policies[Len(policies)]
NegotiationEnabled == policies # <<>> /\ LatestPolicy.active

(* The deal or permit still rests on the policy and on the product it was   *)
(* made from (a revision fixes the snapshot hash).                          *)
AnyActivePolicy(row) == NegotiationEnabled          \* mutant of HoldsLatestPolicy
HoldsLatestPolicy(row) == NegotiationEnabled /\ row.policyVersion = Len(policies)
SamePrice(row) == row.publicPrice = Product.price   \* mutant of ProductUnchanged
ProductUnchanged(row) ==
    row.revision = Len(revisions) /\ row.publicPrice = Product.price

Lapsed(row) == row.expiresAt <= now
IsOpen(d) == deals[d].status \in OpenStatuses
OpenDealsOf(b) == {d \in DealIds : deals[d].buyer = b /\ IsOpen(d)}
UnfinishedDealsOf(b) == OpenDealsOf(b)              \* mutant of RecentDealsOf
RecentDealsOf(b) ==
    {d \in DealIds : deals[d].buyer = b /\ deals[d].createdAt + LimitWindow > now}

(* A start under way has swept the deal: what writes its row, or appends to *)
(* its audit chain, waits.                                                  *)
Held(d) == \E s \in Starters : d \in starting[s].swept

(* deal_sessions_one_active_idx (drizzle/0011:6-8).                         *)
NoUnsealedDeal(b, swept) ==                         \* mutant of NoOtherOpenDeal
    \A e \in OpenDealsOf(b) \ swept : deals[e].status = "permit_created"
NoOtherOpenDeal(b, swept) == OpenDealsOf(b) \subseteq swept

(* The deals a policy change closes, and those whose permit it denies.      *)
UnsealedDeal(d) ==                                  \* mutant of ClosedByPolicyChange
    deals[d].status \in {"negotiating", "accepted"}
ClosedByPolicyChange(d) == IsOpen(d)
UnapprovedPermit(d) ==                              \* mutant of DeniedByPolicyChange
    IsOpen(d) /\ permits[d].status = "pending_confirmation"
AnyPermit(d) ==                                     \* mutant of DeniedByPolicyChange
    IsOpen(d) /\ permits[d].status # "none"
DeniedByPolicyChange(d) == IsOpen(d) /\ permits[d].status \in AwaitingStatuses

-----------------------------------------------------------------------------
(* Negotiation.                                                             *)

(* submitOffer, once the deal row is locked: what the merchant agent        *)
(* answers, recorded in the rounds and in the deal.                         *)
AfterOffer(deal, offer) ==
    LET round == Len(deal.offers) + 1
        floor == policies[deal.policyVersion].floor
        answer == Response(deal.publicPrice, floor, round, offer)
    IN  [deal EXCEPT
            !.offers = Append(@, offer),
            !.status = IF answer = "counter" THEN "negotiating" ELSE answer,
            !.lastCounter = IF answer = "counter"
                            THEN merchantThreshold(deal.publicPrice, floor, round)
                            ELSE @,
            !.price = IF answer = "accepted" THEN offer ELSE 0]

(* The buyer's hard maximum.                                                *)
WithinPublicPrice(deal, offer) ==                   \* mutant of WithinCeiling
    offer <= deal.publicPrice
WithinCeiling(deal, offer) == offer <= deal.max

(* submitOffer's checks.  An offer already made returns without a change,   *)
(* and the errors roll back, the 'expired' and 'invalidated' updates of     *)
(* deals.ts:185 and deals.ts:192 included.                                  *)
OfferAllowed(deal, offer) ==
    /\ deal.status = "negotiating"
    /\ deal.expiresAt > now
    /\ WithinCeiling(deal, offer)
    /\ Len(deal.offers) < 3
    /\ deal.offers # <<>> => offer > deal.offers[Len(deal.offers)]
    /\ HoldsLatestPolicy(deal)
    /\ CanEvaluate(deal.publicPrice, policies[deal.policyVersion].floor,
                   Len(deal.offers) + 1)

FreshDeal(b, max, key, revision) ==
    [NoDeal EXCEPT !.status = "negotiating", !.buyer = b, !.key = key,
                   !.createdAt = now, !.expiresAt = now + DealTtl,
                   !.revision = revision, !.publicPrice = revisions[revision].price,
                   !.policyVersion = Len(policies), !.max = max]

(* start's sweep of the buyer's lapsed deals.                               *)
Sweep(b) ==
    [d \in DealIds |-> IF d \in OpenDealsOf(b) /\ Lapsed(deals[d])
                       THEN [deals[d] EXCEPT !.status = "expired"] ELSE deals[d]]

(* start's checks: the buyer has no live deal, the lapsed ones are swept,   *)
(* and the limit is not reached.  Another start's uncommitted deal is not   *)
(* seen; its sweep is waited for.                                           *)
StartReads(s, b) ==
    /\ starting[s] = NoStart
    /\ \A e \in OpenDealsOf(b) : Lapsed(deals[e]) /\ ~Held(e)
    /\ Cardinality(RecentDealsOf(b)) < SessionLimit
    /\ starting' = [starting EXCEPT ![s] =
            [buyer |-> b, at |-> now, revision |-> Len(revisions),
             swept |-> OpenDealsOf(b)]]
    /\ UNCHANGED <<now, revisions, policies, deals, permits, orders>>

(* The INSERT and the first offer, of a product read since the checks; the  *)
(* policy is the latest one, for submitOffer reads it again once the new    *)
(* row's foreign key holds it.  The two unique indexes decide between       *)
(* overlapping starts.                                                      *)
Start(s, d, max, offer, key, revision) ==
    LET b == starting[s].buyer
        deal == FreshDeal(b, max, key, revision)
    IN  /\ b # NoBuyer
        /\ deals[d].status = "none"
        /\ \A e \in DealIds : ~(deals[e].buyer = b /\ deals[e].key = key)
        /\ NoOtherOpenDeal(b, starting[s].swept)
        /\ revision >= starting[s].revision /\ revisions[revision].active
        /\ NegotiationEnabled
        /\ OfferAllowed(deal, offer)
        /\ deals' = [Sweep(b) EXCEPT ![d] = AfterOffer(deal, offer)]
        /\ starting' = [starting EXCEPT ![s] = NoStart]
        /\ UNCHANGED <<now, revisions, policies, permits, orders>>

(* A start that throws, over an index, the product, the policy or the offer.*)
StartFails(s) ==
    /\ starting[s] # NoStart
    /\ starting' = [starting EXCEPT ![s] = NoStart]
    /\ UNCHANGED <<now, revisions, policies, deals, permits, orders>>

Counter(d, offer) ==
    /\ OfferAllowed(deals[d], offer)
    /\ deals' = [deals EXCEPT ![d] = AfterOffer(@, offer)]
    /\ UNCHANGED <<now, revisions, policies, permits, orders, starting>>

-----------------------------------------------------------------------------
(* The merchant.                                                            *)

(* invalidateOpenDeals: every open deal of the product, and the permit of   *)
(* each that has not been claimed yet.                                      *)
InvalidateOpenDeals ==
    /\ \A d \in DealIds : ~Held(d)
    /\ deals' = [d \in DealIds |->
                    IF ClosedByPolicyChange(d)
                    THEN [deals[d] EXCEPT !.status = "invalidated"] ELSE deals[d]]
    /\ permits' = [d \in DealIds |->
                    IF DeniedByPolicyChange(d)
                    THEN [permits[d] EXCEPT !.status = "denied"] ELSE permits[d]]

SavePolicy(minimum) ==
    /\ Len(policies) < MaxPolicies
    /\ Product.active
    /\ ValidMinimum(Product.price, minimum)
    /\ policies' = Append(policies, [active |-> TRUE, floor |-> minimum])
    /\ InvalidateOpenDeals
    /\ UNCHANGED <<now, revisions, orders, starting>>

DisablePolicy ==
    /\ Len(policies) < MaxPolicies
    /\ policies # <<>>
    /\ policies' = Append(policies, [active |-> FALSE, floor |-> LatestPolicy.floor])
    /\ InvalidateOpenDeals
    /\ UNCHANGED <<now, revisions, orders, starting>>

(* updateProduct, a catalogue synchronisation or the re-fetch before a      *)
(* claim: whatever changed, the product gets a new revision.                *)
UpdateProduct(price, active) ==
    /\ Len(revisions) < MaxRevisions
    /\ revisions' = Append(revisions, [price |-> price, active |-> active])
    /\ UNCHANGED <<now, policies, deals, permits, orders, starting>>

-----------------------------------------------------------------------------
(* The permit and its approval.                                             *)

(* The permit seals the terms of the deal.                                  *)
PermitFor(deal) ==
    [NoPermit EXCEPT !.status = "pending_confirmation",
                     !.price = deal.price, !.max = deal.max,
                     !.expiresAt = deal.expiresAt, !.revision = deal.revision,
                     !.publicPrice = deal.publicPrice,
                     !.policyVersion = deal.policyVersion]

(* createPermit: once per deal, a second call returns the same permit.      *)
CreatePermit(d) ==
    LET deal == deals[d]
    IN  /\ permits[d].status = "none"
        /\ deal.status = "accepted"
        /\ ~Lapsed(deal)
        /\ HoldsLatestPolicy(deal)
        /\ Product.active /\ ProductUnchanged(deal)
        /\ LatestPolicy.floor <= deal.price /\ deal.price <= deal.max
        /\ permits' = [permits EXCEPT ![d] = PermitFor(deal)]
        /\ deals' = [deals EXCEPT ![d].status = "permit_created"]
        /\ UNCHANGED <<now, revisions, policies, orders, starting>>

SessionIssued == now - SessionTtl                   \* mutant of SessionExpiry
SessionExpiry == now + SessionTtl

(* The approval link works once and opens a five-minute session.            *)
ExchangeApprovalToken(d) ==
    /\ permits[d].status = "pending_confirmation"
    /\ ~permits[d].exchanged
    /\ ~Lapsed(permits[d])
    /\ permits' = [permits EXCEPT ![d].exchanged = TRUE,
                                  ![d].session = SessionExpiry]
    /\ UNCHANGED <<now, revisions, policies, deals, orders, starting>>

(* A verified passkey assertion consumes the session, and confirms the      *)
(* permit if it is still waiting: neither its expiry nor its deal is looked *)
(* at again.                                                                *)
CompleteApproval(d) ==
    /\ permits[d].session > now
    /\ permits[d].status = "pending_confirmation" => ~Held(d)
    /\ permits' = [permits EXCEPT ![d] =
            IF @.status = "pending_confirmation"
            THEN [@ EXCEPT !.session = 0, !.status = "confirmed", !.confirmed = TRUE]
            ELSE [@ EXCEPT !.session = 0]]
    /\ UNCHANGED <<now, revisions, policies, deals, orders, starting>>

-----------------------------------------------------------------------------
(* The claim, and the outcome of the order.                                 *)

(* Why the final revalidation refuses a permit; the status of its deal is   *)
(* not among the things it looks at.                                        *)
DenialReasons(d) ==
    LET permit == permits[d]
        floor == IF policies = <<>> THEN 0 ELSE LatestPolicy.floor
        Reason(blocked, reason) == IF blocked THEN {reason} ELSE {}
    IN  UNION {
          Reason(permit.status \in ReplayStatuses, "REPLAY_DETECTED"),
          Reason(Lapsed(permit) \/ Lapsed(deals[d]), "DEAL_EXPIRED"),
          Reason(~permit.confirmed, "CONFIRMATION_REQUIRED"),
          Reason(~Product.active, "PRODUCT_INACTIVE"),
          Reason(Product.active /\ ~ProductUnchanged(permit), "CATALOG_CHANGED"),
          Reason(~HoldsLatestPolicy(permit), "DEAL_POLICY_CHANGED"),
          Reason(permit.price > permit.max, "OFFER_ABOVE_BUYER_LIMIT"),
          Reason(permit.price < floor, "OFFER_BELOW_MERCHANT_AUTHORITY")}

Unclaimed(d) == permits[d].status # "none" /\ orders[d].status = "none"

(* prepareOrderClaim on a permit that has no order yet.                     *)
ClaimOrder(d, adapter) ==
    /\ Unclaimed(d)
    /\ ~Held(d) /\ DenialReasons(d) = {}
    /\ orders' = [orders EXCEPT ![d] =
            [status |-> "creating", amount |-> permits[d].price, adapter |-> adapter,
             atProvider |-> FALSE, claimant |-> TRUE]]
    /\ permits' = [permits EXCEPT ![d].status = "executing"]
    /\ UNCHANGED <<now, revisions, policies, deals, starting>>

DenyClaim(d) ==
    /\ Unclaimed(d)
    /\ ~Held(d) /\ DenialReasons(d) # {}
    /\ permits' = [permits EXCEPT ![d].status =
                    IF "DEAL_EXPIRED" \in DenialReasons(d) THEN "expired" ELSE "denied"]
    /\ UNCHANGED <<now, revisions, policies, deals, orders, starting>>

(* The request that claimed the order has the provider's order.  If the     *)
(* acknowledgement of this commit is lost it will report an error as well.  *)
CompleteOrder(d, acknowledged) ==
    /\ orders[d].claimant /\ ~Held(d)
    /\ ~orders[d].atProvider
    /\ orders' = [orders EXCEPT ![d].status = "ready", ![d].atProvider = TRUE,
                                ![d].claimant = ~acknowledged]
    /\ permits' = [permits EXCEPT ![d].status = "checkout_ready"]
    /\ UNCHANGED <<now, revisions, policies, deals, starting>>

(* It met an error, the provider's or its own: the order is left to a human,*)
(* whatever its status is by now.                                           *)
MarkReconciliation(d) ==
    /\ orders[d].claimant /\ ~Held(d)
    /\ orders' = [orders EXCEPT ![d].status = "reconciliation_required",
                                ![d].claimant = FALSE]
    /\ permits' = [permits EXCEPT ![d].status = "reconciliation_required"]
    /\ deals' = [deals EXCEPT ![d].status = "reconciliation_required"]
    /\ UNCHANGED <<now, revisions, policies, starting>>

(* A payment can be verified once the provider's order id is known.  The    *)
(* mock adapter signs for whatever id the row has, "pending" included.      *)
Payable(d) ==
    /\ orders[d].status \notin {"none", "paid"}
    /\ orders[d].atProvider \/ orders[d].adapter = "mock"

(* Only the real provider's payment settles the deal.                       *)
AnyPayment(order) == TRUE                           \* mutant of SettlesDeal
SettlesDeal(order) == order.adapter = "razorpay"

(* A verified payment, from the buyer's browser or from a webhook.          *)
MarkPaid(d) ==
    /\ Payable(d) /\ ~Held(d)
    /\ orders' = [orders EXCEPT ![d].status = "paid"]
    /\ permits' = [permits EXCEPT ![d].status = "paid"]
    /\ deals' = IF SettlesDeal(orders[d])
                THEN [deals EXCEPT ![d].status = "paid"] ELSE deals
    /\ UNCHANGED <<now, revisions, policies, starting>>

Tick ==
    /\ now < MaxNow
    /\ now' = now + 1
    /\ UNCHANGED <<revisions, policies, deals, permits, orders, starting>>

BuyerNext ==
    \/ \E s \in Starters, b \in Buyers : StartReads(s, b)
    \/ \E s \in Starters, d \in DealIds, max \in Ceilings, offer \in Offers,
          revision \in DOMAIN revisions :
        \E key \in Keys \cup {DefaultKey(max, offer, starting[s].at)} :
            Start(s, d, max, offer, key, revision)
    \/ \E s \in Starters : StartFails(s)
    \/ \E d \in DealIds, offer \in Offers : Counter(d, offer)
    \/ \E d \in DealIds : CreatePermit(d)
    \/ \E d \in DealIds : ExchangeApprovalToken(d)
    \/ \E d \in DealIds : CompleteApproval(d)

MerchantNext ==
    \/ \E minimum \in Minimums : SavePolicy(minimum)
    \/ DisablePolicy
    \/ \E price \in Prices, active \in BOOLEAN : UpdateProduct(price, active)

CheckoutNext ==
    \/ \E d \in DealIds, adapter \in Adapters : ClaimOrder(d, adapter)
    \/ \E d \in DealIds : DenyClaim(d)
    \/ \E d \in DealIds, acknowledged \in BOOLEAN : CompleteOrder(d, acknowledged)
    \/ \E d \in DealIds : MarkReconciliation(d)
    \/ \E d \in DealIds : MarkPaid(d)

Next == BuyerNext \/ MerchantNext \/ CheckoutNext \/ Tick

Spec == Init /\ [][Next]_vars

-----------------------------------------------------------------------------
(* Invariants.                                                              *)

(* Neither agent overspends its principal's authority: an accepted price is *)
(* no lower than the minimum of the policy version the deal was struck      *)
(* under and no higher than the buyer's ceiling, and the order of the deal  *)
(* is for exactly that price (deals.ts:180-203, 149-178).                   *)
AgreedWithinBothLimits ==
    \A d \in DealIds :
        /\ deals[d].price # 0 =>
              /\ policies[deals[d].policyVersion].floor <= deals[d].price
              /\ deals[d].price <= deals[d].max
        /\ orders[d].status # "none" =>
              deals[d].price # 0 /\ orders[d].amount = deals[d].price

(* A policy change leaves no open deal behind: every open deal was made     *)
(* under the latest policy, which is active, and its minimum is below the   *)
(* price the deal started from (deals.ts:220-229 against 66-93).            *)
OpenDealsHoldLatestPolicy ==
    \A d \in DealIds : IsOpen(d) =>
        /\ HoldsLatestPolicy(deals[d])
        /\ ValidMinimum(deals[d].publicPrice, LatestPolicy.floor)

(* A buyer has one open deal for the product: start's check does not keep   *)
(* two overlapping starts apart (deals.ts:73), the index must, and no other *)
(* step may open a deal or outlive the statuses the index counts.           *)
OneOpenDealPerBuyer ==
    \A d, e \in DealIds :
        IsOpen(d) /\ IsOpen(e) /\ deals[d].buyer = deals[e].buyer => d = e

(* The deals a deal is counted with: those of its buyer, back to the length *)
(* of a window before it.                                                   *)
Window(d) ==
    {e \in DealIds :
        /\ deals[e].buyer = deals[d].buyer
        /\ deals[e].createdAt <= deals[d].createdAt
        /\ deals[e].createdAt + LimitWindow > deals[d].createdAt}

(* README.md:27: "One buyer/product pair may have only one active deal, no  *)
(* more than three sessions in 24 hours, and no more than three offers per  *)
(* session."                                                                *)
SessionLimitHolds ==
    \A d \in DealIds : deals[d].status # "none" => Cardinality(Window(d)) <= SessionLimit

(* What the count of deals.ts:78 does keep: the starts that counted before  *)
(* the last permitted deal was committed, one for each other connection,    *)
(* are all that can pass the limit, and calls made one by one keep it.      *)
OverrunBounded ==
    \A d \in DealIds : deals[d].status # "none" =>
        Cardinality(Window(d)) <= SessionLimit + Cardinality(Starters) - 1

(* A policy change voids the permit of every deal it invalidates, unless a  *)
(* claim came first (deals.ts:224).                                         *)
InvalidationVoidsUnclaimed ==
    \A d \in DealIds :
        deals[d].status = "invalidated" /\ orders[d].status = "none" =>
            permits[d].status \in {"none", "denied", "expired"}

PermitOfOrder == [creating |-> "executing", ready |-> "checkout_ready",
                  paid |-> "paid", reconciliation_required |-> "reconciliation_required"]

(* From the claim on, the permit follows its order: no policy change,       *)
(* approval, refusal or sweep comes between them (deals.ts:224,             *)
(* store.ts:436-514).                                                       *)
PermitFollowsOrder ==
    \A d \in DealIds :
        IF orders[d].status = "none" THEN permits[d].status \notin ReplayStatuses
        ELSE permits[d].status = PermitOfOrder[orders[d].status]

(* A deal is paid exactly when the real provider's payment of its order is  *)
(* verified (README.md:39, store.ts:509): a mock payment, a sweep, a policy *)
(* change or an order sent to reconciliation never makes or unmakes it.     *)
PaidMeansCaptured ==
    \A d \in DealIds :
        deals[d].status = "paid" <=>
            orders[d].status = "paid" /\ orders[d].adapter = "razorpay"

(* Why a refused permit stays refused: nothing that made the revalidation   *)
(* refuse it can be undone.                                                 *)
Dead(d) ==
    \/ ~permits[d].confirmed
    \/ Lapsed(permits[d])
    \/ permits[d].policyVersion # Len(policies)
    \/ permits[d].revision # Len(revisions)

(* A deal was struck under an active policy it respects, from an active     *)
(* revision of the product.                                                 *)
StruckFairly(deal) ==
    deal.status # "none" =>
        /\ deal.buyer \in Buyers
        /\ deal.policyVersion \in DOMAIN policies
        /\ policies[deal.policyVersion].active
        /\ deal.revision \in DOMAIN revisions
        /\ revisions[deal.revision] = [price |-> deal.publicPrice, active |-> TRUE]
        /\ ValidMinimum(deal.publicPrice, policies[deal.policyVersion].floor)
        /\ deal.price # 0 =>
              policies[deal.policyVersion].floor <= deal.price /\ deal.price <= deal.max

(* What the status of a deal says of its price, its permit, the clock and   *)
(* the policies.                                                            *)
StatusMeans(d) ==
    /\ deals[d].status \in {"none", "negotiating"} => deals[d].price = 0
    /\ deals[d].status \in {"accepted", "permit_created"} => deals[d].price # 0
    /\ deals[d].status \in {"none", "negotiating", "accepted", "rejected"} =>
          permits[d].status = "none"
    /\ deals[d].status = "permit_created" => permits[d].status # "none"
    /\ deals[d].status = "expired" => Lapsed(deals[d])
    /\ deals[d].status = "invalidated" => deals[d].policyVersion # Len(policies)
    /\ deals[d].status \in {"paid", "reconciliation_required"} =>
          orders[d].status # "none"
    /\ IsOpen(d) => deals[d].policyVersion = Len(policies)

(* A permit carries the terms of its deal, and an order those of its permit.*)
SealedTerms(d) ==
    /\ permits[d].status # "none" =>
          /\ deals[d].price # 0
          /\ permits[d].price = deals[d].price /\ permits[d].max = deals[d].max
          /\ permits[d].expiresAt = deals[d].expiresAt
          /\ permits[d].policyVersion = deals[d].policyVersion
          /\ permits[d].revision = deals[d].revision
          /\ permits[d].publicPrice = deals[d].publicPrice
    /\ permits[d].status = "none" =>
          orders[d].status = "none" /\ permits[d].session = 0
    /\ permits[d].status \in {"denied", "expired"} => Dead(d)
    /\ orders[d].status # "none" => orders[d].amount = permits[d].price
    /\ orders[d].claimant => orders[d].status # "none"
    /\ orders[d].status = "paid" /\ orders[d].adapter = "razorpay" => orders[d].atProvider

(* A deal a start has swept stays lapsed.                                   *)
SweptLapsed(s) ==
    \A d \in starting[s].swept : deals[d].status # "none" /\ Lapsed(deals[d])

(* The inductive invariant the theorems of DealsProofs rest on: it relates  *)
(* the three tables, the two version counters, the clock and the starts     *)
(* under way.                                                               *)
DealInvariant ==
    /\ \A d \in DealIds : StruckFairly(deals[d]) /\ StatusMeans(d) /\ SealedTerms(d)
    /\ InvalidationVoidsUnclaimed
    /\ PermitFollowsOrder
    /\ PaidMeansCaptured
    /\ \A s \in Starters : SweptLapsed(s)

(* README.md:84: "Updating or disabling a policy invalidates every          *)
(* unfinished deal and negotiated permit tied to the older authority."      *)
PolicyChangeVoidsPermits ==
    \A d \in DealIds :
        deals[d].status = "invalidated" =>
            permits[d].status \in {"none", "denied", "expired"}

-----------------------------------------------------------------------------
(* What a step may never do.                                                *)

(* A claim succeeds only on a deal that is still waiting for it, although   *)
(* prepareOrderClaim never looks at the status of the deal                  *)
(* (deals.ts:149-178).                                                      *)
ClaimOnlyOnLiveDeal ==
    [][\A d \in DealIds :
        orders[d].status = "none" /\ orders'[d].status # "none" =>
            deals[d].status = "permit_created"]_vars

(* A negotiated permit that was refused once is never revived: whatever the *)
(* product, the policy and the clock do later, no order is created for it   *)
(* (deals.ts:155-171, store.ts:436-449).                                    *)
RefusedIsFinal ==
    [][\A d \in DealIds :
        permits[d].status \in {"denied", "expired"} =>
            /\ permits'[d].status \in {"denied", "expired"}
            /\ orders'[d].status = "none"]_vars

(* Bargaining converges: each new offer is above the buyer's earlier ones,  *)
(* each new counter is no higher than the last one and no lower than the    *)
(* merchant's minimum (deals.ts:187-198, negotiation.ts:30-40).             *)
BargainingConverges ==
    [][\A d \in DealIds : deals'[d].offers # deals[d].offers =>
        LET n == Len(deals'[d].offers)
            floor == policies[deals'[d].policyVersion].floor
        IN  /\ n <= 3
            /\ \A i \in 1 .. n - 1 : deals'[d].offers[i] < deals'[d].offers[n]
            /\ deals'[d].lastCounter # deals[d].lastCounter =>
                  /\ floor <= deals'[d].lastCounter
                  /\ deals[d].lastCounter # 0 =>
                        deals'[d].lastCounter <= deals[d].lastCounter]_vars
=============================================================================
