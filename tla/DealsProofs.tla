----------------------------- MODULE DealsProofs -----------------------------
(***************************************************************************)
(* What holds of Deals for every number of buyers, deals, prices and ticks.*)
(* The invariant is proved row by row: RowInvariant(d) is DealInvariant for*)
(* one deal, its permit and its order.                                     *)
(***************************************************************************)
EXTENDS Deals, NegotiationProofs, SequenceTheorems

(* The two histories are indexed by version from 1 to the current one.      *)
LEMMA Histories ==
    ASSUME TypeOK
    PROVE  /\ Len(policies) \in Nat /\ DOMAIN policies = 1 .. Len(policies)
           /\ policies # <<>> => Len(policies) \in DOMAIN policies
           /\ \A v \in DOMAIN policies :
                policies[v].active \in BOOLEAN /\ policies[v].floor \in Minimums
                /\ policies[v].floor \in Nat \ {0}
           /\ Len(revisions) \in DOMAIN revisions
           /\ DOMAIN revisions = 1 .. Len(revisions)
           /\ \A v \in DOMAIN revisions :
                revisions[v] \in [price : Prices, active : BOOLEAN]
                /\ revisions[v].price \in Nat \ {0}
  <1>1. /\ policies \in Seq([active : BOOLEAN, floor : Minimums])
        /\ revisions \in Seq([price : Prices, active : BOOLEAN]) /\ revisions # <<>>
    BY DEF TypeOK
  <1>2. Len(policies) \in Nat /\ DOMAIN policies = 1 .. Len(policies)
    BY <1>1, LenProperties
  <1>3. Len(revisions) \in Nat /\ DOMAIN revisions = 1 .. Len(revisions)
    BY <1>1, LenProperties
  <1>4. policies # <<>> => Len(policies) \in DOMAIN policies
    BY <1>1, <1>2, EmptySeq
  <1>5. Len(revisions) \in DOMAIN revisions
    BY <1>1, <1>3, EmptySeq
  <1>6. \A v \in DOMAIN policies : policies[v] \in [active : BOOLEAN, floor : Minimums]
    BY <1>1, <1>2, ElementOfSeq
  <1>7. \A v \in DOMAIN revisions : revisions[v] \in [price : Prices, active : BOOLEAN]
    BY <1>1, <1>3, ElementOfSeq
  <1>8. QED
    BY <1>2, <1>3, <1>4, <1>5, <1>6, <1>7, AmountsAssumption

(* A counter the merchant gives is an amount: AfterOffer keeps a deal row   *)
(* well typed.                                                              *)
LEMMA AfterOfferTyped ==
    ASSUME TypeOK, NEW deal \in Deal, NEW offer \in Offers,
           OfferAllowed(deal, offer)
    PROVE  AfterOffer(deal, offer) \in Deal
  <1> DEFINE round == Len(deal.offers) + 1
             floor == policies[deal.policyVersion].floor
             answer == Response(deal.publicPrice, floor, round, offer)
  <1>1. /\ deal.offers \in Seq(Offers) /\ round \in Rounds
        /\ deal.publicPrice \in Nat /\ deal.lastCounter \in Nat
        /\ deal.status \in DealStatuses
    BY DEF Deal, OfferAllowed, Rounds
  <1>2. floor \in Nat /\ offer \in Nat
    <2>1. policies # <<>> /\ deal.policyVersion = Len(policies)
      BY DEF OfferAllowed, HoldsLatestPolicy, NegotiationEnabled
    <2>2. QED
      BY <2>1, Histories, AmountsAssumption
  <1>3. answer \in {"accepted", "rejected", "counter"}
    BY DEF Response
  <1>4. answer = "counter" =>
            merchantThreshold(deal.publicPrice, floor, round) \in Nat
    <2>1. SUFFICES ASSUME answer = "counter"
                   PROVE  merchantThreshold(deal.publicPrice, floor, round) \in Nat
      OBVIOUS
    <2>2. round \in 1 .. 2
      BY <1>1, <2>1 DEF Response, Rounds
    <2>3. ValidMinimum(deal.publicPrice, floor)
      BY <2>2 DEF OfferAllowed, CanEvaluate
    <2>4. merchantThreshold(deal.publicPrice, floor, round) \in floor .. deal.publicPrice
      BY <1>1, <1>2, <2>2, <2>3, ThresholdBounds
    <2>5. QED
      BY <1>1, <1>2, <2>4
  <1>5. Append(deal.offers, offer) \in Seq(Offers)
    BY <1>1
  <1> DEFINE status == IF answer = "counter" THEN "negotiating" ELSE answer
             lastCounter == IF answer = "counter"
                            THEN merchantThreshold(deal.publicPrice, floor, round)
                            ELSE deal.lastCounter
             price == IF answer = "accepted" THEN offer ELSE 0
  <1>6. status \in DealStatuses /\ lastCounter \in Nat /\ price \in Nat
    BY <1>1, <1>2, <1>3, <1>4 DEF DealStatuses, OpenStatuses
  <1>7. AfterOffer(deal, offer) =
            [deal EXCEPT !.offers = Append(deal.offers, offer), !.status = status,
                         !.lastCounter = lastCounter, !.price = price]
    BY DEF AfterOffer
  <1> HIDE DEF status, lastCounter, price
  <1>8. QED
    BY <1>5, <1>6, <1>7 DEF Deal

(* The row start inserts is well typed, and no deal yet has its offers.     *)
LEMMA FreshDealTyped ==
    ASSUME TypeOK, NEW b \in Buyers, NEW max \in Ceilings, NEW offer \in Offers,
           NEW s \in Starters, NEW revision \in DOMAIN revisions,
           NEW key \in Keys \cup {DefaultKey(max, offer, starting[s].at)}
    PROVE  FreshDeal(b, max, key, revision) \in Deal
  <1>1. now \in Nat /\ max \in Nat /\ offer \in Nat /\ now + DealTtl \in Nat
    BY AmountsAssumption, DurationsAssumption DEF TypeOK
  <1>2. starting[s].at \div KeyWindow \in Nat
    <2>1. starting[s].at \in Nat
      BY DEF TypeOK, StartRow
    <2>2. QED
      BY <2>1, DurationsAssumption
  <1>3. key \in AllKeys
    BY <1>1, <1>2 DEF AllKeys, DefaultKey
  <1>4. /\ revision \in Nat /\ Len(policies) \in Nat
        /\ revisions[revision].price \in Nat
    BY Histories
  <1>5. <<>> \in Seq(Offers)
    BY EmptySeq
  <1>6. QED
    BY <1>1, <1>3, <1>4, <1>5
    DEF FreshDeal, NoDeal, Deal, DealStatuses, OpenStatuses

(* Changing only its status keeps a row well typed.                         *)
LEMMA StatusUpdates ==
    /\ \A deal \in Deal, s \in DealStatuses : [deal EXCEPT !.status = s] \in Deal
    /\ \A permit \in Permit, s \in PermitStatuses :
            [permit EXCEPT !.status = s] \in Permit
    /\ \A order \in Order, s \in OrderStatuses : [order EXCEPT !.status = s] \in Order
  <1>1. \A deal \in Deal, s \in DealStatuses : [deal EXCEPT !.status = s] \in Deal
    BY DEF Deal
  <1>2. \A permit \in Permit, s \in PermitStatuses :
            [permit EXCEPT !.status = s] \in Permit
    BY DEF Permit
  <1>3. \A order \in Order, s \in OrderStatuses : [order EXCEPT !.status = s] \in Order
    BY DEF Order
  <1>4. QED
    BY <1>1, <1>2, <1>3

(* The statuses actions assign are statuses of their columns.               *)
LEMMA Statuses ==
    /\ {"invalidated", "paid", "reconciliation_required", "permit_created", "expired"}
            \subseteq DealStatuses
    /\ {"denied", "expired", "confirmed"} \cup ReplayStatuses \subseteq PermitStatuses
    /\ {"paid", "reconciliation_required", "ready"} \subseteq OrderStatuses
    /\ {"executing", "checkout_ready", "paid", "reconciliation_required"}
            \subseteq ReplayStatuses
  BY DEF DealStatuses, OpenStatuses, PermitStatuses, AwaitingStatuses, ReplayStatuses,
         OrderStatuses

(* Every step keeps the tables well typed.                                  *)
LEMMA TypeOKStep ==
    ASSUME TypeOK, [Next]_vars
    PROVE  TypeOK'
  <1> USE DEF TypeOK
  <1>1. ASSUME NEW s \in Starters, NEW d \in DealIds, NEW max \in Ceilings,
               NEW offer \in Offers, NEW revision \in DOMAIN revisions,
               NEW key \in Keys \cup {DefaultKey(max, offer, starting[s].at)},
               Start(s, d, max, offer, key, revision)
        PROVE  TypeOK'
    <2> DEFINE b == starting[s].buyer
    <2>1. b \in Buyers
      BY <1>1 DEF Start, StartRow
    <2> HIDE DEF b
    <2>2. AfterOffer(FreshDeal(b, max, key, revision), offer) \in Deal
      BY <1>1, <2>1, FreshDealTyped, AfterOfferTyped DEF Start, b
    <2>3. Sweep(b) \in [DealIds -> Deal]
      BY StatusUpdates, Statuses DEF Sweep
    <2>4. starting' \in [Starters -> StartRow]
      BY <1>1 DEF Start, NoStart, StartRow
    <2>5. QED
      BY <1>1, <2>2, <2>3, <2>4 DEF Start, b
  <1>2. ASSUME NEW d \in DealIds, NEW offer \in Offers, Counter(d, offer)
        PROVE  TypeOK'
    BY <1>2, AfterOfferTyped DEF Counter
  <1>3. ASSUME NEW d \in DealIds, CreatePermit(d)
        PROVE  TypeOK'
    <2>1. deals' \in [DealIds -> Deal]
      BY <1>3, StatusUpdates, Statuses DEF CreatePermit
    <2>2. permits' \in [DealIds -> Permit]
      <3>1. PermitFor(deals[d]) \in Permit
        BY DEF PermitFor, Deal, Permit, NoPermit, PermitStatuses, AwaitingStatuses
      <3>2. QED
        BY <1>3, <3>1 DEF CreatePermit
    <2>3. QED
      BY <1>3, <2>1, <2>2 DEF CreatePermit
  <1>4. ASSUME NEW d \in DealIds, ExchangeApprovalToken(d)
        PROVE  TypeOK'
    <2>1. SessionExpiry \in Nat
      BY DurationsAssumption DEF SessionExpiry
    <2>2. QED
      BY <1>4, <2>1 DEF ExchangeApprovalToken, Permit
  <1>5. ASSUME NEW d \in DealIds, CompleteApproval(d)
        PROVE  TypeOK'
    <2> DEFINE permit == permits[d]
    <2>1. /\ [permit EXCEPT !.session = 0, !.status = "confirmed", !.confirmed = TRUE]
                \in Permit
          /\ [permit EXCEPT !.session = 0] \in Permit
      BY Statuses DEF Permit
    <2>2. QED
      BY <1>5, <2>1 DEF CompleteApproval
  <1>6. ASSUME InvalidateOpenDeals
        PROVE  deals' \in [DealIds -> Deal] /\ permits' \in [DealIds -> Permit]
    <2>1. deals' \in [DealIds -> Deal]
      BY <1>6, StatusUpdates, Statuses DEF InvalidateOpenDeals
    <2>2. permits' \in [DealIds -> Permit]
      BY <1>6, StatusUpdates, Statuses DEF InvalidateOpenDeals
    <2>3. QED
      BY <2>1, <2>2
  <1>7. ASSUME NEW minimum \in Minimums, SavePolicy(minimum)
        PROVE  TypeOK'
    BY <1>6, <1>7 DEF SavePolicy
  <1>8. ASSUME DisablePolicy
        PROVE  TypeOK'
    BY <1>6, <1>8, Histories DEF DisablePolicy, LatestPolicy
  <1>9. ASSUME NEW price \in Prices, NEW active \in BOOLEAN, UpdateProduct(price, active)
        PROVE  TypeOK'
    <2>1. revisions' = Append(revisions, [price |-> price, active |-> active])
      BY <1>9 DEF UpdateProduct
    <2>2. [price |-> price, active |-> active] \in [price : Prices, active : BOOLEAN]
      OBVIOUS
    <2>3. /\ revisions' \in Seq([price : Prices, active : BOOLEAN])
          /\ Len(revisions') = Len(revisions) + 1
      BY <2>1, <2>2, AppendProperties
    <2>4. revisions' # <<>>
      BY <2>3, LenProperties, EmptySeq
    <2>5. QED
      BY <1>9, <2>3, <2>4 DEF UpdateProduct
  <1>10. ASSUME NEW d \in DealIds, NEW adapter \in Adapters, ClaimOrder(d, adapter)
         PROVE  TypeOK'
    <2> DEFINE order == [status |-> "creating", amount |-> permits[d].price,
                         adapter |-> adapter, atProvider |-> FALSE, claimant |-> TRUE]
    <2>1. orders' \in [DealIds -> Order]
      <3>1. permits[d].price \in Nat
        BY DEF Permit
      <3>2. order \in Order
        BY <3>1 DEF Order, OrderStatuses
      <3>3. orders' = [orders EXCEPT ![d] = order]
        BY <1>10 DEF ClaimOrder
      <3> HIDE DEF order
      <3>4. QED
        BY <3>2, <3>3
    <2>2. permits' \in [DealIds -> Permit]
      BY <1>10, StatusUpdates, Statuses DEF ClaimOrder
    <2>3. QED
      BY <1>10, <2>1, <2>2 DEF ClaimOrder
  <1>11. ASSUME NEW d \in DealIds, DenyClaim(d)
         PROVE  TypeOK'
    <2>1. \E s \in {"denied", "expired"} : permits' = [permits EXCEPT ![d].status = s]
      BY <1>11 DEF DenyClaim
    <2>2. QED
      BY <1>11, <2>1, StatusUpdates, Statuses DEF DenyClaim
  <1>12. ASSUME NEW d \in DealIds, NEW acknowledged \in BOOLEAN,
                CompleteOrder(d, acknowledged)
         PROVE  TypeOK'
    <2> DEFINE order == [orders[d] EXCEPT !.status = "ready", !.atProvider = TRUE,
                                          !.claimant = ~acknowledged]
    <2>1. orders' \in [DealIds -> Order]
      <3>1. order \in Order
        BY Statuses DEF Order
      <3>2. orders' = [orders EXCEPT ![d] = order]
        BY <1>12 DEF CompleteOrder
      <3> HIDE DEF order
      <3>3. QED
        BY <3>1, <3>2
    <2>2. permits' \in [DealIds -> Permit]
      BY <1>12, StatusUpdates, Statuses DEF CompleteOrder
    <2>3. QED
      BY <1>12, <2>1, <2>2 DEF CompleteOrder
  <1>13. ASSUME NEW d \in DealIds, MarkReconciliation(d)
         PROVE  TypeOK'
    <2>1. orders' \in [DealIds -> Order]
      BY <1>13, Statuses DEF MarkReconciliation, Order
    <2>2. QED
      BY <1>13, <2>1, StatusUpdates, Statuses DEF MarkReconciliation
  <1>14. ASSUME NEW d \in DealIds, MarkPaid(d)
         PROVE  TypeOK'
    <2>1. deals' \in [DealIds -> Deal]
      BY <1>14, StatusUpdates, Statuses DEF MarkPaid
    <2>2. QED
      BY <1>14, <2>1, StatusUpdates, Statuses DEF MarkPaid
  <1>15. ASSUME Tick
         PROVE  TypeOK'
    BY <1>15 DEF Tick
  <1>16. ASSUME NEW s \in Starters, NEW b \in Buyers, StartReads(s, b)
         PROVE  TypeOK'
    <2>1. [buyer |-> b, at |-> now, revision |-> Len(revisions), swept |-> OpenDealsOf(b)]
            \in StartRow
      BY Histories DEF StartRow, OpenDealsOf
    <2>2. QED
      BY <1>16, <2>1 DEF StartReads
  <1>17. ASSUME NEW s \in Starters, StartFails(s)
         PROVE  TypeOK'
    BY <1>17 DEF StartFails, NoStart, StartRow
  <1>18. CASE UNCHANGED vars
    BY <1>18 DEF vars
  <1>19. QED
    BY <1>1, <1>2, <1>3, <1>4, <1>5, <1>7, <1>8, <1>9, <1>10, <1>11, <1>12, <1>13,
       <1>14, <1>15, <1>16, <1>17, <1>18 DEF Next, BuyerNext, MerchantNext, CheckoutNext

(* In every reachable state each row of each table has the columns, the     *)
(* statuses and the references the schema gives it (drizzle 0001, 0010).    *)
THEOREM TypeCorrect == Spec => []TypeOK
  <1>1. Init => TypeOK
    BY DEF Init, TypeOK, NoDeal, NoPermit, NoOrder, Deal, Permit, Order, Adapters,
           DealStatuses, PermitStatuses, OrderStatuses, AllKeys, NoStart, StartRow
  <1>2. TypeOK /\ [Next]_vars => TypeOK'
    BY TypeOKStep
  <1>3. QED
    BY <1>1, <1>2, PTL DEF Spec

-----------------------------------------------------------------------------
(* DealInvariant, one row at a time.                                        *)

RowInvariant(d) ==
    /\ StruckFairly(deals[d])
    /\ StatusMeans(d)
    /\ SealedTerms(d)
    /\ deals[d].status = "invalidated" /\ orders[d].status = "none" =>
            permits[d].status \in {"none", "denied", "expired"}
    /\ IF orders[d].status = "none" THEN permits[d].status \notin ReplayStatuses
       ELSE permits[d].status = PermitOfOrder[orders[d].status]
    /\ deals[d].status = "paid" <=>
            orders[d].status = "paid" /\ orders[d].adapter = "razorpay"

(* DealInvariant says of each purchase what RowInvariant says.              *)
LEMMA Rows ==
    DealInvariant <=> /\ \A d \in DealIds : RowInvariant(d)
                      /\ \A s \in Starters : SweptLapsed(s)
  BY DEF DealInvariant, RowInvariant, InvalidationVoidsUnclaimed, PermitFollowsOrder,
         PaidMeansCaptured

(* A step that touches neither a row nor what its invariant reads.          *)
LEMMA RowUntouched ==
    ASSUME NEW d \in DealIds, RowInvariant(d),
           deals'[d] = deals[d], permits'[d] = permits[d], orders'[d] = orders[d],
           UNCHANGED <<now, revisions, policies>>
    PROVE  RowInvariant(d)'
  BY DEF RowInvariant, StruckFairly, StatusMeans, SealedTerms, Dead, Lapsed, IsOpen

(* Time passes, and what was dead stays dead.                               *)
LEMMA RowInTime ==
    ASSUME TypeOK, NEW d \in DealIds, RowInvariant(d), Tick
    PROVE  RowInvariant(d)'
  <1>1. now' > now /\ now \in Nat /\ now' \in Nat
    BY DEF Tick, TypeOK
  <1>2. deals[d].expiresAt \in Nat /\ permits[d].expiresAt \in Nat
    BY DEF TypeOK, Deal, Permit
  <1>3. /\ Lapsed(deals[d]) => Lapsed(deals[d])'
        /\ Lapsed(permits[d]) => Lapsed(permits[d])'
    BY <1>1, <1>2 DEF Lapsed, Tick
  <1>4. UNCHANGED <<revisions, policies, deals, permits, orders>>
    BY DEF Tick
  <1>5. Dead(d) => Dead(d)'
    BY <1>3, <1>4 DEF Dead
  <1>6. StruckFairly(deals[d])'
    BY <1>4 DEF RowInvariant, StruckFairly
  <1>7. StatusMeans(d)'
    BY <1>3, <1>4 DEF RowInvariant, StatusMeans, IsOpen
  <1>8. SealedTerms(d)'
    BY <1>4, <1>5 DEF RowInvariant, SealedTerms
  <1>9. QED
    BY <1>4, <1>6, <1>7, <1>8 DEF RowInvariant

(* A new revision of the product leaves the older ones as they were.        *)
LEMMA RowAfterRevision ==
    ASSUME TypeOK, NEW d \in DealIds, RowInvariant(d),
           NEW price \in Prices, NEW active \in BOOLEAN, UpdateProduct(price, active)
    PROVE  RowInvariant(d)'
  <1> DEFINE revision == [price |-> price, active |-> active]
  <1>1. /\ revisions' = Append(revisions, revision)
        /\ UNCHANGED <<now, policies, deals, permits, orders>>
    BY DEF UpdateProduct
  <1>2. /\ Len(revisions') = Len(revisions) + 1
        /\ DOMAIN revisions' = 1 .. Len(revisions')
        /\ \A v \in DOMAIN revisions : revisions'[v] = revisions[v]
    <2>1. revisions \in Seq([price : Prices, active : BOOLEAN])
      BY DEF TypeOK
    <2>2. revision \in [price : Prices, active : BOOLEAN]
      OBVIOUS
    <2>3. QED
      BY <1>1, <2>1, <2>2, AppendProperties, LenProperties
  <1>3. StruckFairly(deals[d])'
    BY <1>1, <1>2, Histories DEF RowInvariant, StruckFairly
  <1>4. StatusMeans(d)'
    BY <1>1 DEF RowInvariant, StatusMeans, IsOpen, Lapsed
  <1>5. permits[d].status # "none" => Dead(d)'
    <2>1. SUFFICES ASSUME permits[d].status # "none"
                   PROVE  permits[d].revision # Len(revisions')
      BY <1>1 DEF Dead
    <2>2. permits[d].revision \in 1 .. Len(revisions)
      BY <2>1, Histories DEF RowInvariant, StruckFairly, StatusMeans, SealedTerms
    <2>3. QED
      BY <1>2, <2>2, Histories
  <1>6. SealedTerms(d)'
    BY <1>1, <1>5 DEF RowInvariant, SealedTerms
  <1>7. QED
    BY <1>1, <1>3, <1>4, <1>6 DEF RowInvariant

(* A new policy version closes the open deals, denies the permits that no   *)
(* claim has consumed, and is later than every version in use.              *)
LEMMA RowAfterPolicy ==
    ASSUME TypeOK, NEW d \in DealIds, RowInvariant(d),
           NEW policy \in [active : BOOLEAN, floor : Minimums],
           policies' = Append(policies, policy), InvalidateOpenDeals,
           UNCHANGED <<now, revisions, orders>>
    PROVE  RowInvariant(d)'
  <1>1. /\ Len(policies') = Len(policies) + 1
        /\ DOMAIN policies' = 1 .. Len(policies')
        /\ \A v \in DOMAIN policies : policies'[v] = policies[v]
    <2>1. policies \in Seq([active : BOOLEAN, floor : Minimums])
      BY DEF TypeOK
    <2>2. QED
      BY <2>1, AppendProperties, LenProperties
  <1>2. deals[d].status # "none" =>
            /\ deals[d].policyVersion \in 1 .. Len(policies)
            /\ deals[d].policyVersion # Len(policies')
    BY <1>1, Histories DEF RowInvariant, StruckFairly
  <1>3. permits[d].status # "none" =>
            deals[d].status # "none" /\ permits[d].policyVersion # Len(policies')
    BY <1>2 DEF RowInvariant, StatusMeans, SealedTerms
  <1>4. deals'[d] = IF IsOpen(d) THEN [deals[d] EXCEPT !.status = "invalidated"]
                    ELSE deals[d]
    BY DEF InvalidateOpenDeals, ClosedByPolicyChange
  <1>5. permits'[d] = IF IsOpen(d) /\ permits[d].status \in AwaitingStatuses
                      THEN [permits[d] EXCEPT !.status = "denied"] ELSE permits[d]
    BY DEF InvalidateOpenDeals, DeniedByPolicyChange
  <1>6. deals[d] \in Deal /\ permits[d] \in Permit
    BY DEF TypeOK
  <1>7. permits'[d].status # "none" => Dead(d)'
    BY <1>3, <1>5, <1>6 DEF Dead, Permit, AwaitingStatuses
  <1>8. CASE IsOpen(d)
    <2>1. /\ deals'[d] = [deals[d] EXCEPT !.status = "invalidated"]
          /\ deals[d].status \in OpenStatuses
      BY <1>4, <1>8 DEF IsOpen
    <2>2. StruckFairly(deals[d])'
      BY <1>1, <1>2, <1>6, <2>1, Histories DEF RowInvariant, StruckFairly, OpenStatuses, Deal
    <2>3. StatusMeans(d)'
      BY <1>2, <1>6, <2>1 DEF StatusMeans, IsOpen, OpenStatuses, Deal
    <2>4. /\ permits'[d].price = permits[d].price
          /\ permits'[d].max = permits[d].max
          /\ permits'[d].expiresAt = permits[d].expiresAt
          /\ permits'[d].policyVersion = permits[d].policyVersion
          /\ permits'[d].revision = permits[d].revision
          /\ permits'[d].publicPrice = permits[d].publicPrice
          /\ permits'[d].session = permits[d].session
          /\ permits'[d].status = IF permits[d].status \in AwaitingStatuses
                                  THEN "denied" ELSE permits[d].status
      BY <1>5, <1>6, <1>8 DEF Permit
    <2>5. /\ deals'[d].price = deals[d].price /\ deals'[d].max = deals[d].max
          /\ deals'[d].expiresAt = deals[d].expiresAt
          /\ deals'[d].policyVersion = deals[d].policyVersion
          /\ deals'[d].revision = deals[d].revision
          /\ deals'[d].publicPrice = deals[d].publicPrice
          /\ deals'[d].status = "invalidated"
      BY <1>6, <2>1 DEF Deal
    <2>6. SealedTerms(d)'
      BY <1>7, <2>4, <2>5 DEF RowInvariant, SealedTerms, AwaitingStatuses
    <2>7. orders[d].status = "none" => permits'[d].status \in {"none", "denied", "expired"}
      BY <1>6, <2>4 DEF RowInvariant, Permit, PermitStatuses
    <2>8. orders[d].status # "none" => permits'[d].status = PermitOfOrder[orders[d].status]
      <3>1. orders[d].status \in OrderStatuses
        BY DEF TypeOK, Order
      <3>2. orders[d].status # "none" =>
                PermitOfOrder[orders[d].status] \in ReplayStatuses
        BY <3>1 DEF OrderStatuses, PermitOfOrder, ReplayStatuses
      <3>3. QED
        BY <2>4, <3>2 DEF RowInvariant, ReplayStatuses, AwaitingStatuses
    <2>9. deals[d].status # "paid"
      BY <2>1 DEF OpenStatuses
    <2>10. QED
      BY <2>2, <2>3, <2>5, <2>6, <2>7, <2>8, <2>9 DEF RowInvariant, ReplayStatuses
  <1>9. CASE ~IsOpen(d)
    <2>1. deals'[d] = deals[d] /\ permits'[d] = permits[d] /\ orders'[d] = orders[d]
      BY <1>4, <1>5, <1>9
    <2>2. StruckFairly(deals[d])'
      BY <1>1, <1>2, <2>1, Histories DEF RowInvariant, StruckFairly
    <2>3. StatusMeans(d)'
      BY <1>2, <1>9, <2>1 DEF RowInvariant, StatusMeans, IsOpen, Lapsed
    <2>4. SealedTerms(d)'
      BY <1>7, <2>1 DEF RowInvariant, SealedTerms
    <2>5. QED
      BY <2>1, <2>2, <2>3, <2>4 DEF RowInvariant
  <1>10. QED
    BY <1>8, <1>9

(* The merchant agent strikes no deal below the policy it holds, and the    *)
(* buyer's agent none above the buyer's ceiling.                            *)
LEMMA AfterOfferSound ==
    ASSUME TypeOK, NEW deal \in Deal, NEW offer \in Offers,
           StruckFairly(deal), OfferAllowed(deal, offer)
    PROVE  /\ StruckFairly(AfterOffer(deal, offer))
           /\ AfterOffer(deal, offer).status \in {"negotiating", "accepted", "rejected"}
           /\ AfterOffer(deal, offer).price # 0 <=>
                AfterOffer(deal, offer).status = "accepted"
           /\ AfterOffer(deal, offer).policyVersion = Len(policies)
  <1> DEFINE round == Len(deal.offers) + 1
             floor == policies[deal.policyVersion].floor
             answer == Response(deal.publicPrice, floor, round, offer)
             after == AfterOffer(deal, offer)
  <1>1. /\ deal.status = "negotiating" /\ offer <= deal.max
        /\ deal.policyVersion = Len(policies)
        /\ CanEvaluate(deal.publicPrice, floor, round)
    BY DEF OfferAllowed, WithinCeiling, HoldsLatestPolicy
  <1>2. round \in Rounds
    BY DEF OfferAllowed, Deal, Rounds
  <1>3. /\ floor \in Nat /\ offer \in Nat \ {0} /\ deal.publicPrice \in Nat
        /\ deal.max \in Nat
    BY Histories, AmountsAssumption DEF StruckFairly, Deal, OfferAllowed
  <1>4. answer \in {"accepted", "rejected", "counter"}
    BY DEF Response
  <1>5. answer = "accepted" => floor <= offer
    BY <1>1, <1>2, <1>3, AcceptedIsAboveMinimum
  <1>6. /\ after.buyer = deal.buyer /\ after.policyVersion = deal.policyVersion
        /\ after.revision = deal.revision /\ after.publicPrice = deal.publicPrice
        /\ after.max = deal.max
        /\ after.status = IF answer = "counter" THEN "negotiating" ELSE answer
        /\ after.price = IF answer = "accepted" THEN offer ELSE 0
    BY DEF AfterOffer, Deal
  <1> HIDE DEF answer, after
  <1>7. StruckFairly(after)
    BY <1>1, <1>3, <1>5, <1>6 DEF StruckFairly
  <1>8. /\ after.status \in {"negotiating", "accepted", "rejected"}
        /\ after.price # 0 <=> after.status = "accepted"
        /\ after.policyVersion = Len(policies)
    BY <1>1, <1>3, <1>4, <1>6
  <1>9. QED
    BY <1>7, <1>8 DEF after

(* The row an offer was made on.                                            *)
LEMMA RowAfterOffer ==
    ASSUME TypeOK, NEW d \in DealIds, RowInvariant(d),
           NEW deal \in Deal, NEW offer \in Offers,
           deals[d].status \in {"none", "negotiating"},
           StruckFairly(deal), OfferAllowed(deal, offer),
           deals'[d] = AfterOffer(deal, offer),
           UNCHANGED <<now, revisions, policies, permits, orders>>
    PROVE  RowInvariant(d)'
  <1>1. permits[d].status = "none" /\ orders[d].status = "none"
    BY DEF RowInvariant, StatusMeans, SealedTerms
  <1>2. /\ deals'[d].status \in {"negotiating", "accepted", "rejected"}
        /\ deals'[d].price # 0 <=> deals'[d].status = "accepted"
        /\ deals'[d].policyVersion = Len(policies)
    BY AfterOfferSound
  <1>3. StruckFairly(deals[d])'
    BY AfterOfferSound DEF StruckFairly
  <1>4. StatusMeans(d)'
    BY <1>1, <1>2 DEF StatusMeans, IsOpen
  <1>5. SealedTerms(d)'
    BY <1>1 DEF RowInvariant, SealedTerms
  <1>6. QED
    BY <1>1, <1>2, <1>3, <1>4, <1>5 DEF RowInvariant, ReplayStatuses

(* A fresh deal rests on the active policy and on an active revision.       *)
LEMMA FreshDealSound ==
    ASSUME TypeOK, NEW b \in Buyers, NEW max \in Ceilings, NEW offer \in Offers,
           NEW revision \in DOMAIN revisions, NEW key,
           revisions[revision].active, NegotiationEnabled,
           OfferAllowed(FreshDeal(b, max, key, revision), offer)
    PROVE  StruckFairly(FreshDeal(b, max, key, revision))
  <1> DEFINE deal == FreshDeal(b, max, key, revision)
  <1>1. /\ deal.buyer = b /\ deal.policyVersion = Len(policies)
        /\ deal.revision = revision /\ deal.publicPrice = revisions[revision].price
        /\ deal.price = 0 /\ deal.offers = <<>>
    BY DEF FreshDeal, NoDeal
  <1>2. ValidMinimum(deal.publicPrice, policies[deal.policyVersion].floor)
    <2>1. Len(deal.offers) + 1 # 3
      BY <1>1
    <2>2. QED
      BY <2>1 DEF OfferAllowed, CanEvaluate
  <1>3. /\ Len(policies) \in DOMAIN policies /\ policies[Len(policies)].active
        /\ revisions[revision] \in [price : Prices, active : BOOLEAN]
    BY Histories DEF NegotiationEnabled, LatestPolicy
  <1>4. revisions[revision] = [price |-> revisions[revision].price, active |-> TRUE]
    BY <1>3
  <1> HIDE DEF deal
  <1>5. StruckFairly(deal)
    BY <1>1, <1>2, <1>3, <1>4 DEF StruckFairly
  <1>6. QED
    BY <1>5 DEF deal

(* A lapsed deal that start sweeps.                                         *)
LEMMA RowSwept ==
    ASSUME TypeOK, NEW d \in DealIds, RowInvariant(d), NEW b \in Buyers,
           deals'[d] = Sweep(b)[d],
           UNCHANGED <<now, revisions, policies, permits, orders>>
    PROVE  RowInvariant(d)'
  <1>1. CASE d \in OpenDealsOf(b) /\ Lapsed(deals[d])
    <2>1. /\ deals'[d] = [deals[d] EXCEPT !.status = "expired"]
          /\ deals[d].status \in OpenStatuses /\ Lapsed(deals[d])
      BY <1>1 DEF Sweep, OpenDealsOf, IsOpen
    <2>2. /\ deals[d].status # "paid" /\ deals'[d].status = "expired"
          /\ deals'[d].buyer = deals[d].buyer
          /\ deals'[d].price = deals[d].price /\ deals'[d].max = deals[d].max
          /\ deals'[d].expiresAt = deals[d].expiresAt
          /\ deals'[d].policyVersion = deals[d].policyVersion
          /\ deals'[d].revision = deals[d].revision
          /\ deals'[d].publicPrice = deals[d].publicPrice
      BY <2>1 DEF TypeOK, Deal, OpenStatuses
    <2>3. StruckFairly(deals[d])'
      BY <2>1, <2>2 DEF RowInvariant, StruckFairly, OpenStatuses
    <2>4. StatusMeans(d)'
      BY <2>1, <2>2 DEF StatusMeans, IsOpen, OpenStatuses, Lapsed
    <2>5. SealedTerms(d)'
      BY <2>2 DEF RowInvariant, SealedTerms, Dead, Lapsed
    <2>6. QED
      BY <2>2, <2>3, <2>4, <2>5 DEF RowInvariant
  <1>2. CASE ~(d \in OpenDealsOf(b) /\ Lapsed(deals[d]))
    BY <1>2, RowUntouched DEF Sweep
  <1>3. QED
    BY <1>1, <1>2

-----------------------------------------------------------------------------
(* The permit, its approval and its order.                                  *)

(* What the statuses of the three rows of one purchase say of each other.   *)
LEMMA RowFacts ==
    ASSUME TypeOK, NEW d \in DealIds, RowInvariant(d)
    PROVE  /\ permits[d].status # "none" =>
                deals[d].status \notin {"none", "negotiating", "accepted", "rejected"}
           /\ orders[d].status # "none" => permits[d].status \in ReplayStatuses
           /\ orders[d].status = "none" =>
                /\ permits[d].status \notin ReplayStatuses /\ ~orders[d].claimant
                /\ deals[d].status \notin {"paid", "reconciliation_required"}
           /\ deals[d] \in Deal /\ permits[d] \in Permit /\ orders[d] \in Order
  <1>1. deals[d] \in Deal /\ permits[d] \in Permit /\ orders[d] \in Order
    BY DEF TypeOK
  <1>2. orders[d].status # "none" => permits[d].status \in ReplayStatuses
    <2>1. orders[d].status \in OrderStatuses \ {"none"} =>
              PermitOfOrder[orders[d].status] \in ReplayStatuses
      BY DEF OrderStatuses, PermitOfOrder, ReplayStatuses
    <2>2. QED
      BY <1>1, <2>1 DEF RowInvariant, Order
  <1>3. QED
    BY <1>1, <1>2 DEF RowInvariant, StatusMeans, SealedTerms

(* createPermit copies the terms of an accepted deal.                       *)
LEMMA RowAfterPermit ==
    ASSUME TypeOK, NEW d \in DealIds, RowInvariant(d), CreatePermit(d)
    PROVE  RowInvariant(d)'
  <1>1. /\ permits[d].status = "none" /\ deals[d].status = "accepted"
        /\ deals[d].policyVersion = Len(policies)
        /\ deals'[d] = [deals[d] EXCEPT !.status = "permit_created"]
        /\ permits'[d] = PermitFor(deals[d])
        /\ UNCHANGED <<now, revisions, policies, orders>>
    BY DEF CreatePermit, HoldsLatestPolicy, TypeOK
  <1>2. deals[d].price # 0 /\ orders[d].status = "none"
    BY <1>1 DEF RowInvariant, StatusMeans, SealedTerms
  <1>3. /\ deals'[d].status = "permit_created"
        /\ deals'[d].buyer = deals[d].buyer
        /\ deals'[d].price = deals[d].price /\ deals'[d].max = deals[d].max
        /\ deals'[d].expiresAt = deals[d].expiresAt
        /\ deals'[d].policyVersion = deals[d].policyVersion
        /\ deals'[d].revision = deals[d].revision
        /\ deals'[d].publicPrice = deals[d].publicPrice
    BY <1>1 DEF TypeOK, Deal
  <1>4. /\ permits'[d].status = "pending_confirmation"
        /\ permits'[d].price = deals[d].price /\ permits'[d].max = deals[d].max
        /\ permits'[d].expiresAt = deals[d].expiresAt
        /\ permits'[d].policyVersion = deals[d].policyVersion
        /\ permits'[d].revision = deals[d].revision
        /\ permits'[d].publicPrice = deals[d].publicPrice
    BY <1>1 DEF PermitFor, NoPermit
  <1>5. StruckFairly(deals[d])'
    BY <1>1, <1>3 DEF RowInvariant, StruckFairly
  <1>6. StatusMeans(d)'
    BY <1>1, <1>2, <1>3, <1>4 DEF StatusMeans, IsOpen
  <1>7. SealedTerms(d)'
    BY <1>1, <1>2, <1>3, <1>4 DEF RowInvariant, SealedTerms
  <1>8. QED
    BY <1>1, <1>2, <1>3, <1>4, <1>5, <1>6, <1>7 DEF RowInvariant, ReplayStatuses

(* A step that changes of one purchase only its permit, which had none of   *)
(* its terms changed and either keeps its status or moves between two the   *)
(* claim accepts or refuses.                                                *)
LEMMA RowAfterPermitStatus ==
    ASSUME TypeOK, NEW d \in DealIds, RowInvariant(d), permits[d].status # "none",
           NEW s \in PermitStatuses \ {"none"}, NEW confirmed \in BOOLEAN,
           permits'[d].status = s, permits'[d].confirmed = confirmed,
           permits'[d].price = permits[d].price, permits'[d].max = permits[d].max,
           permits'[d].expiresAt = permits[d].expiresAt,
           permits'[d].policyVersion = permits[d].policyVersion,
           permits'[d].revision = permits[d].revision,
           permits'[d].publicPrice = permits[d].publicPrice,
           orders[d].status # "none" => s = permits[d].status,
           orders[d].status = "none" => s \notin ReplayStatuses,
           s \in {"denied", "expired"} => Dead(d) /\ confirmed = permits[d].confirmed,
           deals[d].status = "invalidated" /\ orders[d].status = "none" =>
                s \in {"denied", "expired"},
           UNCHANGED <<now, revisions, policies, deals, orders>>
    PROVE  RowInvariant(d)'
  <1>1. StruckFairly(deals[d])'
    BY DEF RowInvariant, StruckFairly
  <1>2. StatusMeans(d)'
    BY DEF RowInvariant, StatusMeans, IsOpen, Lapsed
  <1>3. s \in {"denied", "expired"} => Dead(d)'
    BY DEF Dead, Lapsed
  <1>4. SealedTerms(d)'
    BY <1>3 DEF RowInvariant, SealedTerms
  <1>5. QED
    BY <1>1, <1>2, <1>4 DEF RowInvariant

(* The exchange of the approval link leaves the terms of the permit alone.  *)
LEMMA RowAfterExchange ==
    ASSUME TypeOK, NEW d \in DealIds, RowInvariant(d), ExchangeApprovalToken(d)
    PROVE  RowInvariant(d)'
  <1>1. permits'[d] = [permits[d] EXCEPT !.exchanged = TRUE, !.session = SessionExpiry]
    BY DEF ExchangeApprovalToken, TypeOK
  <1>2. permits[d] \in Permit
    BY DEF TypeOK
  <1>3. permits[d].status = "pending_confirmation"
    BY DEF ExchangeApprovalToken
  <1>4. /\ permits[d].status \in PermitStatuses \ {"none"}
        /\ permits[d].status \notin {"denied", "expired"} \cup ReplayStatuses
        /\ ~(deals[d].status = "invalidated" /\ orders[d].status = "none")
    BY <1>2, <1>3 DEF Permit, RowInvariant, ReplayStatuses
  <1>5. UNCHANGED <<now, revisions, policies, deals, orders>>
    BY DEF ExchangeApprovalToken
  <1>6. QED
    BY <1>1, <1>2, <1>3, <1>4, <1>5, RowAfterPermitStatus DEF Permit

(* So does the passkey approval, which confirms a waiting permit only.      *)
LEMMA RowAfterApproval ==
    ASSUME TypeOK, NEW d \in DealIds, RowInvariant(d), CompleteApproval(d)
    PROVE  RowInvariant(d)'
  <1>1. permits'[d] = IF permits[d].status = "pending_confirmation"
                      THEN [permits[d] EXCEPT !.session = 0, !.status = "confirmed",
                                              !.confirmed = TRUE]
                      ELSE [permits[d] EXCEPT !.session = 0]
    BY DEF CompleteApproval, TypeOK
  <1>2. permits[d] \in Permit
    BY DEF TypeOK
  <1>3. /\ UNCHANGED <<now, revisions, policies, deals, orders>>
        /\ permits[d].status # "none"
    BY DEF CompleteApproval, RowInvariant, SealedTerms, TypeOK
  <1>4. CASE permits[d].status = "pending_confirmation"
    <2>1. orders[d].status = "none" /\ deals[d].status # "invalidated"
      BY <1>4, RowFacts DEF RowInvariant, ReplayStatuses
    <2>2. "confirmed" \in PermitStatuses \ {"none"} /\ "confirmed" \notin ReplayStatuses
      BY DEF PermitStatuses, AwaitingStatuses, ReplayStatuses
    <2>3. QED
      BY <1>1, <1>2, <1>3, <1>4, <2>1, <2>2, RowAfterPermitStatus DEF Permit
  <1>5. CASE permits[d].status # "pending_confirmation"
    <2>1. permits'[d] = [permits[d] EXCEPT !.session = 0]
      BY <1>1, <1>5
    <2>2. permits[d].status \in PermitStatuses \ {"none"}
      BY <1>2, <1>3 DEF Permit
    <2>3. QED
      BY <1>2, <1>3, <2>1, <2>2, RowAfterPermitStatus DEF Permit, RowInvariant, SealedTerms
  <1>6. QED
    BY <1>4, <1>5

-----------------------------------------------------------------------------
(* The claim and the order.                                                 *)

(* Some reason to refuse the claim of a permit is a reason for good, and    *)
(* the other way round: for a permit that has no order, DenialReasons is    *)
(* empty exactly when the permit is not dead.                               *)
LEMMA RefusalReasons ==
    ASSUME TypeOK, NEW d \in DealIds, RowInvariant(d), Unclaimed(d)
    PROVE  DenialReasons(d) # {} <=> Dead(d)
  <1> DEFINE permit == permits[d]
             floor == IF policies = <<>> THEN 0 ELSE LatestPolicy.floor
  <1>1. /\ permit.status # "none" /\ permit.status \notin ReplayStatuses
        /\ deals[d].status # "none" /\ deals[d].price # 0
        /\ permit.price = deals[d].price /\ permit.max = deals[d].max
        /\ permit.expiresAt = deals[d].expiresAt
        /\ permit.policyVersion = deals[d].policyVersion
        /\ permit.revision = deals[d].revision
        /\ permit.publicPrice = deals[d].publicPrice
    BY RowFacts DEF Unclaimed, RowInvariant, SealedTerms
  <1>2. DenialReasons(d) # {} <=>
            \/ permit.status \in ReplayStatuses
            \/ Lapsed(permit) \/ Lapsed(deals[d])
            \/ ~permit.confirmed
            \/ ~Product.active
            \/ Product.active /\ ~ProductUnchanged(permit)
            \/ ~HoldsLatestPolicy(permit)
            \/ permit.price > permit.max
            \/ permit.price < floor
    BY DEF DenialReasons
  <1>3. Lapsed(deals[d]) <=> Lapsed(permit)
    BY <1>1 DEF Lapsed
  <1>4. permit.revision = Len(revisions) =>
            Product.active /\ ProductUnchanged(permit)
    BY <1>1 DEF RowInvariant, StruckFairly, Product, ProductUnchanged
  <1>5. permit.policyVersion = Len(policies) => HoldsLatestPolicy(permit)
    BY <1>1, Histories
    DEF RowInvariant, StruckFairly, HoldsLatestPolicy, NegotiationEnabled, LatestPolicy
  <1>6. /\ permit.price \in Nat /\ permit.max \in Nat /\ floor \in Nat
        /\ permit.price <= permit.max
    BY <1>1, Histories DEF TypeOK, Permit, RowInvariant, StruckFairly, LatestPolicy
  <1>7. permit.policyVersion = Len(policies) => floor <= permit.price
    BY <1>1, Histories DEF RowInvariant, StruckFairly, LatestPolicy
  <1> HIDE DEF floor, permit
  <1>8. DenialReasons(d) # {} <=>
            \/ ~permit.confirmed \/ Lapsed(permit)
            \/ permit.policyVersion # Len(policies)
            \/ permit.revision # Len(revisions)
    <2>1. ~HoldsLatestPolicy(permit) <=> permit.policyVersion # Len(policies)
      BY <1>5 DEF HoldsLatestPolicy
    <2>2. ~Product.active \/ (Product.active /\ ~ProductUnchanged(permit))
            <=> permit.revision # Len(revisions)
      BY <1>4 DEF ProductUnchanged
    <2>3. permit.price > permit.max \/ permit.price < floor
            => permit.policyVersion # Len(policies)
      BY <1>6, <1>7
    <2>4. QED
      BY <1>1, <1>2, <1>3, <2>1, <2>2, <2>3
  <1>9. QED
    BY <1>8 DEF Dead, permit

(* A refused permit is dead: its reasons to be refused are there for good.  *)
LEMMA RowAfterDenial ==
    ASSUME TypeOK, NEW d \in DealIds, RowInvariant(d), DenyClaim(d)
    PROVE  RowInvariant(d)'
  <1>1. PICK s \in {"denied", "expired"} : permits'[d] = [permits[d] EXCEPT !.status = s]
    BY DEF DenyClaim, TypeOK
  <1>2. permits[d] \in Permit
    BY DEF TypeOK
  <1>3. Dead(d) /\ permits[d].status # "none" /\ orders[d].status = "none"
    BY RefusalReasons DEF DenyClaim, Unclaimed
  <1>4. s \in PermitStatuses \ {"none"} /\ s \notin ReplayStatuses
    BY DEF PermitStatuses, ReplayStatuses
  <1>5. UNCHANGED <<now, revisions, policies, deals, orders>>
    BY DEF DenyClaim
  <1>6. QED
    BY <1>1, <1>2, <1>3, <1>4, <1>5, RowAfterPermitStatus DEF Permit

(* A step of the order: the permit follows it, their terms stay as they     *)
(* are, and the deal is settled only by the real provider's payment.        *)
LEMMA RowAfterOrder ==
    ASSUME TypeOK, NEW d \in DealIds, RowInvariant(d), permits[d].status # "none",
           NEW s \in OrderStatuses \ {"none"}, NEW status \in DealStatuses,
           orders'[d].status = s, orders'[d].amount = permits[d].price,
           s = "paid" /\ orders'[d].adapter = "razorpay" => orders'[d].atProvider,
           permits'[d] = [permits[d] EXCEPT !.status = PermitOfOrder[s]],
           deals'[d] = [deals[d] EXCEPT !.status = status],
           status \in {deals[d].status, "paid", "reconciliation_required"},
           status = "paid" <=> s = "paid" /\ orders'[d].adapter = "razorpay",
           UNCHANGED <<now, revisions, policies>>
    PROVE  RowInvariant(d)'
  <1>1. /\ deals[d] \in Deal /\ permits[d] \in Permit
        /\ deals[d].status \notin {"none", "negotiating", "accepted", "rejected"}
    BY RowFacts
  <1>2. PermitOfOrder[s] \in ReplayStatuses
    BY DEF OrderStatuses, PermitOfOrder, ReplayStatuses
  <1>3. /\ permits'[d].status = PermitOfOrder[s]
        /\ permits'[d].price = permits[d].price /\ permits'[d].max = permits[d].max
        /\ permits'[d].expiresAt = permits[d].expiresAt
        /\ permits'[d].policyVersion = permits[d].policyVersion
        /\ permits'[d].revision = permits[d].revision
        /\ permits'[d].publicPrice = permits[d].publicPrice
    BY <1>1 DEF Permit
  <1>4. /\ deals'[d].status = status
        /\ deals'[d].buyer = deals[d].buyer
        /\ deals'[d].price = deals[d].price /\ deals'[d].max = deals[d].max
        /\ deals'[d].expiresAt = deals[d].expiresAt
        /\ deals'[d].policyVersion = deals[d].policyVersion
        /\ deals'[d].revision = deals[d].revision
        /\ deals'[d].publicPrice = deals[d].publicPrice
    BY <1>1 DEF Deal
  <1> HIDE DEF PermitOfOrder
  <1>5. StruckFairly(deals[d])'
    BY <1>1, <1>4 DEF RowInvariant, StruckFairly
  <1>6. StatusMeans(d)'
    BY <1>1, <1>2, <1>3, <1>4
    DEF RowInvariant, StatusMeans, IsOpen, OpenStatuses, Lapsed, ReplayStatuses
  <1>7. SealedTerms(d)'
    BY <1>1, <1>2, <1>3, <1>4 DEF RowInvariant, SealedTerms, ReplayStatuses
  <1>8. QED
    BY <1>2, <1>3, <1>4, <1>5, <1>6, <1>7 DEF RowInvariant, ReplayStatuses

-----------------------------------------------------------------------------
(* The steps.                                                               *)

(* A step starts a deal, makes an offer on it or moves its status on.       *)
KeepsTerms(d) ==
    \E s \in DealStatuses :
        /\ deals'[d] = [deals[d] EXCEPT !.status = s]
        /\ s = "none" <=> deals[d].status = "none"
        /\ s = "negotiating" => deals[d].status = "negotiating"

Starts(d) ==
    \E s \in Starters, max \in Ceilings, offer \in Offers, revision \in DOMAIN revisions :
        \E key \in Keys \cup {DefaultKey(max, offer, starting[s].at)} :
            Start(s, d, max, offer, key, revision)

(* What a start that commits leaves alone.                                  *)
LEMMA StartFrame ==
    ASSUME NEW d \in DealIds, Starts(d)
    PROVE  /\ UNCHANGED <<now, revisions, policies, permits, orders>>
           /\ \E s \in Starters : starting' = [starting EXCEPT ![s] = NoStart]
  BY DEF Starts, Start

(* The steps by name, a start as Starts.                                    *)
LEMMA Steps ==
    ASSUME [Next]_vars
    PROVE  \/ \E d \in DealIds : Starts(d)
           \/ \E s \in Starters, b \in Buyers : StartReads(s, b)
           \/ \E s \in Starters : StartFails(s)
           \/ \E d \in DealIds, offer \in Offers : Counter(d, offer)
           \/ \E d \in DealIds :
                CreatePermit(d) \/ ExchangeApprovalToken(d) \/ CompleteApproval(d)
           \/ MerchantNext \/ CheckoutNext \/ Tick \/ UNCHANGED vars
  BY DEF Next, BuyerNext, Starts

(* A row a step does not write keeps its terms.                             *)
LEMMA SameTerms ==
    ASSUME TypeOK, NEW d \in DealIds, deals'[d] = deals[d]
    PROVE  KeepsTerms(d)
  <1>1. deals[d] \in Deal
    BY DEF TypeOK
  <1>2. deals[d].status \in DealStatuses /\ deals[d] = [deals[d] EXCEPT !.status = deals[d].status]
    BY <1>1 DEF Deal
  <1>3. QED
    BY <1>2 DEF KeepsTerms

(* So does one that leaves the negotiation.                                 *)
LEMMA MovedOn ==
    ASSUME TypeOK, NEW d \in DealIds, deals[d].status # "none",
           NEW s \in DealStatuses \ {"none", "negotiating"},
           deals'[d] = [deals[d] EXCEPT !.status = s]
    PROVE  KeepsTerms(d)
  BY DEF KeepsTerms

(* Every step of Deals, seen from one row: it starts it (start), offers on it *)
(* (counter) or keeps its terms.                                            *)
LEMMA DealWrites ==
    ASSUME TypeOK, DealInvariant, [Next]_vars, NEW d \in DealIds
    PROVE  Starts(d) \/ (\E offer \in Offers : Counter(d, offer)) \/ KeepsTerms(d)
  <1>1. RowInvariant(d) /\ deals \in [DealIds -> Deal]
    BY Rows DEF TypeOK
  <1>2. ASSUME NEW s \in Starters, NEW e \in DealIds, NEW max \in Ceilings,
               NEW offer \in Offers, NEW revision \in DOMAIN revisions,
               NEW key \in Keys \cup {DefaultKey(max, offer, starting[s].at)},
               Start(s, e, max, offer, key, revision)
        PROVE  Starts(d) \/ KeepsTerms(d)
    <2> DEFINE b == starting[s].buyer
    <2>1. CASE e = d
      BY <1>2, <2>1 DEF Starts
    <2>2. CASE e # d
      <3>1. deals'[d] = Sweep(b)[d]
        BY <1>2, <2>2 DEF Start, Sweep
      <3>2. CASE d \in OpenDealsOf(b) /\ Lapsed(deals[d])
        <4>1. deals'[d] = [deals[d] EXCEPT !.status = "expired"] /\ deals[d].status # "none"
          BY <3>1, <3>2 DEF Sweep, OpenDealsOf, IsOpen, OpenStatuses
        <4>2. QED
          BY <4>1, MovedOn, Statuses
      <3>3. CASE ~(d \in OpenDealsOf(b) /\ Lapsed(deals[d]))
        BY <3>1, <3>3, SameTerms DEF Sweep
      <3>4. QED
        BY <3>2, <3>3
    <2>3. QED
      BY <2>1, <2>2
  <1>3. ASSUME NEW e \in DealIds, NEW offer \in Offers, Counter(e, offer), e # d
        PROVE  KeepsTerms(d)
    BY <1>1, <1>3, SameTerms DEF Counter
  <1>4. ASSUME NEW e \in DealIds, CreatePermit(e)
        PROVE  KeepsTerms(d)
    <2>1. CASE e = d
      <3>1. deals'[d] = [deals[d] EXCEPT !.status = "permit_created"] /\ deals[d].status # "none"
        BY <1>1, <1>4, <2>1 DEF CreatePermit
      <3>2. QED
        BY <3>1, MovedOn, Statuses
    <2>2. CASE e # d
      BY <1>1, <1>4, <2>2, SameTerms DEF CreatePermit
    <2>3. QED
      BY <2>1, <2>2
  <1>5. ASSUME InvalidateOpenDeals
        PROVE  KeepsTerms(d)
    <2>1. CASE IsOpen(d)
      <3>1. deals'[d] = [deals[d] EXCEPT !.status = "invalidated"] /\ deals[d].status # "none"
        BY <1>5, <2>1 DEF InvalidateOpenDeals, ClosedByPolicyChange, IsOpen, OpenStatuses
      <3>2. QED
        BY <3>1, MovedOn, Statuses
    <2>2. CASE ~IsOpen(d)
      BY <1>5, <2>2, SameTerms DEF InvalidateOpenDeals, ClosedByPolicyChange
    <2>3. QED
      BY <2>1, <2>2
  <1>6. ASSUME NEW e \in DealIds, MarkReconciliation(e) \/ MarkPaid(e)
        PROVE  KeepsTerms(d)
    <2>1. PICK s \in {"paid", "reconciliation_required"} :
                deals' = [deals EXCEPT ![e].status = s] \/ deals' = deals
      BY <1>6 DEF MarkReconciliation, MarkPaid
    <2>2. CASE deals' = deals \/ e # d
      BY <1>1, <2>1, <2>2, SameTerms
    <2>3. CASE e = d /\ deals' = [deals EXCEPT ![e].status = s]
      <3>1. orders[d].status # "none"
        BY <1>1, <1>6, <2>3, RowFacts DEF MarkReconciliation, MarkPaid, Payable
      <3>2. deals[d].status # "none"
        BY <1>1, <3>1, RowFacts DEF ReplayStatuses
      <3>3. deals'[d] = [deals[d] EXCEPT !.status = s]
        BY <1>1, <2>3
      <3>4. QED
        BY <3>2, <3>3, MovedOn, Statuses
    <2>4. QED
      BY <2>1, <2>2, <2>3
  <1>7. CASE UNCHANGED deals
    BY <1>7, SameTerms
  <1>8. QED
    BY <1>2, <1>3, <1>4, <1>5, <1>6, <1>7
    DEF Next, BuyerNext, MerchantNext, CheckoutNext, ExchangeApprovalToken,
        CompleteApproval, SavePolicy, DisablePolicy, UpdateProduct, ClaimOrder,
        DenyClaim, CompleteOrder, Tick, StartReads, StartFails, vars

(* Time passes, but no step gives a lapsed deal a later expiry.             *)
LEMMA SweptStep ==
    ASSUME TypeOK, DealInvariant, [Next]_vars, NEW s \in Starters
    PROVE  SweptLapsed(s)'
  <1>1. SUFFICES ASSUME NEW d \in starting'[s].swept
                 PROVE  deals'[d].status # "none" /\ deals'[d].expiresAt <= now'
    BY DEF SweptLapsed, Lapsed
  <1>2. now \in Nat /\ now' \in Nat /\ now <= now'
    <2>1. now' = now \/ now' = now + 1
      BY Steps, StartFrame
      DEF MerchantNext, CheckoutNext, StartReads, StartFails,
             Counter, CreatePermit, ExchangeApprovalToken, CompleteApproval, SavePolicy,
             DisablePolicy, UpdateProduct, ClaimOrder, DenyClaim, CompleteOrder,
             MarkReconciliation, MarkPaid, Tick, vars
    <2>2. QED
      BY <2>1 DEF TypeOK
  <1>3. d \in starting[s].swept \/ d \in {e \in DealIds : IsOpen(e) /\ Lapsed(deals[e])}
    <2>1. ASSUME NEW t \in Starters, NEW b \in Buyers, StartReads(t, b)
          PROVE  \/ starting'[s] = starting[s]
                 \/ starting'[s].swept \subseteq {e \in DealIds : IsOpen(e) /\ Lapsed(deals[e])}
      BY <2>1 DEF StartReads, OpenDealsOf, TypeOK
    <2>2. ASSUME NEW t \in Starters, starting' = [starting EXCEPT ![t] = NoStart]
          PROVE  starting'[s] \in {starting[s], NoStart}
      BY <2>2 DEF TypeOK
    <2>3. NoStart.swept = {}
      BY DEF NoStart
    <2>4. CASE UNCHANGED starting
      BY <1>1, <2>4
    <2>5. QED
      BY <1>1, <2>1, <2>2, <2>3, <2>4, Steps, StartFrame
      DEF MerchantNext, CheckoutNext, StartFails,
          Counter, CreatePermit, ExchangeApprovalToken, CompleteApproval, SavePolicy,
          DisablePolicy, UpdateProduct, ClaimOrder, DenyClaim, CompleteOrder,
          MarkReconciliation, MarkPaid, Tick, vars
  <1>4. /\ d \in DealIds /\ deals[d].status # "none"
        /\ deals[d] \in Deal /\ deals[d].expiresAt <= now
    BY <1>3 DEF DealInvariant, SweptLapsed, Lapsed, IsOpen, OpenStatuses, TypeOK, StartRow
  <1>5. ~Starts(d)
    BY <1>4 DEF Starts, Start
  <1>6. ~\E offer \in Offers : Counter(d, offer)
    BY <1>2, <1>4 DEF Counter, OfferAllowed, Deal
  <1>7. KeepsTerms(d)
    BY <1>4, <1>5, <1>6, DealWrites
  <1>8. deals'[d].status # "none" /\ deals'[d].expiresAt = deals[d].expiresAt
    BY <1>4, <1>7 DEF KeepsTerms, Deal
  <1>9. QED
    BY <1>2, <1>4, <1>8 DEF Deal

-----------------------------------------------------------------------------
(* Every step keeps DealInvariant: one step of the proof per action, which  *)
(* shows the row the action works on and leaves the others to RowUntouched. *)
LEMMA DealInvariantStep ==
    ASSUME TypeOK, DealInvariant, [Next]_vars
    PROVE  DealInvariant'
  <1> SUFFICES ASSUME NEW e \in DealIds
               PROVE  RowInvariant(e)'
    BY SweptStep
    DEF DealInvariant, RowInvariant, InvalidationVoidsUnclaimed, PermitFollowsOrder,
        PaidMeansCaptured
  <1>0. RowInvariant(e) /\ deals[e] \in Deal /\ permits[e] \in Permit /\ orders[e] \in Order
    BY Rows, RowFacts
  <1>1. ASSUME NEW s \in Starters, NEW d \in DealIds, NEW max \in Ceilings,
               NEW offer \in Offers, NEW revision \in DOMAIN revisions,
               NEW key \in Keys \cup {DefaultKey(max, offer, starting[s].at)},
               Start(s, d, max, offer, key, revision)
        PROVE  RowInvariant(e)'
    <2> DEFINE b == starting[s].buyer
               deal == FreshDeal(b, max, key, revision)
    <2>1. /\ UNCHANGED <<now, revisions, policies, permits, orders>>
          /\ b \in Buyers
      BY <1>1 DEF Start, TypeOK, StartRow
    <2>2. /\ deals' = [Sweep(b) EXCEPT ![d] = AfterOffer(deal, offer)]
          /\ deals[d].status = "none" /\ OfferAllowed(deal, offer)
          /\ revisions[revision].active /\ NegotiationEnabled
      BY <1>1 DEF Start
    <2>3. deal \in Deal /\ StruckFairly(deal)
      <3> HIDE DEF b
      <3>1. QED
        BY <2>1, <2>2, FreshDealTyped, FreshDealSound
    <2> HIDE DEF b, deal
    <2>4. CASE e = d
      <3>1. deals'[d] = AfterOffer(deal, offer)
        BY <2>2 DEF Sweep
      <3>2. deals[d].status \in {"none", "negotiating"}
        BY <2>2
      <3>3. QED
        BY <1>0, <2>1, <2>2, <2>3, <2>4, <3>1, <3>2, RowAfterOffer
    <2>5. CASE e # d
      <3>1. deals'[e] = Sweep(b)[e]
        BY <2>2, <2>5 DEF Sweep
      <3>2. QED
        BY <1>0, <2>1, <3>1, RowSwept
    <2>6. QED
      BY <2>4, <2>5
  <1>2. ASSUME NEW d \in DealIds, NEW offer \in Offers, Counter(d, offer)
        PROVE  RowInvariant(e)'
    <2>1. /\ UNCHANGED <<now, revisions, policies, permits, orders>>
          /\ OfferAllowed(deals[d], offer) /\ deals[d].status = "negotiating"
      BY <1>2 DEF Counter, OfferAllowed
    <2>2. CASE e = d
      <3>1. deals'[d] = AfterOffer(deals[d], offer)
        BY <1>2 DEF Counter, TypeOK
      <3>2. QED
        BY <1>0, <2>1, <2>2, <3>1, RowAfterOffer DEF RowInvariant
    <2>3. CASE e # d
      BY <1>0, <1>2, <2>3, RowUntouched DEF Counter
    <2>4. QED
      BY <2>2, <2>3
  <1>3. ASSUME NEW d \in DealIds, CreatePermit(d)
        PROVE  RowInvariant(e)'
    <2>1. CASE e = d
      BY <1>0, <1>3, <2>1, RowAfterPermit
    <2>2. CASE e # d
      BY <1>0, <1>3, <2>2, RowUntouched DEF CreatePermit
    <2>3. QED
      BY <2>1, <2>2
  <1>4. ASSUME NEW d \in DealIds, ExchangeApprovalToken(d)
        PROVE  RowInvariant(e)'
    <2>1. CASE e = d
      BY <1>0, <1>4, <2>1, RowAfterExchange
    <2>2. CASE e # d
      <3>1. deals'[e] = deals[e] /\ permits'[e] = permits[e] /\ orders'[e] = orders[e]
        BY <1>4, <2>2 DEF ExchangeApprovalToken, TypeOK
      <3>2. QED
        BY <1>0, <1>4, <3>1, RowUntouched DEF ExchangeApprovalToken
    <2>3. QED
      BY <2>1, <2>2
  <1>5. ASSUME NEW d \in DealIds, CompleteApproval(d)
        PROVE  RowInvariant(e)'
    <2>1. CASE e = d
      BY <1>0, <1>5, <2>1, RowAfterApproval
    <2>2. CASE e # d
      BY <1>0, <1>5, <2>2, RowUntouched DEF CompleteApproval
    <2>3. QED
      BY <2>1, <2>2
  <1>6. ASSUME NEW minimum \in Minimums, SavePolicy(minimum)
        PROVE  RowInvariant(e)'
    BY <1>0, <1>6, RowAfterPolicy DEF SavePolicy
  <1>7. ASSUME DisablePolicy
        PROVE  RowInvariant(e)'
    BY <1>0, <1>7, RowAfterPolicy, Histories DEF DisablePolicy, LatestPolicy
  <1>8. ASSUME NEW price \in Prices, NEW active \in BOOLEAN, UpdateProduct(price, active)
        PROVE  RowInvariant(e)'
    BY <1>0, <1>8, RowAfterRevision
  <1>9. ASSUME NEW d \in DealIds, NEW adapter \in Adapters, ClaimOrder(d, adapter)
        PROVE  RowInvariant(e)'
    <2>1. CASE e = d
      <3>1. /\ orders'[d].status = "creating" /\ orders'[d].amount = permits[d].price
            /\ permits'[d] = [permits[d] EXCEPT !.status = "executing"]
            /\ permits[d].status # "none" /\ orders[d].status = "none"
            /\ UNCHANGED <<now, revisions, policies, deals>>
        BY <1>9 DEF ClaimOrder, Unclaimed, TypeOK
      <3>2. deals'[d] = [deals[d] EXCEPT !.status = deals[d].status]
            /\ deals[d].status \in DealStatuses /\ deals[d].status # "paid"
        BY <1>0, <2>1, <3>1, RowFacts DEF Deal
      <3>3. /\ permits'[d] = [permits[d] EXCEPT !.status = PermitOfOrder["creating"]]
            /\ "creating" \in OrderStatuses \ {"none"}
        BY <3>1 DEF PermitOfOrder, OrderStatuses
      <3>4. deals'[d] = [deals[d] EXCEPT !.status = deals[d].status]
        BY <3>1, <3>2
      <3>5. QED
        BY <1>0, <2>1, <3>1, <3>2, <3>3, <3>4, RowAfterOrder
    <2>2. CASE e # d
      BY <1>0, <1>9, <2>2, RowUntouched DEF ClaimOrder
    <2>3. QED
      BY <2>1, <2>2
  <1>10. ASSUME NEW d \in DealIds, DenyClaim(d)
         PROVE  RowInvariant(e)'
    <2>1. CASE e = d
      BY <1>0, <1>10, <2>1, RowAfterDenial
    <2>2. CASE e # d
      BY <1>0, <1>10, <2>2, RowUntouched DEF DenyClaim
    <2>3. QED
      BY <2>1, <2>2
  <1>11. \A d \in DealIds : RowInvariant(d) /\ orders[d].status # "none" =>
            /\ permits[d].status # "none" /\ orders[d].amount = permits[d].price
            /\ deals[d].status \in DealStatuses
            /\ deals[d] = [deals[d] EXCEPT !.status = deals[d].status]
    BY RowFacts DEF RowInvariant, SealedTerms, ReplayStatuses, Deal
  <1>12. ASSUME NEW d \in DealIds, NEW acknowledged \in BOOLEAN,
                CompleteOrder(d, acknowledged)
         PROVE  RowInvariant(e)'
    <2>1. CASE e = d
      <3>1. /\ orders'[d].status = "ready" /\ orders'[d].amount = orders[d].amount
            /\ permits'[d] = [permits[d] EXCEPT !.status = "checkout_ready"]
            /\ orders[d].claimant /\ ~orders[d].atProvider
            /\ UNCHANGED <<now, revisions, policies, deals>>
        BY <1>0, <1>12, <2>1 DEF CompleteOrder, TypeOK, Order
      <3>2. orders[d].status # "none" /\ deals[d].status # "paid"
        BY <1>0, <2>1, <3>1, RowFacts DEF RowInvariant, SealedTerms
      <3>3. /\ permits'[d] = [permits[d] EXCEPT !.status = PermitOfOrder["ready"]]
            /\ "ready" \in OrderStatuses \ {"none"}
        BY <3>1 DEF PermitOfOrder, OrderStatuses
      <3>4. /\ permits[d].status # "none" /\ orders'[d].amount = permits[d].price
            /\ deals'[d] = [deals[d] EXCEPT !.status = deals[d].status]
            /\ deals[d].status \in DealStatuses
        BY <1>0, <1>11, <2>1, <3>1, <3>2
      <3>5. QED
        BY <1>0, <2>1, <3>1, <3>2, <3>3, <3>4, RowAfterOrder
    <2>2. CASE e # d
      <3>1. deals'[e] = deals[e] /\ permits'[e] = permits[e] /\ orders'[e] = orders[e]
        BY <1>12, <2>2 DEF CompleteOrder, TypeOK
      <3>2. QED
        BY <1>0, <1>12, <3>1, RowUntouched DEF CompleteOrder
    <2>3. QED
      BY <2>1, <2>2
  <1>13. ASSUME NEW d \in DealIds, MarkReconciliation(d)
         PROVE  RowInvariant(e)'
    <2>1. CASE e = d
      <3>1. /\ orders'[d].status = "reconciliation_required"
            /\ orders'[d].amount = orders[d].amount
            /\ permits'[d] = [permits[d] EXCEPT !.status = "reconciliation_required"]
            /\ deals'[d] = [deals[d] EXCEPT !.status = "reconciliation_required"]
            /\ orders[d].claimant
            /\ UNCHANGED <<now, revisions, policies>>
        BY <1>0, <1>13, <2>1 DEF MarkReconciliation, TypeOK, Order
      <3>2. orders[d].status # "none"
        BY <1>0, <2>1, <3>1 DEF RowInvariant, SealedTerms
      <3>3. /\ permits'[d] = [permits[d] EXCEPT
                    !.status = PermitOfOrder["reconciliation_required"]]
            /\ "reconciliation_required" \in OrderStatuses \ {"none"}
            /\ "reconciliation_required" \in DealStatuses
        BY <3>1 DEF PermitOfOrder, OrderStatuses, DealStatuses
      <3>4. permits[d].status # "none" /\ orders'[d].amount = permits[d].price
        BY <1>0, <1>11, <2>1, <3>1, <3>2
      <3>5. QED
        BY <1>0, <2>1, <3>1, <3>2, <3>3, <3>4, RowAfterOrder
    <2>2. CASE e # d
      <3>1. deals'[e] = deals[e] /\ permits'[e] = permits[e] /\ orders'[e] = orders[e]
        BY <1>13, <2>2 DEF MarkReconciliation, TypeOK
      <3>2. QED
        BY <1>0, <1>13, <3>1, RowUntouched DEF MarkReconciliation
    <2>3. QED
      BY <2>1, <2>2
  <1>14. ASSUME NEW d \in DealIds, MarkPaid(d)
         PROVE  RowInvariant(e)'
    <2>1. CASE e = d
      <3>1. /\ orders'[d].status = "paid" /\ orders'[d].amount = orders[d].amount
            /\ orders'[d].adapter = orders[d].adapter
            /\ orders'[d].atProvider = orders[d].atProvider
            /\ permits'[d] = [permits[d] EXCEPT !.status = "paid"]
            /\ deals'[d] = IF orders[d].adapter = "razorpay"
                           THEN [deals[d] EXCEPT !.status = "paid"] ELSE deals[d]
            /\ orders[d].status \notin {"none", "paid"}
            /\ orders[d].atProvider \/ orders[d].adapter = "mock"
            /\ UNCHANGED <<now, revisions, policies>>
        BY <1>0, <1>14, <2>1 DEF MarkPaid, Payable, SettlesDeal, TypeOK, Order
      <3>2. deals[d].status # "paid"
        BY <1>0, <2>1, <3>1 DEF RowInvariant
      <3>3. /\ permits'[d] = [permits[d] EXCEPT !.status = PermitOfOrder["paid"]]
            /\ "paid" \in OrderStatuses \ {"none"} /\ "paid" \in DealStatuses
        BY <3>1 DEF PermitOfOrder, OrderStatuses, DealStatuses
      <3>4. /\ permits[d].status # "none" /\ orders'[d].amount = permits[d].price
            /\ deals[d] = [deals[d] EXCEPT !.status = deals[d].status]
            /\ deals[d].status \in DealStatuses
            /\ orders'[d].adapter = "razorpay" => orders'[d].atProvider
        BY <1>0, <1>11, <2>1, <3>1, <3>2
      <3>5. CASE orders[d].adapter = "razorpay"
        <4>1. deals'[d] = [deals[d] EXCEPT !.status = "paid"]
          BY <3>1, <3>5
        <4>2. QED
          BY <1>0, <2>1, <3>1, <3>3, <3>4, <3>5, <4>1, RowAfterOrder
      <3>6. CASE orders[d].adapter # "razorpay"
        <4>1. deals'[d] = [deals[d] EXCEPT !.status = deals[d].status]
          BY <3>1, <3>4, <3>6
        <4>2. QED
          BY <1>0, <2>1, <3>1, <3>2, <3>3, <3>4, <3>6, <4>1, RowAfterOrder
      <3>7. QED
        BY <3>5, <3>6
    <2>2. CASE e # d
      BY <1>0, <1>14, <2>2, RowUntouched DEF MarkPaid
    <2>3. QED
      BY <2>1, <2>2
  <1>15. ASSUME Tick
         PROVE  RowInvariant(e)'
    BY <1>0, <1>15, RowInTime
  <1>16. CASE UNCHANGED <<now, revisions, policies, deals, permits, orders>>
    BY <1>0, <1>16, RowUntouched
  <1>17. QED
    BY <1>1, <1>2, <1>3, <1>4, <1>5, <1>6, <1>7, <1>8, <1>9, <1>10, <1>12, <1>13,
       <1>14, <1>15, <1>16 DEF StartReads, StartFails, vars, Next, BuyerNext, MerchantNext, CheckoutNext

-----------------------------------------------------------------------------
(* The theorems.                                                            *)

(* In every reachable state the tables are well typed and DealInvariant     *)
(* relates each deal to its permit, its order, the policies, the revisions  *)
(* and the clock.                                                           *)
THEOREM InvariantHolds == Spec => [](TypeOK /\ DealInvariant)
  <1>1. Init => TypeOK /\ DealInvariant
    <2>1. SUFFICES ASSUME Init PROVE TypeOK /\ DealInvariant
      OBVIOUS
    <2>2. TypeOK
      BY <2>1 DEF Init, TypeOK, NoDeal, NoPermit, NoOrder, Deal, Permit, Order, Adapters,
           DealStatuses, PermitStatuses, OrderStatuses, AllKeys, NoStart, StartRow
    <2>3. ASSUME NEW d \in DealIds PROVE RowInvariant(d)
      <3>1. deals[d] = NoDeal /\ permits[d] = NoPermit /\ orders[d] = NoOrder
        BY <2>1 DEF Init
      <3>2. QED
        BY <3>1 DEF RowInvariant, StruckFairly, StatusMeans, SealedTerms, NoDeal, NoPermit,
             NoOrder, IsOpen, OpenStatuses, ReplayStatuses
    <2>4. \A s \in Starters : SweptLapsed(s)
      BY <2>1 DEF Init, SweptLapsed, NoStart
    <2>5. QED
      BY <2>2, <2>3, <2>4, Rows
  <1>2. TypeOK /\ DealInvariant /\ [Next]_vars => (TypeOK /\ DealInvariant)'
    BY TypeOKStep, DealInvariantStep
  <1>3. QED
    BY <1>1, <1>2, PTL DEF Spec

(* No deal is struck outside what the merchant's minimum and the buyer's    *)
(* ceiling allow, and no order is for another amount than the agreed one.   *)
THEOREM AgreementsAreWithinLimits == Spec => []AgreedWithinBothLimits
  <1>1. TypeOK /\ DealInvariant => AgreedWithinBothLimits
    <2>1. SUFFICES ASSUME TypeOK, DealInvariant, NEW d \in DealIds
                   PROVE  /\ deals[d].price # 0 =>
                                /\ policies[deals[d].policyVersion].floor <= deals[d].price
                                /\ deals[d].price <= deals[d].max
                          /\ orders[d].status # "none" =>
                                deals[d].price # 0 /\ orders[d].amount = deals[d].price
      BY DEF AgreedWithinBothLimits
    <2>2. RowInvariant(d)
      BY <2>1, Rows
    <2>3. CASE deals[d].status = "none"
      <3>1. orders[d].status = "none"
        BY <2>2, <2>3 DEF RowInvariant, StatusMeans, SealedTerms
      <3>2. deals[d].price = 0
        BY <2>2, <2>3 DEF RowInvariant, StatusMeans
      <3>3. QED
        BY <3>1, <3>2
    <2>4. CASE deals[d].status # "none"
      BY <2>2, <2>4, RowFacts DEF RowInvariant, StruckFairly, SealedTerms, ReplayStatuses
    <2>5. QED
      BY <2>3, <2>4
  <1>2. QED
    BY <1>1, InvariantHolds, PTL

(* No open deal outlives the policy it was made under.                      *)
THEOREM OpenDealsAreCurrent == Spec => []OpenDealsHoldLatestPolicy
  <1>1. TypeOK /\ DealInvariant => OpenDealsHoldLatestPolicy
    <2>1. SUFFICES ASSUME TypeOK, DealInvariant, NEW d \in DealIds, IsOpen(d)
                   PROVE  /\ HoldsLatestPolicy(deals[d])
                          /\ ValidMinimum(deals[d].publicPrice, LatestPolicy.floor)
      BY DEF OpenDealsHoldLatestPolicy
    <2>2. RowInvariant(d) /\ deals[d].status # "none"
      BY <2>1, Rows DEF IsOpen, OpenStatuses
    <2>3. deals[d].policyVersion = Len(policies)
      BY <2>1, <2>2 DEF RowInvariant, StatusMeans
    <2>4. QED
      BY <2>1, <2>2, <2>3, Histories
      DEF RowInvariant, StruckFairly, HoldsLatestPolicy, NegotiationEnabled, LatestPolicy
  <1>2. QED
    BY <1>1, InvariantHolds, PTL

(* A policy change leaves no usable permit on a deal it invalidates, unless *)
(* the claim came first (deals.ts:224).                                     *)
THEOREM InvalidationVoids == Spec => []InvalidationVoidsUnclaimed
  <1>1. DealInvariant => InvalidationVoidsUnclaimed
    BY DEF DealInvariant
  <1>2. QED
    BY <1>1, InvariantHolds, PTL

(* From the claim on no policy change, approval, refusal or sweep separates *)
(* a permit from its order (deals.ts:224, store.ts:436-514).                *)
THEOREM PermitsFollowOrders == Spec => []PermitFollowsOrder
  <1>1. DealInvariant => PermitFollowsOrder
    BY DEF DealInvariant
  <1>2. QED
    BY <1>1, InvariantHolds, PTL

(* A deal is paid exactly when the real provider's payment of its order is  *)
(* verified (README.md:39, store.ts:509).                                   *)
THEOREM PaidIsCaptured == Spec => []PaidMeansCaptured
  <1>1. DealInvariant => PaidMeansCaptured
    BY DEF DealInvariant
  <1>2. QED
    BY <1>1, InvariantHolds, PTL

(* A claim succeeds only on a deal that waits for it.                       *)
THEOREM ClaimsAreLive == Spec => ClaimOnlyOnLiveDeal
  <1> DEFINE Live == \A d \in DealIds :
                orders[d].status = "none" /\ orders'[d].status # "none" =>
                    deals[d].status = "permit_created"
  <1>1. ASSUME TypeOK, DealInvariant, [Next]_vars, NEW d \in DealIds,
               orders[d].status = "none", orders'[d].status # "none"
        PROVE  deals[d].status = "permit_created"
    <2>1. RowInvariant(d) /\ orders[d].status = "none" /\ ~orders[d].claimant
      BY <1>1, Rows, RowFacts
    <2>2. PICK adapter \in Adapters : ClaimOrder(d, adapter)
      BY <1>1, <2>1, Steps, StartFrame DEF MerchantNext, CheckoutNext, Counter,
           CreatePermit, ExchangeApprovalToken, CompleteApproval, SavePolicy, DisablePolicy,
           UpdateProduct, ClaimOrder, DenyClaim, CompleteOrder, MarkReconciliation,
           MarkPaid, Payable, Tick, StartReads, StartFails, vars, TypeOK
    <2>3. ~Dead(d) /\ permits[d].status # "none"
      BY <1>1, <2>1, <2>2, RefusalReasons DEF ClaimOrder, Unclaimed
    <2>4. deals[d].status \notin {"none", "negotiating", "accepted", "rejected", "paid",
                                  "reconciliation_required"}
      BY <1>1, <2>1, <2>3, RowFacts
    <2>5. deals[d].status \notin {"expired", "invalidated"}
      BY <1>1, <2>1, <2>3, RowFacts DEF RowInvariant, StatusMeans, SealedTerms, Dead, Lapsed
    <2>6. deals[d].status \in DealStatuses
      BY <1>1 DEF TypeOK, Deal
    <2>7. QED
      BY <2>4, <2>5, <2>6 DEF DealStatuses, OpenStatuses
  <1>2. TypeOK /\ DealInvariant /\ [Next]_vars => [Live]_vars
    BY <1>1
  <1>3. QED
    BY <1>2, InvariantHolds, PTL DEF Spec, ClaimOnlyOnLiveDeal

(* What made the revalidation refuse a permit cannot be undone, so a        *)
(* refused permit stays refused and gets no order.                          *)
THEOREM RefusalsAreFinal == Spec => RefusedIsFinal
  <1> DEFINE Final == \A d \in DealIds :
                permits[d].status \in {"denied", "expired"} =>
                    /\ permits'[d].status \in {"denied", "expired"}
                    /\ orders'[d].status = "none"
  <1>1. ASSUME TypeOK, DealInvariant, [Next]_vars, NEW d \in DealIds,
               permits[d].status \in {"denied", "expired"}
        PROVE  /\ permits'[d].status \in {"denied", "expired"}
               /\ orders'[d].status = "none"
    <2>1. /\ RowInvariant(d) /\ orders[d].status = "none" /\ ~orders[d].claimant
          /\ permits[d].status \notin {"none"} \cup AwaitingStatuses
          /\ permits[d] \in Permit
      BY <1>1, Rows, RowFacts DEF ReplayStatuses, AwaitingStatuses
    <2>2. Dead(d)
      BY <1>1, <2>1 DEF RowInvariant, SealedTerms
    <2>3. ASSUME NEW e \in DealIds, NEW adapter \in Adapters, ClaimOrder(e, adapter)
          PROVE  permits'[d] = permits[d] /\ orders'[d] = orders[d]
      <3>1. e # d
        BY <1>1, <2>1, <2>2, <2>3, RefusalReasons DEF ClaimOrder
      <3>2. QED
        BY <2>3, <3>1 DEF ClaimOrder, TypeOK
    <2>4. ASSUME NEW e \in DealIds, DenyClaim(e)
          PROVE  permits'[d].status \in {"denied", "expired"} /\ orders'[d] = orders[d]
      BY <1>1, <2>1, <2>4 DEF DenyClaim, TypeOK, Permit
    <2>5. ASSUME NEW e \in DealIds, CompleteApproval(e)
          PROVE  permits'[d].status = permits[d].status /\ orders'[d] = orders[d]
      BY <1>1, <2>1, <2>5 DEF CompleteApproval, TypeOK, Permit, AwaitingStatuses
    <2>6. ASSUME NEW e \in DealIds, \/ CreatePermit(e) \/ ExchangeApprovalToken(e)
                                    \/ MarkReconciliation(e) \/ MarkPaid(e)
                                    \/ \E acknowledged \in BOOLEAN :
                                            CompleteOrder(e, acknowledged)
          PROVE  permits'[d] = permits[d] /\ orders'[d] = orders[d]
      <3>1. e # d
        BY <1>1, <2>1, <2>6
        DEF CreatePermit, ExchangeApprovalToken, MarkReconciliation, MarkPaid, Payable,
            CompleteOrder, AwaitingStatuses
      <3>2. QED
        BY <1>1, <2>6, <3>1
        DEF CreatePermit, ExchangeApprovalToken, MarkReconciliation, MarkPaid,
            CompleteOrder, TypeOK
    <2>7. ASSUME InvalidateOpenDeals
          PROVE  permits'[d] = permits[d]
      BY <2>1, <2>7 DEF InvalidateOpenDeals, DeniedByPolicyChange
    <2>8. CASE UNCHANGED <<permits, orders>>
      BY <1>1, <2>1, <2>8
    <2>9. QED
      BY <1>1, <2>1, <2>3, <2>4, <2>5, <2>6, <2>7, <2>8, Steps, StartFrame
      DEF MerchantNext, CheckoutNext, Counter, SavePolicy,
          DisablePolicy, UpdateProduct, Tick, StartReads, StartFails, vars
  <1>2. TypeOK /\ DealInvariant /\ [Next]_vars => [Final]_vars
    BY <1>1
  <1>3. QED
    BY <1>2, InvariantHolds, PTL DEF Spec, RefusedIsFinal

(* A buyer never has two open deals for the product: a start's COMMIT       *)
(* passes the index only when the open deals it finds are those it swept,   *)
(* which are closed with it, and no other step opens a deal.                *)
THEOREM OneOpenDeal == Spec => []OneOpenDealPerBuyer
  <1>1. Init => OneOpenDealPerBuyer
    BY DEF Init, OneOpenDealPerBuyer, IsOpen, OpenStatuses, NoDeal
  <1>2. ASSUME TypeOK, DealInvariant, OneOpenDealPerBuyer, [Next]_vars
        PROVE  OneOpenDealPerBuyer'
    <2>1. ASSUME NEW s \in Starters, NEW d \in DealIds, NEW max \in Ceilings,
                 NEW offer \in Offers, NEW revision \in DOMAIN revisions,
                 NEW key \in Keys \cup {DefaultKey(max, offer, starting[s].at)},
                 Start(s, d, max, offer, key, revision)
          PROVE  OneOpenDealPerBuyer'
      <3> DEFINE b == starting[s].buyer
                 deal == FreshDeal(b, max, key, revision)
      <3>1. /\ deals' = [Sweep(b) EXCEPT ![d] = AfterOffer(deal, offer)]
            /\ OpenDealsOf(b) \subseteq starting[s].swept /\ b \in Buyers
        BY <1>2, <2>1 DEF Start, NoOtherOpenDeal, TypeOK, StartRow
      <3>2. deal \in Deal /\ deal.buyer = b
        <4>1. deal \in Deal
          <5> HIDE DEF b
          <5>1. QED
            BY <1>2, <3>1, FreshDealTyped
        <4>2. QED
          BY <4>1 DEF FreshDeal, NoDeal
      <3>3. \A e \in OpenDealsOf(b) : Lapsed(deals[e])
        BY <1>2, <3>1 DEF DealInvariant, SweptLapsed
      <3> HIDE DEF b, deal
      <3>4. deals'[d].buyer = b
        BY <3>1, <3>2 DEF Sweep, AfterOffer, Deal
      <3>5. ASSUME NEW e \in DealIds, e # d, IsOpen(e)'
            PROVE  IsOpen(e) /\ deals'[e].buyer = deals[e].buyer /\ deals[e].buyer # b
        <4>1. deals'[e] = Sweep(b)[e]
          BY <3>1, <3>5 DEF Sweep
        <4>2. ~(e \in OpenDealsOf(b) /\ Lapsed(deals[e]))
          BY <1>2, <3>5, <4>1 DEF Sweep, IsOpen, OpenStatuses, TypeOK, Deal
        <4>3. deals'[e] = deals[e]
          BY <4>1, <4>2 DEF Sweep
        <4>4. IsOpen(e)
          BY <3>5, <4>3 DEF IsOpen
        <4>5. QED
          BY <3>3, <4>2, <4>3, <4>4 DEF OpenDealsOf
      <3>6. QED
        BY <1>2, <3>4, <3>5 DEF OneOpenDealPerBuyer
    <2>2. ASSUME \A e \in DealIds : deals'[e].buyer = deals[e].buyer /\ (IsOpen(e)' => IsOpen(e))
          PROVE  OneOpenDealPerBuyer'
      BY <1>2, <2>2 DEF OneOpenDealPerBuyer
    <2>3. ASSUME NEW d \in DealIds, NEW offer \in Offers, Counter(d, offer)
          PROVE  OneOpenDealPerBuyer'
      <3>1. /\ IsOpen(d) /\ deals'[d].buyer = deals[d].buyer
            /\ \A e \in DealIds \ {d} : deals'[e] = deals[e]
        BY <1>2, <2>3 DEF Counter, OfferAllowed, AfterOffer, TypeOK, Deal, IsOpen,
             OpenStatuses
      <3>2. QED
        BY <2>2, <3>1 DEF IsOpen
    <2>4. ASSUME NEW d \in DealIds, CreatePermit(d)
          PROVE  OneOpenDealPerBuyer'
      <3>1. /\ IsOpen(d) /\ deals'[d].buyer = deals[d].buyer
            /\ \A e \in DealIds \ {d} : deals'[e] = deals[e]
        BY <1>2, <2>4 DEF CreatePermit, TypeOK, Deal, IsOpen, OpenStatuses
      <3>2. QED
        BY <2>2, <3>1 DEF IsOpen
    <2>5. ASSUME InvalidateOpenDeals
          PROVE  OneOpenDealPerBuyer'
      BY <1>2, <2>2, <2>5 DEF InvalidateOpenDeals, IsOpen, OpenStatuses, TypeOK, Deal
    <2>6. ASSUME NEW d \in DealIds, MarkReconciliation(d) \/ MarkPaid(d)
          PROVE  OneOpenDealPerBuyer'
      <3>1. \E s \in {"paid", "reconciliation_required"} :
                deals' = [deals EXCEPT ![d].status = s] \/ deals' = deals
        BY <2>6 DEF MarkReconciliation, MarkPaid
      <3>2. PICK s \in {"paid", "reconciliation_required"} :
                deals' = [deals EXCEPT ![d].status = s] \/ deals' = deals
        BY <3>1
      <3>3. /\ deals'[d] = deals[d] \/ deals'[d] = [deals[d] EXCEPT !.status = s]
            /\ \A e \in DealIds \ {d} : deals'[e] = deals[e]
        BY <1>2, <3>2 DEF TypeOK
      <3>4. deals'[d].buyer = deals[d].buyer /\ (IsOpen(d)' => IsOpen(d))
        BY <1>2, <3>2, <3>3 DEF TypeOK, Deal, IsOpen, OpenStatuses
      <3>5. QED
        BY <2>2, <3>3, <3>4 DEF IsOpen
    <2>7. CASE UNCHANGED deals
      BY <2>2, <2>7 DEF IsOpen
    <2>8. QED
      BY <1>2, <2>1, <2>3, <2>4, <2>5, <2>6, <2>7
      DEF Next, BuyerNext, MerchantNext, CheckoutNext, ExchangeApprovalToken,
          CompleteApproval, SavePolicy, DisablePolicy, UpdateProduct, ClaimOrder,
          DenyClaim, CompleteOrder, Tick, StartReads, StartFails, vars
  <1>3. QED
    BY <1>1, <1>2, InvariantHolds, PTL DEF Spec
=============================================================================
