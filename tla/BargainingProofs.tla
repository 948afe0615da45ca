-------------------------- MODULE BargainingProofs --------------------------
(***************************************************************************)
(* What holds of the bargaining of Deals for every number of buyers,       *)
(* deals, prices and ticks: the offers and counters of a deal converge,    *)
(* and a buyer's starts pass the session limit by no more than overlap.    *)
(***************************************************************************)
EXTENDS DealsProofs, FiniteSetTheorems

(* A row that was never used, and the history of one that was: offers rise, *)
(* and while it negotiates the last counter is the answer to the last offer.*)
HistoryMeans(deal) ==
    /\ deal.status = "none" =>
          deal.buyer = NoBuyer /\ deal.offers = <<>> /\ deal.lastCounter = 0
    /\ Len(deal.offers) <= 3
    /\ \A i, j \in 1 .. Len(deal.offers) : i < j => deal.offers[i] < deal.offers[j]
    /\ deal.status = "negotiating" =>
          deal.lastCounter =
            IF deal.offers = <<>> THEN 0
            ELSE merchantThreshold(deal.publicPrice, policies[deal.policyVersion].floor,
                                   Len(deal.offers))

(* Finitely many deals are started, and none in the future.                 *)
StartedDeals == {d \in DealIds : deals[d].status # "none"}
StartsInThePast ==
    /\ IsFiniteSet(StartedDeals)
    /\ \A d \in StartedDeals : deals[d].createdAt <= now

-----------------------------------------------------------------------------
(* Bargaining.                                                              *)

(* One offer: it is above the earlier ones, and a counter it is answered    *)
(* with lies between the minimum and the counter before.                    *)
LEMMA OfferConverges ==
    ASSUME TypeOK, NEW deal \in Deal, NEW offer \in Offers,
           StruckFairly(deal), HistoryMeans(deal), OfferAllowed(deal, offer)
    PROVE  LET after == AfterOffer(deal, offer)
               n == Len(after.offers)
               floor == policies[deal.policyVersion].floor
           IN  /\ after.policyVersion = deal.policyVersion
               /\ n <= 3
               /\ \A i \in 1 .. n - 1 : after.offers[i] < after.offers[n]
               /\ after.lastCounter # deal.lastCounter =>
                    /\ floor <= after.lastCounter
                    /\ deal.lastCounter # 0 => after.lastCounter <= deal.lastCounter
               /\ HistoryMeans(after)
  <1> DEFINE round == Len(deal.offers) + 1
             floor == policies[deal.policyVersion].floor
             answer == Response(deal.publicPrice, floor, round, offer)
             threshold == merchantThreshold(deal.publicPrice, floor, round)
             after == AfterOffer(deal, offer)
  <1>1. /\ deal.status = "negotiating" /\ Len(deal.offers) \in 0 .. 2
        /\ deal.offers # <<>> => offer > deal.offers[Len(deal.offers)]
        /\ deal.offers \in Seq(Offers) /\ deal.publicPrice \in Nat
    <2>1. deal.offers \in Seq(Offers) /\ deal.publicPrice \in Nat
      BY DEF Deal
    <2>2. Len(deal.offers) \in Nat
      BY <2>1, LenProperties
    <2>3. deal.status = "negotiating" /\ Len(deal.offers) < 3
      BY DEF OfferAllowed
    <2>5. \A n \in Nat : n < 3 => n \in 0 .. 2
      OBVIOUS
    <2>4. deal.offers # <<>> => offer > deal.offers[Len(deal.offers)]
      BY DEF OfferAllowed
    <2>6. Len(deal.offers) \in 0 .. 2
      BY <2>2, <2>3, <2>5, Zenon
    <2>7. QED
      BY <2>1, <2>3, <2>4, <2>6
  <1>2. /\ floor \in Nat /\ offer \in Nat /\ Offers \subseteq Nat
        /\ ValidMinimum(deal.publicPrice, floor)
    BY <1>1, Histories, AmountsAssumption DEF StruckFairly
  <1>3. /\ after.status = IF answer = "counter" THEN "negotiating" ELSE answer
        /\ after.lastCounter = IF answer = "counter" THEN threshold ELSE deal.lastCounter
        /\ after.offers = Append(deal.offers, offer)
        /\ after.policyVersion = deal.policyVersion
        /\ after.publicPrice = deal.publicPrice
    BY DEF AfterOffer, Deal
  <1>4. /\ answer \in {"accepted", "rejected", "counter"}
        /\ answer = "counter" => round \in 1 .. 2
    BY <1>1 DEF Response
  <1>5. answer = "counter" =>
            /\ threshold \in floor .. deal.publicPrice
            /\ round = 2 => threshold <= merchantThreshold(deal.publicPrice, floor, 1)
    BY <1>1, <1>2, <1>4, ThresholdBounds
  <1>6. /\ Len(after.offers) = round /\ after.offers[round] = offer
        /\ \A i \in 1 .. round - 1 : after.offers[i] = deal.offers[i]
        /\ \A i \in 1 .. round - 1 : deal.offers[i] \in Nat
    <2>1. Len(deal.offers) \in Nat
      BY <1>1
    <2>2. \A i \in 1 .. Len(deal.offers) : deal.offers[i] \in Offers
      BY <1>1, ElementOfSeq
    <2> HIDE DEF after
    <2>3. /\ Len(after.offers) = round /\ after.offers[round] = offer
          /\ \A i \in 1 .. round - 1 : after.offers[i] = deal.offers[i]
      <3>1. deal.offers \in Seq(Offers) /\ offer \in Offers
        BY <1>1
      <3>2. QED
        BY <1>3, <3>1, <2>1, AppendProperties
    <2>4. \A i \in 1 .. round - 1 : deal.offers[i] \in Nat
      <3>1. round - 1 = Len(deal.offers)
        BY <2>1
      <3>2. QED
        BY <1>2, <2>2, <3>1
    <2>5. QED
      BY <2>3, <2>4
  <1>7. \A i \in 1 .. round - 1 : after.offers[i] < offer
    <2>1. SUFFICES ASSUME NEW i \in 1 .. round - 1
                   PROVE  deal.offers[i] < offer
      BY <1>6
    <2>2. Len(deal.offers) \in 1 .. round - 1 /\ deal.offers # <<>>
      BY <1>1, <2>1
    <2>3. i = Len(deal.offers) \/ deal.offers[i] < deal.offers[Len(deal.offers)]
      BY <1>1, <2>1, <2>2 DEF HistoryMeans
    <2>4. QED
      BY <1>1, <1>2, <1>6, <2>1, <2>2, <2>3
  <1>8. \A i, j \in 1 .. round : i < j => after.offers[i] < after.offers[j]
    <2>1. SUFFICES ASSUME NEW i \in 1 .. round, NEW j \in 1 .. round, i < j
                   PROVE  after.offers[i] < after.offers[j]
      OBVIOUS
    <2>2. CASE j = round
      BY <1>1, <1>6, <1>7, <2>1, <2>2
    <2>3. CASE j # round
      BY <1>1, <1>6, <2>1, <2>3 DEF HistoryMeans
    <2>4. QED
      BY <2>2, <2>3
  <1>9. answer = "counter" /\ deal.lastCounter # 0 => threshold <= deal.lastCounter
    <2>1. deal.lastCounter # 0 =>
            \/ round = 2 /\ deal.lastCounter = merchantThreshold(deal.publicPrice, floor, 1)
            \/ round = 3
      BY <1>1 DEF HistoryMeans
    <2>2. QED
      BY <1>4, <1>5, <2>1
  <1> HIDE DEF round, floor, answer, threshold, after
  <1>10. HistoryMeans(after)
    <2>1. after.status # "none"
      BY <1>3, <1>4
    <2>2. round <= 3
      BY <1>1 DEF round
    <2>3. after.offers # <<>>
      BY <1>1, <1>6 DEF round
    <2>4. after.status = "negotiating" =>
            after.lastCounter = merchantThreshold(after.publicPrice,
                policies[after.policyVersion].floor, Len(after.offers))
      BY <1>3, <1>4, <1>6 DEF threshold, floor
    <2>5. QED
      BY <1>6, <1>8, <2>1, <2>2, <2>3, <2>4 DEF HistoryMeans
  <1>11. round <= 3
    BY <1>1 DEF round
  <1>12. QED
    BY <1>3, <1>5, <1>6, <1>7, <1>9, <1>10, <1>11 DEF after, floor

(* The row a start inserts.                                                 *)
LEMMA StartedRow ==
    ASSUME TypeOK, NEW s \in Starters, NEW d \in DealIds, NEW max \in Ceilings,
           NEW offer \in Offers, NEW revision \in DOMAIN revisions,
           NEW key \in Keys \cup {DefaultKey(max, offer, starting[s].at)},
           Start(s, d, max, offer, key, revision)
    PROVE  LET b == starting[s].buyer
               deal == FreshDeal(b, max, key, revision)
           IN  /\ b \in Buyers /\ deal \in Deal /\ StruckFairly(deal)
               /\ deal.buyer = b /\ deal.createdAt = now /\ deal.status = "negotiating"
               /\ OfferAllowed(deal, offer) /\ deals[d].status = "none"
               /\ deals' = [Sweep(b) EXCEPT ![d] = AfterOffer(deal, offer)]
               /\ policies' = policies
  <1> DEFINE b == starting[s].buyer
             deal == FreshDeal(b, max, key, revision)
  <1>1. /\ b \in Buyers /\ OfferAllowed(deal, offer) /\ deals[d].status = "none"
        /\ deals' = [Sweep(b) EXCEPT ![d] = AfterOffer(deal, offer)]
        /\ revisions[revision].active /\ NegotiationEnabled /\ policies' = policies
    BY DEF Start, TypeOK, StartRow
  <1>2. deal.buyer = b /\ deal.createdAt = now /\ deal.status = "negotiating"
    BY DEF FreshDeal, NoDeal
  <1> HIDE DEF b
  <1>3. deal \in Deal /\ StruckFairly(deal)
    BY <1>1, FreshDealTyped, FreshDealSound
  <1> HIDE DEF deal
  <1>4. QED
    BY <1>1, <1>2, <1>3 DEF b, deal

(* The row an offer leaves, whether it opens the deal or goes on with it.   *)
LEMMA OfferLeaves ==
    ASSUME TypeOK, DealInvariant, NEW d \in DealIds, HistoryMeans(deals[d]),
           Starts(d) \/ (\E offer \in Offers : Counter(d, offer))
    PROVE  LET n == Len(deals'[d].offers)
               floor == policies[deals'[d].policyVersion].floor
           IN  /\ n <= 3
               /\ \A i \in 1 .. n - 1 : deals'[d].offers[i] < deals'[d].offers[n]
               /\ deals'[d].lastCounter # deals[d].lastCounter =>
                    /\ floor <= deals'[d].lastCounter
                    /\ deals[d].lastCounter # 0 =>
                            deals'[d].lastCounter <= deals[d].lastCounter
               /\ policies' = policies /\ HistoryMeans(deals'[d])
  <1>1. deals \in [DealIds -> Deal]
    BY DEF TypeOK
  <1>2. ASSUME NEW offer \in Offers, Counter(d, offer)
        PROVE  /\ OfferAllowed(deals[d], offer) /\ StruckFairly(deals[d])
               /\ deals'[d] = AfterOffer(deals[d], offer) /\ policies' = policies
    <2>1. OfferAllowed(deals[d], offer) /\ policies' = policies
      BY <1>2 DEF Counter
    <2>2. deals'[d] = AfterOffer(deals[d], offer)
      BY <1>1, <1>2 DEF Counter
    <2>3. StruckFairly(deals[d])
      BY DEF DealInvariant
    <2>4. QED
      BY <2>1, <2>2, <2>3
  <1>3. CASE Starts(d)
    <2>1. PICK s \in Starters, max \in Ceilings, offer \in Offers,
               revision \in DOMAIN revisions :
                \E key \in Keys \cup {DefaultKey(max, offer, starting[s].at)} :
                    Start(s, d, max, offer, key, revision)
      BY <1>3 DEF Starts
    <2>2. PICK key \in Keys \cup {DefaultKey(max, offer, starting[s].at)} :
                Start(s, d, max, offer, key, revision)
      BY <2>1
    <2> DEFINE b == starting[s].buyer
               deal == FreshDeal(b, max, key, revision)
    <2>3. /\ deal \in Deal /\ StruckFairly(deal) /\ OfferAllowed(deal, offer)
          /\ policies' = policies /\ deals[d].status = "none"
          /\ deals' = [Sweep(b) EXCEPT ![d] = AfterOffer(deal, offer)]
      BY <2>2, StartedRow
    <2>4. deals'[d] = AfterOffer(deal, offer)
      BY <2>3 DEF Sweep
    <2>5. /\ deal.status = "negotiating" /\ deal.offers = <<>> /\ deal.lastCounter = 0
      BY DEF FreshDeal, NoDeal
    <2>6. deals[d].lastCounter = 0
      BY <2>3 DEF HistoryMeans
    <2> HIDE DEF b, deal
    <2>7. HistoryMeans(deal)
      BY <2>5 DEF HistoryMeans
    <2>8. QED
      BY <2>3, <2>4, <2>5, <2>6, <2>7, OfferConverges
  <1>4. CASE \E offer \in Offers : Counter(d, offer)
    <2>1. PICK offer \in Offers : Counter(d, offer)
      BY <1>4
    <2>2. /\ OfferAllowed(deals[d], offer) /\ StruckFairly(deals[d]) /\ deals[d] \in Deal
          /\ deals'[d] = AfterOffer(deals[d], offer) /\ policies' = policies
      BY <1>1, <1>2, <2>1
    <2>3. QED
      BY <2>2, OfferConverges
  <1>5. QED
    BY <1>3, <1>4

(* Policies are only added.                                                 *)
LEMMA PoliciesKept ==
    ASSUME TypeOK, [Next]_vars
    PROVE  \A v \in DOMAIN policies : policies'[v] = policies[v]
  <1> DEFINE Policy == [active : BOOLEAN, floor : Minimums]
  <1>1. policies \in Seq(Policy) /\ DOMAIN policies = 1 .. Len(policies)
    BY Histories DEF TypeOK
  <1>2. ASSUME NEW minimum \in Minimums, SavePolicy(minimum)
        PROVE  \A v \in DOMAIN policies : policies'[v] = policies[v]
    BY <1>1, <1>2, AppendProperties DEF SavePolicy
  <1>3. CASE DisablePolicy
    <2>1. LatestPolicy.floor \in Minimums
      BY <1>3, Histories DEF DisablePolicy, LatestPolicy
    <2>2. QED
      BY <1>1, <1>3, <2>1, AppendProperties DEF DisablePolicy
  <1>4. CASE UNCHANGED policies
    BY <1>4
  <1>5. QED
    BY <1>2, <1>3, <1>4, Steps, StartFrame
    DEF MerchantNext, CheckoutNext, StartReads, StartFails, Counter, CreatePermit,
        ExchangeApprovalToken, CompleteApproval, UpdateProduct, ClaimOrder, DenyClaim,
        CompleteOrder, MarkReconciliation, MarkPaid, Tick, vars

(* Offers rise, and the last counter answers the last offer, after every step. *)
LEMMA HistoryStep ==
    ASSUME TypeOK, DealInvariant, [Next]_vars, NEW d \in DealIds, HistoryMeans(deals[d])
    PROVE  HistoryMeans(deals[d])'
  <1>1. CASE Starts(d) \/ (\E offer \in Offers : Counter(d, offer))
    <2>1. policies' = policies /\ HistoryMeans(deals'[d])
      BY <1>1, OfferLeaves
    <2>2. QED
      BY <2>1 DEF HistoryMeans
  <1>2. CASE KeepsTerms(d)
    <2>1. PICK s \in DealStatuses :
            /\ deals'[d] = [deals[d] EXCEPT !.status = s]
            /\ s = "none" <=> deals[d].status = "none"
            /\ s = "negotiating" => deals[d].status = "negotiating"
      BY <1>2 DEF KeepsTerms
    <2>2. /\ deals'[d].status = s /\ deals'[d].buyer = deals[d].buyer
          /\ deals'[d].offers = deals[d].offers
          /\ deals'[d].lastCounter = deals[d].lastCounter
          /\ deals'[d].publicPrice = deals[d].publicPrice
          /\ deals'[d].policyVersion = deals[d].policyVersion
      BY <2>1 DEF TypeOK, Deal
    <2>3. deals[d].status = "negotiating" =>
            policies'[deals[d].policyVersion] = policies[deals[d].policyVersion]
      BY PoliciesKept DEF DealInvariant, StruckFairly
    <2>4. QED
      BY <2>1, <2>2, <2>3 DEF HistoryMeans
  <1>3. QED
    BY <1>1, <1>2, DealWrites

(* A deal has three offers at most, in rising order, and while it           *)
(* negotiates, its last counter is the answer to the last of them           *)
(* (deals.ts:180-203).                                                      *)
THEOREM HistoriesHold == Spec => [](\A d \in DealIds : HistoryMeans(deals[d]))
  <1> DEFINE Inv == \A d \in DealIds : HistoryMeans(deals[d])
  <1>1. Init => Inv
    BY DEF Init, NoDeal, HistoryMeans
  <1>2. TypeOK /\ DealInvariant /\ Inv /\ [Next]_vars => Inv'
    BY HistoryStep
  <1>3. QED
    BY <1>1, <1>2, InvariantHolds, PTL DEF Spec

(* submitOffer (deals.ts:180): each offer of a deal is above those before,  *)
(* no counter is above the last one or below the merchant's minimum.        *)
THEOREM BargainingConvergesHolds == Spec => BargainingConverges
  <1> DEFINE Inv == \A d \in DealIds : HistoryMeans(deals[d])
             Converges == \A d \in DealIds : deals'[d].offers # deals[d].offers =>
                LET n == Len(deals'[d].offers)
                    floor == policies[deals'[d].policyVersion].floor
                IN  /\ n <= 3
                    /\ \A i \in 1 .. n - 1 : deals'[d].offers[i] < deals'[d].offers[n]
                    /\ deals'[d].lastCounter # deals[d].lastCounter =>
                          /\ floor <= deals'[d].lastCounter
                          /\ deals[d].lastCounter # 0 =>
                                deals'[d].lastCounter <= deals[d].lastCounter
  <1>1. ASSUME TypeOK, DealInvariant, Inv, [Next]_vars
        PROVE  Converges
    <2>1. SUFFICES ASSUME NEW d \in DealIds, deals'[d].offers # deals[d].offers
                   PROVE  Starts(d) \/ (\E offer \in Offers : Counter(d, offer))
      BY <1>1, OfferLeaves
    <2>2. ~KeepsTerms(d)
      BY <1>1, <2>1 DEF KeepsTerms, TypeOK, Deal
    <2>3. QED
      BY <1>1, <2>2, DealWrites
  <1>2. TypeOK /\ DealInvariant /\ Inv /\ [Next]_vars => [Converges]_vars
    BY <1>1
  <1>3. QED
    BY <1>2, InvariantHolds, HistoriesHold, PTL DEF Spec, BargainingConverges

-----------------------------------------------------------------------------
(* The session limit.                                                       *)

(* The starts a buyer has under way, past their checks.                     *)
StartsOf(b) == {s \in Starters : starting[s].buyer = b}

(* A deal that is counted twice over, as made and as under way, never is:   *)
(* what a buyer made in the last window and has under way stays within the  *)
(* bound, and so does every earlier window.                                 *)
Bound == SessionLimit + Cardinality(Starters) - 1
StartsBounded ==
    \A b \in Buyers : Cardinality(RecentDealsOf(b)) + Cardinality(StartsOf(b)) <= Bound

SessionInvariant ==
    /\ \A d \in DealIds : HistoryMeans(deals[d])
    /\ StartsInThePast /\ StartsBounded /\ OverrunBounded

(* Smaller sets keep a bound on the sum of their sizes.                     *)
LEMMA SmallerSets ==
    ASSUME NEW R, IsFiniteSet(R), NEW S, IsFiniteSet(S), NEW n \in Int,
           Cardinality(R) + Cardinality(S) <= n,
           NEW R2 \in SUBSET R, NEW S2 \in SUBSET S
    PROVE  Cardinality(R2) + Cardinality(S2) <= n
  <1>1. /\ IsFiniteSet(R2) /\ Cardinality(R2) <= Cardinality(R)
        /\ IsFiniteSet(S2) /\ Cardinality(S2) <= Cardinality(S)
    BY FS_Subset
  <1>2. /\ Cardinality(R) \in Nat /\ Cardinality(R2) \in Nat
        /\ Cardinality(S) \in Nat /\ Cardinality(S2) \in Nat
    BY <1>1, FS_CardinalityType
  <1>3. QED
    BY <1>1, <1>2

(* What is counted is finite, and the bound is a number.                    *)
LEMMA CountsAreFinite ==
    ASSUME TypeOK, SessionInvariant, NEW b \in Buyers
    PROVE  /\ IsFiniteSet(RecentDealsOf(b)) /\ Cardinality(RecentDealsOf(b)) \in Nat
           /\ IsFiniteSet(StartsOf(b)) /\ Cardinality(StartsOf(b)) \in Nat
           /\ Cardinality(Starters) \in Nat /\ Bound \in Int
  <1>1. RecentDealsOf(b) \subseteq StartedDeals
    BY BuyerAssumption DEF RecentDealsOf, StartedDeals, SessionInvariant, HistoryMeans
  <1>2. IsFiniteSet(RecentDealsOf(b))
    BY <1>1, FS_Subset DEF SessionInvariant, StartsInThePast
  <1>3. StartsOf(b) \in SUBSET Starters
    BY DEF StartsOf
  <1>4. IsFiniteSet(StartsOf(b))
    BY <1>3, FS_Subset, StartersAssumption
  <1>5. Cardinality(Starters) \in Nat
    BY FS_CardinalityType, StartersAssumption
  <1>6. QED
    BY <1>2, <1>4, <1>5, FS_CardinalityType, DurationsAssumption DEF Bound

(* A step that starts no deal changes none of what is counted.              *)
LEMMA NothingStarted ==
    ASSUME TypeOK, DealInvariant, SessionInvariant, [Next]_vars,
           \A d \in DealIds : ~Starts(d)
    PROVE  /\ StartsInThePast' /\ OverrunBounded'
           /\ \A b \in Buyers : RecentDealsOf(b)' \subseteq RecentDealsOf(b)
  <1>1. ASSUME NEW d \in DealIds
        PROVE  /\ deals'[d].buyer = deals[d].buyer
               /\ deals'[d].createdAt = deals[d].createdAt
               /\ deals'[d].status = "none" <=> deals[d].status = "none"
    <2>1. CASE KeepsTerms(d)
      BY <2>1 DEF KeepsTerms, TypeOK, Deal
    <2>2. ASSUME NEW offer \in Offers, Counter(d, offer)
          PROVE  /\ deals'[d].buyer = deals[d].buyer
                 /\ deals'[d].createdAt = deals[d].createdAt
                 /\ deals'[d].status = "none" <=> deals[d].status = "none"
      BY <2>2 DEF Counter, OfferAllowed, AfterOffer, Response, TypeOK, Deal
    <2>3. QED
      BY <2>1, <2>2, DealWrites
  <1>2. now \in Nat /\ now' \in Nat /\ now <= now'
    <2>1. now' = now \/ now' = now + 1
      BY Steps
      DEF MerchantNext, CheckoutNext, StartReads, StartFails, Counter, CreatePermit,
          ExchangeApprovalToken, CompleteApproval, SavePolicy, DisablePolicy,
          UpdateProduct, ClaimOrder, DenyClaim, CompleteOrder, MarkReconciliation,
          MarkPaid, Tick, vars
    <2>2. QED
      BY <2>1 DEF TypeOK
  <1>3. StartedDeals' = StartedDeals
    BY <1>1 DEF StartedDeals
  <1>4. StartsInThePast'
    <2>1. IsFiniteSet(StartedDeals')
      BY <1>3 DEF SessionInvariant, StartsInThePast
    <2>2. ASSUME NEW d \in StartedDeals'
          PROVE  deals'[d].createdAt <= now'
      <3>1. d \in DealIds /\ d \in StartedDeals
        BY <1>3, <2>2 DEF StartedDeals
      <3>2. deals[d].createdAt \in Nat /\ deals[d].createdAt <= now
        BY <3>1 DEF SessionInvariant, StartsInThePast, TypeOK, Deal
      <3>3. deals'[d].createdAt = deals[d].createdAt
        BY <1>1, <3>1
      <3>4. QED
        BY <1>2, <3>2, <3>3
    <2>3. QED
      BY <2>1, <2>2 DEF StartsInThePast
  <1>5. ASSUME NEW d \in DealIds
        PROVE  Window(d)' = Window(d)
    BY <1>1 DEF Window
  <1>6. OverrunBounded'
    BY <1>1, <1>5 DEF SessionInvariant, OverrunBounded
  <1>7. ASSUME NEW b \in Buyers, NEW d \in RecentDealsOf(b)'
        PROVE  d \in RecentDealsOf(b)
    <2>1. /\ d \in DealIds /\ deals[d].buyer = b
          /\ deals[d].createdAt + LimitWindow > now'
      BY <1>1, <1>7 DEF RecentDealsOf
    <2>2. deals[d].createdAt \in Nat
      BY <2>1 DEF TypeOK, Deal
    <2>3. QED
      BY <1>2, <2>1, <2>2, DurationsAssumption DEF RecentDealsOf
  <1>8. QED
    BY <1>4, <1>6, <1>7

(* Checks that pass leave room for a deal of each connection.               *)
LEMMA RoomWhenRead ==
    ASSUME TypeOK, DealInvariant, SessionInvariant, [Next]_vars,
           \A d \in DealIds : ~Starts(d)
    PROVE  StartsBounded'
  <1>1. SUFFICES ASSUME NEW b \in Buyers
                 PROVE  Cardinality(RecentDealsOf(b)') + Cardinality(StartsOf(b)') <= Bound
    BY DEF StartsBounded, Bound
  <1>2. /\ IsFiniteSet(RecentDealsOf(b)) /\ Cardinality(RecentDealsOf(b)) \in Nat
        /\ IsFiniteSet(StartsOf(b)) /\ Bound \in Int /\ Cardinality(Starters) \in Nat
        /\ Cardinality(RecentDealsOf(b)) + Cardinality(StartsOf(b)) <= Bound
        /\ RecentDealsOf(b)' \in SUBSET RecentDealsOf(b)
    BY CountsAreFinite, NothingStarted DEF SessionInvariant, StartsBounded
  <1>3. CASE StartsOf(b)' \subseteq StartsOf(b)
    BY <1>2, <1>3, SmallerSets
  <1>4. CASE Cardinality(RecentDealsOf(b)) < SessionLimit
    <2>1. Cardinality(RecentDealsOf(b)) + Cardinality(Starters) <= Bound
      BY <1>2, <1>4, DurationsAssumption DEF Bound
    <2>2. StartsOf(b)' \in SUBSET Starters
      BY DEF StartsOf
    <2>3. QED
      BY <1>2, <2>1, <2>2, SmallerSets, StartersAssumption
  <1>5. ASSUME NEW s \in Starters, NEW c \in Buyers, StartReads(s, c), c # b
        PROVE  StartsOf(b)' \subseteq StartsOf(b)
    BY <1>5 DEF StartReads, StartsOf, TypeOK
  <1>6. ASSUME NEW s \in Starters, StartReads(s, b)
        PROVE  Cardinality(RecentDealsOf(b)) < SessionLimit
    BY <1>6 DEF StartReads
  <1>7. ASSUME NEW s \in Starters, StartFails(s)
        PROVE  StartsOf(b)' \subseteq StartsOf(b)
    BY <1>7, BuyerAssumption DEF StartFails, StartsOf, NoStart, TypeOK
  <1>8. CASE UNCHANGED starting
    BY <1>3, <1>8 DEF StartsOf
  <1>9. QED
    BY <1>3, <1>4, <1>5, <1>6, <1>7, <1>8, Steps
    DEF MerchantNext, CheckoutNext, Counter, CreatePermit, ExchangeApprovalToken,
        CompleteApproval, SavePolicy, DisablePolicy, UpdateProduct, ClaimOrder, DenyClaim,
        CompleteOrder, MarkReconciliation, MarkPaid, Tick, vars

(* A start's COMMIT makes of the deal it had under way one that is made.    *)
LEMMA OneStarted ==
    ASSUME TypeOK, DealInvariant, SessionInvariant, TypeOK',
           NEW s \in Starters, NEW d \in DealIds, NEW max \in Ceilings,
           NEW offer \in Offers, NEW revision \in DOMAIN revisions,
           NEW key \in Keys \cup {DefaultKey(max, offer, starting[s].at)},
           Start(s, d, max, offer, key, revision)
    PROVE  StartsInThePast' /\ StartsBounded' /\ OverrunBounded'
  <1>0. PICK b \in Buyers : starting[s].buyer = b
    BY DEF Start, TypeOK, StartRow
  <1>1. /\ b \in Buyers /\ deals[d].status = "none"
        /\ deals'[d].buyer = b /\ deals'[d].createdAt = now /\ deals'[d].status # "none"
        /\ now' = now /\ now \in Nat
        /\ starting' = [starting EXCEPT ![s] = NoStart]
        /\ \A e \in DealIds \ {d} : deals'[e] = Sweep(b)[e]
    <2> DEFINE deal == FreshDeal(b, max, key, revision)
    <2>1. /\ b \in Buyers /\ deal \in Deal /\ deal.buyer = b /\ deal.createdAt = now
          /\ deals[d].status = "none" /\ StruckFairly(deal) /\ OfferAllowed(deal, offer)
          /\ deals' = [Sweep(b) EXCEPT ![d] = AfterOffer(deal, offer)]
      BY <1>0, StartedRow
    <2>2. /\ now' = now /\ now \in Nat
          /\ starting' = [starting EXCEPT ![s] = NoStart]
      BY DEF Start, TypeOK
    <2> HIDE DEF deal
    <2>3. /\ deals'[d] = AfterOffer(deal, offer)
          /\ \A e \in DealIds \ {d} : deals'[e] = Sweep(b)[e]
      BY <2>1 DEF Sweep
    <2>4. /\ deals'[d].buyer = b /\ deals'[d].createdAt = now
          /\ deals'[d].status # "none"
      <3> DEFINE after == AfterOffer(deal, offer)
      <3>1. after.buyer = deal.buyer /\ after.createdAt = deal.createdAt
        BY <2>1 DEF AfterOffer, Deal
      <3>2. after.status \in {"negotiating", "accepted", "rejected"}
        BY <2>1, AfterOfferSound
      <3> HIDE DEF after
      <3>3. deals'[d] = after
        BY <2>3 DEF after
      <3>4. QED
        BY <2>1, <3>1, <3>2, <3>3
    <2>5. QED
      BY <2>1, <2>2, <2>3, <2>4
  <1>2. ASSUME NEW e \in DealIds \ {d}
        PROVE  /\ deals'[e].buyer = deals[e].buyer
               /\ deals'[e].createdAt = deals[e].createdAt
               /\ deals'[e].status = "none" <=> deals[e].status = "none"
    <2>1. deals[e] \in Deal /\ deals'[e] = Sweep(b)[e]
      BY <1>1 DEF TypeOK
    <2>2. CASE e \in OpenDealsOf(b) /\ Lapsed(deals[e])
      <3>1. deals'[e] = [deals[e] EXCEPT !.status = "expired"]
        BY <2>1, <2>2 DEF Sweep
      <3>2. deals[e].status # "none"
        BY <2>2 DEF OpenDealsOf, IsOpen, OpenStatuses
      <3>3. QED
        BY <2>1, <3>1, <3>2 DEF Deal
    <2>3. CASE ~(e \in OpenDealsOf(b) /\ Lapsed(deals[e]))
      BY <2>1, <2>3 DEF Sweep
    <2>4. QED
      BY <2>2, <2>3
  <1>3. /\ s \in StartsOf(b) /\ StartsOf(b)' = StartsOf(b) \ {s}
        /\ \A c \in Buyers : StartsOf(c)' \subseteq StartsOf(c)
    <2>1. starting \in [Starters -> StartRow] /\ NoStart.buyer = NoBuyer
      BY DEF TypeOK, NoStart
    <2>2. \A t \in Starters :
            starting'[t].buyer = IF t = s THEN NoBuyer ELSE starting[t].buyer
      BY <1>1, <2>1
    <2>3. s \in StartsOf(b)
      BY <1>0 DEF StartsOf
    <2>4. StartsOf(b)' = StartsOf(b) \ {s}
      BY <1>1, <2>2, BuyerAssumption DEF StartsOf
    <2>5. \A c \in Buyers : StartsOf(c)' \subseteq StartsOf(c)
      BY <2>2, BuyerAssumption DEF StartsOf
    <2>6. QED
      BY <2>3, <2>4, <2>5
  <1>4. StartedDeals' = StartedDeals \cup {d}
    BY <1>1, <1>2 DEF StartedDeals
  <1>5. IsFiniteSet(StartedDeals')
    BY <1>4, FS_AddElement DEF SessionInvariant, StartsInThePast
  <1>6. \A e \in DealIds : deals[e].createdAt \in Nat /\ deals'[e].createdAt \in Nat
    BY DEF TypeOK, Deal
  <1>7. \A e \in StartedDeals' : deals'[e].createdAt <= now
    BY <1>1, <1>2, <1>4, <1>6 DEF SessionInvariant, StartsInThePast, StartedDeals
  <1>8. StartsInThePast'
    BY <1>1, <1>5, <1>7 DEF StartsInThePast
  <1>9. /\ IsFiniteSet(RecentDealsOf(b)) /\ Cardinality(RecentDealsOf(b)) \in Nat
        /\ IsFiniteSet(StartsOf(b)) /\ Cardinality(StartsOf(b)) \in Nat
        /\ Bound \in Int
        /\ Cardinality(RecentDealsOf(b)) + Cardinality(StartsOf(b)) <= Bound
    BY <1>1, CountsAreFinite DEF SessionInvariant, StartsBounded
  <1>10. /\ IsFiniteSet(StartsOf(b) \ {s})
         /\ Cardinality(StartsOf(b) \ {s}) = Cardinality(StartsOf(b)) - 1
         /\ Cardinality(StartsOf(b) \ {s}) \in Nat
    BY <1>3, <1>9, FS_RemoveElement, FS_CardinalityType
  <1>11. /\ IsFiniteSet(RecentDealsOf(b) \cup {d})
         /\ Cardinality(RecentDealsOf(b) \cup {d}) \in Nat
         /\ Cardinality(RecentDealsOf(b) \cup {d}) + Cardinality(StartsOf(b) \ {s}) <= Bound
    <2> DEFINE R == RecentDealsOf(b)
    <2>1. IsFiniteSet(R) /\ Cardinality(R) \in Nat
      BY <1>9
    <2> HIDE DEF R
    <2>2. /\ IsFiniteSet(R \cup {d}) /\ Cardinality(R \cup {d}) \in Nat
          /\ Cardinality(R \cup {d}) <= Cardinality(R) + 1
      <3>1. /\ IsFiniteSet(R \cup {d})
            /\ Cardinality(R \cup {d}) = IF d \in R THEN Cardinality(R)
                                          ELSE Cardinality(R) + 1
        BY <2>1, FS_AddElement
      <3>2. QED
        BY <2>1, <3>1
    <2>3. /\ IsFiniteSet(RecentDealsOf(b) \cup {d})
          /\ Cardinality(RecentDealsOf(b) \cup {d}) \in Nat
          /\ Cardinality(RecentDealsOf(b) \cup {d}) <= Cardinality(RecentDealsOf(b)) + 1
      BY <2>2 DEF R
    <2>4. QED
      BY <1>9, <1>10, <2>3
  <1>12. ASSUME NEW c \in Buyers
         PROVE  Cardinality(RecentDealsOf(c)') + Cardinality(StartsOf(c)') <= Bound
    <2>1. CASE c = b
      <3>1. RecentDealsOf(b)' \subseteq RecentDealsOf(b) \cup {d}
        BY <1>1, <1>2 DEF RecentDealsOf
      <3>2. StartsOf(b)' \in SUBSET (StartsOf(b) \ {s})
        BY <1>3
      <3>3. QED
        BY <1>9, <1>10, <1>11, <2>1, <3>1, <3>2, SmallerSets
    <2>2. CASE c # b
      <3>1. RecentDealsOf(c)' \in SUBSET RecentDealsOf(c)
        BY <1>1, <1>2, <2>2 DEF RecentDealsOf
      <3>2. StartsOf(c)' \in SUBSET StartsOf(c)
        BY <1>3
      <3>3. /\ IsFiniteSet(RecentDealsOf(c)) /\ IsFiniteSet(StartsOf(c))
            /\ Cardinality(RecentDealsOf(c)) + Cardinality(StartsOf(c)) <= Bound
        BY CountsAreFinite DEF SessionInvariant, StartsBounded
      <3>4. QED
        BY <1>9, <3>1, <3>2, <3>3, SmallerSets
    <2>3. QED
      BY <2>1, <2>2
  <1>13. ASSUME NEW x \in DealIds, deals'[x].status # "none"
         PROVE  Cardinality(Window(x)') <= Bound
    <2>1. CASE deals'[x].buyer = b /\ deals'[x].createdAt = now
      <3>1. Window(x)' \in SUBSET (RecentDealsOf(b) \cup {d})
        BY <1>2, <2>1 DEF Window, RecentDealsOf
      <3>2. /\ Cardinality(Window(x)') \in Nat
            /\ Cardinality(Window(x)') <= Cardinality(RecentDealsOf(b) \cup {d})
        BY <1>11, <3>1, FS_Subset, FS_CardinalityType
      <3>3. QED
        BY <1>9, <1>10, <1>11, <3>2
    <2>2. CASE deals'[x].buyer # b \/ deals'[x].createdAt # now
      <3>1. x # d /\ deals[x].status # "none"
        BY <1>1, <1>2, <1>13, <2>2
      <3>2. d \notin Window(x)' /\ d \notin Window(x)
        <4>1. deals[d].buyer = NoBuyer
          BY <1>1 DEF SessionInvariant, HistoryMeans
        <4>2. deals[x].buyer \in Buyers
          BY <3>1 DEF DealInvariant, StruckFairly
        <4>3. deals'[x].createdAt <= now
          BY <1>7, <1>13 DEF StartedDeals
        <4>4. ~(deals'[d].buyer = deals'[x].buyer
                /\ deals'[d].createdAt <= deals'[x].createdAt)
          BY <1>1, <1>6, <2>2, <4>3
        <4>5. QED
          BY <4>1, <4>2, <4>4, BuyerAssumption DEF Window
      <3>3. Window(x)' = Window(x)
        BY <1>2, <3>1, <3>2 DEF Window
      <3>4. QED
        BY <3>1, <3>3 DEF SessionInvariant, OverrunBounded, Bound
    <2>3. QED
      BY <2>1, <2>2
  <1>14. StartsBounded' /\ OverrunBounded'
    BY <1>12, <1>13 DEF StartsBounded, OverrunBounded, Bound
  <1>15. QED
    BY <1>8, <1>14

(* start's count (deals.ts:78) and its INSERT (deals.ts:86) are not one     *)
(* step: the deals of a window, counted back from any of them, pass the     *)
(* limit by no more than the starts that can overlap, whatever expired, was *)
(* refused or invalidated in between.  With one connection it is kept.      *)
THEOREM OverrunIsBounded == Spec => []OverrunBounded
  <1> DEFINE Inv == StartsInThePast /\ StartsBounded /\ OverrunBounded
             HistoriesMean == \A d \in DealIds : HistoryMeans(deals[d])
  <1>1. Init => Inv
    <2>1. SUFFICES ASSUME Init PROVE Inv
      OBVIOUS
    <2>2. StartedDeals = {} /\ \A b \in Buyers : RecentDealsOf(b) = {} /\ StartsOf(b) = {}
      BY <2>1, BuyerAssumption
      DEF Init, NoDeal, NoStart, StartedDeals, RecentDealsOf, StartsOf
    <2>3. Cardinality(Starters) \in Nat
      BY FS_CardinalityType, StartersAssumption
    <2>4. StartsBounded
      <3>1. Cardinality({}) = 0
        BY FS_EmptySet
      <3>2. SessionLimit \in Nat /\ SessionLimit >= 1
        BY DurationsAssumption
      <3>3. \A b \in Buyers :
                Cardinality(RecentDealsOf(b)) = 0 /\ Cardinality(StartsOf(b)) = 0
        BY <2>2, <3>1
      <3>4. QED
        BY <2>3, <3>2, <3>3 DEF StartsBounded, Bound
    <2>5. QED
      BY <2>1, <2>2, <2>4, FS_EmptySet DEF StartsInThePast, OverrunBounded, StartedDeals
  <1>2. TypeOK /\ DealInvariant /\ HistoriesMean /\ Inv /\ [Next]_vars => Inv'
    <2>1. SUFFICES ASSUME TypeOK, DealInvariant, HistoriesMean, Inv, [Next]_vars
                   PROVE  Inv'
      OBVIOUS
    <2>2. SessionInvariant /\ TypeOK'
      BY <2>1, TypeOKStep DEF SessionInvariant
    <2>3. CASE \E d \in DealIds : Starts(d)
      BY <2>1, <2>2, <2>3, OneStarted DEF Starts
    <2>4. CASE \A d \in DealIds : ~Starts(d)
      BY <2>1, <2>2, <2>4, NothingStarted, RoomWhenRead
    <2>5. QED
      BY <2>3, <2>4
  <1>3. QED
    BY <1>1, <1>2, InvariantHolds, HistoriesHold, PTL DEF Spec
=============================================================================
