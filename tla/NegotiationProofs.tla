-------------------------- MODULE NegotiationProofs --------------------------
EXTENDS Negotiation, TLAPS

(* A share of the spread, rounded down, lies between nothing and all of    *)
(* it, and grows with the share: negotiation.ts:33.                        *)
LEMMA ShareOfSpread ==
    ASSUME NEW spread \in Nat
    PROVE  /\ (spread * 25) \div 100 \in 0 .. spread
           /\ (spread * 60) \div 100 \in 0 .. spread
           /\ (spread * 25) \div 100 <= (spread * 60) \div 100
  BY SMT

(* The merchant never counters below its private minimum nor above its     *)
(* public price, and its second counter is no higher than its first.       *)
THEOREM ThresholdBounds ==
    ASSUME NEW publicPrice \in Nat, NEW minimum \in Nat,
           ValidMinimum(publicPrice, minimum)
    PROVE  /\ \A round \in 1 .. 2 :
                merchantThreshold(publicPrice, minimum, round) \in minimum .. publicPrice
           /\ merchantThreshold(publicPrice, minimum, 2)
                <= merchantThreshold(publicPrice, minimum, 1)
  <1> DEFINE spread == publicPrice - minimum
  <1>1. spread \in Nat
    BY DEF ValidMinimum
  <1>2. /\ (spread * 25) \div 100 \in 0 .. spread
        /\ (spread * 60) \div 100 \in 0 .. spread
        /\ (spread * 25) \div 100 <= (spread * 60) \div 100
    BY <1>1, ShareOfSpread
  <1>3. QED
    BY <1>1, <1>2 DEF merchantThreshold, Progress

(* Whatever the round, an offer the merchant agent accepts is not below    *)
(* the minimum: the floor is the merchant's in all three rounds.           *)
THEOREM AcceptedIsAboveMinimum ==
    ASSUME NEW publicPrice \in Nat, NEW minimum \in Nat,
           NEW round \in Rounds, NEW offer \in Nat,
           CanEvaluate(publicPrice, minimum, round),
           Response(publicPrice, minimum, round, offer) = "accepted"
    PROVE  minimum <= offer
  <1>1. CASE round = 3
    BY <1>1 DEF Response, AcceptsFrom
  <1>2. CASE round \in 1 .. 2
    <2>1. ValidMinimum(publicPrice, minimum)
      BY <1>2 DEF CanEvaluate
    <2>2. merchantThreshold(publicPrice, minimum, round) \in minimum .. publicPrice
      BY <1>2, <2>1, ThresholdBounds
    <2>3. QED
      BY <1>2, <2>2 DEF Response, AcceptsFrom
  <1>3. QED
    BY <1>1, <1>2 DEF Rounds
=============================================================================
