---------------------------- MODULE Negotiation ----------------------------
(***************************************************************************)
(* The merchant agent's pricing rule (packages/core/src/negotiation.ts): a *)
(* pure function of the public price, the merchant's private minimum, the  *)
(* round and the buyer's offer.  All amounts are whole paise.              *)
(*                                                                         *)
(* The code computes the discount as Math.floor(spread * progress / 100)   *)
(* on doubles; below 2^53 / 100 the quotient of two integers by 100 never  *)
(* rounds up to an integer, so it is the integer division used here.       *)
(***************************************************************************)
EXTENDS Integers

Rounds == 1 .. 3

(* A minimum the pricing rule accepts: positive, below the public price.   *)
ValidMinimum(publicPrice, minimum) == 0 < minimum /\ minimum < publicPrice

(* How much of the spread, in percent, the merchant gives up in a round.   *)
ProgressReversed(round) == IF round = 1 THEN 60 ELSE 25
Progress(round) == IF round = 1 THEN 25 ELSE 60

(* The lowest offer rounds 1 and 2 accept, and the counter they answer a   *)
(* lower offer with.                                                       *)
merchantThreshold(publicPrice, minimum, round) ==
    publicPrice - ((publicPrice - minimum) * Progress(round)) \div 100

(* Round 3 is the last: the merchant accepts down to its minimum and       *)
(* otherwise answers NO_DEAL.                                              *)
AcceptsFrom(publicPrice, minimum, round) ==
    IF round = 3 THEN minimum ELSE merchantThreshold(publicPrice, minimum, round)

Response(publicPrice, minimum, round, offer) ==
    IF offer >= AcceptsFrom(publicPrice, minimum, round) THEN "accepted"
    ELSE IF round = 3 THEN "rejected" ELSE "counter"

(* Only rounds 1 and 2 compute a threshold, and refuse to on a minimum     *)
(* that is not below the price: the error aborts the caller's transaction. *)
CanEvaluate(publicPrice, minimum, round) ==
    round = 3 \/ ValidMinimum(publicPrice, minimum)
=============================================================================
