------------------------------ MODULE MCDeals ------------------------------
(* Instances of Deals for TLC.                                              *)
EXTENDS Deals, TLC

(* Deal ids, buyers and connections are only compared for equality.         *)
Symmetry == Permutations(DealIds) \cup Permutations(Buyers) \cup Permutations(Starters)

(* What the state space is cut at: two starts at once and a third deal are  *)
(* explored while nobody has a permit and the catalogue is as it was, two   *)
(* deals with one change of the policy or of the catalogue through all the  *)
(* rest, and a third policy or revision with one deal.                      *)
DealsMade == Cardinality({d \in DealIds : deals[d].status # "none"})
StartsUnderWay == Cardinality({s \in Starters : starting[s] # NoStart})
Bargaining == Len(revisions) = 1 /\ \A d \in DealIds : permits[d].status = "none"
ExploredDeals ==
    \/ Bargaining
    \/ /\ DealsMade + StartsUnderWay <= 2
       /\ Len(revisions) + Len(policies) <= 3
    \/ /\ DealsMade + StartsUnderWay <= 1
       /\ Len(revisions) < 3 \/ Len(policies) < 3
=============================================================================
