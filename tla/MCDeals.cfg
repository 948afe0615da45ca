\* One buyer: two starts at once while three deals are bargained over and the
\* policy changes; two deals through catalogue changes, approval, claim and
\* payment. The session limit is one per deal life, so that it is reached.
CONSTANTS
    Buyers = {b1}
    DealIds = {d1, d2, d3}
    Prices = {8, 10}
    Minimums = {6}
    Ceilings = {8}
    Offers = {6, 8, 9}
    Keys = {}
    NoBuyer = NoBuyer
    Starters = {s1, s2}
    DealTtl = 2
    SessionTtl = 1
    KeyWindow = 2
    LimitWindow = 2
    SessionLimit = 1
    MaxNow = 2
    MaxRevisions = 3
    MaxPolicies = 3
SPECIFICATION Spec
SYMMETRY Symmetry
CONSTRAINT ExploredDeals
INVARIANTS
    TypeOK
    AgreedWithinBothLimits
    OpenDealsHoldLatestPolicy
    InvalidationVoidsUnclaimed
    PermitFollowsOrder
    PaidMeansCaptured
    DealInvariant
    OneOpenDealPerBuyer
    OverrunBounded
PROPERTIES
    ClaimOnlyOnLiveDeal
    RefusedIsFinal
    BargainingConverges
CHECK_DEADLOCK FALSE
