\* What README.md:27 says of the sessions of 24 hours, with its limit of
\* three: two overlapping starts of one buyer, whose deals policy changes close.
CONSTANTS
    Buyers = {b1}
    DealIds = {d1, d2, d3, d4}
    Prices = {10}
    Minimums = {6}
    Ceilings = {9}
    Offers = {9}
    Keys = {k1, k2, k3}
    NoBuyer = NoBuyer
    Starters = {s1, s2}
    DealTtl = 2
    SessionTtl = 1
    KeyWindow = 2
    LimitWindow = 288
    SessionLimit = 3
    MaxNow = 0
    MaxRevisions = 1
    MaxPolicies = 4
SPECIFICATION Spec
SYMMETRY Symmetry
INVARIANT SessionLimitHolds
CHECK_DEADLOCK FALSE
