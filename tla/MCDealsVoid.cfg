\* What README.md:84 says of permits when a policy changes.
CONSTANTS
    Buyers = {b1}
    DealIds = {d1}
    Prices = {8, 10}
    Minimums = {6}
    Ceilings = {8}
    Offers = {6, 8}
    Keys = {}
    NoBuyer = NoBuyer
    Starters = {s1}
    DealTtl = 2
    SessionTtl = 1
    KeyWindow = 2
    LimitWindow = 288
    SessionLimit = 2
    MaxNow = 2
    MaxRevisions = 3
    MaxPolicies = 3
SPECIFICATION Spec
INVARIANT PolicyChangeVoidsPermits
CHECK_DEADLOCK FALSE
