\* A change of role overlaps another change, or an invitation that is accepted.
SPECIFICATION Spec
CONSTANTS
    Calls = {c1, c2}
    MaxPairs = 3
    Users = {u1, u2}
    Changes = {m1, m2}
    Prices = {1, 2}
    Syncs = {y1}
    Requests = {r1, r2}
    Tabs = {b1}
    MaxShop = 2
    Txns = {t1, t2}
    MaxPolicies = 2
    MaxEvents = 1
PROPERTIES ChangeRetainsOwner
CHECK_DEADLOCK FALSE
