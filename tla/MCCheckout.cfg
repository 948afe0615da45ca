\* Both adapters, a configuration change and one fault of any kind.
CONSTANTS
    Requests = {r1, r2}
    Payments = {p1, p2}
    Adapters = {"mock", "razorpay"}
    NoRequest = NoRequest
    NoPayment = NoPayment
    MaxConfigs = 2
    MaxFaults = 1
SPECIFICATION FairSpec
INVARIANTS
    TypeOK
    SingleUse
    PaidIsCaptured
    RightConfiguration
    NoSilentOrphan
PROPERTIES
    PaymentKept
    CapturedIsRecordedCalmly
    ImplementsPurchase
CHECK_DEADLOCK FALSE
