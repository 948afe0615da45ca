\* A webhook handler that fails once.
CONSTANTS
    Requests = {r1}
    Payments = {p1}
    Adapters = {"razorpay"}
    NoRequest = NoRequest
    NoPayment = NoPayment
    MaxConfigs = 1
    MaxFaults = 1
SPECIFICATION FairSpec
PROPERTY CapturedIsRecorded
CHECK_DEADLOCK FALSE
