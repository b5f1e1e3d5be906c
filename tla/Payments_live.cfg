SPECIFICATION FairSpec
CONSTANTS
    Invoices = {i1}
    PaymentIds = {p1, p2}
    Events = {e1}
    Requests = {r1, r2}
    Total = 1
    MaxRequests = 2
    MaxRestarts = 0
    Null = Null
PROPERTY CaptureReachesPayment
CHECK_DEADLOCK FALSE
