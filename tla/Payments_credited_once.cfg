SPECIFICATION Spec
CONSTANTS
    Invoices = {i1}
    PaymentIds = {p1}
    Events = {e1}
    Requests = {r1, r2}
    Total = 2
    MaxRequests = 3
    MaxRestarts = 0
    Null = Null
SYMMETRY Symmetry
INVARIANT CreditedOnce
CHECK_DEADLOCK FALSE
