SPECIFICATION Spec
CONSTANTS
    Invoices = {i1}
    PaymentIds = {p1, p2}
    Events = {e1}
    Requests = {r1}
    Total = 2
    MaxRequests = 4
    MaxRestarts = 0
    Null = Null
SYMMETRY Symmetry
INVARIANTS VoidHoldsNoMoney BooksAgree
CHECK_DEADLOCK FALSE
