SPECIFICATION Spec
CONSTANTS
    Docs = {d1}
    Checklist = {d1}
    Queries = {q1}
    Approvals = {a1, a2}
    Requests = {r1, r2}
    BatchFails = FALSE
    MaxVersions = 2
    MaxRequests = 4
    MaxRestarts = 0
    Null = Null
SYMMETRY Symmetry
PROPERTY NeverDraggedBack
CHECK_DEADLOCK FALSE
