SPECIFICATION Spec
CONSTANTS
    Docs = {d1}
    Checklist = {d1}
    Queries = {q1}
    Approvals = {a1}
    Requests = {r1, r2}
    BatchFails = TRUE
    MaxVersions = 3
    MaxRequests = 4
    MaxRestarts = 1
    Null = Null
SYMMETRY Symmetry
INVARIANTS TypeOK VerifiedHasRecord VersionsInStep
CHECK_DEADLOCK FALSE
