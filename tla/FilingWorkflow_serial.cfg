SPECIFICATION LiveSpec
CONSTANTS
    Docs = {d1, d2}
    Checklist = {d1}
    Queries = {q1}
    Approvals = {a1, a2}
    Requests = {r1}
    BatchFails = FALSE
    MaxVersions = 2
    MaxRequests = 6
    MaxRestarts = 0
    Null = Null
INVARIANTS VerifiedMeansChecked CountersAgreeUntilArchived VerifiedPeriodIsClean ApprovalsInStep ComputedIsCurrent
PROPERTIES NeverDraggedBack 
CHECK_DEADLOCK FALSE
