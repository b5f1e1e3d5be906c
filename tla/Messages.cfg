SPECIFICATION Spec
CONSTANTS
    Requests = {r1, r2}
    MaxJobTries = 2
    Records = {"x", "y"}
    OnePass = TRUE
    Audiences <- Lists
    Batch = 1
    MaxSends = 2
    MaxCalls = 2
 
PROPERTIES ImplementsQueue OutgoingEnds
CHECK_DEADLOCK FALSE
