SPECIFICATION Spec
CONSTANTS
    Writers = {w1}
    MaxEntries = 5
    MaxChanges = 1
    MaxPurges = 1
    Null = Null
INVARIANTS TypeOK FailureMeansChange DamageDetected LossDetected
PROPERTY AnchorMonotone
CHECK_DEADLOCK FALSE
