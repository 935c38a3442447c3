CONSTANTS
    Identities = {i1, i2}
    States = {s1, s2}
    NoOperation = NoOperation
    NoOutcome = NoOutcome
    NoEvent = NoEvent
    MaxOperations = 2
    MaxChanges = 1
    MaxErrors = 1
SPECIFICATION FairSpec
INVARIANT AvailabilityHonest
PROPERTIES ReportsForward ChangeEndsWatch
CHECK_DEADLOCK FALSE
