\* Two candidates, green checks and two faults at any point.
CONSTANTS
    validate = validate
    governance = governance
    Required <- Contexts
    Governance = governance
    Foreign = foreign
    Commits <- CommitNumbers
    NoHead = NoHead
    Rank <- ByName
    Stranger = Stranger
    NoDelivery = NoDelivery
    NoFailure = NoFailure
    NoIntent = NoIntent
    NoView = NoView
    MaxCandidates = 2
    MaxMain = 1
    MaxFailures = 0
    MaxEdits = 0
    MaxFaults = 2
SPECIFICATION FairSpec
CHECK_DEADLOCK FALSE
PROPERTY
    Delivered
