\* The base of the pull request moves while its checks are green.
CONSTANTS
    validate = validate
    governance = governance
    Required <- Contexts
    Governance = governance
    Foreign = foreign
    Commits <- CommitNumbers
    NoHead = NoHead
    Rank <- ByName
    Stranger = Stranger
    NoDelivery = NoDelivery
    NoFailure = NoFailure
    NoIntent = NoIntent
    NoView = NoView
    MaxCandidates = 1
    MaxMain = 2
    MaxFailures = 0
    MaxEdits = 0
    MaxFaults = 0
SPECIFICATION Spec
CHECK_DEADLOCK FALSE
INVARIANT
    RecordResumes
