\* One candidate, two states of main, two failing checks, one edit and one fault, of
\* which three in one behaviour.
CONSTANTS
    validate = validate
    governance = governance
    Required <- Contexts
    Governance = governance
    Foreign = foreign
    Commits <- CommitNumbers
    NoHead = NoHead
    Rank <- ByName
    Stranger = Stranger
    NoDelivery = NoDelivery
    NoFailure = NoFailure
    NoIntent = NoIntent
    NoView = NoView
    MaxCandidates = 1
    MaxMain = 2
    MaxFailures = 2
    MaxEdits = 1
    MaxFaults = 1
SPECIFICATION Spec
CONSTRAINT FewDisturbances
CHECK_DEADLOCK FALSE
INVARIANTS
    RetriedOnce
    OwnRecordAccepted
    CleanupOrdered
    AdoptedProved
PROPERTIES
    MergeProved
    AdoptionFinal
    DeliveryRefined
