\* Every list of at most three checks.
CONSTANTS
    validate = validate
    governance = governance
    foreign = foreign
    c1 = c1
    c2 = c2
    NoHead = NoHead
    Required <- Contexts
    Governance = governance
    Foreign = foreign
    Commits <- CommitSet
    CandidateHead = c1
    PullBase = c2
    Reportable <- Reports
    MaxReports = 3
SPECIFICATION Spec
INVARIANTS
    SuccessIsProof
    FailuresAttributed
    PendingIsHope
