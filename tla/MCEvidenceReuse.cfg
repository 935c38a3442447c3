\* Every combination of at most three departures from the ordinary case.
CONSTANTS
    b1 = b1
    b2 = b2
    k1 = k1
    k2 = k2
    Commits = {"old", "new"}
    Trees = {"t1", "t2"}
    Profiles = {"standard", "high"}
    Boundaries <- BoundarySet
    Authorities = {"a1", "a2"}
    Criteria <- CriterionSet
    Environments = {"e1", "e2"}
    Collaborators <- Logins
    PolicyAuthors <- PolicySet
    Authenticated = "ada"
    Ordinary <- OrdinaryAssessment
    Authors <- AuthorSet
    Changes <- ChangeSet
    Parents <- ParentSet
    Deriveds <- DerivedSet
    Impacts <- RowSet
    Session <- Passed
    Required <- Needed
    OtherSessions <- SessionSet
    OtherRequirements <- RequirementSet
    MaxDifferences = 3
SPECIFICATION Spec
CHECK_DEADLOCK FALSE
INVARIANTS
    RetainedSpeaksTrue
    ReuseIsRerun
PROPERTIES
    NewsNeverRestores
