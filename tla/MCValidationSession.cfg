\* Two checkouts, two principals, two boundaries and three disturbances.
CONSTANTS
    Boundaries = {"security", "migration"}
    Places = {"here", "elsewhere"}
    Principals = {"grace", "ada", "none"}
    Confirmer = "grace"
    MaxCandidates = 3
    MaxDisturbances = 3
SPECIFICATION FairSpec
INVARIANTS
    RecordLoads
    BoundedExecutions
PROPERTIES
    SessionsSettle
    AdmittedInForce
    EventuallyReady
CHECK_DEADLOCK FALSE
