SPECIFICATION FairSpec
CONSTANTS
    Commits = {"c1"}
    Base = "base"
    Boundaries = {"security"}
    Governance = "security"
    DeclaredHigh = FALSE
    Observable <- Escalating
    Moves = {"validation", "ci", "packets", "workspace"}
    MaxTrail = 6
    MaxFindings = 4
    MaxMoves = 2
INVARIANTS RecordResumes ReviewsClose
PROPERTIES ReachesReadiness
CHECK_DEADLOCK FALSE
