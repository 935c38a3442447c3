SPECIFICATION Spec
CONSTANTS
    Commits = {c1, c2}
    Base = "base"
    Boundaries = {"security"}
    Governance = "security"
    DeclaredHigh = FALSE
    Observable <- Escalating
    Moves = {"reclassify", "impact", "branch", "risk"}
    MaxTrail = 5
    MaxFindings = 2
    MaxMoves = 1
SYMMETRY Interchangeable
INVARIANTS ReadinessEarned FindingsAnswered
CHECK_DEADLOCK FALSE
