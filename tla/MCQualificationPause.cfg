CONSTANTS
    Callers = {p1}
    Issues <- MCPaused
    QuestionOrder <- MCQuestionOrder
    Profiles <- MCProfiles
    Texts = {t1}
    None = None
    MaxEdits = 0
    MaxRejections = 1
    MaxTransitions = 32
    a1 = a1  q1 = q1  q2 = q2  small = small  large = large
SPECIFICATION Spec
INVARIANT PauseStable
CHECK_DEADLOCK FALSE
