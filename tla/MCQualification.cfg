CONSTANTS
    Callers = {p1, p2}
    Issues <- MCIssues
    QuestionOrder <- MCQuestionOrder
    Profiles <- MCProfiles
    Texts = {t1}
    None = None
    MaxEdits = 1
    MaxRejections = 1
    MaxTransitions = 32
    a1 = a1  q1 = q1  q2 = q2  small = small  large = large
SPECIFICATION FairSpec
INVARIANTS RecordLoads ApprovalBacked DecisionsTraceable NoStall
PROPERTY EventuallyQualified
CHECK_DEADLOCK FALSE
