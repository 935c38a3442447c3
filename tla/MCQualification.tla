--------------------------- MODULE MCQualification ---------------------------
EXTENDS Qualification

CONSTANTS a1, q1, q2, small, large

Version(criteria, questions, blocking, approved, profile) ==
    [criteria |-> criteria, questions |-> questions, blocking |-> blocking,
     approved |-> approved, profile |-> profile]

MCProfiles == {small, large}
MCQuestionOrder == <<q1, q2>>

\* Two questions; the later one alone, with an open dependency and without approval; and a
\* criterion with an open dependency.
MCIssues ==
    {Version({}, {q1, q2}, FALSE, TRUE, small), Version({}, {q2}, TRUE, FALSE, small),
     Version({a1}, {}, TRUE, TRUE, small)}

\* A dependency is open, or a question is: what a second Advance finds.
MCPaused ==
    {Version({a1}, {}, TRUE, TRUE, small), Version({a1}, {q1}, FALSE, TRUE, small)}

=============================================================================
