------------------------------ MODULE CIReports ------------------------------
(***************************************************************************)
(* The checks GitHub shows for one commit while a pull request waits for   *)
(* them: they appear, run, finish, are run again and may be published by   *)
(* anyone.  The policy is asked about each state of the list.              *)
(***************************************************************************)
EXTENDS CIPolicy

CONSTANTS
    CandidateHead, PullBase,     \* the candidate and the base of its pull request
    Reportable,     \* the observations GitHub can show
    MaxReports      \* bound: checks shown at once

ASSUME ReportsAssumption ==
    /\ CandidateHead \in Commits /\ PullBase \in Commits
    /\ Reportable \subseteq Observation
    /\ MaxReports \in Nat

VARIABLE reports

Init == reports = <<>>

\* A check appears that was not listed.
Appears(c) ==
    /\ Len(reports) < MaxReports
    /\ reports' = Append(reports, c)

\* A listed check of the same name is run again or changes its conclusion.
Changes(i, c) ==
    /\ c.identity = reports[i].identity
    /\ reports' = [reports EXCEPT ![i] = c]

Next ==
    \E c \in Reportable :
        \/ Appears(c)
        \/ \E i \in DOMAIN reports : Changes(i, c)

Spec == Init /\ [][Next]_reports

State == evaluateCIPolicy(reports, CandidateHead, PullBase)

\* evaluateCIPolicy answers success, the answer a merge needs, exactly when each
\* required context has one report, trusted and successful for the exact
\* candidate, and nothing else is listed: no duplicate, foreign, stale,
\* unpublished or unlinked check can be the last one a merge waits for.
SuccessIsProof == State = "success" <=> Green(reports, CandidateHead, PullBase)

\* The program re-runs a check or asks for a repair only when every failing check
\* at this commit has been attributed, and it re-runs only when all of them were
\* put down to the infrastructure: a candidate's own failure is never retried
\* away, and an unattributed one is never decided by the program.
FailuresAttributed ==
    /\ State = "infrastructure-failure" =>
          /\ FailingAt(reports, CandidateHead) # {}
          /\ \A i \in FailingAt(reports, CandidateHead) : reports[i].attribution = "infrastructure"
    /\ State = "candidate-failure" =>
          /\ \E i \in FailingAt(reports, CandidateHead) : reports[i].attribution = "candidate"
          /\ \A i \in FailingAt(reports, CandidateHead) :
                reports[i].attribution \in {"candidate", "infrastructure"}

\* The program waits only while some required context of this commit is not yet
\* settled and none has failed: it never waits for a check that cannot change the
\* answer, and a failure is never hidden behind a check that is still running.
PendingIsHope ==
    State = "pending" =>
        /\ FailingAt(reports, CandidateHead) = {}
        /\ \E id \in Required :
              \A i \in DOMAIN reports :
                  reports[i].identity = id =>
                      reports[i].conclusion = "" \/ reports[i].head # CandidateHead
===============================================================================
