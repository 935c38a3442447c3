------------------------------- MODULE CIPolicy -------------------------------
(***************************************************************************)
(* The required-CI policy: from the checks GitHub reports for a commit, the *)
(* state of required CI.  It is a pure function: evaluateCIPolicy decides   *)
(* whether the program merges, waits, re-runs a check, asks for a repair or *)
(* stops, and decoding a record evaluates it again.                         *)
(*                                                                          *)
(* The checks are a family [index -> observation]: a report may name one    *)
(* context twice, so they are not a set, and the policy sorts them, so      *)
(* their order means nothing.                                               *)
(***************************************************************************)
EXTENDS Naturals, Sequences, FiniteSets

CONSTANTS
    Required,       \* the required contexts
    Governance,     \* the one that is published as a commit status
    Foreign,        \* a context that is not required
    Commits,        \* commits a check or its workflow definition can name
    NoHead          \* the check names no commit

ASSUME PolicyAssumption ==
    /\ Governance \in Required
    /\ Foreign \notin Required
    /\ NoHead \notin Commits

\* Failing conclusions, then the ones only an unexpected check has.
Failing == {"failure", "failed", "cancelled"}
Conclusions == {"", "success", "skipped"} \cup Failing

Attributions == {"", "infrastructure", "candidate", "unknown"}

\* kind is the trusted publisher the check came from, if any; linked says that
\* its run identity, details URL and workflow agree and are well formed.
Observation ==
    [identity : Required \cup {Foreign}, conclusion : Conclusions,
     head : Commits \cup {NoHead}, kind : {"check-run", "commit-status", "untrusted"},
     ref : Commits, linked : BOOLEAN, attribution : Attributions]

-------------------------------------------------------------------------------

\* validateCIProvenance: a Governance status is defined by the base of the pull
\* request, every other check by the candidate's own workflows.
TrustedProvenance(head, base, c) ==
    /\ c.identity \in Required
    /\ c.kind = IF c.identity = Governance THEN "commit-status" ELSE "check-run"
    /\ c.ref = IF c.identity = Governance THEN base ELSE head

\* Fault variant of Classification: a check of an earlier commit counts.
HeadlessClassification(head, c) ==
    IF c.conclusion = "success" THEN "required-success"
    ELSE IF c.conclusion = "" THEN "pending"
    ELSE IF c.conclusion \in Failing THEN "failed"
    ELSE "unavailable"

\* ClassifyRequiredChecks on the one check that reports a context.
Classification(head, c) ==
    IF c.conclusion = "success" /\ c.head = NoHead THEN "unavailable"
    ELSE IF c.head \notin {NoHead, head} THEN "stale-head"
    ELSE IF c.conclusion = "" THEN "pending"
    ELSE IF c.conclusion = "success" THEN "required-success"
    ELSE IF c.conclusion = "cancelled" THEN "cancelled"
    ELSE IF c.conclusion \in {"failure", "failed"} THEN "failed"
    ELSE "unavailable"

Reported(obs, id) == {i \in DOMAIN obs : obs[i].identity = id}

ReportOf(obs, id) == obs[CHOOSE i \in Reported(obs, id) : TRUE]

\* The class of a context: absent, in conflict, or that of its one report.
Class(obs, head, id) ==
    IF Reported(obs, id) = {} THEN "absent"
    ELSE IF \E i, j \in Reported(obs, id) : i # j THEN "conflict"
    ELSE Classification(head, ReportOf(obs, id))

Unclear(obs, head) == \E id \in Required : Class(obs, head, id) \in {"conflict", "unavailable"}

Blocked(obs, head, base) ==
    \/ \E i \in DOMAIN obs : ~(obs[i].linked /\ TrustedProvenance(head, base, obs[i]))
    \/ Unclear(obs, head)

\* Failures that are put down to a, and failures nobody has attributed.
Failures(obs, head) == {id \in Required : Class(obs, head, id) \in {"failed", "cancelled"}}

Blamed(obs, head, a) == \E id \in Failures(obs, head) : ReportOf(obs, id).attribution = a

Unattributed(obs, head) ==
    \E id \in Failures(obs, head) :
        ReportOf(obs, id).attribution \notin {"candidate", "infrastructure"}

Waiting(obs, head) ==
    \E id \in Required : Class(obs, head, id) \in {"absent", "pending", "stale-head"}

\* Fault variants of evaluateCIPolicy: infrastructure failures come first, and
\* running checks come first.
RetryFirstPolicy(obs, head, base) ==
    IF Blocked(obs, head, base) THEN "blocked"
    ELSE IF Blamed(obs, head, "infrastructure") THEN "infrastructure-failure"
    ELSE IF Unattributed(obs, head) THEN "decision-required"
    ELSE IF Blamed(obs, head, "candidate") THEN "candidate-failure"
    ELSE IF Waiting(obs, head) THEN "pending"
    ELSE "success"

WaitFirstPolicy(obs, head, base) ==
    IF Blocked(obs, head, base) THEN "blocked"
    ELSE IF Waiting(obs, head) THEN "pending"
    ELSE IF Unattributed(obs, head) THEN "decision-required"
    ELSE IF Blamed(obs, head, "candidate") THEN "candidate-failure"
    ELSE IF Blamed(obs, head, "infrastructure") THEN "infrastructure-failure"
    ELSE "success"

evaluateCIPolicy(obs, head, base) ==
    IF Blocked(obs, head, base) THEN "blocked"
    ELSE IF Unattributed(obs, head) THEN "decision-required"
    ELSE IF Blamed(obs, head, "candidate") THEN "candidate-failure"
    ELSE IF Blamed(obs, head, "infrastructure") THEN "infrastructure-failure"
    ELSE IF Waiting(obs, head) THEN "pending"
    ELSE "success"

-------------------------------------------------------------------------------
(* What the policy's answers must mean, without the policy's own terms *)

\* One trusted report of the context, and it succeeded for this very commit.
Proved(obs, head, base, id) ==
    \E i \in DOMAIN obs :
        /\ obs[i].identity = id
        /\ \A j \in DOMAIN obs \ {i} : obs[j].identity # id
        /\ obs[i].linked /\ TrustedProvenance(head, base, obs[i])
        /\ obs[i].conclusion = "success" /\ obs[i].head = head

\* Every required context is proved and nothing else was reported.
Green(obs, head, base) ==
    /\ \A id \in Required : Proved(obs, head, base, id)
    /\ \A i \in DOMAIN obs : obs[i].identity \in Required

\* The failing checks at this commit (a check that names none is taken to be).
FailingAt(obs, head) ==
    {i \in DOMAIN obs : obs[i].conclusion \in Failing /\ obs[i].head \in {head, NoHead}}
===============================================================================
