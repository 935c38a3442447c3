--------------------------- MODULE NonLocalDelivery ---------------------------
(***************************************************************************)
(* From exact local readiness to a merged, cleaned-up issue: the persisted  *)
(* record of one delivery run, the invocations of Advance that move it      *)
(* forward one at a time (IssueStore excludes two at once), and the GitHub  *)
(* and Git they observe and change.                                         *)
(*                                                                          *)
(* An invocation is a sequence of observations, at most one effect and one  *)
(* persisted record.  It may die between any two of them; an effect may     *)
(* fail, or happen and lose its answer; and what was observed may change    *)
(* before it is used.  One observation or effect is one step.               *)
(*                                                                          *)
(* Candidates are commits 1, 2, ... of the issue branch, positions of       *)
(* origin/main are 1, 2, ...; 0 is "none" for both.  One pull request.      *)
(***************************************************************************)
EXTENDS CIPolicy

CONSTANTS
    Rank,           \* the order of the required contexts
    Stranger,       \* a commit of the issue branch that is no candidate
    NoDelivery, NoFailure, NoIntent, NoView,
    MaxCandidates,  \* bound: commits the developer makes
    MaxMain,        \* bound: position origin/main reaches by other work
    MaxFailures,    \* bound: required checks that fail
    MaxEdits,       \* bound: what operators do on GitHub and in the workspace
    MaxFaults       \* bound: crashes, failing calls and lost answers

ASSUME DeliveryAssumption ==
    /\ Rank \in [Required -> Nat]
    /\ \A i, j \in Required : Rank[i] = Rank[j] => i = j
    /\ MaxCandidates \in Nat \ {0} /\ MaxMain \in Nat \ {0}
    /\ MaxFailures \in Nat /\ MaxEdits \in Nat /\ MaxFaults \in Nat
    /\ Stranger \notin 0..MaxCandidates /\ 1..MaxCandidates \subseteq Commits

VARIABLES
    disk,           \* the persisted record
    pc, view, draft,    \* the invocation: next step, what it has seen, its record
    branch,         \* remote issue branch: 0 when absent, else its commit
    pr,             \* the pull request
    ci,             \* the checks of the candidate pushed last
    merging,        \* a merge GitHub has accepted: of which commit, for whom
    issue, main,    \* issue state, position of origin/main
    gitHead, worktree, localBranch, localMain, operator,    \* the workspace
    failures, edits, faults,
    reran           \* how often the program re-ran each check's run

hub == <<branch, pr, ci, merging, issue, main>>
workspace == <<gitHead, worktree, localBranch, localMain, operator>>
counters == <<failures, edits, faults, reran>>
invocation == <<pc, view, draft>>
vars == <<disk, invocation, hub, workspace, counters>>

-------------------------------------------------------------------------------
(* The record *)

Nothing == [id \in {} |-> id]

\* The states of the policy, or none yet.
Statuses == {"", "blocked", "decision-required", "candidate-failure",
             "infrastructure-failure", "pending", "success"}

Candidates == 1..MaxCandidates
Mains == 1..MaxMain + 1
\* A check's run is replaced at most once for every edit and base of its request.
Runs == 1..MaxEdits + MaxMain + 1
IntentStates == {"none", "prepared", "dispatched"}

Check == [identity : Required, conclusion : Conclusions, head : Candidates,
          kind : {"check-run", "commit-status"}, ref : Nat, linked : {TRUE},
          attribution : Attributions, run : Runs]

Intent == [base : Mains, operator : Nat, dispatched : BOOLEAN]

\* A delivery with checks of the contexts in S; pr is the base that the recorded
\* pull request has, 0 without one.
Delivery(S) ==
    [branch : BOOLEAN, pr : {0} \cup Mains, prIntent : IntentStates, labelIntent : IntentStates,
     checks : [S -> Check], status : Statuses, retries : SUBSET (Required \X Runs),
     failure : {NoFailure} \cup (Required \X Runs), mergeIntent : {NoIntent} \cup Intent,
     merge : BOOLEAN]

States == {"waiting", "blocked", "needs-review", "completed", "superseded"}

Record(S) ==
    [cand : Candidates, ready : BOOLEAN, state : States, nl : {NoDelivery} \cup Delivery(S)]

\* The placeholders are none of the things they stand in for.
ASSUME PlaceholderAssumption ==
    /\ \A S \in SUBSET Required : NoDelivery \notin Delivery(S)
    /\ NoFailure \notin Required \X Runs /\ NoIntent \notin Intent

\* NonLocalDelivery as authorization creates it.
Authorized ==
    [branch |-> FALSE, pr |-> 0, prIntent |-> "none", labelIntent |-> "none",
     checks |-> Nothing, status |-> "", retries |-> {}, failure |-> NoFailure,
     mergeIntent |-> NoIntent, merge |-> FALSE]

HasPullRequest(r) == r.nl # NoDelivery /\ r.nl.pr # 0

\* validateStoredMergeGate
MergeGate(r) ==
    /\ r.nl.status = "success" /\ r.nl.pr # 0
    /\ evaluateCIPolicy(r.nl.checks, r.cand, r.nl.pr) = "success"

\* validateNonLocalRecord, clause by clause.
ReadinessCoherent(r) ==
    /\ r.ready \/ r.nl.failure # NoFailure
    /\ r.nl.pr # 0 => r.nl.branch
    /\ DOMAIN r.nl.checks # {} => r.nl.pr # 0

\* containsInfrastructureRetryRun
JournalCoherent(r) ==
    \A retry \in r.nl.retries :
        /\ retry[1] \in DOMAIN r.nl.checks
        /\ LET check == r.nl.checks[retry[1]]
           IN  /\ check.run = retry[2]
               /\ check.attribution =
                    IF check.conclusion \in Failing THEN "infrastructure" ELSE ""

StatusCoherent(r) ==
    r.nl.status # "" =>
        /\ r.nl.pr # 0
        /\ evaluateCIPolicy(r.nl.checks, r.cand, r.nl.pr) = r.nl.status

IntentCoherent(r) ==
    r.nl.mergeIntent # NoIntent =>
        r.nl.pr # 0 /\ r.nl.mergeIntent.base = r.nl.pr /\ MergeGate(r)

\* containsCandidateFailure
FailureCoherent(r) ==
    r.nl.failure # NoFailure =>
        /\ ~r.ready /\ r.nl.mergeIntent = NoIntent
        /\ r.nl.failure[1] \in DOMAIN r.nl.checks
        /\ LET check == r.nl.checks[r.nl.failure[1]]
           IN  check.run = r.nl.failure[2] /\ check.attribution = "candidate"

MergeCoherent(r) ==
    /\ r.nl.merge => r.nl.failure = NoFailure /\ r.state \in {"waiting", "blocked", "completed"}
    /\ r.state = "completed" => r.nl.merge /\ r.nl.mergeIntent # NoIntent

\* The record passes the validation that loading it performs.
Decodable(r) ==
    IF r.nl = NoDelivery THEN r.state # "completed"
    ELSE /\ ReadinessCoherent(r) /\ JournalCoherent(r) /\ StatusCoherent(r)
         /\ IntentCoherent(r) /\ FailureCoherent(r) /\ MergeCoherent(r)

-------------------------------------------------------------------------------
(* What the adapters observe *)

Listed == pr.state # "none" /\ pr.visible

\* The checks of commit c, with the attributions this invocation was given.
Checks(c) ==
    IF ~(Listed /\ ci.head = c) THEN Nothing
    ELSE [id \in DOMAIN ci.of |->
            [identity |-> id, conclusion |-> ci.of[id].conclusion, head |-> c,
             kind |-> IF id = Governance THEN "commit-status" ELSE "check-run",
             ref |-> IF id = Governance THEN pr.base ELSE c, linked |-> TRUE,
             attribution |-> IF id \in DOMAIN view.attr THEN view.attr[id].attribution ELSE "",
             run |-> ci.of[id].run]]

\* A Governance status of another base or head, or an attribution that matches
\* no failed check, fails the whole observation.
Unobservable(c) ==
    /\ Listed
    /\ \/ /\ Governance \in DOMAIN Checks(c)
          /\ pr.head # c \/ ci.of[Governance].base # pr.base
       \/ \E id \in DOMAIN view.attr :
            ~ /\ id \in DOMAIN Checks(c)
              /\ ci.of[id].run = view.attr[id].run
              /\ ci.of[id].conclusion \in Failing

\* The check list is nil, not empty, when a pull request has no check yet.
NilChecks(c) == Listed /\ DOMAIN Checks(c) = {}

\* selectExactPullRequest, where there is one.
ExactPullRequest(c) == pr.state = "OPEN" /\ pr.head = c

-------------------------------------------------------------------------------
(* Invocations *)

Init ==
    /\ disk = [cand |-> 1, ready |-> FALSE, state |-> "needs-review", nl |-> NoDelivery]
    /\ pc = "idle" /\ view = NoView /\ draft = disk
    /\ branch = 0
    /\ pr = [state |-> "none", base |-> 0, head |-> 0, label |-> "none", visible |-> FALSE]
    /\ ci = [head |-> 0, of |-> Nothing]
    /\ merging = [head |-> 0, ours |-> FALSE]
    /\ issue = "OPEN" /\ main = 1
    /\ gitHead = 1 /\ worktree = TRUE /\ localBranch = TRUE /\ localMain = 1 /\ operator = 0
    /\ failures = 0 /\ edits = 0 /\ faults = 0
    /\ reran = [id \in Required |-> 0]

\* A call fails, or what it did is not reported.
Falters == faults < MaxFaults /\ faults' = faults + 1

Works == UNCHANGED faults

Untouched == UNCHANGED <<hub, workspace, failures, edits, reran>>

GoTo(p, record) == pc' = p /\ draft' = record /\ UNCHANGED <<disk, view>>

\* persistAssuranceTransition: what is left is to write the record.
Settle(record, state) == GoTo("save", [record EXCEPT !.state = state])

Return == pc' = "idle" /\ view' = NoView /\ draft' = disk /\ UNCHANGED disk

Save ==
    /\ pc = "save"
    /\ disk' = draft /\ pc' = "idle" /\ view' = NoView
    /\ UNCHANGED draft /\ Works /\ Untouched

Crash == pc # "idle" /\ Falters /\ Return /\ Untouched

\* Attributions the operator may supply: of checks that fail now.
Attributable ==
    LET failing == {id \in DOMAIN ci.of : ci.of[id].conclusion \in Failing}
        Verdict(id) == [run : {ci.of[id].run}, attribution : {"infrastructure", "candidate"}]
    IN  UNION {{f \in [S -> UNION {Verdict(id) : id \in S}] : \A id \in S : f[id] \in Verdict(id)} :
                  S \in SUBSET failing}

Begin ==
    /\ pc = "idle" /\ Decodable(disk) /\ disk.state \notin {"completed", "superseded"}
    /\ \E authorize \in (IF disk.ready /\ disk.nl = NoDelivery THEN BOOLEAN ELSE {FALSE}),
          attr \in Attributable :
         view' = [git |-> gitHead, issue |-> issue, authorize |-> authorize,
                  attr |-> attr, origin |-> 0]
    /\ pc' = IF HasPullRequest(disk) THEN "resume" ELSE "candidate"
    /\ UNCHANGED <<disk, draft>> /\ Works /\ Untouched

-------------------------------------------------------------------------------
(* resumeMergedBeforeAuthority: a merged pull request goes before all else *)

Commit == draft.cand

ObservesMerge == ~Unobservable(Commit) /\ Listed /\ pr.state = "MERGED"

\* Fault variant of ResumeUnobserved: an adopted merge does not count.
ForgetfulResumeUnobserved ==
    /\ pc = "resume"
    /\ \/ Works /\ Unobservable(Commit)
       \/ Falters
    /\ IF view.issue = "CLOSED" THEN Settle(draft, "waiting") ELSE GoTo("candidate", draft)
    /\ Untouched

\* No answer: only a delivery whose issue is open and unmerged goes on.
ResumeUnobserved ==
    /\ pc = "resume"
    /\ \/ Works /\ Unobservable(Commit)
       \/ Falters
    /\ IF draft.nl.merge \/ view.issue = "CLOSED" THEN Settle(draft, "waiting")
                                                  ELSE GoTo("candidate", draft)
    /\ Untouched

ResumeUnmerged ==
    /\ pc = "resume" /\ ~Unobservable(Commit) /\ ~ObservesMerge
    /\ IF draft.nl.merge \/ view.issue = "CLOSED" THEN Settle(draft, "blocked")
                                                  ELSE GoTo("candidate", draft)
    /\ Works /\ Untouched

\* Fault variant of AdoptMerge: the stored proof is not looked at.
UngatedAdoptMerge ==
    /\ pc = "resume" /\ ObservesMerge /\ ~draft.nl.merge
    /\ IF pr.head = Commit
         THEN Settle([draft EXCEPT !.nl.merge = TRUE], "waiting")
         ELSE Settle(draft, "blocked")
    /\ Works /\ Untouched

AdoptMerge ==
    /\ pc = "resume" /\ ObservesMerge /\ ~draft.nl.merge
    /\ IF pr.head = Commit /\ MergeGate(draft)
         THEN Settle([draft EXCEPT !.nl.merge = TRUE], "waiting")
         ELSE Settle(draft, "blocked")
    /\ Works /\ Untouched

\* What follows an adopted merge, up to the local observation.
ResumeAdopted ==
    /\ pc = "resume" /\ ObservesMerge /\ draft.nl.merge
    /\ IF draft.nl.mergeIntent = NoIntent THEN GoTo("capture", draft)
       ELSE IF view.issue # "CLOSED" THEN Settle(draft, "waiting")
       ELSE IF branch \notin {0, Commit} THEN Settle(draft, "blocked")
       ELSE IF branch = Commit THEN GoTo("delete-branch", draft)
       ELSE /\ pc' = "cleanup" /\ view' = [view EXCEPT !.origin = main]
            /\ UNCHANGED <<disk, draft>>
    /\ Works /\ Untouched

\* newMergeIntent
IntentOf(record) == [base |-> record.nl.pr, operator |-> operator, dispatched |-> FALSE]

\* The operator's state is recorded before any cleanup.
CaptureOperator ==
    /\ pc = "capture"
    /\ \/ Works /\ Settle([draft EXCEPT !.nl.mergeIntent = IntentOf(draft)], "waiting")
       \/ Falters /\ Settle(draft, "waiting")
    /\ Untouched

-------------------------------------------------------------------------------
(* Candidate changes and readiness (assurance.go) *)

\* A commit that is not the recorded candidate starts a new one.
NewCandidate ==
    /\ pc = "candidate" /\ view.issue = "OPEN" /\ view.git # Commit
    /\ Settle([draft EXCEPT !.cand = view.git, !.ready = FALSE, !.nl = NoDelivery],
              "needs-review")
    /\ Works /\ Untouched

\* A closed issue is another authority, which is delivered by another run.
Supersede ==
    /\ pc = "candidate" /\ view.issue = "CLOSED"
    /\ Settle(draft, "superseded") /\ Works /\ Untouched

\* For this invocation the workspace is not on a branch of the issue.
OffBranch ==
    /\ pc = "candidate" /\ view.issue = "OPEN"
    /\ Falters /\ Settle(draft, "blocked") /\ Untouched

AtCandidate == pc = "candidate" /\ view.issue = "OPEN" /\ view.git = Commit

\* Only another commit answers a failure that CI puts down to the candidate.
FailureStands ==
    /\ AtCandidate /\ ~draft.ready /\ draft.nl # NoDelivery
    /\ Return /\ Works /\ Untouched

\* Reviews and exhaustive validation pass.
BecomeReady ==
    /\ AtCandidate /\ ~draft.ready /\ draft.nl = NoDelivery
    /\ Settle([draft EXCEPT !.ready = TRUE], "waiting") /\ Works /\ Untouched

Authorize ==
    /\ AtCandidate /\ draft.ready /\ draft.nl = NoDelivery
    /\ IF view.authorize THEN Settle([draft EXCEPT !.nl = Authorized], "waiting") ELSE Return
    /\ Works /\ Untouched

-------------------------------------------------------------------------------
(* advanceNonLocal: branch, pull request, label *)

Publishing == AtCandidate /\ draft.ready /\ draft.nl # NoDelivery

PublishUnobserved ==
    /\ Publishing
    /\ \/ Works /\ Unobservable(Commit) /\ Settle(draft, "waiting")
       \/ Works /\ ~Unobservable(Commit) /\ NilChecks(Commit) /\ Settle(draft, "blocked")
       \/ Falters /\ Settle(draft, "waiting")
    /\ Untouched

\* The remote branch is absent or at an earlier candidate: push this one.
FindBranchBehind ==
    /\ Publishing /\ ~Unobservable(Commit) /\ ~NilChecks(Commit)
    /\ branch \in 0..(Commit - 1)
    /\ GoTo("push", draft) /\ Works /\ Untouched

\* What the branch may be moved to Commit from without rewriting history.
Pushable == branch \in 0..Commit

Pushed ==
    /\ branch' = Commit
    /\ pr' = IF pr.state = "OPEN" THEN [pr EXCEPT !.head = Commit] ELSE pr
    /\ ci' = IF ci.head = Commit THEN ci ELSE [head |-> Commit, of |-> Nothing]
    /\ merging' = IF merging.head = Commit THEN merging ELSE [head |-> 0, ours |-> FALSE]
    /\ reran' = IF ci.head = Commit THEN reran ELSE [id \in Required |-> 0]
    /\ UNCHANGED <<issue, main, workspace, failures, edits>>

\* Fault variant of Push: what is on the branch is overwritten.
ForcedPush ==
    /\ pc = "push"
    /\ \/ Works /\ Pushed /\ GoTo("pushed", draft)
       \/ Falters /\ Pushed /\ Settle(draft, "waiting")
       \/ Falters /\ Untouched /\ Settle(draft, "waiting")

\* PushIssueBranch
Push ==
    /\ pc = "push"
    /\ \/ Works /\ Pushable /\ Pushed /\ GoTo("pushed", draft)
       \/ Works /\ ~Pushable /\ Untouched /\ Settle(draft, "waiting")
       \/ Falters /\ Pushable /\ Pushed /\ Settle(draft, "waiting")
       \/ Falters /\ Untouched /\ Settle(draft, "waiting")

PushedUnobserved ==
    /\ pc = "pushed"
    /\ \/ Works /\ Unobservable(Commit)
       \/ Falters
    /\ Settle(draft, "waiting") /\ Untouched

\* An observation that has the branch: the first one, or the one after a push.
SeesBranch ==
    /\ \/ pc = "pushed"
       \/ Publishing /\ ~NilChecks(Commit)
    /\ ~Unobservable(Commit)
    /\ Works /\ Untouched

FindStrangerOnBranch ==
    /\ SeesBranch /\ branch \notin (IF pc = "pushed" THEN {Commit} ELSE 0..Commit)
    /\ Settle(draft, IF branch = 0 THEN "waiting" ELSE "blocked")

RecordBranch ==
    /\ SeesBranch /\ branch = Commit /\ ~draft.nl.branch
    /\ Settle([draft EXCEPT !.nl.branch = TRUE], "waiting")

SeesRequests == SeesBranch /\ branch = Commit /\ draft.nl.branch

FindNoPullRequest ==
    /\ SeesRequests /\ ~Listed
    /\ \/ /\ draft.nl.prIntent = "none"
          /\ Settle([draft EXCEPT !.nl.prIntent = "prepared"], "waiting")
       \/ draft.nl.prIntent = "prepared" /\ GoTo("create", draft)
       \/ draft.nl.prIntent = "dispatched" /\ Settle(draft, "waiting")

FindOtherPullRequest ==
    /\ SeesRequests /\ Listed /\ (~ExactPullRequest(Commit) \/ pr.label = "other")
    /\ Settle(draft, "blocked")

FindUnlabelled ==
    /\ SeesRequests /\ Listed /\ ExactPullRequest(Commit) /\ pr.label = "none"
    /\ \/ /\ draft.nl.labelIntent = "none"
          /\ Settle([draft EXCEPT !.nl.labelIntent = "prepared"], "waiting")
       \/ draft.nl.labelIntent = "prepared" /\ GoTo("label", draft)
       \/ draft.nl.labelIntent = "dispatched" /\ Settle(draft, "waiting")

\* A request whose base moved replaces the recorded one, and nothing else.
FindPullRequest ==
    /\ SeesRequests /\ Listed /\ ExactPullRequest(Commit) /\ pr.label = "exact"
    /\ IF draft.nl.pr # pr.base THEN Settle([draft EXCEPT !.nl.pr = pr.base], "waiting")
                                ELSE GoTo("confirm", draft)

\* EnsurePullRequest looks for a request itself; GitHub refuses a second one.
Created ==
    /\ pr.state = "none" /\ branch # 0
    /\ pr' = [state |-> "OPEN", base |-> main, head |-> branch, label |-> "exact",
              visible |-> FALSE]
    /\ UNCHANGED <<branch, ci, merging, issue, main, workspace, failures, edits, reran>>

\* Fault variant of CreatePullRequest: a failed creation counts as dispatched.
OptimisticCreatePullRequest ==
    /\ pc = "create"
    /\ LET dispatched == [draft EXCEPT !.nl.prIntent = "dispatched"]
       IN  \/ Works /\ Created /\ Settle(dispatched, "waiting")
           \/ Works /\ pr.state # "none" /\ Untouched /\ Settle(draft, "waiting")
           \/ Falters /\ Untouched /\ Settle(dispatched, "waiting")

CreatePullRequest ==
    /\ pc = "create"
    /\ LET dispatched == [draft EXCEPT !.nl.prIntent = "dispatched"]
           adoptable == ~Unobservable(Commit) /\ Listed /\ pr.head = Commit
       IN  \/ Works /\ Created /\ Settle(dispatched, "waiting")
           \/ Works /\ adoptable /\ Untouched /\ Settle(dispatched, "waiting")
           \/ Works /\ pr.state # "none" /\ ~adoptable /\ Untouched /\ Settle(draft, "waiting")
           \/ Falters /\ Created /\ Settle(draft, "waiting")
           \/ Falters /\ Untouched /\ Settle(draft, "waiting")

\* EnsurePullRequestProfile
Labelled ==
    /\ ~Unobservable(Commit) /\ Listed /\ pr.head = Commit /\ pr.label # "other"
    /\ pr' = [pr EXCEPT !.label = "exact"]
    /\ UNCHANGED <<branch, ci, merging, issue, main, workspace, failures, edits, reran>>

LabelPullRequest ==
    /\ pc = "label"
    /\ \/ /\ Works /\ Labelled
          /\ Settle([draft EXCEPT !.nl.labelIntent = "dispatched"], "waiting")
       \/ /\ Works /\ Untouched /\ Settle(draft, "waiting")
          /\ Unobservable(Commit) \/ pr.head # Commit \/ pr.label = "other"
       \/ Falters /\ Labelled /\ Settle(draft, "waiting")
       \/ Falters /\ Untouched /\ Settle(draft, "waiting")

-------------------------------------------------------------------------------
(* advanceRequiredCI *)

\* The checks are observed again, together with the request they belong to.
ConfirmUnobserved ==
    /\ pc = "confirm"
    /\ \/ Works /\ (Unobservable(Commit) \/ NilChecks(Commit))
       \/ Falters
    /\ Settle(draft, "waiting") /\ Untouched

Confirms == pc = "confirm" /\ ~Unobservable(Commit) /\ ~NilChecks(Commit) /\ Works /\ Untouched

Unchanged == ExactPullRequest(Commit) /\ pr.base = draft.nl.pr /\ pr.label = "exact"

ConfirmChanged == Confirms /\ ~Unchanged /\ Settle(draft, "blocked")

Policy == evaluateCIPolicy(Checks(Commit), Commit, pr.base)

\* The record with these checks; only a green one keeps the intent to merge.
Evaluated ==
    [draft EXCEPT !.nl.checks = Checks(Commit), !.nl.status = Policy,
                  !.nl.mergeIntent = IF Policy = "success" THEN @ ELSE NoIntent]

\* firstFailedAttributedCheck
FirstFailed(checks, a) ==
    CHOOSE id \in DOMAIN checks :
        /\ checks[id].attribution = a /\ checks[id].conclusion \in Failing
        /\ \A j \in DOMAIN checks :
             checks[j].attribution = a /\ checks[j].conclusion \in Failing => Rank[id] <= Rank[j]

ConfirmWaits ==
    /\ Confirms /\ Unchanged
    /\ \/ Policy = "pending" /\ Settle(Evaluated, "waiting")
       \/ Policy \in {"decision-required", "blocked"} /\ Settle(Evaluated, "blocked")

ConfirmGreen == Confirms /\ Unchanged /\ Policy = "success" /\ GoTo("readiness", Evaluated)

\* The check to re-run and its run.
Retry(record) ==
    LET id == FirstFailed(record.nl.checks, "infrastructure")
    IN  <<id, record.nl.checks[id].run>>

\* Fault variant of ConfirmInfrastructure: the journal is not looked at.
UnjournaledConfirmInfrastructure ==
    /\ Confirms /\ Unchanged /\ Policy = "infrastructure-failure"
    /\ GoTo("retry", Evaluated)

ConfirmInfrastructure ==
    /\ Confirms /\ Unchanged /\ Policy = "infrastructure-failure"
    /\ IF Retry(Evaluated) \in draft.nl.retries THEN Settle(Evaluated, "waiting")
                                                ELSE GoTo("retry", Evaluated)

\* Fault variant of ConfirmCandidateFailure: the candidate stays ready.
ReadyConfirmCandidateFailure ==
    /\ Confirms /\ Unchanged /\ Policy = "candidate-failure"
    /\ LET id == FirstFailed(Evaluated.nl.checks, "candidate")
       IN  Settle([Evaluated EXCEPT !.nl.failure = <<id, Evaluated.nl.checks[id].run>>],
                  "needs-review")

\* invalidateForCandidateCIFailure
ConfirmCandidateFailure ==
    /\ Confirms /\ Unchanged /\ Policy = "candidate-failure"
    /\ LET id == FirstFailed(Evaluated.nl.checks, "candidate")
       IN  Settle([Evaluated EXCEPT !.ready = FALSE,
                                    !.nl.failure = <<id, Evaluated.nl.checks[id].run>>],
                  "needs-review")

\* RetryInfrastructureCheck: GitHub re-runs the failed jobs of the run.
Reran(id, run) ==
    /\ id \in DOMAIN ci.of /\ ci.of[id].run = run /\ ci.of[id].conclusion \in Failing
    /\ ci' = [ci EXCEPT !.of[id].conclusion = ""]
    /\ reran' = [reran EXCEPT ![id] = @ + 1]
    /\ UNCHANGED <<branch, pr, merging, issue, main, workspace, failures, edits>>

RetryInfrastructure ==
    /\ pc = "retry"
    /\ LET retry == Retry(draft)
       IN  \/ /\ Works /\ Reran(retry[1], retry[2])
              /\ Settle([draft EXCEPT !.nl.retries = @ \cup {retry}], "waiting")
           \/ /\ Works /\ Untouched /\ Settle(draft, "waiting")
              /\ ci.of[retry[1]].run # retry[2] \/ ci.of[retry[1]].conclusion \notin Failing
           \/ Falters /\ Reran(retry[1], retry[2]) /\ Settle(draft, "waiting")
           \/ Falters /\ Untouched /\ Settle(draft, "waiting")

-------------------------------------------------------------------------------
(* advanceMerge *)

\* Fault variant of MergeReadiness: the first green record asks for the merge.
EagerMergeReadiness ==
    /\ pc = "readiness"
    /\ IF draft.nl.mergeIntent = NoIntent
         THEN GoTo("verify", [draft EXCEPT !.nl.mergeIntent = IntentOf(draft)])
       ELSE IF draft.nl.mergeIntent.operator # operator THEN Settle(draft, "blocked")
       ELSE IF draft.nl.mergeIntent.dispatched THEN Settle(draft, "waiting")
       ELSE GoTo("verify", draft)
    /\ Works /\ Untouched

MergeReadiness ==
    /\ pc = "readiness"
    /\ \/ /\ Works
          /\ IF draft.nl.mergeIntent = NoIntent
               THEN Settle([draft EXCEPT !.nl.mergeIntent = IntentOf(draft)], "waiting")
             ELSE IF draft.nl.mergeIntent.operator # operator THEN Settle(draft, "blocked")
             ELSE IF draft.nl.mergeIntent.dispatched THEN Settle(draft, "waiting")
             ELSE GoTo("verify", draft)
       \/ Falters /\ Settle(draft, "waiting")
    /\ Untouched

\* EnsureMerge looks at the request, then asks for the merge by head.
VerifyRequest ==
    /\ pc = "verify"
    /\ \/ /\ Works
          /\ IF ExactPullRequest(Commit) /\ pr.base = draft.nl.mergeIntent.base
               THEN GoTo("merge", draft) ELSE Settle(draft, "waiting")
       \/ Falters /\ Settle(draft, "waiting")
    /\ Untouched

RequestMerge ==
    /\ merging' = [head |-> Commit, ours |-> TRUE]
    /\ UNCHANGED <<branch, pr, ci, issue, main, workspace, failures, edits, reran>>

EnsureMerge ==
    /\ pc = "merge"
    /\ \/ /\ Works /\ ExactPullRequest(Commit) /\ RequestMerge
          /\ Settle([draft EXCEPT !.nl.mergeIntent.dispatched = TRUE], "waiting")
       \/ Works /\ ~ExactPullRequest(Commit) /\ Untouched /\ Settle(draft, "waiting")
       \/ Falters /\ ExactPullRequest(Commit) /\ RequestMerge /\ Settle(draft, "waiting")
       \/ Falters /\ Untouched /\ Settle(draft, "waiting")

-------------------------------------------------------------------------------
(* advancePostMerge *)

\* A branch deletion with a lease on the commit that was seen.
DeleteRemoteBranch ==
    /\ pc = "delete-branch"
    /\ \/ /\ Works /\ branch \in {0, Commit} /\ branch' = 0
       \/ /\ Works /\ branch \notin {0, Commit} /\ UNCHANGED branch
       \/ /\ Falters /\ branch \in {0, Commit} /\ branch' = 0
       \/ /\ Falters /\ UNCHANGED branch
    /\ Settle(draft, "waiting")
    /\ UNCHANGED <<pr, ci, merging, issue, main, workspace, failures, edits, reran>>

\* Fault variants of LocalCleanup: the branch goes first, and local main is not
\* compared with origin/main.
BranchFirstLocalCleanup ==
    /\ pc = "cleanup"
    /\ IF draft.nl.mergeIntent.operator # operator THEN Settle(draft, "blocked")
       ELSE IF localBranch THEN GoTo("delete-local-branch", draft)
       ELSE IF worktree THEN GoTo("remove-worktree", draft)
       ELSE IF localMain # view.origin THEN GoTo("fast-forward", draft)
       ELSE Settle(draft, "completed")
    /\ Works /\ Untouched

\* One local cleanup step for each invocation, in this order; a branch that holds a
\* later commit is not the one that was merged.  The workspace may also not be
\* observable for once, or not clean.
LocalCleanup ==
    /\ pc = "cleanup"
    /\ \/ /\ Works
          /\ IF draft.nl.mergeIntent.operator # operator THEN Settle(draft, "blocked")
             ELSE IF localBranch /\ gitHead # Commit THEN Settle(draft, "blocked")
             ELSE IF worktree THEN GoTo("remove-worktree", draft)
             ELSE IF localBranch THEN GoTo("delete-local-branch", draft)
             ELSE IF localMain # view.origin THEN GoTo("fast-forward", draft)
             ELSE Settle(draft, "completed")
       \/ Falters /\ \E state \in {"waiting", "blocked"} : Settle(draft, state)
    /\ Untouched

\* Each step looks again, before it acts, at what it is about to change.
CleanUp(step, exact, done) ==
    /\ pc = step
    /\ \/ Works /\ exact /\ done
       \/ Works /\ ~exact /\ UNCHANGED workspace
       \/ Falters /\ exact /\ done
       \/ Falters /\ UNCHANGED workspace
    /\ Settle(draft, "waiting")
    /\ UNCHANGED <<hub, failures, edits, reran>>

RemoveWorktree ==
    CleanUp("remove-worktree", gitHead = Commit,
            worktree' = FALSE /\ UNCHANGED <<gitHead, localBranch, localMain, operator>>)

DeleteLocalBranch ==
    CleanUp("delete-local-branch", gitHead = Commit,
            localBranch' = FALSE /\ UNCHANGED <<gitHead, worktree, localMain, operator>>)

FastForward ==
    CleanUp("fast-forward", TRUE,
            localMain' = view.origin /\ UNCHANGED <<gitHead, worktree, localBranch, operator>>)

-------------------------------------------------------------------------------
(* GitHub, the developer and operators *)

Outside == UNCHANGED <<disk, invocation, faults, reran>>

\* The developer commits, whatever the delivery is doing.
Develop ==
    /\ gitHead < MaxCandidates /\ gitHead' = gitHead + 1
    /\ UNCHANGED <<hub, worktree, localBranch, localMain, operator, failures, edits>> /\ Outside

RequestAppears ==
    /\ pr.state # "none" /\ ~pr.visible /\ pr' = [pr EXCEPT !.visible = TRUE]
    /\ UNCHANGED <<branch, ci, merging, issue, main, workspace, failures, edits>> /\ Outside

\* A check of the candidate pushed last is queued for its open request.
CheckStarts(id) ==
    /\ pr.state = "OPEN" /\ pr.head = ci.head /\ id \notin DOMAIN ci.of
    /\ ci' = [ci EXCEPT !.of = [j \in DOMAIN @ \cup {id} |->
                IF j = id THEN [run |-> 1, conclusion |-> "", base |-> pr.base] ELSE @[j]]]
    /\ UNCHANGED <<branch, pr, merging, issue, main, workspace, failures, edits>> /\ Outside

CheckPasses(id) ==
    /\ id \in DOMAIN ci.of /\ ci.of[id].conclusion = ""
    /\ ci' = [ci EXCEPT !.of[id].conclusion = "success"]
    /\ UNCHANGED <<branch, pr, merging, issue, main, workspace, failures, edits>> /\ Outside

CheckFails(id) ==
    /\ id \in DOMAIN ci.of /\ ci.of[id].conclusion = "" /\ failures < MaxFailures
    /\ \E c \in {"failure", "skipped"} : ci' = [ci EXCEPT !.of[id].conclusion = c]
    /\ failures' = failures + 1
    /\ UNCHANGED <<branch, pr, merging, issue, main, workspace, edits>> /\ Outside

\* The base of the open request follows origin/main, and the Governance status
\* is then published again.
BaseMoves ==
    /\ pr.state = "OPEN" /\ pr.base < main /\ pr' = [pr EXCEPT !.base = main]
    /\ UNCHANGED <<branch, ci, merging, issue, main, workspace, failures, edits>> /\ Outside

GovernanceStarts ==
    /\ pr.state = "OPEN" /\ Governance \in DOMAIN ci.of /\ ci.of[Governance].base # pr.base
    /\ ci' = [ci EXCEPT !.of[Governance] =
                [run |-> @.run + 1, conclusion |-> "", base |-> pr.base]]
    /\ reran' = [reran EXCEPT ![Governance] = 0]
    /\ UNCHANGED <<disk, invocation, faults, branch, pr, merging, issue, main, workspace,
                   failures, edits>>

MoveMain ==
    /\ main < MaxMain /\ main' = main + 1
    /\ UNCHANGED <<branch, pr, ci, merging, issue, workspace, failures, edits>> /\ Outside

\* An accepted merge lands, and the merge commit closes the issue.
Land ==
    /\ pr.state = "OPEN" /\ merging.head # 0 /\ merging.head = pr.head
    /\ pr' = [pr EXCEPT !.state = "MERGED"] /\ main' = main + 1
    /\ UNCHANGED <<branch, ci, merging, issue, workspace, failures, edits>> /\ Outside

CloseIssue ==
    /\ pr.state = "MERGED" /\ issue = "OPEN" /\ issue' = "CLOSED"
    /\ UNCHANGED <<branch, pr, ci, merging, main, workspace, failures, edits>> /\ Outside

Edits == edits < MaxEdits /\ edits' = edits + 1 /\ UNCHANGED <<disk, invocation, faults, failures>>

\* An operator re-runs a finished check, in the same run or in a new one.
OperatorReruns(id) ==
    /\ Edits /\ id \in DOMAIN ci.of /\ ci.of[id].conclusion # ""
    /\ \E new \in BOOLEAN :
         /\ ci' = [ci EXCEPT !.of[id] = [run |-> IF new THEN @.run + 1 ELSE @.run,
                                         conclusion |-> "", base |-> @.base]]
         /\ reran' = [reran EXCEPT ![id] = IF new THEN 0 ELSE @]
    /\ UNCHANGED <<branch, pr, merging, issue, main, workspace>>

OperatorOpensRequest ==
    /\ Edits /\ pr.state = "none" /\ branch # 0
    /\ \E label \in {"none", "exact", "other"} :
         pr' = [state |-> "OPEN", base |-> main, head |-> branch, label |-> label,
                visible |-> TRUE]
    /\ UNCHANGED <<branch, ci, merging, issue, main, workspace, reran>>

\* Somebody pushes to the issue branch; once merged and deleted, nobody does.
OperatorPushes ==
    /\ Edits /\ (pr.state = "MERGED" => branch # 0) /\ branch' = Stranger
    /\ pr' = IF pr.state = "OPEN" THEN [pr EXCEPT !.head = Stranger] ELSE pr
    /\ merging' = [head |-> 0, ours |-> FALSE]
    /\ UNCHANGED <<ci, issue, main, workspace, reran>>

OperatorMerges ==
    /\ Edits /\ pr.state = "OPEN" /\ merging.head = 0
    /\ merging' = [head |-> pr.head, ours |-> FALSE]
    /\ UNCHANGED <<branch, pr, ci, issue, main, workspace, reran>>

OperatorWorks ==
    /\ Edits /\ operator' = operator + 1
    /\ UNCHANGED <<hub, gitHead, worktree, localBranch, localMain, reran>>

-------------------------------------------------------------------------------

Invokes ==
    \/ Begin \/ Save
    \/ ResumeUnobserved \/ ResumeUnmerged \/ AdoptMerge \/ ResumeAdopted \/ CaptureOperator
    \/ NewCandidate \/ Supersede \/ OffBranch \/ FailureStands \/ BecomeReady \/ Authorize
    \/ PublishUnobserved \/ FindBranchBehind \/ Push \/ PushedUnobserved
    \/ FindStrangerOnBranch \/ RecordBranch
    \/ FindNoPullRequest \/ FindOtherPullRequest \/ FindUnlabelled \/ FindPullRequest
    \/ CreatePullRequest \/ LabelPullRequest
    \/ ConfirmUnobserved \/ ConfirmChanged \/ ConfirmWaits \/ ConfirmGreen
    \/ ConfirmInfrastructure \/ ConfirmCandidateFailure \/ RetryInfrastructure
    \/ MergeReadiness \/ VerifyRequest \/ EnsureMerge
    \/ DeleteRemoteBranch \/ LocalCleanup \/ RemoveWorktree \/ DeleteLocalBranch \/ FastForward

GitHub ==
    \/ RequestAppears \/ BaseMoves \/ GovernanceStarts \/ Land \/ CloseIssue
    \/ \E id \in Required : CheckStarts(id) \/ CheckPasses(id)

Disturbs ==
    \/ Crash \/ Develop \/ MoveMain
    \/ \E id \in Required : CheckFails(id) \/ OperatorReruns(id)
    \/ OperatorOpensRequest \/ OperatorPushes \/ OperatorMerges \/ OperatorWorks

Next == Invokes \/ GitHub \/ Disturbs

Spec == Init /\ [][Next]_vars

-------------------------------------------------------------------------------
(* Properties *)

\* Types: nothing the program records or observes leaves its range.
TypeOK ==
    /\ \A r \in {disk, draft} : \E S \in SUBSET Required : r \in Record(S)
    /\ pc = "idle" => draft = disk /\ view = NoView
    /\ branch \in 0..MaxCandidates \cup {Stranger}
    /\ pr.base \in {0} \cup Mains /\ pr.state \in {"none", "OPEN", "MERGED"}
    /\ \A id \in DOMAIN ci.of : ci.of[id].run \in Runs
    /\ main \in Mains /\ localMain \in Mains

\* What loading demands of a record after a candidate failure, after a merge
\* and of readiness holds of every record that is written: these clauses of
\* validateNonLocalRecord never reject the program's own work.
OwnRecordAccepted ==
    /\ TypeOK
    /\ disk.nl # NoDelivery =>
         ReadinessCoherent(disk) /\ FailureCoherent(disk) /\ MergeCoherent(disk)

\* The program asks GitHub for a merge only of the commit it has recorded as
\* green, against the base it was proved with, and after an intent was durable.
MergeProved ==
    [][merging' # merging /\ merging'.ours =>
          /\ disk.nl # NoDelivery /\ disk.nl.mergeIntent # NoIntent
          /\ merging'.head = disk.cand /\ pr.head = disk.cand
          /\ disk.nl.mergeIntent.base = disk.nl.pr
          /\ Green(disk.nl.checks, disk.cand, disk.nl.pr)]_vars

\* Once a merge is adopted the candidate and its proof are frozen, and no
\* invocation gets to the candidate flow again, whatever fails or crashes.
AdoptionFinal ==
    [][disk.nl # NoDelivery /\ disk.nl.merge =>
          /\ disk'.cand = disk.cand /\ disk'.nl # NoDelivery /\ disk'.nl.merge
          /\ disk'.nl.checks = disk.nl.checks /\ disk'.nl.pr = disk.nl.pr
          /\ pc' \in {"idle", "save", "resume", "capture", "delete-branch", "cleanup",
                      "remove-worktree", "delete-local-branch", "fast-forward"}]_vars

\* A merge is adopted, whoever made it, only onto a record that proves every
\* required check green for the merged commit; what was merged while its checks
\* were running or failing is left for a person.
AdoptedProved ==
    disk.nl # NoDelivery /\ disk.nl.merge => Green(disk.nl.checks, disk.cand, disk.nl.pr)

\* Nothing local is removed before the merge is adopted, the issue is closed
\* and the remote branch is gone; the local branch goes after the worktree, and
\* local main moves last.  A completed delivery has nothing left to clean, and local
\* main past the base the candidate was merged into.
CleanupOrdered ==
    /\ ~worktree =>
         /\ disk.nl # NoDelivery /\ disk.nl.merge
         /\ pr.state = "MERGED" /\ issue = "CLOSED" /\ branch = 0
    /\ ~localBranch => ~worktree
    /\ localMain # 1 => ~localBranch
    /\ disk.state = "completed" =>
         /\ ~localBranch /\ localMain > pr.base
         /\ disk.nl.merge /\ pr.head = disk.cand

\* The work of another author on the issue branch is neither moved nor deleted,
\* even when it appears between an observation and the push or the deletion.
StrangersKept == [][branch = Stranger => branch' = Stranger]_vars

\* How far the record says the delivery is.
Stage(r) ==
    IF r.state \in {"completed", "superseded"} THEN r.state
    ELSE IF r.nl = NoDelivery THEN "preparing"
    ELSE IF r.nl.merge THEN "merged" ELSE "delivering"

\* The record holds a proof that every required check of its candidate is green.
ProofHeld(r) == r.nl # NoDelivery /\ Green(r.nl.checks, r.cand, r.nl.pr)

\* What is still in the workspace of the work on the issue.
Remains ==
    {thing \in {"worktree", "branch", "main"} :
        CASE thing = "worktree" -> worktree
          [] thing = "branch" -> localBranch
          [] thing = "main" -> localMain = 1}

Promise == INSTANCE DeliveryPromise WITH
    cand <- disk.cand, stage <- Stage(disk), proved <- ProofHeld(disk),
    asked <- IF merging.ours THEN merging.head ELSE 0,
    landed <- IF pr.state = "MERGED" THEN pr.head ELSE 0,
    closed <- issue = "CLOSED", remote <- branch, left <- Remains

\* Seen from outside, the delivery keeps its promises, whatever an invocation has
\* seen before it acts and wherever it dies: one candidate after another until a
\* merge of a proved one is adopted, no request to merge what is not proved, no
\* work of others moved or deleted, and the cleanup last and in order.
DeliveryRefined == Promise!Spec

\* A failed run is re-run once: again only if a fault hid that it was.
RetriedOnce == \A id \in Required : reran[id] <= 1 + faults

-------------------------------------------------------------------------------
(* What the documents say and the code does not do *)

\* An invocation can go on from whatever an earlier one recorded.
RecordResumes == Decodable(disk)

\* A merge the program asked for, once it has landed, can be adopted.
OwnMergeAdoptable ==
    pr.state = "MERGED" /\ merging.ours /\ pc = "idle" =>
        disk.nl # NoDelivery /\ (disk.nl.merge \/ MergeGate(disk))

\* A delivery that meets no failure, fault or edit is never blocked.
UndisturbedNeverBlocked ==
    failures = 0 /\ edits = 0 /\ faults = 0 /\ gitHead = 1 => disk.state # "blocked"

-------------------------------------------------------------------------------
(* Liveness *)

\* Advance is run again and again, with the authorization once it is asked for;
\* GitHub shows requests, runs checks, lands merges and closes issues.
Fairness ==
    /\ WF_vars(Invokes /\ pc # "idle")
    /\ WF_vars(Begin)
    /\ SF_vars(Begin /\ view'.authorize)
    /\ WF_vars(RequestAppears) /\ WF_vars(Land) /\ WF_vars(CloseIssue)
    /\ \A id \in Required : WF_vars(CheckStarts(id)) /\ WF_vars(CheckPasses(id))

FairSpec == Spec /\ Fairness

\* The last commit is delivered, whichever fault interrupts it, unless it is made when a
\* request for an earlier one exists: that is observed without checks, or merged as it is.
Delivered == <>(disk.state = "completed") \/ <>(pr.state # "none" /\ pr.head # gitHead)
===============================================================================
