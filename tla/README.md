# A formal model of packy-delivery

packy-deliver takes one GitHub issue to a merged, cleaned-up change. It is a
command-line program without a daemon: every invocation of `advance` loads the
persisted record of the issue's delivery run, observes Git, GitHub and the file
system again, does the next safe thing, persists, and exits. What makes the
program hard is therefore not computation but interruption: any invocation may
be killed anywhere, run beside another one or beside `status` and `watch`, see
external facts move between two of its own steps, and lose the answer of a call
that took effect.

This directory holds TLA+ modules that model the program from its source, TLC
configurations that check them on small instances, and TLAPS proofs.

## Inventory of the system

| component | state it keeps | operations | correct when |
| --- | --- | --- | --- |
| issue store (`issuedelivery/store.go`, `operation.go`) | per issue, under the Git common directory: `operation.lock`, `advance.lock`, `active-operation.json`, `runs/<id>.json`, `revisions/<id>/<digest>.json`, `active.json` | lock, store operation, load active, store run or revision and activate, observe, probe | the active record is never lost, torn or overwritten by a stale writer; the sidecar is truthful |
| Advance (`advance.go`) | none of its own | load, decide, start / supersede / adopt / reject a run, hand over to a handler, persist | at most one active run per issue; resumes after a crash |
| authority compiler, risk (`compiler.go`, `risk.go`, `delivery_profile.go`) | digest, evidence, pending decision in the record | compile issue, decisions and base commit | same authority, same run identity |
| qualification (`qualification.go`) | reviews and corrections in the record | request, accept, correct, approve | approval only of the evidence that was reviewed |
| candidate assurance (`assurance.go`, `profile_assurance.go`, `assurance_projection.go`, `review_packets.go`) | candidates, review receipts, adjudications, repair budget, local readiness | freeze a candidate, review on the required axes, adjudicate, repair, declare readiness | readiness is about the exact reviewed and validated candidate |
| validation sessions (`validation_session.go`) | sessions and invalidations in the record | start (persisted before execution), execute, complete, reuse, invalidate | a receipt never outlives the facts it was produced from |
| non-local delivery (`nonlocal.go`, `completion.go`) | authorization, branch, pull request, intents, checks, CI status, retries, merge intent, completion in the record | push, open pull request, wait for CI, retry, merge, clean up | effects happen at most once per intent; merge only when green for the exact candidate; a merge is never forgotten |
| CI policy (`ci_policy.go`, `deliveryevidence/nonlocal.go`) | none | classify required checks, derive the state | success means one trusted success per required context at the exact head |
| adapters (`cmd/packy-deliver/advance_local.go`, `advance_remote.go`, `advance_runtime.go`) | none; run `git` and `gh` | observe, ensure | an effect is checked against the fact it depends on |
| evidence derivation (`evidence_derivation.go`, both packages) | derivation receipts in the record | inherit, reconstruct, invalidate | nothing is inherited past the change that voids it |
| status, watch (`status*.go`, `watch.go`) | none; Watch keeps its last events | observe, poll, emit | never writes; reports a current record; ends |
| CLI convergence (`advance_command.go`) | inputs not consumed yet, seen outcome signatures | call Advance again after a deterministic pause | inputs consumed once; ends |
| operator files (`input_template_command.go`, `review_packets_command.go`, `workspace_command.go`, `atomic_exchange_*.go`) | directories beside the workspace | publish by atomic exchange | a reader sees the old or the new directory |
| evidence bundle rules (`deliveryevidence/*.go`) | none | field validation, gate | |
| legacy v1 (`cmd/packy-deliver/main.go`) | old bundles | stand-alone commands | |

Components interact by calls inside one invocation, and across invocations only
through the issue store and through what Git and GitHub show. The hard
behaviours, each at its line, are listed under `hazards` in `PROJECT.json`.

## Modules

| module | what it is |
| --- | --- |
| `RunRegister` | abstract: one durable register per issue; each published record starts, revises or supersedes |
| `IssueStore` | the issue directory with its locks and files, used by Advance processes and observers step by step |
| `IssueStoreProofs` | theorems about `IssueStore` |
| `MCIssueStore` | the TLC instance of `IssueStore` |
| `CIPolicy` | the required-CI policy, a pure function, and what its answers must mean stated without its terms |
| `CIReports` | the list of checks of a commit as it changes, with the policy asked about each state |
| `CIReportsProofs` | theorems about the policy |
| `MCCIReports` | the TLC instance of `CIReports` |
| `DeliveryPromise` | abstract: what a delivery promises somebody who looks at GitHub, the workspace and the record, and knows nothing of invocations |
| `NonLocalDelivery` | from local readiness to a completed delivery: the record, one invocation of Advance at a time, GitHub, Git and the workspace; uses `CIPolicy` |
| `NonLocalDeliveryProofs` | theorems about `NonLocalDelivery` |
| `MCNonLocalDelivery` | the TLC instance of `NonLocalDelivery` |
| `Qualification` | the authority compiler, the review and correction of its matrix, and the command loop that calls Advance again; several callers |
| `QualificationProofs` | theorems about `Qualification` |
| `MCQualification` | the TLC instances of `Qualification` |
| `Assurance` | one approved run from the first observation of a commit to exact local readiness |
| `AssuranceProofs` | theorems about `Assurance` |
| `MCAssurance` | the TLC instances of `Assurance` |
| `EvidenceDerivation` | what an impact assessment lets a repaired candidate keep, pure operators |
| `EvidenceReuse` | the life of one assessment and its confirmations, with `EvidenceDerivation` asked about each state |
| `EvidenceReuseProofs` | theorems about the decision |
| `MCEvidenceReuse` | the TLC instance of `EvidenceReuse` |
| `ValidationSession` | the journal of validation sessions and the proofs taken from it |
| `ValidationSessionProofs` | theorems about `ValidationSession` |
| `MCValidationSession` | the TLC instance of `ValidationSession` |
| `Watch` | one call of Watch beside invocations of Advance |
| `WatchProofs` | theorems about `Watch` |
| `MCWatch` | the TLC instance of `Watch` |

They compose along one run. `IssueStore` shows that invocations of Advance
exclude each other and that what one persists is what the next one loads, so the
modules of the handlers (`Qualification`, `Assurance`, `ValidationSession`,
`NonLocalDelivery`) take one Advance at a time and one record. `Qualification`
ends with an approved matrix, `Assurance` begins there and ends with local
readiness, `NonLocalDelivery` begins with readiness. `Assurance` takes the
decision of an assessment from outside, `EvidenceReuse` has it;
`Assurance` takes the outcome of a validation from outside, `ValidationSession`
has it. `Watch` sees of an Advance only its locks, its sidecar and its record.

### IssueStore

One process of `Advancers` is one caller that invokes `advance` again and again;
one of `Observers` is a caller of `status`, `watch`, `input-template` or
`review-packets`, which all read under the same shared flock. The variables are
the locks (`opLock`, `advLock`, `shared`), the files (`lockFile`, `opFile`,
`runs`, `revisions`, `active`), each invocation's local variables (`pc`, `op`,
`seen`, `draft`, `result`), each observer's (`opc`, `selected`, `loaded`), and
the world (`authority`, `base`).

A step is what lies between two points at which another process can see a
difference: a flock, a file replaced by rename, a read. `Begin` observes Git and
draws an operation identity before any lock is taken; `LockOperation`,
`StoreOperation`, `LockAdvance` take `operation.lock`, write the sidecar and take
`advance.lock` (`OperationLockBusy`, `AdvanceLockBusy`, `StoreContended` are the
contended returns); `LoadActive` observes the issue and reads the record;
`Revise`, `StartRun`, `AdoptOrphan`, `RejectOrphan` and `Return` are the
outcomes of the handler; `WriteFile` and `Activate` persist; `Progress` raises
the sidecar's phase; `Resolve`, `UnlockAdvance`, `UnlockOperation` are the
deferred calls. `Crash` ends a process at any point: the kernel drops its flocks
and its files stay. A failing write (`StoreOperationFails`, `WriteFails`,
`ProgressFails`, `ResolveFails`) may or may not have replaced the file, because
`atomicWriteAt` syncs the directory after the rename.

Data are abstracted to what the store's guarantees tell apart. A run identity is
the sequence of authorities from the first run to this one, because
`runIdentity` digests the authority with the identity of the superseded run. A
record is its identity, the base commit its evidence holds, one of three phases
(`open`, `published` once a pull request is recorded, `completed`), and its
timing trail as the operations that wrote it. A digest is its content.

### CIPolicy and CIReports

`evaluateCIPolicy` classifies the reports of each required context and derives
one of six states in a fixed precedence. An observation keeps what the policy
tells apart: the context, the conclusion, the commit it names (if any), the kind
of publisher, the commit its workflow definition comes from, the attribution,
and `linked`: whether run id, workflow name and path, and details URL agree and
are well formed. `Green`, `Proved` and `FailingAt` say what an answer must mean
in terms of the observations alone; the theorem and the runs relate the two.
`CIReports` lets checks appear and change in any way, so that every list within
the bound is a state. That the policy sorts the list first is not modelled: no
definition depends on the order.

### NonLocalDelivery

`IssueStore` excludes two invocations of Advance at once, so this module has one.
`disk` is the part of the persisted record the delivery reads and writes
(`cand`, `ready`, `state`, and `nl`, the `NonLocalDelivery` of `types.go`);
`draft` is the record inside the invocation, `view` what it has seen and been
told, `pc` where it is. A step is one observation or one effect: between any two,
GitHub, the developer or an operator may act, and the process may die (`Crash`).
Every effect has three outcomes besides success: it is refused, it fails
(`Falters`), or it happens and its answer is lost.

| source | actions |
| --- | --- |
| `Advance` up to the handlers | `Begin` |
| `resumeMergedBeforeAuthority` | `ResumeUnobserved`, `ResumeUnmerged`, `AdoptMerge`, `ResumeAdopted`, `CaptureOperator` |
| `advanceAssurance`, as far as the delivery depends on it | `OffBranch`, `NewCandidate`, `FailureStands`, `BecomeReady`; `Supersede` is the new run of another authority |
| `advanceNonLocal` | `Authorize`, `PublishUnobserved`, `FindBranchBehind`, `Push`, `PushedUnobserved`, `FindStrangerOnBranch`, `RecordBranch`, `FindNoPullRequest`, `CreatePullRequest`, `FindOtherPullRequest`, `FindUnlabelled`, `LabelPullRequest`, `FindPullRequest`, `ConfirmUnobserved`, `ConfirmChanged` |
| `advanceRequiredCI` | `ConfirmWaits`, `ConfirmGreen`, `ConfirmInfrastructure`, `RetryInfrastructure`, `ConfirmCandidateFailure` |
| `advanceMerge`, `EnsureMerge` | `MergeReadiness`, `VerifyRequest`, `EnsureMerge` |
| `advancePostMerge` and the local gateway | `DeleteRemoteBranch`, `LocalCleanup`, `RemoveWorktree`, `DeleteLocalBranch`, `FastForward` |
| `persistAssuranceTransition` | `Settle`, then `Save` |
| `validateNonLocalRecord` on loading | `Decodable` and its six clauses, a guard of `Begin` |

Abstractions. Commits of the issue branch are 1, 2, ... and positions of
origin/main are 1, 2, ...; idempotency keys, URLs, timestamps and titles are
left out. `Begin` reads Git and the issue in one step; one `ObserveNonLocal` is
one step although it is several calls of `gh` and `git`, which the code reads
into one value before it uses any of it. A required check is absent, running,
passed, or failed as `failure` or as `skipped`, in a run with a number; the
Governance status also remembers the base it was published for. A push to the
branch discards an accepted merge of another head. GitHub accepts a merge
(`RequestMerge`) and lands it later (`Land`); the merge commit closes the issue
(`CloseIssue`). There is at most one pull request, and it is not closed and
reopened; after the merge nobody recreates the deleted branch. `BecomeReady`
stands for reviews and exhaustive validation. `Unobservable` covers the two ways
in which an observation fails without a fault: a Governance status of another
base or head, and an attribution that matches no failing check.

Of what `advanceNonLocal` checks first (`validateNonLocalFreshness`), the
commit, branch and workspace are those that `advanceAssurance` has compared a few lines
earlier in the same call (assurance.go:84-90, 207-226): another commit is
`NewCandidate`, another branch `OffBranch`, and a workspace that is not clean is
refused when the authority is compiled (compiler.go:269), where nothing is written. In
the cleanup the local issue branch and worktree are at the developer's last commit,
`gitHead`: a branch that is not at the merged commit stops the cleanup, and each step
looks again before it acts (`CleanUp`), because the developer may commit in between. A
worktree or integration workspace that is not clean blocks for once and counts as a
fault; the operator's other state is `operator`.

### Qualification

`issue` is what the tracker shows, `run` the active record (authority, matrix,
reviews, corrections, the pending request), `loop` each caller's
`convergeAdvance`. One Advance is one step, because it holds the lock of the
issue; between two of them another caller advances, the issue is edited, a
developer commits. `shown` collects every request and packet ever handed out,
and every answer is made from one of them, so answers come late, twice, and for
runs that have gone. A call that died may have left the record of a new run
unactivated; the next call adopts it (`AdoptOrphan` of `IssueStore`) and passes its
input on. Such a run is the one that `NewRun` makes, and nobody was shown a request or a
packet of it, so no input is valid for it: here the two calls are the one `NewRun`.

| source | definitions |
| --- | --- |
| `compileAuthority`, `applyDecision`, `nextDecisionRequest` | the same names; `Rows`, `CompiledMatrix`, `authorityDigest` |
| `Advance` | `Advance`, with `NewRun` for another authority |
| `advanceQualification` | `advanceQualification`, `Correct` for a correction, `Judge` for a review |
| `validateQualificationReview`, `validateQualificationCorrection` | the same names |
| development handoff of `advanceAssurance` | `advanceAssurance` |
| `convergeAdvance`, `advanceOutcomeSignature` | `Call`, `Take`, `Continue`, `Converge`, `advanceOutcomeSignature` |
| `validateRun`, `validateQualificationHistory` on loading | the same names |

Texts are classes: the compiler's marker, generic prose, specific prose, prose
bound to the request by the compiler's grammar. Digests are what they digest.

### Assurance

`run` is the record: the candidates with their reviews, specialists,
dispositions, batches, derivation and proofs, the pending repair request,
readiness, and the `trail` of timings. Each action is one Advance, in the order of
`advanceAssurance`; its guard is what the handlers before it have found settled
(`Free`, `Steady`, `Settled`, `Reviewed`). `Persist` projects the canonical
receipts first and persists nothing when that fails (`refused` says why);
`Decodable` is the validation of the loaded record and a guard of every Advance
(`loads` keeps its value), so a run can get stuck here wherever it can in the code. Reviewers answer in the
Advance (`ExecuteReviews`, `ExecuteSpecialists`) or through packets, in any
order and in parts (`SupplyReviews`, `SupplySpecialists`).

The environment is a developer (`Develop`), an operator who changes branch or
workspace, a risk observer that reports other effects of a commit
(`Reclassify`) and a red CI that takes readiness away (`CandidateFailsCI`, the
link to `NonLocalDelivery`). A review has at most one finding; `Moves` selects
what happens in an instance beside plain calls of Advance.

### EvidenceDerivation and EvidenceReuse

`EvaluateEvidenceImpactAssessment` decides from an assessment which axes,
specialists and validations are kept, redone or done for the delta;
`AdmitImpactConfirmation` admits an independent answer;
`EvaluateValidationCompatibility` compares a parent's session with what the
derived candidate requires. `EvidenceReuse` starts with a complete assessment of
a harmless delta and lets the author revise it, principals answer it, and the
session or the workspace differ, one respect at a time.

### ValidationSession

`sessions` is the journal, `invalidations` why a session does not serve a
candidate, `cands` the candidates with their receipts and proofs. A session is
started in one persist (`StartSession`), executed (`BeginExecution`,
`EndExecution`) and journalled again; `Crash` may come between any two. Later
Advances take the boundary proofs (`ProveBoundaries`) and the exhaustive proof
(`Conclude`) from it as long as nothing sets it aside (`Differences`, in the
order of `Precedence`). A derived candidate may adopt its parent's session
(`reusableDerivedValidationSession`), through a confirmation of the
authenticated principal. A "place" is a checkout with its sandbox roots; the
digest of the validator is fixed by the tree in production and left out.

### Watch

`adv`, `opFile`, `record` and `external` are Advance and the world as Watch can
tell them apart; `pc`, `progress`, `contender`, `result` and `ctx` are Watch. It
polls with Status, under the shared lock (`ShareForStatus`, `Status`,
`StatusBusy`), until it meets an Advance; from then on it probes the lock
(`Probe`, `ProbeBusy`, `EndProbe`) and reads the operation sidecar, which no lock
protects, in a step of its own (`LoadWhileBusy`, `LoadWhenFree`). `Take` is what
the loop does with an observation: emit what is new, end, or wait. The timeout
and cancellation end the context between any two steps (`ContextEnds`,
`Interrupted`). `contender` remembers whom Watch found at the lock; the code has
no such variable, it only states the property.

## Runs

| run | instance | shows |
| --- | --- | --- |
| `store` | 2 Advance processes, 1 observer, 2 authorities (one undecided), 2 bases; 3 invocations, 2 timing entries, 1 edit, 1 crash, 1 failing write | what readers see is consistent and current, `IssueStore` implements `RunRegister`, and every invocation ends |
| `ci_policy` | 2 required contexts and a foreign one, lists of up to 3 checks that differ from a trusted success in one respect | what success, retry, repair and waiting mean |
| `nonlocal_safety` | 1 candidate, 2 contexts, main moving once, 2 failing checks, 1 operator edit, 1 fault, any 3 of them together except both failures with the edit | the safety properties below, and `NonLocalDelivery` implements `DeliveryPromise` |
| `nonlocal_liveness` | 2 candidates, green checks, 2 faults anywhere | the last commit is delivered |
| `nonlocal_base_move` | main moves once, nothing fails | violation: the program writes a record it refuses to load |
| `evidence_reuse` | an assessment with 2 boundaries and 2 criteria, every combination of 3 departures from the ordinary case | what is retained, redone and adopted is sound |
| `assurance` | 2 commits, 1 boundary, 2 findings, 5 starts and reviews, 1 change of exposure or branch, failing observations, impact packets | readiness is earned, no finding is lost |
| `assurance_liveness` | 1 commit, packets in parts, failing validation, red CI, a changing workspace | records load, timings stay consistent, a candidate gets ready |
| `validation` | 2 places, 3 principals, 2 boundaries, 3 candidates, 3 disturbances | what is admitted was in force, crashes never count as success, validation ends |
| `qualification` | 2 callers, 3 versions of the issue, 1 edit, 1 rejection | approval is earned, records load, callers that answer get an approved matrix |
| `qualification_pause` | 1 caller, an open dependency | violation: a second Advance without input changes a blocked run |
| `watch` | 2 invocations of Advance, 2 identities, 2 states, 1 change, 1 error | what Watch says of lock and operation is true, and a change is not missed |

Bounds. Two Advance processes are enough for a race on each lock; the third
invocation lets one follow a crash while another overlaps it. A trail of two is
a first record and a revision, in which a stale revision can already replace a
newer record. Faults, crashes and edits of one keep the faults apart in TLC; the
proofs hold for any number. Only `assurance` uses symmetry, of the two commits:
nothing orders them and the run checks no temporal property.

The policy is symmetric in the contexts except for Governance, so one ordinary
context and Governance stand for the four. Three checks let one context be
duplicated beside the other. In `nonlocal_safety` one edit lets an operator do any
one thing at any point (open the request, push, merge, re-run a check, change the
workspace), one fault is a lost answer, a failed call or a crash at any point, and
two failures let a retried check fail again. It has one candidate, because a
second one gets nowhere once a request exists (below); `nonlocal_liveness` has
the second candidate, the push over an earlier one and two faults, so that a lost
answer is followed by a crash.

Three departures are the most that a rule of the derivation joins. Two
candidates are the fewest for a repair and for retained evidence, one boundary
for a specialist, an escalation and a boundary proof; of two findings one can be
accepted and the other rejected, and five starts and reviews (`MaxTrail`) let a
finding stay open across a partly retained review of the second candidate, which
is when `RequestRepair` runs. The limit of `assurance_liveness` cuts nothing. It has
one commit, because a return to an earlier commit is one of the known
disagreements below. Three candidates and two boundaries let a session be
refused for one reason, adopted for another and be asked by a successor. Two
callers of the command are the fewest that can interleave between two turns of a
loop; one rejection asks for a correction and one edit voids it; three versions
of the issue differ in questions, approval, dependencies and criteria. Two
invocations let Watch meet one operation and report the next.

Records the program cannot load. `Begin` of `NonLocalDelivery` and every Advance
of `Assurance` require `Decodable`, as the code does, so a run that meets one of
the disagreements about it stops there; `OwnRecordAccepted` states the clauses
of the non-local validation that do hold, and `RecordResumes` the whole of it.

The properties of `store`: `ActiveReadable`, `active.json` and every
supersession link name files that exist; `ObserverSnapshot`, what an observer
read under its lock stays the current record; `SidecarResolved`, an operation
shown as active is being run; `SidecarMonotone`, an operation's phase never drops
and its end is final; `RegisterRefined`, the store is a register and nothing
published is lost; `InvocationEnds`, every invocation ends and holds neither lock then;
`TypeOK`.

The properties of `ci_policy`: `SuccessIsProof`, success exactly when each
required context has one trusted, successful report for the exact candidate and
nothing else is listed; `FailuresAttributed`, a re-run or repair only when every
failure at this commit is attributed, a re-run only when all are the
infrastructure's; `PendingIsHope`, waiting only for something that can still
change the answer.

The properties of the non-local runs:

* `MergeProved`: the program asks for a merge only of the recorded green
  candidate, against the base of the proof, after its intent was durable.
* `AdoptedProved`: a merge is adopted, whoever made it, only onto such a proof.
* `AdoptionFinal`: after adoption candidate and proof are frozen and no invocation
  gets back to the candidate flow.
* `DeliveryRefined`: every step is one step of `DeliveryPromise`, or none: the branch
  moves only forward, a merge is asked for and adopted only of what is proved, the
  remote branch, worktree, local branch and main are cleaned in this order after
  the issue is closed, and a completed delivery has nothing left. Another author's
  commit on the branch is neither overwritten nor deleted, also when it arrives
  between an observation and the effect (`StrangersKept`, proved on its own too).
* `CleanupOrdered`: what is removed when, and what completion means outside the
  record.
* `RetriedOnce`: a failed run is re-run once, plus once for each fault that hid it.
* `OwnRecordAccepted`: readiness, candidate failure and merge never make a record
  that loading rejects.
* `Delivered`: the last commit is delivered under the fairness below, unless it is made
  when a request for an earlier one exists.

The properties of `evidence_reuse`:

* `RetainedSpeaksTrue`: what is kept speaks about nothing that moved: the change,
  the matrix, the tree and environment, or a boundary.
* `ReuseIsRerun`: a session is adopted only if running it again could not have
  said anything else, on exactly one independent acceptance of this assessment.
* `NewsNeverRestores`: naming one more change never frees anything.

The properties of the assurance runs:

* `ReadinessEarned`: a record that is ready has every review, specialist and proof
  that the candidate, as last observed, requires, its own or retained from a
  parent that had it; nothing is open, nothing accepted is unrepaired.
* `FindingsAnswered`: no finding is lost under a repair or an escalation.
* `RecordResumes`: what is persisted loads again.
* `ReviewsClose`: review timings and iterations stay one-to-one, so no transition is
  refused for what earlier ones recorded.
* `ReachesReadiness`: a candidate that is advanced again and again gets ready, or
  the operator holds the next move.

The properties of `validation`: `SessionsSettle`, an outcome is final and a
session whose invocation died can only fail; `AdmittedInForce`, a proof is only
taken, and readiness only given, under a session that completed here and has not
expired, and the proofs of a ready candidate that are derived stem from the very session
of the parent that is asked, which this principal confirmed;
`BoundedExecutions`, one execution and one more for each thing that went wrong or
changed; `RecordLoads`; `EventuallyReady`.

The properties of `qualification`: `ApprovalBacked`, an approved run has an exact
review of the matrix it holds, and that matrix answers every earlier rejection;
`DecisionsTraceable`, a decision outlives an edit only while the issue still asks
its question; `NoStall`, the command loop never gives up on a deterministic
pause, whatever other callers do; `RecordLoads`; `EventuallyQualified`.

The properties of `watch`: `AvailabilityHonest`, when Watch says that the lock is
free the operation it had met has ended or died, or a later one is shown;
`ReportsForward`, the operations reported only move forward, although they are
read without a lock; `ChangeEndsWatch`, a lock that stays free or a result that
stays changed ends Watch, whatever transient errors came before.

Fairness. Nobody runs Advance by itself: that somebody invokes it again is what
the workflow document prescribes, and each fairness condition says no more than
that.

* `store`: weak fairness of each process's own steps, nothing of the environment,
  crashes or observers. An invocation never waits for a lock (`LOCK_NB`), and its
  external calls run under the command's context.
* `nonlocal_liveness`: a started invocation takes its next step, Advance is invoked
  again and is given the authorization infinitely often while it is asked for
  (strong fairness, because invocations without it keep interrupting), and
  GitHub shows requests, queues and finishes checks, lands accepted merges and
  closes the issue. Nothing is assumed of operators or faults; no check fails.
* `assurance_liveness`: weak fairness of the plain Advance that the record is ready
  for (a new candidate, an escalation, complete reviews and specialists, the
  repair request, a validation that passes). Reviewers answer; decisions, repairs
  and the checkout are the operator's and nothing is assumed of them.
* `validation`: weak fairness of the next step of an Advance that is not disturbed.
* `qualification`: weak fairness of "some caller does what the outcome it reads asks
  for, or its loop advances again"; nothing is assumed of a single caller.
* `watch`: weak fairness of the polls, which are bounded calls and a timer; nothing
  is assumed of Advance, of errors or of the timeout.

## Known disagreements without a run

Two disagreements have a run. The others were found while modelling, and each is
shown by TLC with the definition and the constants named here.

* Store. With a reader's shared lock held, an Advance ends as "another Advance
  call is active" (`ContentionMeansAdvance`, the store instance without faults;
  advance.go:189). A run file left by a crash before its activation is rejected
  once origin/main has moved (`CrashedStartResumes`, 1 crash, 1 edit; advance.go:135).
  An Advance that observed Git before the active run was written may replace it by a
  run on an older base (`MaxEdits = 2`, `Undecided = {}`, origin/main and the issue
  change while it waits; advance.go:23); nothing in the repository promises otherwise.
* Non-local. A retried check that fails again leaves a record that does not load
  (`RecordResumes`, `MaxFailures = 2`; nonlocal.go:423). A requested merge whose
  checks are re-run before it lands is never adopted (`OwnMergeAdoptable`,
  `MaxEdits = 1`; nonlocal.go:425). A pull request observed before its first
  check blocks the delivery (`UndisturbedNeverBlocked`; advance_remote.go:538). For
  the same reason a candidate made when a request for an earlier one is open is
  never pushed: it has no checks before the push, and the list is nil
  (`<>(disk.state = "completed")` in the liveness instance; nonlocal.go:76).
* Evidence. An ambiguous obligation does not by itself force both axes
  (`AmbiguityIsFresh`), against packy-issue-delivery.md ("Incomplete or ambiguous
  impact forces the complete evidence set").
* Assurance. A Spec review answered before Standards cannot be persisted
  (`AnswersRecorded`, `Moves = {"packets"}`; assurance_projection.go:247). With
  `Moves = {"packets", "branch"}` an Advance off the delivery branch between two
  answers leaves two closures for one iteration, and with two boundaries an
  adjudication between two specialists does (`ReviewsClose`). The same timing is
  counted against a commit whose risk observation failed: the start is recorded
  under the earlier candidate, and the next start moves it to the new one, which the
  persisted prefix of receipts refuses from then on (`ReviewsClose`,
  `Moves = {"risk"}`; assurance_projection.go:514-560). An escalation of a round that
  one of two reviews has answered is refused for good, because the closed iteration
  has no authoritative batch (profile_assurance.go:106, assurance_projection.go:57-60),
  and an answer for an axis that is not missing any more opens and closes a timing
  that no iteration owns. `Crossing` names these kinds of steps. `RecordResumes` fails in the
  six cases that `Losing` names, none of which is refused when it is persisted:
  the sandbox check of a new commit fails after its profile was recorded
  (`Moves = {"risk"}`); an earlier commit is checked out again (`"revisit"`); an
  assessment arrives after a fresh review of the candidate, or a Spec answer whose
  packet was drawn before the assessment arrives after Spec was retained
  (`"packets"`, `"impact"`; assurance.go:540-590, record.go:475-480); the exposure of a
  derived candidate grows (`"reclassify"`, `"impact"`; profile_assurance.go:106 keeps
  the derivation of the earlier exposure); and a further round, or one of two
  specialists, answers with a finding after an earlier round was adjudicated, and
  the rest of the round is still out (`"packets"`, two boundaries; record.go:794-815
  allows an open finding only while a request is pending).
* Validation. A plain Advance on a confirmed derived candidate whose parent has a
  completed session dies of a nil authority (`ResumesUnaided`, with
  `Principals` containing `"none"`; validation_session.go:345). The proofs of one candidate may come
  from different executions; the invalidations say why.
* Qualification. A corrected, not yet reviewed run is handed to development by an
  Advance without input, and once it has a candidate its packet is not offered
  any more (hence `run.candidate` in `EventuallyQualified`). A plain Advance while
  a decision is pending dereferences missing evidence (assurance.go:67, `Died`). A
  repeated packetless rejection of an unchanged matrix is taken for a replay. A
  retried decision is an error (advance.go:96-98). Decisions after an inserted
  question are dropped (compiler.go:59-81).
* Watch. A changed result or state that is first seen after a transient error is
  emitted without ending the call (watch.go:275), which may then end as
  "timeout-no-change", against packy-issue-delivery.md ("stops at the next
  actionable pause"); an external change that persists does end it.

## Proofs

`IssueStoreProofs` proves, for all values of the constants:

* `TypeCorrect`, `StoreInvariant`: `IInv`, the inductive invariant. The safety
  properties are not inductive: they need that a flock is held exactly during the
  steps that require it (`Exclusion`), that files are immutable and named by what
  they hold (`Named`), and that a draft may follow the record its writer loaded
  (`Drafted`).
* `ActiveAlwaysReadable`, `ObserversSeeCurrent` and `NoLostUpdate` (no writer derives
  from a record another one has replaced) from `IInv`.
* `RegisterImplemented`: every step from a state of `IInv` is a step of
  `RunRegister` or leaves the active record alone.
* `SidecarInvariant`, `SidecarAlwaysResolved`, `SidecarOnlyMovesForward` from
  `SidecarInv`: operation identities are fresh, and between its first and its
  last store the holder of `operation.lock` finds in the sidecar what it stored.

They rest on `ConstantsAssumption` and `PlaceholderAssumption` of the module.

`CIReportsProofs` proves, for any set of required contexts, any commits and any
list of checks, `PolicySound` (success is `Green`), from lemmas that a context's
class is that of its only report. `SuccessAlwaysProved`, `FailuresAlwaysAttributed`
and `PendingAlwaysHope` state it, and the meaning of retry, repair and waiting, of
every state of `CIReports`. They are facts about every state, so no inductive
invariant is needed. They rest on `PolicyAssumption` and `ReportsAssumption`.

`EvidenceReuseProofs` proves, for any assessment, author and session over any
constants, `RetentionSound` about the decision as a function, and from it and the
conditions of `Eligible` `RetainedAlwaysSpeaksTrue`, `ReuseAlwaysRerun` and
`NewsNeverRestored`. The code applies each reason by a statement of its own, and a
reason that asks for every boundary replaces what was listed: the lemmas on
`FullSpecialists` and `FullBoundaryValidations` show that a replaced list has lost
nothing that could have been retained. They too are facts about every state.

`WatchProofs` proves `WatchInvariant`, that `IInv` of `Watch` is inductive, for
any number of invocations, crashes, changes and errors, and from it
`AvailabilityAlwaysHonest` and `ReportsAlwaysForward`. The properties need to know
that the sidecar is that of the latest operation and active until it is resolved
(`SidecarLatest`), whom Watch found at the lock and what became of it
(`ContenderKnown`, `Released`), and that everything reported lies behind the sidecar
(`ReportsBehind`), because Watch reads it long after it looked at the lock.

`NonLocalDeliveryProofs` proves every safety and action property of the module, for
any required contexts, numbers of candidates, positions of main, faults and edits.
`IInv` is a conjunction of seven parts, each needed by another:

* `Typed`, with the families of checks that may miss any context;
* `HubOrdered`: what GitHub shows is about candidates up to the recorded one and
  positions that main has reached, so a late appearance cannot be of the future;
* `DraftFollows`: until it is saved, the record in memory differs from the disk only
  in the checks it observed, and from `merge` on it passed the gate of the policy;
* `RecordsSound`: what `validateRun` asks of readiness, failure and merge;
* `MergeStands`: an adopted merge is of the recorded commit and stays so, and each
  step of the cleanup has what the one before it left;
* `CleanedInOrder`: what is gone locally tells what came before it;
* `RetriesCounted`: a check was run again as often as the journal knows, once
  more for each fault that lost an answer.

From it `OwnRecordsAccepted`, `CleanupsOrdered`, `AdoptionsProved`, `RetriesOnce`, and
the action properties `MergesProved`, `AdoptionsFinal` and `StrangersWorkKept`, by
going through the steps that write `disk`, `merging` or `branch`. `DeliveryImplemented`
is the refinement of `DeliveryPromise`. The mapping (`Promise`) reads what the disk
records, what GitHub shows and what is left locally; what an invocation has in memory
is hidden, so an observation is a stutter and each effect and each save is the step
it is seen as. `DraftFollows`, `MergeStands` and `CleanedInOrder` are what makes the
hidden memory agree with the promise at the moment of the effect. `GreenGate` takes
the meaning of a stored success from `PolicySound`. They rest on `PolicyAssumption`,
`DeliveryAssumption` and `PlaceholderAssumption`.

`ValidationSessionProofs` proves `Invariance` and from it `RecordAlwaysLoads`,
`ExecutionsBounded`, `OutcomesFinal` and `ProofsInForce`. The invariant says of each
proof from which session it stems (`ProofsOwned`), that only the last session can be
open and of what (`Journalled`, `InFlight`), and counts: a session that neither
serves the candidate nor is under way was answered by a disturbance (`Counted`).
That an execution leaves a session that serves is what makes the bound
inductive, and it needs that the surroundings stay during the invocation
(`Fits`). That readiness is given under a session in force needs that a refused
session takes the proofs derived from it along (`RefusedIsCleared`), so that
what is left when `Conclude` succeeds stems from the session it asked. It rests on `ValidationAssumption`.

`QualificationProofs` proves `Invariance`, `RecordAlwaysLoads`, `ApprovalsBacked`,
`DecisionsFollowIssue` and `NeverStalls`, for any issues and their edits, callers and
profiles, and for every answer a packet can still receive, however late. A record is in
one of five phases (`Pending`, `AsksForProse`, `AsksForAnswer`, `HasApproval`,
`HasAnswers`); reviews and corrections alternate (`Alternating`), shifted by one when
the compiler asked first, which is what the validation by position relies on.
`NeverStalls` needs only that a loop goes on once (`LoopSafe`): what it continues
after is not a deterministic pause. It rests on `QualificationAssumption`, which
asks for at least two turns of the loop (the code has 32, advance_command.go), and
`PlaceholderAssumption`.

`AssuranceProofs` proves `Invariance`, `FindingsDecided` and `ReadinessHolds`, for any
commits, boundaries, observable effects, reported findings and whatever `Moves` an
instance selects. `IInv` says that `loads` is what the validation of the record
answers, and of the record (`RunSafe`): an accepted Spec concern goes with a current
Spec review, exposure covers what was observed and declared, what is retained the
parent held, every candidate with a successor has no open finding, and a ready
run waits for nothing. Proving it showed that an earlier form of `ReadinessEarned`,
which bounded the exposure from below by the exposure of the current effects alone,
only held in the instance: once a sensitive boundary is exposed the profile no longer
names an effect that is not sensitive, nor, with a second boundary, the one that a
declared floor stands for. It now says what each source of exposure demands.
It rests on `AssuranceAssumption`.

`TypeCorrect` is the type invariant of `Assurance` for all of that. `RecordLoads` is
`RecordResumes`, that whatever was persisted loads again, for every history without
a `Losing` step: `Spec /\ [][~Losing]_vars => []RecordResumes`. Without the hypothesis it
does not hold, for each clause of `Losing` is one of the disagreements above, and
leaving out any of them TLC finds the violation; the theorem says that there are
no others. A finite instance cannot say that, because the six came from
different `Moves`. Its inductive invariant is `KInv`: the types and `RunSafe`, and
`Lasts(run)`, which is stronger than the validation it implies. Of each candidate
(`Lasting`): reviews are counted by the iteration they belong to (`Numbered`),
batches hold Standards and are of the current fresh axes, dispositions are of
findings the candidate has, nothing is reviewed while an assessment is pending, no
axis is both reviewed and retained, and an exhaustive candidate misses no review.
Of its place (`Placed`): what is derived has a parent, and the acceptance that an
exhaustive candidate lacks is the parent's. Of the record (`Agreed`): its pending
request, its readiness and its exposure are those of its latest candidate, and
commits and profiles are one to one. Each part is needed for another: that a
review numbers its iteration needs that none is beyond it, which an escalation
keeps because it counts the reviews; that readiness keeps its acceptance needs that
no review replaces what is retained.

`RoundsClose` is the same for `ReviewsClose`: no transition is refused because the
timings that earlier ones recorded do not fit the review iterations. It holds for every
history without a `Losing` or a `Crossing` step,
`Spec /\ [][~Losing /\ ~Crossing]_vars => []ReviewsClose`, and again TLC finds a
violation when a clause of `Crossing` is left out: a commit whose start was recorded
before it was observed, a timing between two answers of a round, an escalation of
such a round, a finding of one specialist while another is out, an answer for an axis
that is not missing. What is refused is a matter of counting: the n-th timing that ends a
review in a candidate must meet the n-th iteration of that candidate. The inductive
invariant `RInv` adds to `KInv` that the record is `Tidy`:

* there are as many starts as candidates, so the candidate that started last owns
  what ends now (`Starts`, `Ends`);
* batches pair with ended reviews by rank, only a round that is being answered lacks
  its batch, and there are as many ends as iterations, or one more for an attempt
  that has no answer yet (`Round`);
* nothing is open behind complete reviews that was not asked (`Asked`);
* the last timing of a round that is being answered is the one that ended it (`Paced`),
  which is what a step between two answers destroys.

The lemmas it rests on are about ranks (`Ranking`, `RankGreater`, `RankBeyond`), about the
trail when a timing is appended (`EndsAppended`) and about an iteration that
receives its last answer (`AnsweredRound`).

Model-checked only:

* liveness under fairness, which is out of the provers' reach (`InvocationEnds`,
  `Delivered`, `ReachesReadiness`, `EventuallyReady`, `EventuallyQualified`,
  `ChangeEndsWatch`);
* the two disagreements that have a run.

## Not modelled

`PROJECT.json` lists each component that is not modelled or partly modelled with
its reason: the encoding of records and their legacy forms (only what loading
validates is modelled, in the modules of the handlers), the publication of
operator files (one rename or exchange each, whose atomicity is the file
system's), the field rules of evidence bundles, the legacy v1 commands, scripts
and workflows. Inside the modelled components the parsing of issues and
options, the risk floor of single files, the contents of reviews and packets,
and the wording of reports are left out.

## Plan

1. An abstract assurance (observed, reviewed, decided, ready) that `Assurance`
   implements, for the steps that are not `Losing`.
2. The effects of the adapters (`advance_remote.go`) as modules of their own, below
   the gateway of `NonLocalDelivery`.
