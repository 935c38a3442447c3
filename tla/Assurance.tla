------------------------------ MODULE Assurance ------------------------------
(***************************************************************************)
(* Candidate assurance (internal/issuedelivery/assurance.go): how one      *)
(* approved run takes a commit from its first observation to exact local   *)
(* readiness, through reviews, specialists, adjudications, repairs,        *)
(* escalations and retained evidence.  Each action is one Advance, decided *)
(* from the persisted run alone; between two of them the operator, the     *)
(* reviewers and the checkout move.                                        *)
(*                                                                         *)
(* An Advance ends in persistAssuranceTransition, which projects the       *)
(* canonical receipts first (assurance_projection.go) and persists nothing *)
(* when the projection fails; the next Advance begins with the validation  *)
(* of what it loads (record.go) and does nothing when that fails.  Both    *)
(* are modelled, so a run can get stuck here wherever it can in the code.  *)
(*                                                                         *)
(* A review holds at most one finding, named by its axis and iteration, or *)
(* by its boundary.  Times are left out: a timing is its position in the   *)
(* trail and its phase.  Validation sessions are in ValidationSession, the *)
(* decision of an impact assessment in EvidenceDerivation.                 *)
(***************************************************************************)
EXTENDS Naturals, Sequences, FiniteSets

CONSTANTS
    Commits, Base,
    Boundaries,       \* sensitive boundaries; an effect names the one it touches
    Governance,       \* the boundary that a declared high risk stands for
    DeclaredHigh,     \* the operator's declared profile floor is high
    Observable,       \* sets of effects that the risk observer can report
    Moves,            \* what happens in this instance beside plain Advance calls
    MaxTrail,         \* timings of a start or of a review that anyone reads
    MaxFindings,      \* findings that the reviewers of one run report
    MaxMoves          \* changes of the checkout and of what is observed

ASSUME AssuranceAssumption ==
    /\ Governance \in Boundaries /\ DeclaredHigh \in BOOLEAN
    /\ Base \notin Commits /\ MaxTrail \in Nat /\ MaxFindings \in Nat /\ MaxMoves \in Nat
    /\ Observable \subseteq SUBSET (Boundaries \cup {"behavior"})

VARIABLES
    run,              \* the persisted record
    loads,            \* Decodable(run), kept beside it so that TLC evaluates it once
    head, onBranch, clean,  \* the checkout
    effects,          \* what the risk observer reports of each commit
    refused,          \* why the last transition could not be recorded
    moved

vars == <<run, loads, head, onBranch, clean, effects, refused, moved>>

ReviewAxes == {"standards", "spec"}
Effects == Boundaries \cup {"behavior"}

-----------------------------------------------------------------------------
(* Risk: the profile is high when a boundary is exposed, standard when only *)
(* behaviour is, so the exposed set is profile and boundaries in one.       *)

Exposed(set) ==
    CASE set \cap Boundaries # {} -> set \cap Boundaries
      [] set \cap Boundaries = {} /\ DeclaredHigh -> {Governance}
      [] OTHER -> set

\* A candidate of a run, and the record itself.
NoDerivation == [status |-> "none", fresh |-> ReviewAxes, specialists |-> {}, of |-> <<>>]

Review == [axis: ReviewAxes, iteration: Nat, finding: BOOLEAN]
SpecialistReview == [boundary: Boundaries, finding: BOOLEAN]
FindingIds == (ReviewAxes \X Nat) \cup (Boundaries \X {0})

Candidate ==
    [commit: Commits, class: {"none", "bounded", "candidate-changing"},
     decision: {"none", "adjudication-only", "bounded", "candidate-changing"},
     effects: SUBSET Effects, exposure: SUBSET Effects, specialists: SUBSET Boundaries,
     iteration: Nat, reviews: SUBSET Review, specialistReviews: SUBSET SpecialistReview,
     accepted: SUBSET FindingIds, rejected: SUBSET FindingIds,
     batches: SUBSET [iteration: Nat, axes: SUBSET ReviewAxes, closing: Nat],
     acceptance: Nat, derivation: {NoDerivation} \cup
        [status: {"pending", "confirmed", "unconfirmed", "fallback"},
         fresh: SUBSET ReviewAxes, specialists: SUBSET Boundaries,
         of: Nat \X SUBSET Effects],
     proofs: SUBSET Boundaries, exhaustive: BOOLEAN]

Latest(r) == r.cands[Len(r.cands)]
Parent(r) == r.cands[Len(r.cands) - 1]
Replace(r, candidate) == [r EXCEPT !.cands[Len(r.cands)] = candidate]

-----------------------------------------------------------------------------
(* What a candidate still lacks. *)

FreshAxes(c) == IF c.derivation.status \in {"none", "fallback"} THEN ReviewAxes ELSE c.derivation.fresh

RetainedAxes(c) == IF c.derivation.status = "confirmed" THEN ReviewAxes \ c.derivation.fresh ELSE {}
RetainedSpecialists(c) == IF c.derivation.status = "confirmed" THEN c.derivation.specialists ELSE {}

CurrentAxes(c) == {review.axis : review \in {r \in c.reviews : r.iteration = c.iteration}}

missingReviewAxes(c) == ReviewAxes \ (RetainedAxes(c) \cup CurrentAxes(c))

missingSpecialistBoundaries(c) ==
    c.specialists \ (RetainedSpecialists(c) \cup {r.boundary : r \in c.specialistReviews})

missingBoundaryProofs(c) == (c.exposure \cap Boundaries) \ c.proofs

Findings(c) ==
    {<<r.axis, r.iteration>> : r \in {s \in c.reviews : s.finding}}
        \cup {<<r.boundary, 0>> : r \in {s \in c.specialistReviews : s.finding}}

Unresolved(c) == Findings(c) \ (c.accepted \cup c.rejected)

acceptedSpecialistBoundaries(c) ==
    {b \in Boundaries : <<b, 0>> \in c.accepted /\ <<b, 0>> \in Findings(c)}

-----------------------------------------------------------------------------
(* Projection of the canonical receipts. *)

\* A candidate owns the timings from its own start on, or from its successor's as
\* long as there is no successor.
Owner(r, p) ==
    LET starts == Cardinality({q \in 1..p : r.trail[q] = "start"})
    IN  IF starts < Len(r.cands) THEN starts ELSE Len(r.cands)

\* The last timing of each maximal run of review timings.
Closings(r, i) ==
    {p \in DOMAIN r.trail :
        /\ r.trail[p] = "review" /\ Owner(r, p) = i
        /\ p < Len(r.trail) => r.trail[p + 1] # "review"}

Rank(set, x) == Cardinality({y \in set : y <= x})

Iterations(c) == {review.iteration : review \in c.reviews}

\* The k-th iteration with reviews goes with the k-th closing.
ClosingOf(r, i, n) ==
    {p \in Closings(r, i) : Rank(Closings(r, i), p) = Rank(Iterations(r.cands[i]), n)}

BatchOf(c, n) == {b \in c.batches : b.iteration = n}

FullBatch(c, n) ==
    LET axes == IF BatchOf(c, n) = {} THEN FreshAxes(c) ELSE UNION {b.axes : b \in BatchOf(c, n)}
    IN  axes \subseteq {review.axis : review \in {r \in c.reviews : r.iteration = n}}

CandidateProjectable(r, i) ==
    LET c == r.cands[i]
        closings == Cardinality(Closings(r, i))
        iterations == Cardinality(Iterations(c))
    IN  /\ \A n \in Iterations(c) :
            /\ BatchOf(c, n) = {} \/ ~FullBatch(c, n) => n = c.iteration
            /\ FullBatch(c, n) =>
                  /\ ClosingOf(r, i, n) # {}
                  /\ \A b \in BatchOf(c, n) : b.closing \in ClosingOf(r, i, n)
        /\ \/ closings = iterations
           \/ closings = iterations + 1 /\ c.iteration \notin Iterations(c)

\* The phase receipts recorded so far name the owner of each timing.
PhasesKept(r) == \A p \in DOMAIN run.trail : Owner(run, p) = Owner(r, p)

Timed(r) == PhasesKept(r) /\ \A i \in DOMAIN r.cands : CandidateProjectable(r, i)

\* The acceptance proofs of a Spec review name the receipt of its batch.
Referenced(r) ==
    \A i \in DOMAIN r.cands :
        LET c == r.cands[i] IN \A v \in c.reviews : v.axis = "spec" => FullBatch(c, v.iteration)

\* A candidate with a batch for each iteration whose reviews are in.
Batched(r, i) ==
    LET c == r.cands[i]
        full == {n \in Iterations(c) : BatchOf(c, n) = {} /\ FullBatch(c, n)}
    IN  [c EXCEPT !.batches = @ \cup
            {[iteration |-> n, axes |-> FreshAxes(c), closing |-> CHOOSE p \in ClosingOf(r, i, n) : TRUE] :
                n \in full}]

Projected(r) == [r EXCEPT !.cands = [i \in DOMAIN r.cands |-> Batched(r, i)]]

\* A timing that neither starts a candidate nor closes a review run changes nothing
\* that anyone reads.
Recorded(r) == {b.closing : b \in UNION {r.cands[i].batches : i \in DOMAIN r.cands}}

Stamp(r, phase) ==
    LET t == r.trail  n == Len(r.trail)
        reviewed == n > 0 /\ t[n] = "review"
    IN  CASE phase = "other" /\ ~reviewed -> r
          [] phase = "review" /\ reviewed /\ n \notin Recorded(r) -> r
          [] OTHER -> [r EXCEPT !.trail = Append(t, phase)]

-----------------------------------------------------------------------------
(* Validation of a loaded record. *)

DerivationCurrent(r, i) ==
    LET d == r.cands[i].derivation IN
    d.status # "none" => i > 1 /\ d.of = <<r.cands[i].iteration, r.cands[i].exposure>>

BatchesCurrent(c) ==
    \A b \in c.batches :
        /\ b.iteration = c.iteration => b.axes = FreshAxes(c)
        /\ \A a \in b.axes : \E r \in c.reviews : r.iteration = b.iteration /\ r.axis = a

DecisionsComplete(r, i) ==
    LET c == r.cands[i] IN
    /\ c.accepted \cup c.rejected \subseteq Findings(c)
    /\ c.decision # "none" /\ ~(i = Len(r.cands) /\ r.pending # {}) => Unresolved(c) = {}

\* The own semantic acceptance of a candidate, or else its parent's where the Spec
\* review is retained.
SemanticAcceptance(r, i) ==
    LET c == r.cands[i] IN
    \/ c.acceptance # 0
    \/ "spec" \in RetainedAxes(c) /\ r.cands[i - 1].acceptance # 0

ExhaustiveCurrent(r, i) ==
    LET c == r.cands[i] IN
    c.exhaustive =>
        /\ missingReviewAxes(c) = {} /\ CurrentAxes(c) \cap RetainedAxes(c) = {}
        /\ SemanticAcceptance(r, i)

CandidatesDistinct(r) ==
    \A i, j \in DOMAIN r.cands : r.cands[i].commit = r.cands[j].commit => i = j

\* An iteration is numbered by the first review it holds.
IterationsNumbered(c) ==
    \A v \in c.reviews : v.iteration = 1 + Cardinality({w \in c.reviews : w.iteration < v.iteration})

\* What the record says of the run as a whole agrees with its latest candidate.
CurrentAgrees(r) ==
    /\ r.pending # {} => r.pending = Unresolved(Latest(r))
    /\ r.ready =>
          /\ Latest(r).exhaustive /\ SemanticAcceptance(r, Len(r.cands))
          /\ missingSpecialistBoundaries(Latest(r)) = {} /\ missingBoundaryProofs(Latest(r)) = {}

ProfilesAgree(r) ==
    /\ r.profiled \subseteq {r.cands[i].commit : i \in DOMAIN r.cands}
    /\ r.exposure = Latest(r).exposure

Decodable(r) ==
    /\ CandidatesDistinct(r)
    /\ \A i \in DOMAIN r.cands :
        /\ DerivationCurrent(r, i) /\ BatchesCurrent(r.cands[i]) /\ DecisionsComplete(r, i)
        /\ ExhaustiveCurrent(r, i) /\ IterationsNumbered(r.cands[i])
    /\ r.cands # <<>> => CurrentAgrees(r) /\ ProfilesAgree(r)

Reported(r) == UNION {Findings(r.cands[i]) \X {i} : i \in DOMAIN r.cands}

\* persistAssuranceTransition
Persist(draft, phase) ==
    LET r == Stamp(draft, phase) IN
    /\ Len(SelectSeq(r.trail, LAMBDA t : t # "other")) <= MaxTrail
    /\ Cardinality(Reported(r)) <= MaxFindings
    /\ refused' = IF ~Timed(r) THEN "timing" ELSE IF ~Referenced(r) THEN "reference" ELSE "none"
    /\ run' = IF refused' = "none" THEN Projected(r) ELSE run
    /\ loads' = Decodable(run')

-----------------------------------------------------------------------------
Init ==
    /\ run = [cands |-> <<>>, trail |-> <<>>, pending |-> {}, ready |-> FALSE,
              failed |-> FALSE, exposure |-> {}, profiled |-> {}]
    /\ head = Base /\ onBranch = TRUE /\ clean = TRUE
    /\ effects \in [Commits -> Observable]
    /\ loads = TRUE /\ refused = "none" /\ moved = 0

Surroundings == <<head, onBranch, clean, effects, moved>>

Candidates == {run.cands[i].commit : i \in DOMAIN run.cands}

\* The record loads and nothing waits for a decision; the checkout is the delivery
\* branch.  (assurance.go:38-90)
Free == loads /\ run.pending = {} /\ (run.cands # <<>> \/ head # Base)

\* observeCandidateRisk: what one more observation leaves in the candidate and in
\* the record.  A candidate of a bounded repair starts with the specialists whose
\* finding it repairs; every later observation asks for all of them.
Profiled(r, c, previous) ==
    LET exposure == Exposed(r.exposure \cup effects[c.commit])
        shaped == /\ previous # <<>> /\ exposure = previous[1].exposure
                  /\ effects[c.commit] \subseteq previous[1].effects
        class == IF c.class = "bounded" /\ previous # <<>> /\ ~shaped
                 THEN "candidate-changing" ELSE c.class
    IN  [c EXCEPT !.class = class, !.effects = effects[c.commit], !.exposure = exposure,
            !.specialists = IF class = "bounded" /\ previous # <<>>
                            THEN acceptedSpecialistBoundaries(previous[1])
                            ELSE exposure \cap Boundaries]

Reobserved == Profiled(run, Latest(run), <<>>)

\* The observation confirms the recorded exposure, so the handler goes on with the
\* candidate as observed.  (assurance.go:157-173)
Steady ==
    /\ Free /\ onBranch /\ run.cands # <<>> /\ Latest(run).commit = head
    /\ ~run.failed /\ Reobserved.exposure = run.exposure

\* A Steady candidate whose impact evidence is settled.
Settled == Steady /\ Latest(run).derivation.status # "pending"

-----------------------------------------------------------------------------
(* Advance, in the order of advanceAssurance. *)

\* Variant: the request stays.
AskingApplyRepair(accepted, class) ==
    /\ loads /\ run.pending # {} /\ Latest(run).commit = head
    /\ accepted \subseteq run.pending
    /\ class = "adjudication-only" <=> accepted = {}
    /\ Persist(Replace(run, [Latest(run) EXCEPT !.accepted = accepted, !.decision = class,
                   !.rejected = run.pending \ accepted]), "other")
    /\ UNCHANGED Surroundings

strongestRepairClass(left, right) ==
    CASE "candidate-changing" \in {left, right} -> "candidate-changing"
      [] "bounded" \in {left, right} -> "bounded"
      [] OTHER -> right

\* applyRepairDecision: every finding of the request, as one batch.
ApplyRepair(accepted, class) ==
    /\ loads /\ run.pending # {} /\ Latest(run).commit = head
    /\ accepted \subseteq run.pending
    /\ class = "adjudication-only" <=> accepted = {}
    /\ LET c == Latest(run)
           merged == [c EXCEPT !.accepted = @ \cup accepted,
                        !.rejected = @ \cup (run.pending \ accepted),
                        !.decision = strongestRepairClass(c.decision, class)]
       IN  Persist([Replace(run, merged) EXCEPT !.pending = {}], "other")
    /\ UNCHANGED Surroundings

RequireBranch ==
    /\ Free /\ ~onBranch
    /\ Persist(run, "other")
    /\ UNCHANGED Surroundings

Blank(class) ==
    [commit |-> head, class |-> class, decision |-> "none", effects |-> {}, exposure |-> {},
     specialists |-> {}, iteration |-> 1, reviews |-> {}, specialistReviews |-> {},
     accepted |-> {}, rejected |-> {}, batches |-> {}, acceptance |-> 0,
     derivation |-> NoDerivation, proofs |-> {}, exhaustive |-> FALSE]

newCandidate(previous) ==
    Blank(IF previous = <<>> THEN "none"
          ELSE IF previous[1].accepted # {} THEN previous[1].decision ELSE "candidate-changing")

\* Variant: an open finding does not hold the candidate.
UnaskedNewCandidate(outcome) ==
    /\ Free /\ onBranch /\ head # Base /\ outcome = "focused"
    /\ run.cands # <<>> => Latest(run).commit # head
    /\ LET previous == IF run.cands = <<>> THEN <<>> ELSE <<Latest(run)>>
           c == Profiled(run, newCandidate(previous), previous)
       IN  Persist([Stamp(run, "start") EXCEPT !.cands = Append(@, c), !.ready = FALSE,
                      !.failed = FALSE, !.exposure = c.exposure, !.profiled = @ \cup {head}], "other")
    /\ UNCHANGED Surroundings

\* A new commit is observed, validated in the sandbox and becomes the candidate.  When
\* the observation fails, or the sandbox after it, the start is recorded all the same.
NewCandidate(outcome) ==
    /\ Free /\ onBranch /\ head # Base
    /\ run.cands # <<>> =>
          /\ Latest(run).commit # head
          /\ Latest(run).accepted # {} \/ Unresolved(Latest(run)) = {}
    /\ LET previous == IF run.cands = <<>> THEN <<>> ELSE <<Latest(run)>>
           c == Profiled(run, newCandidate(previous), previous)
           started == Stamp(run, "start")
           observed == [started EXCEPT !.exposure = c.exposure, !.profiled = @ \cup {head}]
       IN  CASE outcome = "unobserved" -> Persist(started, "other")
             [] outcome = "unsandboxed" -> Persist(observed, "other")
             [] outcome = "focused" ->
                  Persist([observed EXCEPT !.cands = Append(@, c), !.ready = FALSE, !.failed = FALSE],
                          "other")
    /\ UNCHANGED Surroundings

ObserveRiskFails ==
    /\ Free /\ onBranch /\ run.cands # <<>> /\ Latest(run).commit = head /\ ~run.failed
    /\ Persist(run, "other")
    /\ UNCHANGED Surroundings

\* invalidateForProfileEscalation
Escalate ==
    /\ Free /\ onBranch /\ run.cands # <<>> /\ Latest(run).commit = head /\ ~run.failed
    /\ Reobserved.exposure # run.exposure
    /\ LET c == [Reobserved EXCEPT !.iteration = Cardinality(Reobserved.reviews) + 1,
                    !.acceptance = 0, !.exhaustive = FALSE]
       IN  Persist([Replace(run, c) EXCEPT !.exposure = c.exposure, !.ready = FALSE,
                      !.profiled = @ \cup {head}], "other")
    /\ UNCHANGED Surroundings

-----------------------------------------------------------------------------
(* Impact evidence (internal/issuedelivery/evidence_derivation.go). *)

\* The author's assessment leads to a decision: Standards is always reviewed again,
\* Spec unless it is retained.
AdmitImpactAssessment(fresh, specialists) ==
    /\ Steady /\ Len(run.cands) > 1 /\ Latest(run).derivation.status = "none"
    /\ LET pending == fresh # ReviewAxes \/ specialists # {}
           derivation == [status |-> IF pending THEN "pending" ELSE "unconfirmed",
                          fresh |-> fresh, specialists |-> specialists,
                          of |-> <<Reobserved.iteration, Reobserved.exposure>>]
       IN  Persist(Replace(run, [Reobserved EXCEPT !.derivation = derivation]), "other")
    /\ UNCHANGED Surroundings

\* persistImpactFallback before an assessment was admitted: stale, invalid or unauthorized.
RefuseImpactAssessment ==
    /\ Steady /\ Latest(run).derivation.status = "none"
    /\ Persist(Replace(run, Reobserved), "other")
    /\ UNCHANGED Surroundings

\* Variant: the parent need not hold what is retained.
TrustingAdmitImpactConfirmation(accepted) ==
    /\ Steady /\ Latest(run).derivation.status = "pending" /\ accepted
    /\ Persist(Replace(run, [Reobserved EXCEPT !.derivation.status = "confirmed"]), "other")
    /\ UNCHANGED Surroundings

\* reviewDerivationReceipts: what is retained has a canonical receipt of the parent.
\* Without one, the confirmation is an error and nothing changes.
ParentHolds(d) ==
    /\ ReviewAxes \ d.fresh \subseteq
          {v.axis : v \in {w \in Parent(run).reviews : BatchOf(Parent(run), w.iteration) # {}}}
    /\ d.specialists \subseteq {v.boundary : v \in Parent(run).specialistReviews}

AdmitImpactConfirmation(accepted) ==
    /\ Steady /\ Latest(run).derivation.status = "pending"
    /\ accepted => ParentHolds(Latest(run).derivation)
    /\ Persist(Replace(run, [Reobserved EXCEPT !.derivation.status =
                              IF accepted THEN "confirmed" ELSE "fallback"]), "other")
    /\ UNCHANGED Surroundings

-----------------------------------------------------------------------------
(* Reviews. *)

WithReviews(c, axes, findings) ==
    [c EXCEPT !.reviews = @ \cup {[axis |-> a, iteration |-> c.iteration, finding |-> a \in findings] : a \in axes},
              !.acceptance = IF "spec" \in axes THEN c.iteration ELSE @]

WithSpecialists(c, bs, findings) ==
    [c EXCEPT !.specialistReviews = @ \cup {[boundary |-> b, finding |-> b \in findings] : b \in bs}]

\* The draft asks for one decision about what is unresolved.
Asking(c) == [Replace(run, c) EXCEPT !.pending = Unresolved(c)]

\* Reviewers answer packets, in any order and however many at once.  A packet covers
\* the acceptance rows, so none drawn before the exhaustive validation fits after it.
\* reconcileCandidatePacketResponses
SupplyReviews(axes, findings) ==
    /\ Settled /\ ~Latest(run).exhaustive
    /\ axes # {} /\ axes \cap CurrentAxes(Reobserved) = {} /\ findings \subseteq axes
    /\ LET c == WithReviews(Reobserved, axes, findings) IN
       Persist(IF missingReviewAxes(c) = {} THEN Asking(c) ELSE Replace(run, c), "review")
    /\ UNCHANGED Surroundings

\* reconcileSpecialistPacketResponses
SupplySpecialists(bs, findings) ==
    /\ Settled /\ ~Latest(run).exhaustive
    /\ missingReviewAxes(Reobserved) = {} /\ Unresolved(Reobserved) = {}
    /\ bs # {} /\ bs \subseteq Reobserved.specialists /\ findings \subseteq bs
    /\ bs \cap {v.boundary : v \in Reobserved.specialistReviews} = {}
    /\ LET c == WithSpecialists(Reobserved, bs, findings) IN
       Persist(IF missingSpecialistBoundaries(c) = {} THEN Asking(c) ELSE Replace(run, c), "other")
    /\ UNCHANGED Surroundings

\* An Advance without packet responses, local readiness not proved.
Plain == Settled /\ ~run.ready

\* executeReviews: the missing axes in parallel, of which some complete.
ExecuteReviews(axes, findings) ==
    /\ Plain /\ missingReviewAxes(Reobserved) # {}
    /\ axes \subseteq missingReviewAxes(Reobserved) /\ findings \subseteq axes
    /\ LET c == WithReviews(Reobserved, axes, findings) IN
       Persist(IF missingReviewAxes(c) = {} THEN Asking(c) ELSE Replace(run, c), "review")
    /\ UNCHANGED Surroundings

RequestRepair ==
    /\ Plain /\ missingReviewAxes(Reobserved) = {} /\ Unresolved(Reobserved) # {}
    /\ Persist(Asking(Reobserved), "review")
    /\ UNCHANGED Surroundings

\* executeSpecialistReviews; an executor that fails blocks like one that answers none.
ExecuteSpecialists(bs, findings) ==
    /\ Plain /\ missingReviewAxes(Reobserved) = {} /\ Unresolved(Reobserved) = {}
    /\ missingSpecialistBoundaries(Reobserved) # {}
    /\ bs \subseteq missingSpecialistBoundaries(Reobserved) /\ findings \subseteq bs
    /\ LET c == WithSpecialists(Reobserved, bs, findings) IN
       Persist(IF missingSpecialistBoundaries(c) = {} THEN Asking(c) ELSE Replace(run, c), "other")
    /\ UNCHANGED Surroundings

-----------------------------------------------------------------------------
(* Validation and readiness. *)

\* Variant: an accepted finding need not be repaired.
UnrepairedReviewed ==
    /\ Plain /\ missingReviewAxes(Reobserved) = {} /\ Unresolved(Reobserved) = {}
    /\ missingSpecialistBoundaries(Reobserved) = {}

\* Every review is in and no accepted finding waits for its repair.
Reviewed ==
    /\ Plain /\ missingReviewAxes(Reobserved) = {} /\ Unresolved(Reobserved) = {}
    /\ missingSpecialistBoundaries(Reobserved) = {} /\ Latest(run).accepted = {}

RequireCleanWorkspace ==
    /\ Reviewed /\ ~Latest(run).exhaustive /\ ~clean
    /\ Persist(Replace(run, Reobserved), "other")
    /\ UNCHANGED Surroundings

\* Variant: the step is timed as a review.
ReviewingProveBoundaries(valid) ==
    /\ Reviewed /\ (Latest(run).exhaustive \/ clean)
    /\ missingBoundaryProofs(Reobserved) # {}
    /\ Persist(Replace(run, IF valid THEN [Reobserved EXCEPT !.proofs = @ \cup missingBoundaryProofs(Reobserved)]
                            ELSE Reobserved), "review")
    /\ UNCHANGED Surroundings

\* executeBoundaryProofs
ProveBoundaries(valid) ==
    /\ Reviewed /\ (Latest(run).exhaustive \/ clean)
    /\ missingBoundaryProofs(Reobserved) # {}
    /\ Persist(Replace(run, IF valid THEN [Reobserved EXCEPT !.proofs = @ \cup missingBoundaryProofs(Reobserved)]
                            ELSE Reobserved), "other")
    /\ UNCHANGED Surroundings

\* Variant: only an execution concludes.
ExecutingConclude(valid, unchanged) ==
    /\ Reviewed /\ ~Latest(run).exhaustive /\ clean
    /\ missingBoundaryProofs(Reobserved) = {}
    /\ LET draft == Replace(run, [Reobserved EXCEPT !.exhaustive = TRUE])
           proved == valid /\ SemanticAcceptance(draft, Len(run.cands))
       IN  Persist(IF proved THEN [draft EXCEPT !.ready = unchanged /\ clean]
                             ELSE Replace(run, Reobserved), "other")
    /\ UNCHANGED Surroundings

\* The exhaustive validation, unless it is recorded, and then the last look at the
\* authority and the checkout.
Conclude(valid, unchanged) ==
    /\ Reviewed /\ (Latest(run).exhaustive \/ clean)
    /\ missingBoundaryProofs(Reobserved) = {}
    /\ LET draft == Replace(run, [Reobserved EXCEPT !.exhaustive = TRUE])
           proved == \/ Latest(run).exhaustive
                     \/ valid /\ SemanticAcceptance(draft, Len(run.cands))
       IN  Persist(IF proved THEN [draft EXCEPT !.ready = unchanged /\ clean]
                             ELSE Replace(run, Reobserved), "other")
    /\ UNCHANGED Surroundings

\* The run is ready, and the workspace no longer is.
ReadinessLost ==
    /\ Settled /\ run.ready /\ ~clean
    /\ Persist(Replace(run, Reobserved), "other")
    /\ UNCHANGED Surroundings

-----------------------------------------------------------------------------
(* The surroundings. *)

UNCHANGEDRun == UNCHANGED <<run, loads, refused>>

Moved == moved < MaxMoves /\ moved' = moved + 1

\* The operator commits; a repair is a new commit, unless history is revisited.
Develop(c) ==
    /\ c # head /\ (c \in Candidates => "revisit" \in Moves)
    /\ head' = c /\ clean' = TRUE
    /\ UNCHANGED <<onBranch, effects, moved>> /\ UNCHANGEDRun

SwitchBranch ==
    /\ "branch" \in Moves /\ Moved /\ onBranch' = ~onBranch
    /\ UNCHANGED <<head, clean, effects>> /\ UNCHANGEDRun

TouchWorkspace ==
    /\ "workspace" \in Moves /\ Moved /\ clean' = ~clean
    /\ UNCHANGED <<head, onBranch, effects>> /\ UNCHANGEDRun

\* The observer reports something else of the same commit.
Reclassify(set) ==
    /\ "reclassify" \in Moves /\ Moved /\ head # Base /\ set # effects[head]
    /\ effects' = [effects EXCEPT ![head] = set]
    /\ UNCHANGED <<head, onBranch, clean>> /\ UNCHANGEDRun

\* Non-local delivery finds CI red because of the change (nonlocal.go:568-583).
CandidateFailsCI ==
    /\ "ci" \in Moves /\ Settled /\ run.ready /\ clean
    /\ Persist([Replace(run, [Reobserved EXCEPT !.exhaustive = FALSE])
                   EXCEPT !.ready = FALSE, !.failed = TRUE], "other")
    /\ UNCHANGED Surroundings

PlainAdvance ==
    \/ RequireBranch \/ NewCandidate("focused") \/ Escalate
    \/ \E axes \in SUBSET ReviewAxes : \E findings \in SUBSET axes : ExecuteReviews(axes, findings)
    \/ RequestRepair
    \/ \E bs \in SUBSET Boundaries : \E findings \in SUBSET bs : ExecuteSpecialists(bs, findings)
    \/ RequireCleanWorkspace \/ ReadinessLost \/ ProveBoundaries(TRUE) \/ Conclude(TRUE, TRUE)

\* Steps that fail, and what the requests of this instance carry.
OtherAdvance ==
    \/ \E accepted \in SUBSET run.pending, class \in {"adjudication-only", "bounded", "candidate-changing"} :
          ApplyRepair(accepted, class)
    \/ "risk" \in Moves /\ (NewCandidate("unobserved") \/ NewCandidate("unsandboxed") \/ ObserveRiskFails)
    \/ "validation" \in Moves /\ (ProveBoundaries(FALSE) \/ Conclude(FALSE, TRUE) \/ Conclude(TRUE, FALSE))
    \/ /\ "packets" \in Moves
       /\ \/ \E axes \in SUBSET ReviewAxes : \E findings \in SUBSET axes : SupplyReviews(axes, findings)
          \/ \E bs \in SUBSET Boundaries : \E findings \in SUBSET bs : SupplySpecialists(bs, findings)
    \/ /\ "impact" \in Moves
       /\ \/ \E fresh \in {{"standards"}, ReviewAxes}, specialists \in SUBSET (run.exposure \cap Boundaries) :
                AdmitImpactAssessment(fresh, specialists)
          \/ RefuseImpactAssessment
          \/ \E accepted \in BOOLEAN : AdmitImpactConfirmation(accepted)

Environment ==
    \/ \E c \in Commits : Develop(c)
    \/ SwitchBranch \/ TouchWorkspace \/ CandidateFailsCI
    \/ \E set \in Observable : Reclassify(set)

Next == PlainAdvance \/ OtherAdvance \/ Environment

Spec == Init /\ [][Next]_vars

-----------------------------------------------------------------------------
(* Properties *)

TypeOK ==
    /\ run \in [cands: Seq(Candidate), trail: Seq({"start", "review", "other"}),
                pending: SUBSET FindingIds, ready: BOOLEAN, failed: BOOLEAN,
                exposure: SUBSET Effects, profiled: SUBSET Commits]
    /\ head \in Commits \cup {Base} /\ onBranch \in BOOLEAN /\ clean \in BOOLEAN
    /\ loads \in BOOLEAN
    /\ effects \in [Commits -> SUBSET Effects] /\ refused \in {"none", "timing", "reference"}
    /\ moved \in 0..MaxMoves

\* A review of candidate i that still stands: of its current iteration.
Standing(i, a) == \E r \in run.cands[i].reviews : r.axis = a /\ r.iteration = run.cands[i].iteration

\* A record that loads and is ready for delivery has, for the candidate as it was last
\* observed, every assurance its exposure asks for, its own or retained from a parent
\* that had it and kept it; the exposure covers what was observed and declared; no finding
\* is open and none that was accepted is unrepaired.
ReadinessEarned ==
    run.ready /\ loads =>
        LET n == Len(run.cands)  c == Latest(run) IN
        /\ \A a \in ReviewAxes : Standing(n, a) \/ (a \in RetainedAxes(c) /\ Standing(n - 1, a))
        /\ \A b \in run.exposure \cap Boundaries :
              /\ b \in c.proofs
              /\ \/ \E r \in c.specialistReviews : r.boundary = b
                 \/ b \in RetainedSpecialists(c) /\ \E r \in Parent(run).specialistReviews : r.boundary = b
        /\ c.effects \cap Boundaries \subseteq run.exposure
        /\ c.effects # {} => run.exposure # {}
        /\ DeclaredHigh => run.exposure \cap Boundaries # {}
        /\ c.exhaustive /\ ~run.failed /\ run.pending = {}
        /\ Findings(c) = c.rejected

\* No finding is lost under a repair: when a candidate has a successor, each of its
\* findings was accepted or rejected, and never both.
FindingsAnswered ==
    /\ \A i \in DOMAIN run.cands : run.cands[i].accepted \cap run.cands[i].rejected = {}
    /\ \A i \in DOMAIN run.cands : i < Len(run.cands) => Unresolved(run.cands[i]) = {}

\* The steps after which a record may not load again, by what the validation of a loaded
\* record counts and compares (record.go): a start that is observed and becomes no candidate;
\* a commit that was a candidate and becomes one again; and, with the candidate in place, an
\* assessment after a fresh review; a fresh review of an axis that is retained, from a packet
\* drawn before the assessment; an escalation of what is derived; and a finding of an
\* unfinished round after a decision.
Losing ==
    \/ NewCandidate("unsandboxed")
    \/ head \in Candidates /\ NewCandidate("focused")
    \/ /\ run.cands # <<>> /\ Len(run'.cands) = Len(run.cands)
       /\ LET c == Latest(run)  d == Latest(run') IN
          \/ c.derivation.status = "none" /\ d.derivation.status # "none" /\ CurrentAxes(c) # {}
          \/ CurrentAxes(d) \cap RetainedAxes(c) # {}
          \/ c.derivation.status # "none" /\ d.exposure # c.exposure
          \/ d.decision # "none" /\ Findings(d) # Findings(c) /\ run'.pending = {}

\* What was persisted keeps its types and can be loaded again.
RecordResumes == TypeOK /\ loads

\* The last timing is of a review round that is not closed.
Halfway ==
    /\ run.trail # <<>> /\ run.trail[Len(run.trail)] = "review"
    /\ Len(run.trail) \notin Recorded(run)

\* The steps after which the timings may not fit the review rounds any more, or at which they
\* do not: a start that becomes no candidate; with a round halfway, an escalation or any other
\* timing of the same candidate; specialists of whom some are still out and one has a finding;
\* and an answer to a review that is not missing any more.
Crossing ==
    \/ NewCandidate("unobserved")
    \/ Halfway /\ (Escalate \/ (run'.trail # run.trail /\ Len(run'.cands) = Len(run.cands)))
    \/ /\ \E bs \in SUBSET Boundaries : \E findings \in SUBSET bs :
             ExecuteSpecialists(bs, findings) \/ SupplySpecialists(bs, findings)
       /\ Unresolved(Latest(run')) # {} /\ run'.pending = {}
    \/ /\ run.cands # <<>> /\ missingReviewAxes(Latest(run)) = {}
       /\ \E axes \in SUBSET ReviewAxes : \E findings \in SUBSET axes : SupplyReviews(axes, findings)

\* The review timings stay one-to-one with the review iterations, so that no transition
\* is refused for what earlier ones have recorded.
ReviewsClose == refused # "timing"

\* The independent reviews can be recorded in whichever order they are answered.
AnswersRecorded == refused # "reference"

\* Left alone with reviewers that answer and validators that pass, a candidate becomes
\* ready, or the operator holds the next move: a decision, a repair, the branch, or the
\* way back to a candidate that was left with an open finding.
OperatorsTurn ==
    \/ run.pending # {} \/ ~onBranch \/ ~clean \/ head = Base
    \/ run.cands # <<>> /\ (run.failed \/ Latest(run).accepted # {})
    \/ run.cands # <<>> /\ head # Latest(run).commit /\ Unresolved(Latest(run)) # {}

ReachesReadiness == <>[](run.ready \/ OperatorsTurn)

Diligence ==
    /\ WF_vars(NewCandidate("focused")) /\ WF_vars(Escalate)
    /\ WF_vars(\E findings \in SUBSET ReviewAxes : ExecuteReviews(missingReviewAxes(Reobserved), findings))
    /\ WF_vars(\E findings \in SUBSET Boundaries :
                  ExecuteSpecialists(missingSpecialistBoundaries(Reobserved), findings))
    /\ WF_vars(RequestRepair) /\ WF_vars(ProveBoundaries(TRUE)) /\ WF_vars(Conclude(TRUE, TRUE))

FairSpec == Spec /\ Diligence
===============================================================================
