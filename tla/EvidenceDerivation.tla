-------------------------- MODULE EvidenceDerivation --------------------------
(***************************************************************************)
(* What a repaired candidate may keep of its parent's evidence             *)
(* (internal/deliveryevidence/evidence_derivation.go): the decision an     *)
(* impact assessment leads to, the admission of its confirmation, and the  *)
(* compatibility of a validation session of the parent with an obligation  *)
(* of the derived candidate.                                               *)
(*                                                                         *)
(* Every identity digest covers the canonical content of what it           *)
(* identifies, so a reference to an assessment is the assessment itself.   *)
(* A candidate ID is derived from the commit.  A candidate without both    *)
(* review axes is refused, so the required axes are constant.              *)
(***************************************************************************)
EXTENDS Naturals, FiniteSets

CONSTANTS
    Commits, Trees, Profiles, Boundaries,
    Authorities,      \* Delivery Authority digests
    Criteria,         \* acceptance obligations: criterion, kind and phase
    Environments,     \* validator, command, sandbox roots, instrumentation
    Collaborators,    \* logins with push permission on GitHub
    PolicyAuthors,    \* impact policies at trusted origin/main, with their digests
    Authenticated     \* the login of the operator's session

ReviewAxes == {"standards", "spec"}

\* An author claims a kind, an identity (a login, or the path of a policy) and, a
\* policy, the digest of its registration.
ImpactAuthor(identities, registrations) ==
    [kind: {"authorized-human"}, identity: identities, registration: {"none"}]
        \cup [kind: {"registered-policy"}, identity: identities, registration: registrations]

ProtectedClasses ==
    {"authority", "behavior", "contract", "scope", "architecture", "security",
     "risk-profile", "migration", "ambiguous"}
EnvironmentClasses ==
    {"validator", "required-command", "sandbox", "instrumentation", "expiry", "workspace-state"}
ChangeClasses ==
    ProtectedClasses \cup EnvironmentClasses
        \cup {"non-behavioral", "tree", "acceptance-meaning", "sensitive-boundary"}
Dispositions == {"unaffected", "changed", "ambiguous"}

Candidate == [commit: Commits, tree: Trees, profile: Profiles, boundaries: SUBSET Boundaries]
Obligation == [parent: Criteria, derived: Criteria, disposition: Dispositions]
Change == [class: ChangeClasses, boundaries: SUBSET Boundaries]

\* An assessment a file can hold; the digest of an acceptance set is the set.
Assessment(authors) ==
    [author: authors, complete: BOOLEAN,
     parentAuthority: Authorities, derivedAuthority: Authorities,
     parent: Candidate, derived: Candidate,
     parentAcceptance: SUBSET Criteria, derivedAcceptance: SUBSET Criteria,
     parentCount: Nat, derivedCount: Nat,
     obligations: SUBSET Obligation, changes: SUBSET Change]

\* validateEvidenceImpactAssessmentShape.  Obligations and changes are sets here:
\* a repeated row is a second obligation of one criterion or a second change of
\* one class.
WellShaped(a) ==
    /\ a.parentCount > 0 /\ a.derivedCount > 0
    /\ a.parent.commit # a.derived.commit
    /\ a.obligations # {} /\ a.changes # {}
    /\ \A o, p \in a.obligations : o.parent = p.parent \/ o.derived = p.derived => o = p
    /\ \A c \in a.changes : c.class = "sensitive-boundary" <=> c.boundaries # {}
    /\ \A c, d \in a.changes : c.class = d.class => c = d

changedBoundaries(parent, derived) == (parent \ derived) \cup (derived \ parent)

-----------------------------------------------------------------------------
(* The authority resolver of production. *)

AuthorizedImpactAuthor(p) ==
    IF p.kind = "authorized-human" THEN p.identity \in Collaborators ELSE p \in PolicyAuthors

\* A confirmation is the authenticated operator's own; persistedImpactAuthorAuthority
\* keeps the author that was admitted with the assessment.
IndependentImpactConfirmer(author, confirmer) ==
    /\ AuthorizedImpactAuthor(confirmer)
    /\ confirmer.identity = Authenticated
    /\ author.identity # confirmer.identity \/ author.kind # confirmer.kind

-----------------------------------------------------------------------------
(* The decision.  Each named condition is one reason the code gives. *)

Classes(a) == {c.class : c \in a.changes}

Covered(a) ==
    Cardinality(a.obligations) = a.parentCount /\ Cardinality(a.obligations) = a.derivedCount

\* fullAll: everything the derived profile requires is fresh.
Protected(a) ==
    \/ ~a.complete
    \/ a.parentAuthority # a.derivedAuthority
    \/ a.parent.profile # a.derived.profile
    \/ ~Covered(a)
    \/ Classes(a) \cap ProtectedClasses # {}

\* Variant: only the digest of the acceptance set is compared.
DigestMeaningChanged(a) == a.parentAcceptance # a.derivedAcceptance

\* fullAxis(ReviewSpec, ...)
MeaningChanged(a) ==
    \/ a.parentAcceptance # a.derivedAcceptance
    \/ \E o \in a.obligations : o.parent # o.derived \/ o.disposition # "unaffected"
    \/ "acceptance-meaning" \in Classes(a)

\* Every boundary proof and the exhaustive validation run again.
RunChanged(a) ==
    \/ a.parent.tree # a.derived.tree
    \/ Classes(a) \cap (EnvironmentClasses \cup {"tree"}) # {}

DeclaredBoundaries(a) == UNION {c.boundaries : c \in a.changes}

BoundariesChanged(a) ==
    changedBoundaries(a.parent.boundaries, a.derived.boundaries) \cup DeclaredBoundaries(a)

\* Variant: the reason found last decides.
LastFullAxes(a) ==
    IF MeaningChanged(a) THEN {"spec"} ELSE IF Protected(a) THEN ReviewAxes ELSE {}

FullAxes(a) ==
    IF Protected(a) THEN ReviewAxes ELSE IF MeaningChanged(a) THEN {"spec"} ELSE {}

\* The classes whose case runs before and after that of "sensitive-boundary": the
\* changes of a canonical assessment are sorted by class.
EarlierEnvironment == {"expiry", "instrumentation", "required-command", "sandbox"}
LaterEnvironment == {"tree", "validator", "workspace-state"}

\* A reason that asks for every boundary puts the derived ones in the place of what
\* was listed so far.  The profiles' own difference is listed after the reasons of the
\* assessment as a whole and before those of its changes.
FullSpecialists(a) ==
    LET difference == changedBoundaries(a.parent.boundaries, a.derived.boundaries)
        whole == IF Protected(a) THEN a.derived.boundaries ELSE {}
    IN  DeclaredBoundaries(a)
            \cup IF Classes(a) \cap ProtectedClasses # {} THEN a.derived.boundaries
                 ELSE whole \cup difference

FullBoundaryValidations(a) ==
    LET difference == changedBoundaries(a.parent.boundaries, a.derived.boundaries)
        whole == IF Protected(a) \/ a.parent.tree # a.derived.tree THEN a.derived.boundaries
                 ELSE {}
        earlier == IF Classes(a) \cap (ProtectedClasses \cup EarlierEnvironment) # {}
                   THEN a.derived.boundaries ELSE whole \cup difference
    IN  IF Classes(a) \cap LaterEnvironment # {} THEN a.derived.boundaries
        ELSE DeclaredBoundaries(a) \cup earlier

ExhaustiveRequired(a) ==
    Protected(a) \/ MeaningChanged(a) \/ RunChanged(a) \/ BoundariesChanged(a) # {}

RetainableAxes(a) == ReviewAxes \ FullAxes(a)
RetainableSpecialists(a) == a.derived.boundaries \ FullSpecialists(a)
RetainableBoundaryValidations(a) == a.derived.boundaries \ FullBoundaryValidations(a)

DeltaAxes(a) == {"standards"} \ FullAxes(a)

ConfirmationRequired(a) ==
    \/ RetainableAxes(a) # {}
    \/ RetainableSpecialists(a) # {}
    \/ RetainableBoundaryValidations(a) # {}
    \/ ~ExhaustiveRequired(a)

EvaluateEvidenceImpactAssessment(a) ==
    [retainableAxes |-> RetainableAxes(a), deltaAxes |-> DeltaAxes(a), fullAxes |-> FullAxes(a),
     retainableSpecialists |-> RetainableSpecialists(a),
     fullSpecialists |-> FullSpecialists(a),
     retainableValidations |-> RetainableBoundaryValidations(a),
     fullValidations |-> FullBoundaryValidations(a),
     exhaustive |-> ExhaustiveRequired(a), confirmation |-> ConfirmationRequired(a)]

-----------------------------------------------------------------------------
(* The independent confirmation. *)

Confirmation(authors, assessments) ==
    [assessment: assessments, parent: Commits, derived: Commits, confirmer: authors,
     decision: {"accepted", "rejected"}, completed: BOOLEAN]

\* The submitted confirmations are a sequence: a second one refuses both.
AdmitImpactConfirmation(a, confirmations) ==
    /\ WellShaped(a)
    /\ DOMAIN confirmations = {1}
    /\ LET c == confirmations[1] IN
       /\ AuthorizedImpactAuthor(a.author) /\ AuthorizedImpactAuthor(c.confirmer)
       /\ c.assessment = a /\ c.parent = a.parent.commit /\ c.derived = a.derived.commit
       /\ c.confirmer.identity # a.author.identity
       /\ ~ /\ c.confirmer.kind = "registered-policy" /\ a.author.kind = "registered-policy"
            /\ c.confirmer.registration = a.author.registration
       /\ IndependentImpactConfirmer(a.author, c.confirmer)
       /\ c.completed /\ c.decision = "accepted"

-----------------------------------------------------------------------------
(* Reuse of a validation session. *)

ValidationObligation ==
    [kind: {"exhaustive"}, boundary: {"none"}] \cup [kind: {"boundary"}, boundary: Boundaries]

\* An environment digest stands for validator, command, sandbox roots and
\* instrumentation; each of them is compared.
Artifact ==
    [kind: {"registered-validation-session", "manual-execution", "arbitrary-log"},
     candidate: Candidate, checkout: {"here", "elsewhere"}, environment: Environments,
     covered: SUBSET Boundaries, obligation: ValidationObligation,
     expires: Nat, completedAt: Nat, clean: BOOLEAN, succeeded: BOOLEAN, completions: Nat]

Requirement ==
    [candidate: Candidate, checkout: {"here", "elsewhere"}, environment: Environments,
     covered: SUBSET Boundaries, obligation: ValidationObligation, expires: Nat, clean: BOOLEAN]

\* Variant: the decision of the assessment is not asked whether to run again.
UnaskedEligible(registry, a, confirmations, reuse, now) ==
    LET s == reuse.source  q == reuse.required IN
    /\ AdmitImpactConfirmation(a, confirmations)
    /\ s.kind = "registered-validation-session" /\ s \in registry
    /\ s.candidate = a.parent /\ q.candidate = a.derived /\ s.candidate.tree = q.candidate.tree
    /\ s.checkout = q.checkout /\ s.environment = q.environment /\ s.covered = q.covered
    /\ s.expires > now /\ s.completedAt <= now
    /\ s.clean /\ q.clean /\ s.succeeded /\ s.completions = 1 /\ s.obligation = q.obligation

\* EvaluateValidationCompatibility, eligible.  `reuse` names the assessment and the
\* confirmation it relies on, the session it would adopt and what is required.
Eligible(registry, a, confirmations, reuse, now) ==
    LET s == reuse.source  q == reuse.required IN
    /\ reuse.assessment = a
    /\ AdmitImpactConfirmation(a, confirmations)
    /\ reuse.confirmation = confirmations[1]
    /\ ~ExhaustiveRequired(a)
    /\ s.kind = "registered-validation-session" /\ s \in registry
    /\ s.candidate = a.parent /\ q.candidate = a.derived /\ s.candidate.tree = q.candidate.tree
    /\ s.checkout = q.checkout /\ s.environment = q.environment /\ s.covered = q.covered
    /\ s.expires = q.expires /\ s.expires > now
    /\ s.completedAt <= now /\ s.completedAt <= s.expires
    /\ s.clean /\ q.clean /\ s.succeeded /\ s.completions = 1
    /\ s.obligation = q.obligation
    /\ q.obligation.kind = "boundary" => q.obligation.boundary \in q.covered
===============================================================================
