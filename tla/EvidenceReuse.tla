---------------------------- MODULE EvidenceReuse ----------------------------
(***************************************************************************)
(* The life of one impact assessment: an author writes it and may revise   *)
(* it, principals confirm or refuse what they read, the parent's           *)
(* validation session and the workspace it would be reused in differ in    *)
(* some respect, and time passes.  Every difference from the ordinary case *)
(* is one step, so the rules are asked about every combination of at most  *)
(* MaxDifferences of them.                                                 *)
(***************************************************************************)
EXTENDS EvidenceDerivation, Sequences

CONSTANTS
    Ordinary,         \* a complete assessment of a non-behavioural delta
    Authors,          \* principals that author or confirm
    Changes,          \* the changes an author can name
    Parents, Deriveds,\* the candidates that an assessment can bind
    Impacts,          \* the obligation rows that an author can write
    Session, Required,\* the parent's session and what the derived candidate requires
    OtherSessions, OtherRequirements,  \* the same with one respect changed
    MaxDifferences

VARIABLES
    impact,           \* the assessment as its author has written it so far
    confirmations,    \* responses of principals, each to the assessment it read
    session,          \* the parent's registered validation session
    required,         \* what the derived candidate requires now
    now,
    differences       \* how many respects differ from the ordinary case

vars == <<impact, confirmations, session, required, now, differences>>

Init ==
    /\ impact = Ordinary
    /\ confirmations = <<>>
    /\ session = Session /\ required = Required
    /\ now = Session.completedAt
    /\ differences = 0

\* One more respect differs.
Differ ==
    /\ differences < MaxDifferences
    /\ differences' = differences + 1

\* The author names one more change, or changes how one is described.
NameChange(c) ==
    /\ impact' = [impact EXCEPT !.changes = {d \in @ : d.class # c.class} \cup {c}]
    /\ UNCHANGED <<confirmations, session, required, now>>

\* One row of the obligation matrix is judged differently, added or left out.
JudgeObligation(o) ==
    /\ \/ impact' = [impact EXCEPT !.obligations = {p \in @ : p.parent # o.parent} \cup {o}]
       \/ o \in impact.obligations /\ impact' = [impact EXCEPT !.obligations = @ \ {o}]
    /\ UNCHANGED <<confirmations, session, required, now>>

\* What the assessment binds is revised.
Rebind ==
    /\ \/ \E b \in BOOLEAN : impact' = [impact EXCEPT !.complete = b]
       \/ \E x \in Authorities : impact' = [impact EXCEPT !.derivedAuthority = x]
       \/ \E p \in Parents : impact' = [impact EXCEPT !.parent = p]
       \/ \E d \in Deriveds : impact' = [impact EXCEPT !.derived = d]
       \/ \E s \in SUBSET Criteria : impact' = [impact EXCEPT !.derivedAcceptance = s]
       \/ \E p \in Authors : impact' = [impact EXCEPT !.author = p]
    /\ impact' # impact
    /\ UNCHANGED <<confirmations, session, required, now>>

\* A principal answers the assessment as it stands.
Confirm(p, decision, completed) ==
    /\ confirmations' = Append(confirmations,
          [assessment |-> impact, parent |-> impact.parent.commit, derived |-> impact.derived.commit,
           confirmer |-> p, decision |-> decision, completed |-> completed])
    /\ UNCHANGED <<impact, session, required, now>>

Observe ==
    /\ \/ session = Session /\ session' \in OtherSessions /\ UNCHANGED <<required, now>>
       \/ required = Required /\ required' \in OtherRequirements /\ UNCHANGED <<session, now>>
       \/ now' = now + 1 /\ UNCHANGED <<session, required>>
    /\ UNCHANGED <<impact, confirmations>>

Next ==
    /\ Differ
    /\ \/ \E c \in Changes : NameChange(c)
       \/ \E o \in Impacts : JudgeObligation(o)
       \/ Rebind
       \/ \E p \in Authors, d \in {"accepted", "rejected"}, b \in BOOLEAN : Confirm(p, d, b)
       \/ Observe

Spec == Init /\ [][Next]_vars

Decision == EvaluateEvidenceImpactAssessment(impact)

Reuse ==
    [assessment |-> impact,
     confirmation |-> IF confirmations = <<>> THEN "none" ELSE confirmations[1],
     source |-> session, required |-> required]

Reused == Eligible({session}, impact, confirmations, Reuse, now)

-----------------------------------------------------------------------------
(* Properties *)

\* The facts that differ between the two candidates, or that nobody has vouched for,
\* beside the boundaries.
Moved(a) ==
    LET judgement == \/ ~a.complete \/ "ambiguous" \in Classes(a)
                     \/ Cardinality(a.obligations) # a.parentCount
        authority == a.parentAuthority # a.derivedAuthority \/ "authority" \in Classes(a)
        profile == a.parent.profile # a.derived.profile \/ "risk-profile" \in Classes(a)
        behavior == Classes(a) \cap {"behavior", "contract", "scope", "architecture",
                                     "security", "migration"} # {}
        matrix == \/ a.parentAcceptance # a.derivedAcceptance \/ "acceptance-meaning" \in Classes(a)
                  \/ \E o \in a.obligations : o.parent # o.derived \/ o.disposition # "unaffected"
        tree == a.parent.tree # a.derived.tree \/ "tree" \in Classes(a)
        environment == Classes(a) \cap EnvironmentClasses # {}
    IN  {f \in {"change", "matrix", "run"} :
            \/ f = "change" /\ (judgement \/ authority \/ profile \/ behavior)
            \/ f = "matrix" /\ matrix
            \/ f = "run" /\ (tree \/ environment)}

MovedBoundaries(a) ==
    {b \in Boundaries : \/ (b \in a.parent.boundaries) # (b \in a.derived.boundaries)
                        \/ \E c \in a.changes : b \in c.boundaries}

\* Evidence of the parent is retainable only when no fact it speaks about has moved.
\* A review read the change itself, under one authority and profile; a Spec review
\* read the acceptance matrix too; a specialist and a proof speak about one boundary;
\* a proof ran one tree in one environment.  The table of mandatory fresh evidence,
\* read from the side of the evidence.
RetainedSpeaksTrue ==
    WellShaped(impact) =>
        /\ Moved(impact) \cup MovedBoundaries(impact) # {} => Decision.exhaustive
        /\ "change" \in Moved(impact) =>
              Decision.retainableAxes \cup Decision.retainableSpecialists
                  \cup Decision.retainableValidations = {}
        /\ "matrix" \in Moved(impact) => "spec" \notin Decision.retainableAxes
        /\ "run" \in Moved(impact) => Decision.retainableValidations = {}
        /\ MovedBoundaries(impact)
              \cap (Decision.retainableSpecialists \cup Decision.retainableValidations) = {}

\* A validation session is adopted only if running it again could not have said
\* anything else: it passed on the tree and in the environment required now and has
\* not expired; and one principal other than the author, and nobody else, has
\* answered, accepting this very assessment, which found nothing moved.
ReuseIsRerun ==
    Reused =>
        /\ Moved(impact) = {} /\ MovedBoundaries(impact) = {}
        /\ session.candidate.tree = required.candidate.tree
        /\ session.environment = required.environment /\ session.checkout = required.checkout
        /\ session.succeeded /\ session.clean /\ required.clean
        /\ session.completedAt <= now /\ now < session.expires
        /\ session.obligation = required.obligation
        /\ DOMAIN confirmations = {1}
        /\ confirmations[1].assessment = impact /\ confirmations[1].decision = "accepted"
        /\ confirmations[1].confirmer.identity = Authenticated
        /\ confirmations[1].confirmer.identity # impact.author.identity

\* The second assessment says what the first one says, and names further changes.
FurtherNews(a, b) ==
    /\ a.complete = b.complete
    /\ a.parentAuthority = b.parentAuthority /\ a.derivedAuthority = b.derivedAuthority
    /\ a.parent = b.parent /\ a.derived = b.derived
    /\ a.parentAcceptance = b.parentAcceptance /\ a.derivedAcceptance = b.derivedAcceptance
    /\ a.parentCount = b.parentCount /\ a.derivedCount = b.derivedCount
    /\ a.obligations = b.obligations
    /\ a.changes \subseteq b.changes

\* Admitting more bad news never retains more: an author who names a further change
\* cannot thereby free an axis, a boundary or the exhaustive validation from being
\* done again.
NewsNeverRestores ==
    [][ FurtherNews(impact, impact')
        => /\ RetainableAxes(impact') \subseteq RetainableAxes(impact)
           /\ RetainableSpecialists(impact') \subseteq RetainableSpecialists(impact)
           /\ RetainableBoundaryValidations(impact') \subseteq RetainableBoundaryValidations(impact)
           /\ ExhaustiveRequired(impact) => ExhaustiveRequired(impact') ]_impact

\* packy-issue-delivery.md: "Incomplete or ambiguous impact forces the complete
\* evidence set for the resulting profile."
AmbiguityIsFresh ==
    WellShaped(impact) /\ (\E o \in impact.obligations : o.disposition = "ambiguous") =>
        Decision.fullAxes = ReviewAxes
===============================================================================
