------------------------- MODULE EvidenceReuseProofs -------------------------
(***************************************************************************)
(* The decisions about retained evidence, for every assessment that can be *)
(* written and any sets of boundaries, criteria, principals and sessions.  *)
(***************************************************************************)
EXTENDS EvidenceReuse, TLAPS

\* A change of the judgement, the authority, the profile or the behaviour is protected.
LEMMA ChangeIsProtected ==
    ASSUME NEW a, "change" \in Moved(a)
    PROVE  Protected(a)
  BY DEF Moved, Protected, Covered, ProtectedClasses

LEMMA MatrixIsMeaning ==
    ASSUME NEW a, "matrix" \in Moved(a)
    PROVE  MeaningChanged(a)
  BY DEF Moved, MeaningChanged

LEMMA RunIsRun ==
    ASSUME NEW a, "run" \in Moved(a)
    PROVE  RunChanged(a)
  BY DEF Moved, RunChanged, EnvironmentClasses

LEMMA MovedBoundariesChanged ==
    ASSUME NEW a
    PROVE  MovedBoundaries(a) \subseteq BoundariesChanged(a)
  BY DEF MovedBoundaries, BoundariesChanged, changedBoundaries, DeclaredBoundaries

\* A list that is replaced by the derived boundaries loses none that could be retained:
\* a boundary that moved and is required is on both lists.
LEMMA ChangedBoundariesFull ==
    ASSUME NEW a
    PROVE  /\ BoundariesChanged(a) \cap a.derived.boundaries \subseteq FullSpecialists(a)
           /\ BoundariesChanged(a) \cap a.derived.boundaries \subseteq FullBoundaryValidations(a)
  BY DEF BoundariesChanged, FullSpecialists, FullBoundaryValidations

LEMMA ProtectedBoundariesFull ==
    ASSUME NEW a, Protected(a)
    PROVE  /\ a.derived.boundaries \subseteq FullSpecialists(a)
           /\ a.derived.boundaries \subseteq FullBoundaryValidations(a)
  BY DEF FullSpecialists, FullBoundaryValidations

LEMMA RunBoundariesFull ==
    ASSUME NEW a, RunChanged(a)
    PROVE  a.derived.boundaries \subseteq FullBoundaryValidations(a)
  BY DEF RunChanged, EnvironmentClasses, EarlierEnvironment, LaterEnvironment,
         FullBoundaryValidations

\* A boundary that is required and on a list is there for one of these reasons.
LEMMA FullBoundariesReason ==
    ASSUME NEW a
    PROVE  /\ ~Protected(a) => FullSpecialists(a) \subseteq BoundariesChanged(a)
           /\ ~Protected(a) /\ ~RunChanged(a) =>
                 FullBoundaryValidations(a) \subseteq BoundariesChanged(a)
  BY DEF Protected, RunChanged, EnvironmentClasses, EarlierEnvironment, LaterEnvironment,
         BoundariesChanged, FullSpecialists, FullBoundaryValidations

\* What moved has to be done again, whatever else the assessment says.
THEOREM RetentionSound ==
    ASSUME NEW a, WellShaped(a)
    PROVE  LET d == EvaluateEvidenceImpactAssessment(a) IN
           /\ Moved(a) \cup MovedBoundaries(a) # {} => d.exhaustive
           /\ "change" \in Moved(a) =>
                 d.retainableAxes \cup d.retainableSpecialists \cup d.retainableValidations = {}
           /\ "matrix" \in Moved(a) => "spec" \notin d.retainableAxes
           /\ "run" \in Moved(a) => d.retainableValidations = {}
           /\ MovedBoundaries(a) \cap (d.retainableSpecialists \cup d.retainableValidations) = {}
<1> DEFINE d == EvaluateEvidenceImpactAssessment(a)
<1>1. Moved(a) \cup MovedBoundaries(a) # {} => ExhaustiveRequired(a)
  <2>1. Moved(a) \subseteq {"change", "matrix", "run"}
    BY DEF Moved
  <2> QED
    BY <2>1, ChangeIsProtected, MatrixIsMeaning, RunIsRun, MovedBoundariesChanged
       DEF ExhaustiveRequired
<1>2. "change" \in Moved(a) =>
         /\ RetainableAxes(a) = {} /\ RetainableSpecialists(a) = {}
         /\ RetainableBoundaryValidations(a) = {}
  BY ChangeIsProtected, ProtectedBoundariesFull
     DEF RetainableAxes, FullAxes, RetainableSpecialists, RetainableBoundaryValidations
<1>3. "matrix" \in Moved(a) => "spec" \notin RetainableAxes(a)
  BY MatrixIsMeaning DEF RetainableAxes, FullAxes, ReviewAxes
<1>4. "run" \in Moved(a) => RetainableBoundaryValidations(a) = {}
  BY RunIsRun, RunBoundariesFull DEF RetainableBoundaryValidations
<1>5. MovedBoundaries(a) \cap (RetainableSpecialists(a) \cup RetainableBoundaryValidations(a)) = {}
  BY MovedBoundariesChanged, ChangedBoundariesFull
     DEF RetainableSpecialists, RetainableBoundaryValidations
<1> QED
  BY <1>1, <1>2, <1>3, <1>4, <1>5 DEF EvaluateEvidenceImpactAssessment

\* In every state of the life of an assessment, what the program would retain speaks
\* about nothing that moved.
THEOREM RetainedAlwaysSpeaksTrue == Spec => []RetainedSpeaksTrue
<1>1. RetainedSpeaksTrue
  BY RetentionSound DEF RetainedSpeaksTrue, Decision
<1> QED
  BY <1>1, PTL

\* When the exhaustive validation need not run again, nothing moved at all.
LEMMA NotExhaustiveIsStill ==
    ASSUME NEW a, ~ExhaustiveRequired(a)
    PROVE  Moved(a) = {} /\ MovedBoundaries(a) = {}
<1>1. Moved(a) \subseteq {"change", "matrix", "run"}
  BY DEF Moved
<1> QED
  BY <1>1, ChangeIsProtected, MatrixIsMeaning, RunIsRun, MovedBoundariesChanged
     DEF ExhaustiveRequired

\* In every state an adopted session could not have ended differently, and exactly one
\* other principal has accepted the assessment that says so.
THEOREM ReuseAlwaysRerun == Spec => []ReuseIsRerun
<1>1. ReuseIsRerun
  <2> SUFFICES ASSUME Reused PROVE ReuseIsRerun
    BY DEF ReuseIsRerun
  <2>1. ~ExhaustiveRequired(impact) /\ AdmitImpactConfirmation(impact, confirmations)
    BY DEF Reused, Eligible
  <2>2. /\ session.candidate.tree = required.candidate.tree
        /\ session.environment = required.environment /\ session.checkout = required.checkout
        /\ session.succeeded /\ session.clean /\ required.clean
        /\ session.completedAt <= now /\ session.expires > now
        /\ session.obligation = required.obligation
    BY DEF Reused, Eligible, Reuse
  <2>3. now < session.expires
    BY <2>2
  <2>4. /\ DOMAIN confirmations = {1}
        /\ confirmations[1].assessment = impact /\ confirmations[1].decision = "accepted"
        /\ confirmations[1].confirmer.identity = Authenticated
        /\ confirmations[1].confirmer.identity # impact.author.identity
    BY <2>1 DEF AdmitImpactConfirmation, IndependentImpactConfirmer
  <2> QED
    BY <2>1, <2>2, <2>3, <2>4, NotExhaustiveIsStill DEF ReuseIsRerun
<1> QED
  BY <1>1, PTL

\* A further change, or several, can only move the decision towards fresh evidence.
THEOREM NewsMonotone ==
    ASSUME NEW a, NEW b, FurtherNews(a, b)
    PROVE  /\ RetainableAxes(b) \subseteq RetainableAxes(a)
           /\ RetainableSpecialists(b) \subseteq RetainableSpecialists(a)
           /\ RetainableBoundaryValidations(b) \subseteq RetainableBoundaryValidations(a)
           /\ ExhaustiveRequired(a) => ExhaustiveRequired(b)
<1>1. Classes(a) \subseteq Classes(b)
  BY DEF FurtherNews, Classes
<1>2. Protected(a) => Protected(b)
  BY <1>1 DEF FurtherNews, Protected, Covered
<1>3. MeaningChanged(a) => MeaningChanged(b)
  BY <1>1 DEF FurtherNews, MeaningChanged
<1>4. RunChanged(a) => RunChanged(b)
  BY <1>1 DEF FurtherNews, RunChanged
<1>5. BoundariesChanged(a) \subseteq BoundariesChanged(b)
  BY DEF FurtherNews, BoundariesChanged, DeclaredBoundaries
<1>6. a.derived = b.derived
  BY DEF FurtherNews
<1>7. FullAxes(a) \subseteq FullAxes(b)
  BY <1>2, <1>3 DEF FullAxes, ReviewAxes
<1>8. /\ RetainableSpecialists(b) \subseteq RetainableSpecialists(a)
      /\ RetainableBoundaryValidations(b) \subseteq RetainableBoundaryValidations(a)
  <2>1. CASE Protected(b)
    BY <2>1, ProtectedBoundariesFull
       DEF RetainableSpecialists, RetainableBoundaryValidations
  <2>2. CASE ~Protected(b)
    <3>1. FullSpecialists(a) \cap b.derived.boundaries \subseteq FullSpecialists(b)
      BY <1>2, <1>5, <2>2, FullBoundariesReason, ChangedBoundariesFull
    <3>2. FullBoundaryValidations(a) \cap b.derived.boundaries \subseteq FullBoundaryValidations(b)
      BY <1>2, <1>4, <1>5, <2>2, FullBoundariesReason, ChangedBoundariesFull, RunBoundariesFull
    <3> QED
      BY <1>6, <3>1, <3>2 DEF RetainableSpecialists, RetainableBoundaryValidations
  <2> QED
    BY <2>1, <2>2
<1>9. ExhaustiveRequired(a) => ExhaustiveRequired(b)
  BY <1>2, <1>3, <1>4, <1>5 DEF ExhaustiveRequired
<1> QED
  BY <1>6, <1>7, <1>8, <1>9
     DEF RetainableAxes

\* No step of the life of an assessment that only adds news retains more.
THEOREM NewsNeverRestored == Spec => NewsNeverRestores
<1>1. FurtherNews(impact, impact') =>
         /\ RetainableAxes(impact') \subseteq RetainableAxes(impact)
         /\ RetainableSpecialists(impact') \subseteq RetainableSpecialists(impact)
         /\ RetainableBoundaryValidations(impact') \subseteq RetainableBoundaryValidations(impact)
         /\ ExhaustiveRequired(impact) => ExhaustiveRequired(impact')
  BY NewsMonotone
<1> QED
  BY <1>1, PTL DEF NewsNeverRestores
===============================================================================
